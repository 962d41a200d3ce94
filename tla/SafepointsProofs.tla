-------------------------- MODULE SafepointsProofs --------------------------
(* Proofs about the analysis of live pointers and about safepoints, for all  *)
(* functions, modules, objects and bounds.  Of GCLiveness: the invariant     *)
(* that makes a block's data agree with its own instructions at any time and *)
(* with its successors once the worklist is empty, and that what it finds    *)
(* live is below every solution.  Of Safepoints: the tables of the           *)
(* safepoints, and that no activation uses an object that a collection has   *)
(* freed.                                                                    *)
EXTENDS Safepoints, FiniteSetTheorems, SequenceTheorems, TLAPS

-----------------------------------------------------------------------------
(* The analysis of live pointers: its operators *)

\* What is live at an instruction grows with what is live out of the block.
LEMMA LiveAtMonotone ==
    ASSUME NEW f, NEW b, NEW i, NEW small, NEW large, small \subseteq large
    PROVE  LiveAt(f, b, i, small) \subseteq LiveAt(f, b, i, large)
BY DEF LiveAt

\* So does what is live into a block.
LEMMA LiveInMonotone ==
    ASSUME NEW f, NEW b, NEW small, NEW large, small \subseteq large
    PROVE  LiveInOf(f, b, small) \subseteq LiveInOf(f, b, large)
BY DEF LiveInOf

\* Registers are live, nothing else.
LEMMA LiveAtType ==
    ASSUME NEW f, NEW b, NEW i, NEW out, out \subseteq Reg
    PROVE  LiveAt(f, b, i, out) \subseteq Reg
BY DEF LiveAt, Managed

LEMMA SeedType ==
    ASSUME NEW f, NEW b
    PROVE  Seed(f, b) \subseteq Reg
BY DEF Seed, Managed

LEMMA LiveInType ==
    ASSUME NEW f, NEW b, NEW out, out \subseteq Reg
    PROVE  LiveInOf(f, b, out) \subseteq Reg
<1>1. LiveAt(f, b, 1, {}) \subseteq Reg
  BY LiveAtType
<1> QED BY <1>1 DEF LiveInOf, LiveSet

-----------------------------------------------------------------------------
(* The invariant *)

\* The parts of Settled and Least that the steps need, and the types.
LivenessInv ==
    /\ fn = None => worklist = {}
    /\ fn # None =>
        /\ fn.succ \in [fn.blocks -> SUBSET fn.blocks]
        /\ liveIn \in [fn.blocks -> SUBSET Reg]
        /\ liveOut \in [fn.blocks -> SUBSET Reg]
        /\ worklist \subseteq fn.blocks
        /\ \A b \in fn.blocks : liveIn[b] = LiveInOf(fn, b, liveOut[b])
        /\ \A b \in fn.blocks : Seed(fn, b) \subseteq liveOut[b]
        /\ \A b \in fn.blocks \ worklist : \A s \in fn.succ[b] : liveIn[s] \subseteq liveOut[b]
        /\ Least

\* The invariant gives Settled: an empty worklist leaves no block that does not
\* know of its successors.
LEMMA LivenessInvSettled == LivenessInv => Settled
<1> SUFFICES ASSUME LivenessInv, fn # None
             PROVE  Settled
  BY DEF Settled
<1>1. worklist = {} => Solves(fn, liveOut)
  BY DEF LivenessInv, Solves
<1> QED BY <1>1 DEF LivenessInv, Settled

\* What an analysis ends with is a solution.
LEMMA LivenessInvSolves ==
    ASSUME LivenessInv, fn # None, worklist = {}
    PROVE  Solves(fn, liveOut) /\ liveOut \in [fn.blocks -> SUBSET Reg]
BY DEF LivenessInv, Solves

LEMMA StartInv ==
    ASSUME NEW f, WellFormed(f), Start(f)
    PROVE  LivenessInv'
<1> DEFINE in == [b \in f.blocks |-> LiveInOf(f, b, Seed(f, b))]
<1>1. /\ fn' = f
      /\ liveOut' = [b \in f.blocks |-> Seed(f, b)]
      /\ liveIn' = in
      /\ worklist' = UNION {Preds(f, b) : b \in {c \in f.blocks : in[c] # {}}}
  BY DEF Start
<1>2. f # None /\ f.succ \in [f.blocks -> SUBSET f.blocks]
  BY DEF WellFormed
<1>3. liveOut' \in [f.blocks -> SUBSET Reg]
  BY <1>1, SeedType
<1>4. liveIn' \in [f.blocks -> SUBSET Reg]
  <2>1. \A b \in f.blocks : LiveInOf(f, b, Seed(f, b)) \subseteq Reg
    BY SeedType, LiveInType
  <2> QED BY <1>1, <2>1
<1>5. worklist' \subseteq f.blocks
  BY <1>1 DEF Preds
<1>6. \A b \in f.blocks \ worklist' : \A s \in f.succ[b] : liveIn'[s] \subseteq liveOut'[b]
  <2> SUFFICES ASSUME NEW b \in f.blocks \ worklist', NEW s \in f.succ[b]
               PROVE  liveIn'[s] = {}
    OBVIOUS
  <2>1. s \in f.blocks /\ b \in Preds(f, s)
    BY <1>2 DEF Preds
  <2>2. in[s] = {}
    BY <1>1, <2>1
  <2> QED BY <1>1, <2>2
<1>7. Least'
  <2> SUFFICES ASSUME NEW out \in [f.blocks -> SUBSET Reg], Solves(f, out), NEW b \in f.blocks
               PROVE  liveOut'[b] \subseteq out[b]
    BY <1>1 DEF Least
  <2> QED BY <1>1 DEF Solves
<1> QED BY <1>1, <1>2, <1>3, <1>4, <1>5, <1>6, <1>7 DEF LivenessInv

LEMMA VisitInv ==
    ASSUME LivenessInv, NEW b \in worklist, Visit(b)
    PROVE  LivenessInv'
<1> DEFINE out == liveOut[b] \cup UNION {liveIn[s] : s \in fn.succ[b]}
           in == LiveInOf(fn, b, out)
<1>1. /\ fn # None /\ b \in fn.blocks /\ fn' = fn
      /\ liveOut' = [liveOut EXCEPT ![b] = out]
      /\ liveIn' = [liveIn EXCEPT ![b] = in]
      /\ worklist' = (worklist \ {b}) \cup Revisit(fn, b, in)
  BY DEF Visit, LivenessInv
<1>2. /\ fn.succ \in [fn.blocks -> SUBSET fn.blocks]
      /\ liveIn \in [fn.blocks -> SUBSET Reg]
      /\ liveOut \in [fn.blocks -> SUBSET Reg]
      /\ worklist \subseteq fn.blocks
      /\ \A c \in fn.blocks : liveIn[c] = LiveInOf(fn, c, liveOut[c])
      /\ \A c \in fn.blocks : Seed(fn, c) \subseteq liveOut[c]
      /\ \A c \in fn.blocks \ worklist : \A s \in fn.succ[c] : liveIn[s] \subseteq liveOut[c]
      /\ Least
  BY <1>1 DEF LivenessInv
<1>3. out \subseteq Reg
  BY <1>1, <1>2
<1>4. in \subseteq Reg
  BY <1>3, LiveInType
<1>5. liveOut' \in [fn.blocks -> SUBSET Reg] /\ liveIn' \in [fn.blocks -> SUBSET Reg]
  BY <1>1, <1>2, <1>3, <1>4
<1>6. worklist' \subseteq fn.blocks
  BY <1>1, <1>2 DEF Revisit, Preds
<1>7. \A c \in fn.blocks : liveIn'[c] = LiveInOf(fn, c, liveOut'[c])
  BY <1>1, <1>2
<1>8. \A c \in fn.blocks : liveOut[c] \subseteq liveOut'[c]
  BY <1>1, <1>2
<1>9. \A c \in fn.blocks : Seed(fn, c) \subseteq liveOut'[c]
  BY <1>2, <1>8
<1>10. \A c \in fn.blocks \ worklist' : \A s \in fn.succ[c] : liveIn'[s] \subseteq liveOut'[c]
  <2> SUFFICES ASSUME NEW c \in fn.blocks \ worklist', NEW s \in fn.succ[c]
               PROVE  liveIn'[s] \subseteq liveOut'[c]
    OBVIOUS
  <2>1. s \in fn.blocks /\ c \in Preds(fn, s)
    BY <1>2 DEF Preds
  <2>2. s = b => in = liveIn[b]
    BY <1>1, <2>1 DEF Revisit
  <2>3. liveIn'[s] = liveIn[s]
    BY <1>1, <1>2, <2>1, <2>2
  <2>4. CASE c = b
    BY <1>1, <1>2, <2>3, <2>4
  <2>5. CASE c # b
    <3>1. c \notin worklist
      BY <1>1, <2>5
    <3> QED BY <1>2, <1>8, <2>3, <3>1
  <2> QED BY <2>4, <2>5
<1>11. Least'
  <2> SUFFICES ASSUME NEW all \in [fn.blocks -> SUBSET Reg], Solves(fn, all), NEW c \in fn.blocks
               PROVE  liveOut'[c] \subseteq all[c]
    BY <1>1 DEF Least
  <2>1. \A d \in fn.blocks : liveOut[d] \subseteq all[d]
    BY <1>1, <1>2 DEF Least
  <2>2. \A s \in fn.succ[b] : liveIn[s] \subseteq all[b]
    <3> SUFFICES ASSUME NEW s \in fn.succ[b]
                 PROVE  liveIn[s] \subseteq all[b]
      OBVIOUS
    <3>1. s \in fn.blocks
      BY <1>1, <1>2
    <3>2. liveIn[s] \subseteq LiveInOf(fn, s, all[s])
      BY <1>2, <2>1, <3>1, LiveInMonotone
    <3> QED BY <1>1, <3>2 DEF Solves
  <2> QED BY <1>1, <1>2, <2>1, <2>2
<1> QED BY <1>1, <1>2, <1>5, <1>6, <1>7, <1>9, <1>10, <1>11 DEF LivenessInv

LEMMA DropInv == Drop => LivenessInv'
BY DEF Drop, LivenessInv

LEMMA LivenessStutter == LivenessInv /\ UNCHANGED livenessVars => LivenessInv'
BY DEF LivenessInv, livenessVars, Least

LEMMA LivenessInvHolds == LivenessSpec => []LivenessInv
<1>1. LivenessInit => LivenessInv
  BY DEF LivenessInit, LivenessInv
<1>2. LivenessInv /\ [LivenessNext]_livenessVars => LivenessInv'
  <2> SUFFICES ASSUME LivenessInv, [LivenessNext]_livenessVars
               PROVE  LivenessInv'
    OBVIOUS
  <2>1. ASSUME NEW f \in Function, Start(f)
        PROVE  LivenessInv'
    BY <2>1, FunctionAssumption, StartInv
  <2>2. ASSUME NEW b \in worklist, Visit(b)
        PROVE  LivenessInv'
    BY <2>2, VisitInv
  <2> QED BY <2>1, <2>2, DropInv, LivenessStutter DEF LivenessNext
<1> QED BY <1>1, <1>2, PTL DEF LivenessSpec

\* Whatever function is analysed, and in whatever order its blocks are visited:
\* the data agree with the instructions, and when the worklist is empty they
\* solve the equations of liveness (computeLiveInValues).
THEOREM LivenessSettled == LivenessSpec => []Settled
BY LivenessInvHolds, LivenessInvSettled, PTL

\* Whatever function is analysed, nothing is live that some solution does
\* without (computeLiveInValues).
THEOREM LivenessLeast == LivenessSpec => []Least
<1>1. LivenessInv => Least
  BY DEF LivenessInv, Least
<1> QED BY <1>1, LivenessInvHolds, PTL

-----------------------------------------------------------------------------
(* Progress *)

\* What a visit may do to the analysis.
Advance ==
    /\ \A b \in fn.blocks : liveOut[b] \subseteq liveOut'[b] /\ liveIn[b] \subseteq liveIn'[b]
    /\ liveOut' = liveOut =>
          liveIn' = liveIn /\ worklist' \subseteq worklist /\ worklist' # worklist

\* A block whose liveOut stays as it is has its liveIn already, by the invariant,
\* so that nobody is put into the worklist in its place.
LEMMA VisitAdvances ==
    ASSUME LivenessInv, NEW b \in worklist, Visit(b)
    PROVE  Advance
<1> DEFINE out == liveOut[b] \cup UNION {liveIn[s] : s \in fn.succ[b]}
           in == LiveInOf(fn, b, out)
<1>1. /\ fn # None /\ b \in fn.blocks
      /\ liveOut' = [liveOut EXCEPT ![b] = out]
      /\ liveIn' = [liveIn EXCEPT ![b] = in]
      /\ worklist' = (worklist \ {b}) \cup Revisit(fn, b, in)
  BY DEF Visit, LivenessInv
<1>2. /\ liveIn \in [fn.blocks -> SUBSET Reg]
      /\ liveOut \in [fn.blocks -> SUBSET Reg]
      /\ liveIn[b] = LiveInOf(fn, b, liveOut[b])
  BY <1>1 DEF LivenessInv
<1>3. liveIn[b] \subseteq in
  BY <1>2, LiveInMonotone
<1>4. \A c \in fn.blocks : liveOut[c] \subseteq liveOut'[c] /\ liveIn[c] \subseteq liveIn'[c]
  <2> SUFFICES ASSUME NEW c \in fn.blocks
               PROVE  liveOut[c] \subseteq liveOut'[c] /\ liveIn[c] \subseteq liveIn'[c]
    OBVIOUS
  <2> HIDE DEF in
  <2> QED BY <1>1, <1>2, <1>3
<1>5. ASSUME liveOut' = liveOut
      PROVE  liveIn' = liveIn /\ worklist' \subseteq worklist /\ worklist' # worklist
  <2>1. out = liveOut[b]
    BY <1>1, <1>2, <1>5
  <2>2. in = liveIn[b]
    BY <1>2, <2>1
  <2> HIDE DEF in, out
  <2>3. Revisit(fn, b, in) = {}
    BY <2>2 DEF Revisit
  <2> QED BY <1>1, <1>2, <2>2, <2>3
<1> QED BY <1>4, <1>5 DEF Advance

LEMMA LivenessStepAdvances ==
    ASSUME LivenessInv, LivenessNext, fn # None, fn' = fn
    PROVE  Advance
<1>1. PICK b \in worklist : Visit(b)
  BY DEF LivenessNext, Drop
<1> QED BY <1>1, VisitAdvances

\* In every analysis of every function: live sets only grow, and each visit adds to
\* them or shortens the worklist (computeLiveInValues).
THEOREM LivenessAdvances == LivenessSpec => Advances
<1>1. LivenessInv /\ [LivenessNext]_livenessVars => [fn # None /\ fn' = fn => Advance]_livenessVars
  BY LivenessStepAdvances
<1>2. [fn # None /\ fn' = fn => Advance]_livenessVars =>
      [fn # None /\ fn' = fn =>
          /\ \A b \in fn.blocks : liveOut[b] \subseteq liveOut'[b] /\ liveIn[b] \subseteq liveIn'[b]
          /\ liveOut' = liveOut =>
                liveIn' = liveIn /\ worklist' \subseteq worklist /\ worklist' # worklist]_livenessVars
  BY DEF Advance
<1> QED BY <1>1, <1>2, LivenessInvHolds, PTL DEF LivenessSpec, Advances

-----------------------------------------------------------------------------
(* What is live, from one instruction to the next *)

\* The least solution of the equations of liveness.
Must(f) == [b \in f.blocks |-> MustLive(f, b)]

\* What every solution has live out of a block is itself a solution.
LEMMA MustSolves ==
    ASSUME NEW f, WellFormed(f)
    PROVE  Solves(f, Must(f)) /\ \A b \in f.blocks : MustLive(f, b) \subseteq Reg
<1>1. f.succ \in [f.blocks -> SUBSET f.blocks] BY DEF WellFormed
<1>2. ASSUME NEW b \in f.blocks
      PROVE  Seed(f, b) \subseteq MustLive(f, b)
  BY SeedType DEF MustLive, Solves
<1>3. ASSUME NEW b \in f.blocks, NEW s \in f.succ[b]
      PROVE  LiveInOf(f, s, MustLive(f, s)) \subseteq MustLive(f, b)
  <2>1. s \in f.blocks BY <1>1
  <2>2. LiveInOf(f, s, MustLive(f, s)) \subseteq Reg
    BY LiveInType DEF MustLive
  <2>3. ASSUME NEW out \in [f.blocks -> SUBSET Reg], Solves(f, out)
        PROVE  LiveInOf(f, s, MustLive(f, s)) \subseteq out[b]
    <3>1. MustLive(f, s) \subseteq out[s] BY <2>1, <2>3 DEF MustLive
    <3>2. LiveInOf(f, s, out[s]) \subseteq out[b] BY <2>3 DEF Solves
    <3> QED BY <3>1, <3>2, LiveInMonotone
  <2> QED BY <2>2, <2>3 DEF MustLive
<1>4. \A b \in f.blocks : \A s \in f.succ[b] : s \in f.blocks BY <1>1
<1> QED BY <1>2, <1>3, <1>4 DEF Must, Solves, MustLive

\* What the analysis finds contains it.
LEMMA MustBelow ==
    ASSUME NEW f, NEW out \in [f.blocks -> SUBSET Reg], Solves(f, out), NEW b \in f.blocks
    PROVE  MustLive(f, b) \subseteq out[b]
BY DEF MustLive

\* And nothing else.
LEMMA LeastMust ==
    ASSUME LivenessInv, fn # None, NEW b \in fn.blocks
    PROVE  liveOut[b] \subseteq MustLive(fn, b)
BY DEF LivenessInv, Least, MustLive

\* After an instruction, nothing is live that was not before, but its result.
LEMMA LiveStep ==
    ASSUME NEW f, NEW b, Len(f.body[b]) \in Nat, DOMAIN f.body[b] = 1..Len(f.body[b]),
           NEW i \in 1..Len(f.body[b]), NEW out,
           NEW r \in LiveAt(f, b, i + 1, out), r # f.body[b][i].dst
    PROVE  r \in LiveAt(f, b, i, out)
<1> DEFINE body == f.body[b]
           Kept(q, from, j) == \A k \in from..(j - 1) : body[k].dst # q
<1>1. \A j \in Nat : Kept(r, i + 1, j) => Kept(r, i, j)
  <2> SUFFICES ASSUME NEW j \in Nat, Kept(r, i + 1, j), NEW k \in i..(j - 1)
               PROVE  body[k].dst # r
    OBVIOUS
  <2>1. k = i \/ k \in (i + 1)..(j - 1) OBVIOUS
  <2> QED BY <2>1
<1>2. CASE r \in out /\ Kept(r, i + 1, Len(body) + 1)
  <2>1. Kept(r, i, Len(body) + 1) BY <1>1, <1>2
  <2> QED BY <1>2, <2>1 DEF LiveAt
<1>3. CASE /\ r \in UNION {body[j].args : j \in DOMAIN body} /\ Managed(f, r)
           /\ \E j \in (i + 1)..Len(body) : r \in body[j].args /\ Kept(r, i + 1, j)
  <2>1. PICK j \in (i + 1)..Len(body) : r \in body[j].args /\ Kept(r, i + 1, j) BY <1>3
  <2>2. j \in i..Len(body) /\ Kept(r, i, j) BY <1>1, <2>1
  <2> QED BY <1>3, <2>1, <2>2 DEF LiveAt
<1> QED BY <1>2, <1>3 DEF LiveAt

\* The operands of an instruction are live at it.
LEMMA OperandsLive ==
    ASSUME NEW f, WellFormed(f), NEW b \in f.blocks, NEW i \in DOMAIN f.body[b], NEW out
    PROVE  f.body[b][i].args \cap Reg \subseteq LiveAt(f, b, i, out)
<1> SUFFICES ASSUME NEW r \in f.body[b][i].args \cap Reg
             PROVE  r \in LiveAt(f, b, i, out)
  OBVIOUS
<1>1. Managed(f, r) BY DEF Managed, WellFormed
<1>2. i \in i..Len(f.body[b]) /\ \A k \in i..(i - 1) : f.body[b][k].dst # r
  BY DEF WellFormed
<1> QED BY <1>1, <1>2 DEF LiveAt

\* What is live out of a block is live at its last instruction.
LEMMA EndLive ==
    ASSUME NEW f, WellFormed(f), NEW b \in f.blocks, NEW out \in SUBSET Reg
    PROVE  out \subseteq LiveAt(f, b, Len(f.body[b]), out)
<1> SUFFICES ASSUME NEW r \in out
             PROVE  \A k \in Len(f.body[b])..(Len(f.body[b]) + 1 - 1) : f.body[b][k].dst # r
  BY DEF LiveAt
<1>1. Len(f.body[b]) \in Nat /\ f.body[b][Len(f.body[b])].dst = None BY DEF WellFormed
<1> QED BY <1>1, FunctionAssumption

\* What is live at the first instruction of a block is live into the block, or
\* one of its phi nodes defines it.
LEMMA EntryLive ==
    ASSUME NEW f, WellFormed(f), NEW b \in f.blocks, NEW out \in SUBSET Reg,
           NEW r \in LiveAt(f, b, 1, out), r \notin PhiDefs(f, b)
    PROVE  r \in LiveInOf(f, b, out)
<1> DEFINE body == f.body[b]
<1>1. Len(body) \in Nat /\ DOMAIN body = 1..Len(body) BY DEF WellFormed
<1>2. CASE r \in out /\ \A k \in 1..(Len(body) + 1 - 1) : body[k].dst # r
  <2>1. r \notin Defs(f, b) BY <1>1, <1>2 DEF Defs
  <2> QED BY <1>2, <2>1 DEF LiveInOf, Kill
<1>3. CASE /\ r \in UNION {body[j].args : j \in DOMAIN body} /\ Managed(f, r)
           /\ \E j \in 1..Len(body) : r \in body[j].args /\ \A k \in 1..(j - 1) : body[k].dst # r
  <2>1. PICK j \in 1..Len(body) : r \in body[j].args /\ \A k \in 1..(j - 1) : body[k].dst # r
    BY <1>3
  <2>2. ASSUME NEW k \in DOMAIN body
        PROVE  body[k].dst # r
    <3>1. CASE k < j BY <1>1, <2>1, <3>1
    <3>2. CASE j <= k
      <4>1. j \in 1..k BY <1>1, <3>2
      <4> QED BY <2>1, <4>1 DEF WellFormed
    <3> QED BY <1>1, <3>1, <3>2
  <2>3. r \notin Kill(f, b) BY <2>2 DEF Kill, Defs
  <2>4. r \in LiveAt(f, b, 1, {}) BY <1>3 DEF LiveAt
  <2> QED BY <2>3, <2>4 DEF LiveInOf, LiveSet
<1> QED BY <1>2, <1>3 DEF LiveAt

-----------------------------------------------------------------------------
(* What is live has been defined *)

\* What dominates the target of an edge, and is not that block itself, dominates
\* the source.
LEMMA DominatesSource ==
    ASSUME NEW f, NEW a, NEW b \in f.blocks, NEW s \in f.succ[b], a # s, Dominates(f, a, s)
    PROVE  Dominates(f, a, b)
<1>1. PICK S \in SUBSET (f.blocks \ {a, s}) :
        /\ f.entry = a \/ f.entry \in S
        /\ \A c \in S : f.succ[c] \subseteq S \cup {a}
  BY DEF Dominates
<1>2. b \notin S BY <1>1
<1> QED BY <1>1, <1>2 DEF Dominates

\* A register that is live into a block if what is available at the block's end is
\* live out of it, is the parameter, or comes from another block that dominates
\* this one.
LEMMA LiveInDominated ==
    ASSUME NEW f, WellFormed(f), BasicSSA(f), NEW s \in f.blocks,
           NEW r \in LiveInOf(f, s, Available(f, s)), r # f.param
    PROVE  r \in Reg /\ \E a \in f.blocks \ {s} : r \in Defs(f, a) /\ Dominates(f, a, s)
<1>1. r \in Reg /\ r \notin Defs(f, s)
  <2>1. r \in Reg BY LiveInType DEF Available
  <2>2. Managed(f, r) BY <2>1 DEF Managed, WellFormed
  <2>3. r \notin Kill(f, s) BY DEF LiveInOf
  <2> QED BY <2>1, <2>2, <2>3 DEF Kill
<1>2. CASE r \in Available(f, s) BY <1>1, <1>2 DEF Available
<1>3. CASE r \in LiveSet(f, s)
  <2>1. r \in LiveAt(f, s, 1, {}) BY <1>3 DEF LiveSet
  <2>2. Len(f.body[s]) \in Nat /\ DOMAIN f.body[s] = 1..Len(f.body[s]) BY DEF WellFormed
  <2>3. PICK j \in DOMAIN f.body[s] : r \in f.body[s][j].args BY <2>1, <2>2 DEF LiveAt
  <2>4. r \notin PhiDefs(f, s) /\ \A i \in 1..(j - 1) : f.body[s][i].dst # r
    <3>1. \A i \in 1..(j - 1) : i \in DOMAIN f.body[s] BY <2>2
    <3> QED BY <1>1, <3>1 DEF Defs
  <2> QED BY <1>1, <2>3, <2>4 DEF BasicSSA
<1> QED BY <1>2, <1>3 DEF LiveInOf

\* What is available solves the equations of liveness, so that it contains what is
\* live.
LEMMA LiveAvailable ==
    ASSUME NEW f, WellFormed(f), BasicSSA(f), NEW b \in f.blocks
    PROVE  MustLive(f, b) \subseteq Available(f, b)
<1> DEFINE out == [c \in f.blocks |-> Available(f, c)]
<1>1. out \in [f.blocks -> SUBSET Reg] BY DEF Available
<1>2. ASSUME NEW c \in f.blocks
      PROVE  Seed(f, c) \subseteq Available(f, c)
  <2> SUFFICES ASSUME NEW r \in Seed(f, c) PROVE r \in Available(f, c)
    OBVIOUS
  <2>1. r \in Reg BY SeedType
  <2>2. PICK s \in f.succ[c] : \E phi \in f.phis[s] : r = phi.from[c] BY DEF Seed
  <2> QED BY <2>1, <2>2 DEF BasicSSA
<1>3. ASSUME NEW c \in f.blocks, NEW s \in f.succ[c]
      PROVE  LiveInOf(f, s, Available(f, s)) \subseteq Available(f, c)
  <2> SUFFICES ASSUME NEW r \in LiveInOf(f, s, Available(f, s)), r # f.param
               PROVE  r \in Available(f, c)
    BY LiveInType DEF Available
  <2>1. s \in f.blocks BY DEF WellFormed
  <2>2. PICK a \in f.blocks \ {s} : r \in Reg /\ r \in Defs(f, a) /\ Dominates(f, a, s)
    BY <2>1, LiveInDominated
  <2>3. Dominates(f, a, c) BY <2>2, DominatesSource
  <2> QED BY <2>2, <2>3 DEF Available
<1>4. \A c \in f.blocks : \A s \in f.succ[c] : s \in f.blocks BY DEF WellFormed
<1>5. Solves(f, out) BY <1>2, <1>3, <1>4 DEF Solves
<1>6. MustLive(f, b) \subseteq out[b] BY <1>1, <1>5, MustBelow
<1> QED BY <1>6

\* Nothing but the parameter is live when a function is entered.
LEMMA LiveAtEntry ==
    ASSUME NEW f, WellFormed(f), BasicSSA(f),
           NEW r \in LiveAt(f, f.entry, 1, MustLive(f, f.entry))
    PROVE  r = f.param
<1>1. f.entry \in f.blocks /\ PhiDefs(f, f.entry) = {} BY DEF WellFormed, BasicSSA, PhiDefs
<1>2. MustLive(f, f.entry) \in SUBSET Reg BY DEF MustLive
<1>3. r \in LiveInOf(f, f.entry, MustLive(f, f.entry)) BY <1>1, <1>2, EntryLive
<1>4. r \in LiveInOf(f, f.entry, Available(f, f.entry))
  BY <1>1, <1>3, LiveAvailable, LiveInMonotone
<1>5. \A a \in f.blocks \ {f.entry} : ~Dominates(f, a, f.entry) BY DEF Dominates
<1> QED BY <1>1, <1>4, <1>5, LiveInDominated

-----------------------------------------------------------------------------
(* The compile layer *)

\* The names of the module that is compiled, and those that the pass has not
\* been at.
Module == {Modules[finalized + 1][k] : k \in DOMAIN Modules[finalized + 1]}
Rest == {queue[k] : k \in DOMAIN queue}

\* The functions whose calls have become safepoints, that have been folded, and
\* whose safepoints have their operands.
Placed == CASE pass = "none" -> {} [] pass = "place" -> Module \ Rest [] OTHER -> Module
Covered == IF pass = "rewrite" THEN Module \ Rest ELSE {}
Folded == Covered \cup IF fn = None THEN {} ELSE {Head(queue)}

\* Code by stage.
CodeOf(p, n) ==
    IF n \in Compiled \cup Folded THEN Prepared(n, p[n])
    ELSE IF n \in Placed THEN Pruned(p[n]) ELSE p[n]

\* What a safepoint has as operands.
Needs(f, s) == LiveAcross(f, s.block, s.at, MustLive(f, s.block))

LayerInv(p) ==
    /\ DOMAIN code = Name /\ \A n \in Name : code[n] = CodeOf(p, n)
    /\ finalized \in 0..Len(Modules) /\ pass \in {"none", "place", "rewrite"}
    /\ pass # "none" =>
        /\ finalized < Len(Modules)
        /\ queue \in Seq(Name) /\ Rest \subseteq Module
        /\ \A i, j \in DOMAIN queue : queue[i] = queue[j] => i = j
    /\ fn # None => /\ pass = "rewrite" /\ queue # <<>> /\ fn = code[Head(queue)]
    /\ LivenessInv

\* The identifiers of the safepoints differ, and those of the functions of the
\* module are in the table of their function.
IdsInv(p) ==
    /\ nextId \in Nat
    /\ DOMAIN ids = UNION {Safepoint(n, Pruned(p[n])) : n \in Compiled \cup Placed}
    /\ \A s \in DOMAIN ids : ids[s] \in Nat /\ ids[s] <= nextId
    /\ \A s, t \in DOMAIN ids : ids[s] = ids[t] => s = t
    /\ DOMAIN safepoints = Placed
    /\ \A n \in Placed : safepoints[n] = {ids[s] : s \in Safepoint(n, Pruned(p[n]))}
    /\ DOMAIN patchpoints =
          {ids[s] : s \in {t \in DOMAIN ids : t.name \in Placed /\ IsStub(Ins(Pruned(p[t.name]), t))}}
    /\ \A s \in DOMAIN ids : ids[s] \in DOMAIN patchpoints =>
          patchpoints[ids[s]] = Ins(Pruned(p[s.name]), s).size

\* The operands and the tables of what is compiled.
TablesInv(p) ==
    /\ DOMAIN live = UNION {Safepoint(n, Prepared(n, p[n])) : n \in Compiled \cup Covered}
    /\ \A s \in DOMAIN live : live[s] = Needs(Prepared(s.name, p[s.name]), s) /\ live[s] \subseteq Reg
    /\ DOMAIN statepoint = UNION {Safepoint(n, Prepared(n, p[n])) : n \in Compiled}
    /\ \A s \in DOMAIN statepoint :
          statepoint[s] = Needs(Prepared(s.name, p[s.name]), s) /\ statepoint[s] \subseteq Reg
    /\ \A s \in DOMAIN statepoint : IsStub(Ins(Prepared(s.name, p[s.name]), s)) =>
          /\ ids[s] \in DOMAIN patchpoint /\ patchpoint[ids[s]] = s
          /\ s \in DOMAIN target /\ target[s] = Ins(Prepared(s.name, p[s.name]), s).size
    /\ DOMAIN patchpoint \subseteq {ids[s] : s \in DOMAIN statepoint}

CodeInvOf(p) == LayerInv(p) /\ IdsInv(p) /\ TablesInv(p)

\* The calls that are safepoints.
LEMMA SafepointType ==
    ASSUME NEW n, NEW f, NEW s \in Safepoint(n, f)
    PROVE  /\ s = Site(n, s.block, s.at) /\ s.name = n
           /\ s.block \in f.blocks /\ s.at \in DOMAIN f.body[s.block]
           /\ NeedsStatepoint(f.body[s.block][s.at])
BY DEF Safepoint, Sites, Site, Ins

\* The identifiers that Place gives are new and differ.
LEMMA NumberedProperties ==
    ASSUME NEW n, NEW sites \in SUBSET [name : {n}, block : Nat, at : Nat], IsFiniteSet(sites),
           NEW last \in Nat
    PROVE  /\ DOMAIN Numbered(sites, last) = sites
           /\ \A s \in sites : /\ Numbered(sites, last)[s] \in Nat
                               /\ last < Numbered(sites, last)[s]
                               /\ Numbered(sites, last)[s] <= last + Cardinality(sites)
           /\ \A s, t \in sites : Numbered(sites, last)[s] = Numbered(sites, last)[t] => s = t
<1> DEFINE Below(s) == {t \in sites : Before(t, s)}
<1>1. Cardinality(sites) \in Nat BY FS_CardinalityType
<1>2. ASSUME NEW s \in sites
      PROVE  /\ IsFiniteSet(Below(s)) /\ Cardinality(Below(s)) \in Nat
             /\ Cardinality(Below(s)) < Cardinality(sites)
  <2>1. IsFiniteSet(Below(s)) /\ Cardinality(Below(s)) <= Cardinality(sites)
        /\ (Cardinality(sites) = Cardinality(Below(s)) => sites = Below(s))
    BY FS_Subset
  <2>2. s \notin Below(s) BY DEF Before
  <2>3. Cardinality(Below(s)) \in Nat BY <2>1, FS_CardinalityType
  <2> QED BY <1>1, <2>1, <2>2, <2>3
<1>3. ASSUME NEW s \in sites, NEW t \in sites, Before(s, t)
      PROVE  Cardinality(Below(s)) < Cardinality(Below(t))
  <2>1. Below(s) \subseteq Below(t) /\ s \in Below(t) /\ s \notin Below(s)
    BY <1>3 DEF Before
  <2>2. Cardinality(Below(s)) <= Cardinality(Below(t))
        /\ (Cardinality(Below(t)) = Cardinality(Below(s)) => Below(t) = Below(s))
    BY <1>2, <2>1, FS_Subset
  <2>3. Cardinality(Below(s)) \in Nat /\ Cardinality(Below(t)) \in Nat BY <1>2
  <2>4. Cardinality(Below(s)) # Cardinality(Below(t)) BY <2>1, <2>2
  <2> QED BY <2>2, <2>3, <2>4
<1>4. \A s, t \in sites : s # t => Before(s, t) \/ Before(t, s)
  BY DEF Before
<1>5. \A s \in sites : Numbered(sites, last)[s] = last + 1 + Cardinality(Below(s))
  BY DEF Numbered
<1>6. DOMAIN Numbered(sites, last) = sites BY DEF Numbered
<1> HIDE DEF Below
<1>7. ASSUME NEW s \in sites, NEW t \in sites, Numbered(sites, last)[s] = Numbered(sites, last)[t]
      PROVE  s = t
  <2>1. Cardinality(Below(s)) = Cardinality(Below(t)) BY <1>2, <1>5, <1>7
  <2> QED BY <1>2, <1>3, <1>4, <2>1
<1>8. ASSUME NEW s \in sites
      PROVE  /\ Numbered(sites, last)[s] \in Nat /\ last < Numbered(sites, last)[s]
             /\ Numbered(sites, last)[s] <= last + Cardinality(sites)
  <2>1. Numbered(sites, last)[s] = last + 1 + Cardinality(Below(s)) BY <1>5
  <2>2. Cardinality(Below(s)) \in Nat /\ Cardinality(Below(s)) < Cardinality(sites) BY <1>2
  <2> QED BY <1>1, <2>1, <2>2
<1> QED BY <1>6, <1>7, <1>8

\* A queue without its head.
LEMMA TailNames ==
    ASSUME NEW q \in Seq(Name), q # <<>>, \A i, j \in DOMAIN q : q[i] = q[j] => i = j
    PROVE  /\ Head(q) \in Name /\ Head(q) \in {q[k] : k \in DOMAIN q}
           /\ Tail(q) \in Seq(Name)
           /\ {Tail(q)[k] : k \in DOMAIN Tail(q)} = {q[k] : k \in DOMAIN q} \ {Head(q)}
           /\ \A i, j \in DOMAIN Tail(q) : Tail(q)[i] = Tail(q)[j] => i = j
<1>1. /\ Len(q) \in Nat \ {0} /\ DOMAIN q = 1..Len(q) /\ Head(q) = q[1]
      /\ Tail(q) \in Seq(Name) /\ DOMAIN Tail(q) = 1..(Len(q) - 1)
      /\ \A k \in 1..(Len(q) - 1) : Tail(q)[k] = q[k + 1]
  BY EmptySeq
<1>2. Head(q) \in Name /\ Head(q) \in {q[k] : k \in DOMAIN q} BY <1>1
<1>3. \A k \in DOMAIN q : k # 1 => k - 1 \in DOMAIN Tail(q) /\ Tail(q)[k - 1] = q[k]
  <2> SUFFICES ASSUME NEW k \in 1..Len(q), k # 1
               PROVE  k - 1 \in 1..(Len(q) - 1) /\ Tail(q)[k - 1] = q[k]
    BY <1>1
  <2>1. k - 1 \in 1..(Len(q) - 1) /\ (k - 1) + 1 = k BY <1>1
  <2> QED BY <1>1, <2>1
<1>4. \A k \in DOMAIN Tail(q) : k + 1 \in DOMAIN q /\ k + 1 # 1 /\ Tail(q)[k] = q[k + 1]
  BY <1>1
<1>5. {Tail(q)[k] : k \in DOMAIN Tail(q)} = {q[k] : k \in DOMAIN q} \ {Head(q)}
  <2>1. ASSUME NEW k \in DOMAIN Tail(q)
        PROVE  Tail(q)[k] \in {q[i] : i \in DOMAIN q} \ {Head(q)}
    <3>1. q[k + 1] # q[1] BY <1>1, <1>4
    <3> QED BY <1>1, <1>4, <3>1
  <2>2. ASSUME NEW k \in DOMAIN q, q[k] # Head(q)
        PROVE  q[k] \in {Tail(q)[i] : i \in DOMAIN Tail(q)}
    <3>1. k # 1 BY <1>1, <2>2
    <3> QED BY <1>3, <3>1
  <2> QED BY <2>1, <2>2
<1>6. ASSUME NEW i \in DOMAIN Tail(q), NEW j \in DOMAIN Tail(q), Tail(q)[i] = Tail(q)[j]
      PROVE  i = j
  <2>1. i + 1 = j + 1 BY <1>4, <1>6
  <2> QED BY <1>1, <2>1
<1> QED BY <1>1, <1>2, <1>5, <1>6

\* The names of the module that is compiled are not compiled yet.
LEMMA ModuleNames ==
    ASSUME finalized \in Nat, finalized < Len(Modules)
    PROVE  Module \subseteq Name /\ Module \cap Compiled = {} /\ Compiled \subseteq Name
           /\ Modules[finalized + 1] \in Seq(Name)
           /\ \A i, j \in DOMAIN Modules[finalized + 1] :
                Modules[finalized + 1][i] = Modules[finalized + 1][j] => i = j
<1>1. /\ Len(Modules) \in Nat /\ DOMAIN Modules = 1..Len(Modules)
      /\ \A m \in DOMAIN Modules : Modules[m] \in Seq(Name)
  BY ModulesAssumption
<1>2. finalized + 1 \in DOMAIN Modules /\ \A m \in 1..finalized : m \in DOMAIN Modules /\ m # finalized + 1
  BY <1>1
<1>3. \A m \in DOMAIN Modules : \A k \in DOMAIN Modules[m] : Modules[m][k] \in Name
  BY <1>1
<1>4. Module \cap Compiled = {}
  <2> SUFFICES ASSUME NEW m \in 1..finalized, NEW i \in DOMAIN Modules[m], NEW j \in DOMAIN Modules[finalized + 1],
                      Modules[m][i] = Modules[finalized + 1][j]
               PROVE  FALSE
    BY DEF Module, Compiled
  <2>1. m \in DOMAIN Modules /\ finalized + 1 \in DOMAIN Modules BY <1>2
  <2>2. m = finalized + 1 BY <2>1, ModulesAssumption
  <2> QED BY <1>2, <2>2
<1>5. \A i, j \in DOMAIN Modules[finalized + 1] :
        Modules[finalized + 1][i] = Modules[finalized + 1][j] => i = j
  BY <1>2, ModulesAssumption
<1>6. Module \subseteq Name /\ Compiled \subseteq Name BY <1>2, <1>3 DEF Module, Compiled
<1> QED BY <1>1, <1>2, <1>4, <1>5, <1>6

\* What a program is made of, by name.
LEMMA ProgramType ==
    ASSUME NEW p \in Programs, NEW n \in Name
    PROVE  /\ Prepared(n, p[n]) \in Function /\ WellFormed(Prepared(n, p[n]))
           /\ IsFiniteSet(Safepoint(n, Pruned(p[n])))
           /\ Safepoint(n, Prepared(n, p[n])) = Safepoint(n, Pruned(p[n]))
           /\ Safepoint(n, Pruned(p[n])) \subseteq [name : {n}, block : Nat, at : Nat]
           /\ \A s \in Safepoint(n, Pruned(p[n])) :
                /\ IsStub(Ins(Pruned(p[n]), s)) = IsStub(Ins(Prepared(n, p[n]), s))
                /\ IsStub(Ins(Prepared(n, p[n]), s)) =>
                      Ins(Pruned(p[n]), s).size = Ins(Prepared(n, p[n]), s).size
<1> DEFINE f == Prepared(n, p[n])
<1>1. /\ f \in Function
      /\ IsFiniteSet(Safepoint(n, Pruned(p[n])))
      /\ Safepoint(n, f) = Safepoint(n, Pruned(p[n]))
      /\ \A s \in Safepoint(n, Pruned(p[n])) :
            /\ IsStub(Ins(Pruned(p[n]), s)) = IsStub(Ins(f, s))
            /\ IsStub(Ins(f, s)) => Ins(Pruned(p[n]), s).size = Ins(f, s).size
  BY ProgramsAssumption, Zenon
<1>2. WellFormed(f) BY <1>1, FunctionAssumption
<1> HIDE DEF f
<1>3. Safepoint(n, f) \subseteq [name : {n}, block : Nat, at : Nat]
  <2> SUFFICES ASSUME NEW s \in Safepoint(n, f)
               PROVE  s \in [name : {n}, block : Nat, at : Nat]
    OBVIOUS
  <2>1. s = Site(n, s.block, s.at) /\ s.block \in f.blocks /\ s.at \in DOMAIN f.body[s.block]
    BY SafepointType
  <2>2. s.block \in Nat /\ s.at \in Nat
    BY <1>2, <2>1, FunctionAssumption DEF WellFormed
  <2> QED BY <2>1, <2>2 DEF Site
<1> QED BY <1>1, <1>2, <1>3 DEF f

-----------------------------------------------------------------------------
(* The steps of the compile layer *)

\* Actions of R leave the code and the tables alone.
LEMMA RunCode ==
    ASSUME NEW p, CodeInvOf(p), CodeStays
    PROVE  CodeInvOf(p)'
<1>1. /\ UNCHANGED livenessVars
      /\ code' = code /\ ids' = ids /\ live' = live
      /\ finalized' = finalized /\ pass' = pass /\ queue' = queue /\ nextId' = nextId
      /\ safepoints' = safepoints /\ patchpoints' = patchpoints
      /\ statepoint' = statepoint /\ patchpoint' = patchpoint /\ target' = target
  BY DEF CodeStays, irVars, layerVars, tableVars
<1>2. fn' = fn BY <1>1 DEF livenessVars
<1>3. Compiled' = Compiled /\ Module' = Module /\ Rest' = Rest
  BY <1>1 DEF Compiled, Module, Rest
<1>4. Placed' = Placed /\ Covered' = Covered /\ Folded' = Folded
  BY <1>1, <1>2, <1>3 DEF Placed, Covered, Folded
<1>5. LivenessInv' BY <1>1, LivenessStutter DEF CodeInvOf, LayerInv
<1>6. LayerInv(p)'
  BY <1>1, <1>2, <1>3, <1>4, <1>5 DEF CodeInvOf, LayerInv, CodeOf
<1>7. IdsInv(p)'
  BY <1>1, <1>3, <1>4 DEF CodeInvOf, IdsInv
<1>8. TablesInv(p)'
  BY <1>1, <1>3, <1>4 DEF CodeInvOf, TablesInv
<1> QED BY <1>6, <1>7, <1>8 DEF CodeInvOf

LEMMA BeginCode ==
    ASSUME NEW p, CodeInvOf(p), Begin
    PROVE  CodeInvOf(p)'
<1>1. /\ pass = "none" /\ finalized < Len(Modules) /\ pass' = "place"
      /\ queue' = Modules[finalized + 1]
      /\ UNCHANGED livenessVars
      /\ code' = code /\ ids' = ids /\ live' = live
      /\ finalized' = finalized /\ nextId' = nextId
      /\ safepoints' = safepoints /\ patchpoints' = patchpoints
      /\ statepoint' = statepoint /\ patchpoint' = patchpoint /\ target' = target
  BY DEF Begin, irVars, tableVars
<1>2. fn' = fn /\ fn = None BY <1>1 DEF livenessVars, CodeInvOf, LayerInv
<1>3. Compiled' = Compiled /\ Module' = Module /\ Rest' = Module
  BY <1>1 DEF Compiled, Module, Rest
<1>4. Placed = {} /\ Placed' = {} /\ Covered = {} /\ Covered' = {} /\ Folded = {} /\ Folded' = {}
  BY <1>1, <1>2, <1>3 DEF Placed, Covered, Folded
<1>5. finalized \in Nat BY DEF CodeInvOf, LayerInv
<1>6. LivenessInv' BY <1>1, LivenessStutter DEF CodeInvOf, LayerInv
<1>7. LayerInv(p)'
  BY <1>1, <1>2, <1>3, <1>4, <1>5, <1>6, ModuleNames DEF CodeInvOf, LayerInv, CodeOf
<1>8. IdsInv(p)'
  BY <1>1, <1>3, <1>4 DEF CodeInvOf, IdsInv
<1>9. TablesInv(p)'
  BY <1>1, <1>3, <1>4 DEF CodeInvOf, TablesInv
<1> QED BY <1>7, <1>8, <1>9 DEF CodeInvOf

LEMMA RewriteCode ==
    ASSUME NEW p, CodeInvOf(p), Rewrite
    PROVE  CodeInvOf(p)'
<1>1. /\ pass = "place" /\ queue = <<>> /\ pass' = "rewrite"
      /\ queue' = Modules[finalized + 1]
      /\ UNCHANGED livenessVars
      /\ code' = code /\ ids' = ids /\ live' = live
      /\ finalized' = finalized /\ nextId' = nextId
      /\ safepoints' = safepoints /\ patchpoints' = patchpoints
      /\ statepoint' = statepoint /\ patchpoint' = patchpoint /\ target' = target
  BY DEF Rewrite, irVars, tableVars
<1>2. fn' = fn /\ fn = None BY <1>1 DEF livenessVars, CodeInvOf, LayerInv
<1>3. Compiled' = Compiled /\ Module' = Module /\ Rest' = Module /\ Rest = {}
  BY <1>1 DEF Compiled, Module, Rest
<1>4. Placed = Module /\ Placed' = Module /\ Covered = {} /\ Covered' = {} /\ Folded = {} /\ Folded' = {}
  BY <1>1, <1>2, <1>3 DEF Placed, Covered, Folded
<1>5. finalized \in Nat /\ finalized < Len(Modules) BY <1>1 DEF CodeInvOf, LayerInv
<1>6. LivenessInv' BY <1>1, LivenessStutter DEF CodeInvOf, LayerInv
<1>7. LayerInv(p)'
  BY <1>1, <1>2, <1>3, <1>4, <1>5, <1>6, ModuleNames DEF CodeInvOf, LayerInv, CodeOf
<1>8. IdsInv(p)'
  BY <1>1, <1>3, <1>4 DEF CodeInvOf, IdsInv
<1>9. TablesInv(p)'
  BY <1>1, <1>3, <1>4 DEF CodeInvOf, TablesInv
<1> QED BY <1>7, <1>8, <1>9 DEF CodeInvOf

\* The function that a pass is at.
LEMMA HeadOfQueue ==
    ASSUME NEW p \in Programs, CodeInvOf(p), pass # "none", queue # <<>>
    PROVE  /\ Head(queue) \in Rest /\ Head(queue) \in Module /\ Head(queue) \in Name
           /\ Head(queue) \notin Compiled
           /\ Tail(queue) \in Seq(Name)
           /\ {Tail(queue)[k] : k \in DOMAIN Tail(queue)} = Rest \ {Head(queue)}
           /\ \A i, j \in DOMAIN Tail(queue) : Tail(queue)[i] = Tail(queue)[j] => i = j
           /\ Rest \subseteq Module /\ Module \cap Compiled = {} /\ Module \subseteq Name
<1>1. /\ finalized \in Nat /\ finalized < Len(Modules)
      /\ queue \in Seq(Name) /\ Rest \subseteq Module
      /\ \A i, j \in DOMAIN queue : queue[i] = queue[j] => i = j
  BY DEF CodeInvOf, LayerInv
<1>2. Module \subseteq Name /\ Module \cap Compiled = {} BY <1>1, ModuleNames
<1> QED BY <1>1, <1>2, TailNames DEF Rest

LEMMA SkipCode ==
    ASSUME NEW p \in Programs, CodeInvOf(p), Skip
    PROVE  CodeInvOf(p)'
<1>1. /\ pass = "rewrite" /\ queue # <<>> /\ fn = None
      /\ Safepoint(Head(queue), code[Head(queue)]) = {}
      /\ queue' = Tail(queue)
      /\ UNCHANGED livenessVars /\ pass' = pass
      /\ code' = code /\ ids' = ids /\ live' = live
      /\ finalized' = finalized /\ nextId' = nextId
      /\ safepoints' = safepoints /\ patchpoints' = patchpoints
      /\ statepoint' = statepoint /\ patchpoint' = patchpoint /\ target' = target
  BY DEF Skip, irVars, tableVars
<1> DEFINE n == Head(queue)
<1>2. /\ n \in Rest /\ n \in Module /\ n \in Name /\ n \notin Compiled
      /\ Tail(queue) \in Seq(Name)
      /\ {Tail(queue)[k] : k \in DOMAIN Tail(queue)} = Rest \ {n}
      /\ \A i, j \in DOMAIN Tail(queue) : Tail(queue)[i] = Tail(queue)[j] => i = j
      /\ Rest \subseteq Module
  BY <1>1, HeadOfQueue
<1> HIDE DEF n
<1>3. fn' = None BY <1>1 DEF livenessVars
<1>4. Compiled' = Compiled /\ Module' = Module /\ Rest' = Rest \ {n}
  BY <1>1, <1>2 DEF Compiled, Module, Rest
<1>5. /\ Placed = Module /\ Placed' = Module /\ Covered = Module \ Rest /\ Covered' = Covered \cup {n}
      /\ Folded = Covered /\ Folded' = Covered \cup {n}
  BY <1>1, <1>2, <1>3, <1>4 DEF Placed, Covered, Folded
<1>6. code[n] = Pruned(p[n])
  BY <1>2, <1>5 DEF CodeInvOf, LayerInv, CodeOf
<1>7. Prepared(n, p[n]) = Pruned(p[n]) /\ Safepoint(n, Prepared(n, p[n])) = {}
  BY <1>1, <1>6 DEF Prepared, n
<1>8. LivenessInv' BY <1>1, LivenessStutter DEF CodeInvOf, LayerInv
<1>9. \A m \in Name : CodeOf(p, m)' = code'[m]
  <2> SUFFICES ASSUME NEW m \in Name PROVE CodeOf(p, m)' = code'[m]
    OBVIOUS
  <2>1. code[m] = CodeOf(p, m) BY DEF CodeInvOf, LayerInv
  <2>2. CASE m = n BY <1>1, <1>5, <1>6, <1>7, <2>2 DEF CodeOf
  <2>3. CASE m # n BY <1>1, <1>4, <1>5, <2>1, <2>3 DEF CodeOf
  <2> QED BY <2>2, <2>3
<1>10. LayerInv(p)'
  BY <1>1, <1>2, <1>3, <1>4, <1>8, <1>9 DEF CodeInvOf, LayerInv
<1>11. IdsInv(p)'
  BY <1>1, <1>4, <1>5 DEF CodeInvOf, IdsInv
<1>12. TablesInv(p)'
  BY <1>1, <1>4, <1>5, <1>7 DEF CodeInvOf, TablesInv
<1> QED BY <1>10, <1>11, <1>12 DEF CodeInvOf

LEMMA AnalyseCode ==
    ASSUME NEW p \in Programs, CodeInvOf(p), Analyse
    PROVE  CodeInvOf(p)'
<1>1. /\ pass = "rewrite" /\ queue # <<>> /\ fn = None
      /\ Safepoint(Head(queue), code[Head(queue)]) # {}
      /\ code' = [code EXCEPT ![Head(queue)] = FoldPhis(code[Head(queue)])]
      /\ Start(code'[Head(queue)])
      /\ pass' = pass /\ queue' = queue /\ ids' = ids /\ live' = live
      /\ finalized' = finalized /\ nextId' = nextId
      /\ safepoints' = safepoints /\ patchpoints' = patchpoints
      /\ statepoint' = statepoint /\ patchpoint' = patchpoint /\ target' = target
  BY DEF Analyse, layerVars, tableVars
<1> DEFINE n == Head(queue)
<1>2. n \in Rest /\ n \in Module /\ n \in Name /\ n \notin Compiled /\ Rest \subseteq Module
  BY <1>1, HeadOfQueue
<1>3. Compiled' = Compiled /\ Module' = Module /\ Rest' = Rest
  BY <1>1 DEF Compiled, Module, Rest
<1>4. /\ DOMAIN code = Name /\ \A m \in Name : code[m] = CodeOf(p, m)
  BY DEF CodeInvOf, LayerInv
<1>5. Covered = Module \ Rest /\ Folded = Covered /\ Placed = Module
  BY <1>1 DEF Placed, Covered, Folded
<1>6. code[n] = Pruned(p[n])
  BY <1>2, <1>4, <1>5 DEF CodeOf
<1>7. code'[n] = Prepared(n, p[n]) /\ \A m \in Name \ {n} : code'[m] = code[m]
  BY <1>1, <1>2, <1>4, <1>6 DEF Prepared
<1>8. WellFormed(code'[n]) /\ code'[n] # None
  <2>1. WellFormed(code'[n]) BY <1>2, <1>7, ProgramType
  <2> QED BY <2>1 DEF WellFormed
<1>9. fn' = code'[n] BY <1>1 DEF Start
<1>10. Placed' = Placed /\ Covered' = Covered /\ Folded' = Covered \cup {n}
  BY <1>1, <1>3, <1>5, <1>8, <1>9 DEF Placed, Covered, Folded
<1>11. LivenessInv' BY <1>1, <1>8, StartInv
<1> HIDE DEF n
<1>12. \A m \in Name : CodeOf(p, m)' = code'[m]
  <2> SUFFICES ASSUME NEW m \in Name PROVE CodeOf(p, m)' = code'[m]
    OBVIOUS
  <2>1. CASE m = n BY <1>7, <1>10, <2>1 DEF CodeOf
  <2>2. CASE m # n BY <1>3, <1>4, <1>5, <1>7, <1>10, <2>2 DEF CodeOf
  <2> QED BY <2>1, <2>2
<1>13. LayerInv(p)'
  <2>1. DOMAIN code' = Name BY <1>1, <1>4
  <2>2. /\ finalized \in 0..Len(Modules) /\ finalized < Len(Modules)
        /\ queue \in Seq(Name) /\ Rest \subseteq Module
        /\ \A i, j \in DOMAIN queue : queue[i] = queue[j] => i = j
    BY <1>1 DEF CodeInvOf, LayerInv
  <2>3. fn' = code'[Head(queue')] BY <1>1, <1>9 DEF n
  <2> QED BY <1>1, <1>3, <1>11, <1>12, <2>1, <2>2, <2>3 DEF LayerInv
<1>14. IdsInv(p)'
  BY <1>1, <1>3, <1>10 DEF CodeInvOf, IdsInv
<1>15. TablesInv(p)'
  BY <1>1, <1>3, <1>10 DEF CodeInvOf, TablesInv
<1> QED BY <1>13, <1>14, <1>15 DEF CodeInvOf

LEMMA PropagateCode ==
    ASSUME NEW p \in Programs, CodeInvOf(p), Propagate
    PROVE  CodeInvOf(p)'
<1>1. PICK b \in worklist : Visit(b) BY DEF Propagate
<1>2. /\ code' = code /\ ids' = ids /\ live' = live
      /\ finalized' = finalized /\ pass' = pass /\ queue' = queue /\ nextId' = nextId
      /\ safepoints' = safepoints /\ patchpoints' = patchpoints
      /\ statepoint' = statepoint /\ patchpoint' = patchpoint /\ target' = target
  BY DEF Propagate, irVars, layerVars, tableVars
<1>3. fn' = fn BY <1>1 DEF Visit
<1>4. Compiled' = Compiled /\ Module' = Module /\ Rest' = Rest
  BY <1>2 DEF Compiled, Module, Rest
<1>5. Placed' = Placed /\ Covered' = Covered /\ Folded' = Folded
  BY <1>2, <1>3, <1>4 DEF Placed, Covered, Folded
<1>6. LivenessInv' BY <1>1, VisitInv DEF CodeInvOf, LayerInv
<1>7. LayerInv(p)'
  BY <1>2, <1>3, <1>4, <1>5, <1>6 DEF CodeInvOf, LayerInv, CodeOf
<1>8. IdsInv(p)'
  BY <1>2, <1>4, <1>5 DEF CodeInvOf, IdsInv
<1>9. TablesInv(p)'
  BY <1>2, <1>4, <1>5 DEF CodeInvOf, TablesInv
<1> QED BY <1>7, <1>8, <1>9 DEF CodeInvOf

LEMMA InsertCode ==
    ASSUME NEW p \in Programs, CodeInvOf(p), InsertParsePoints
    PROVE  CodeInvOf(p)'
<1> DEFINE n == Head(queue)
           new == [s \in Safepoint(n, fn) |-> LiveAcross(fn, s.block, s.at, liveOut[s.block])]
<1>1. /\ fn # None /\ worklist = {}
      /\ live' = Emplace(live, new)
      /\ Drop /\ fn' = None
      /\ queue' = Tail(queue) /\ pass' = pass
      /\ code' = code /\ ids' = ids
      /\ finalized' = finalized /\ nextId' = nextId
      /\ safepoints' = safepoints /\ patchpoints' = patchpoints
      /\ statepoint' = statepoint /\ patchpoint' = patchpoint /\ target' = target
  BY DEF InsertParsePoints, Drop, tableVars
<1>2. pass = "rewrite" /\ queue # <<>> /\ fn = code[n] /\ LivenessInv
  BY <1>1 DEF CodeInvOf, LayerInv
<1>3. /\ n \in Rest /\ n \in Module /\ n \in Name /\ n \notin Compiled
      /\ Tail(queue) \in Seq(Name)
      /\ {Tail(queue)[k] : k \in DOMAIN Tail(queue)} = Rest \ {n}
      /\ \A i, j \in DOMAIN Tail(queue) : Tail(queue)[i] = Tail(queue)[j] => i = j
      /\ Rest \subseteq Module
  BY <1>2, HeadOfQueue
<1>4. Compiled' = Compiled /\ Module' = Module /\ Rest' = Rest \ {n}
  BY <1>1, <1>3 DEF Compiled, Module, Rest
<1>5. /\ Placed = Module /\ Placed' = Module /\ Covered = Module \ Rest /\ Covered' = Covered \cup {n}
      /\ Folded = Covered \cup {n} /\ Folded' = Covered \cup {n}
  BY <1>1, <1>2, <1>3, <1>4 DEF Placed, Covered, Folded
<1>6. fn = Prepared(n, p[n])
  BY <1>2, <1>3, <1>5 DEF CodeInvOf, LayerInv, CodeOf
<1>7. LivenessInv' BY <1>1, DropInv
<1>8. Solves(fn, liveOut) /\ liveOut \in [fn.blocks -> SUBSET Reg]
  BY <1>1, <1>2, LivenessInvSolves
<1>9. ASSUME NEW s \in Safepoint(n, fn)
      PROVE  /\ s.name = n /\ new[s] = Needs(Prepared(s.name, p[s.name]), s)
             /\ new[s] \subseteq Reg
  <2>1. s.name = n /\ s.block \in fn.blocks BY SafepointType
  <2>2. liveOut[s.block] = MustLive(fn, s.block)
    <3>1. MustLive(fn, s.block) \subseteq liveOut[s.block] BY <1>8, <2>1, MustBelow
    <3>2. liveOut[s.block] \subseteq MustLive(fn, s.block)
      <4> DEFINE b == s.block
      <4>1. b \in fn.blocks BY <2>1
      <4> HIDE DEF b
      <4>2. liveOut[b] \subseteq MustLive(fn, b) BY <1>1, <1>2, <4>1, LeastMust
      <4> QED BY <4>2 DEF b
    <3> QED BY <3>1, <3>2
  <2>3. new[s] = LiveAcross(fn, s.block, s.at, liveOut[s.block]) OBVIOUS
  <2>4. new[s] = Needs(fn, s) BY <2>2, <2>3 DEF Needs
  <2>5. LiveAt(fn, s.block, s.at, liveOut[s.block]) \subseteq Reg BY <1>8, <2>1, LiveAtType
  <2>6. new[s] \subseteq Reg BY <2>3, <2>5 DEF LiveAcross
  <2> QED BY <1>6, <2>1, <2>4, <2>6
<1>10. DOMAIN new = Safepoint(n, Prepared(n, p[n])) BY <1>6
<1> HIDE DEF n, new
<1>11. LayerInv(p)'
  <2>1. \A m \in Name : CodeOf(p, m)' = CodeOf(p, m)
    BY <1>4, <1>5 DEF CodeOf
  <2> QED BY <1>1, <1>2, <1>3, <1>4, <1>7, <2>1 DEF CodeInvOf, LayerInv
<1>12. IdsInv(p)'
  BY <1>1, <1>4, <1>5 DEF CodeInvOf, IdsInv
<1>13. TablesInv(p)'
  <2>1. /\ DOMAIN live' = DOMAIN live \cup DOMAIN new
        /\ \A s \in DOMAIN live : live'[s] = live[s]
        /\ \A s \in DOMAIN new \ DOMAIN live : live'[s] = new[s]
    BY <1>1 DEF Emplace
  <2>2. DOMAIN live = UNION {Safepoint(m, Prepared(m, p[m])) : m \in Compiled \cup Covered}
    BY DEF CodeInvOf, TablesInv
  <2>3. DOMAIN live' = UNION {Safepoint(m, Prepared(m, p[m])) : m \in (Compiled \cup Covered)'}
    BY <1>4, <1>5, <1>10, <2>1, <2>2
  <2>4. ASSUME NEW s \in DOMAIN live'
        PROVE  live'[s] = Needs(Prepared(s.name, p[s.name]), s) /\ live'[s] \subseteq Reg
    <3>1. CASE s \in DOMAIN live BY <2>1, <3>1 DEF CodeInvOf, TablesInv
    <3>2. CASE s \notin DOMAIN live
      <4>1. s \in DOMAIN new /\ live'[s] = new[s] BY <2>1, <3>2
      <4> QED BY <1>6, <1>9, <1>10, <4>1
    <3> QED BY <3>1, <3>2
  <2> QED BY <1>1, <1>4, <2>3, <2>4 DEF CodeInvOf, TablesInv
<1> QED BY <1>11, <1>12, <1>13 DEF CodeInvOf

LEMMA PlaceCode ==
    ASSUME NEW p \in Programs, CodeInvOf(p), Place
    PROVE  CodeInvOf(p)'
<1> DEFINE n == Head(queue)
           f == Pruned(code[n])
           id == Numbered(Safepoint(n, f), nextId)
           sizes == [k \in {id[s] : s \in {t \in DOMAIN id : IsStub(Ins(f, t))}} |->
                        Ins(f, CHOOSE s \in DOMAIN id : id[s] = k).size]
           table == [m \in {n} |-> Range(id)]
<1>1. /\ pass = "place" /\ queue # <<>>
      /\ code' = [code EXCEPT ![n] = f]
      /\ ids' = Emplace(ids, id)
      /\ nextId' = nextId + Cardinality(DOMAIN id)
      /\ safepoints' = Emplace(safepoints, table)
      /\ patchpoints' = Emplace(patchpoints, sizes)
      /\ queue' = Tail(queue)
      /\ UNCHANGED livenessVars /\ live' = live /\ finalized' = finalized /\ pass' = pass
      /\ statepoint' = statepoint /\ patchpoint' = patchpoint /\ target' = target
  <2>1. PICK m \in {Head(queue)} : \E g \in {Pruned(code[m])} :
           \E new \in {Numbered(Safepoint(m, g), nextId)} :
             /\ code' = [code EXCEPT ![m] = g]
             /\ ids' = Emplace(ids, new)
             /\ nextId' = nextId + Cardinality(DOMAIN new)
             /\ safepoints' = Emplace(safepoints, [l \in {m} |-> Range(new)])
             /\ patchpoints' = Emplace(patchpoints,
                   [k \in {new[s] : s \in {t \in DOMAIN new : IsStub(Ins(g, t))}} |->
                       Ins(g, CHOOSE s \in DOMAIN new : new[s] = k).size])
    BY DEF Place, FirstId
  <2>2. m = n BY <2>1
  <2>3. /\ pass = "place" /\ queue # <<>> /\ queue' = Tail(queue)
        /\ UNCHANGED livenessVars /\ live' = live /\ finalized' = finalized /\ pass' = pass
        /\ statepoint' = statepoint /\ patchpoint' = patchpoint /\ target' = target
    BY DEF Place, tableVars
  <2> QED BY <2>1, <2>2, <2>3
<1> HIDE DEF f, id, sizes, table
<1>2. /\ n \in Rest /\ n \in Module /\ n \in Name /\ n \notin Compiled
      /\ Tail(queue) \in Seq(Name)
      /\ {Tail(queue)[k] : k \in DOMAIN Tail(queue)} = Rest \ {n}
      /\ \A i, j \in DOMAIN Tail(queue) : Tail(queue)[i] = Tail(queue)[j] => i = j
      /\ Rest \subseteq Module /\ Module \cap Compiled = {}
  BY <1>1, HeadOfQueue
<1>3. fn = None /\ fn' = None /\ LivenessInv
  BY <1>1 DEF livenessVars, CodeInvOf, LayerInv
<1>4. Compiled' = Compiled /\ Module' = Module /\ Rest' = Rest \ {n}
  <2>1. finalized' = finalized /\ queue' = Tail(queue) BY <1>1
  <2>2. Compiled' = Compiled /\ Module' = Module BY <2>1 DEF Compiled, Module
  <2>3. Rest' = {Tail(queue)[k] : k \in DOMAIN Tail(queue)} BY <2>1 DEF Rest
  <2> QED BY <1>2, <2>2, <2>3
<1>5. /\ Placed = Module \ Rest /\ Placed' = Placed \cup {n} /\ n \notin Placed
      /\ Covered = {} /\ Covered' = {} /\ Folded = {} /\ Folded' = {}
  BY <1>1, <1>2, <1>3, <1>4 DEF Placed, Covered, Folded
<1>6. DOMAIN code = Name /\ \A m \in Name : code[m] = CodeOf(p, m)
  BY DEF CodeInvOf, LayerInv
<1>7. code[n] = p[n] /\ f = Pruned(p[n])
  BY <1>2, <1>5, <1>6 DEF CodeOf, f
<1>8. nextId \in Nat BY DEF CodeInvOf, IdsInv
<1> USE DEF f, id, sizes, table
<1> DEFINE S == Safepoint(n, f)
<1>9. IsFiniteSet(S) /\ S \subseteq [name : {n}, block : Nat, at : Nat]
  BY <1>2, <1>7, ProgramType
<1>10. /\ DOMAIN id = S
       /\ \A s \in S : id[s] \in Nat /\ nextId < id[s] /\ id[s] <= nextId + Cardinality(S)
       /\ \A s, t \in S : id[s] = id[t] => s = t
  BY <1>8, <1>9, NumberedProperties
<1>11. Cardinality(S) \in Nat BY <1>9, FS_CardinalityType
<1>12. Range(id) = {id[s] : s \in S} BY <1>10 DEF Range
<1>13. \A s \in S : IsStub(Ins(f, s)) => id[s] \in DOMAIN sizes /\ sizes[id[s]] = Ins(f, s).size
  <2> SUFFICES ASSUME NEW s \in S, IsStub(Ins(f, s))
               PROVE  id[s] \in DOMAIN sizes /\ sizes[id[s]] = Ins(f, s).size
    OBVIOUS
  <2>1. (CHOOSE t \in DOMAIN id : id[t] = id[s]) = s BY <1>10
  <2>2. id[s] \in DOMAIN sizes BY <1>10
  <2>3. sizes[id[s]] = Ins(f, CHOOSE t \in DOMAIN id : id[t] = id[s]).size BY <2>2
  <2> QED BY <2>1, <2>2, <2>3
<1>14. DOMAIN sizes = {id[s] : s \in {t \in S : IsStub(Ins(f, t))}} BY <1>10
<1>15. \A s \in S : s.name = n BY SafepointType
<1>16. DOMAIN table = {n} /\ table[n] = {id[s] : s \in S} BY <1>12
<1> HIDE DEF n, f, id, sizes, S, table
<1>17. LayerInv(p)'
  <2>1. DOMAIN code' = Name BY <1>1, <1>6
  <2>2. \A m \in Name : CodeOf(p, m)' = code'[m]
    <3> SUFFICES ASSUME NEW m \in Name PROVE CodeOf(p, m)' = code'[m]
      OBVIOUS
    <3>1. CASE m = n
      <4>1. code'[m] = Pruned(p[m]) BY <1>1, <1>2, <1>6, <1>7, <3>1
      <4> QED BY <1>2, <1>4, <1>5, <3>1, <4>1 DEF CodeOf
    <3>2. CASE m # n BY <1>1, <1>4, <1>5, <1>6, <3>2 DEF CodeOf
    <3> QED BY <3>1, <3>2
  <2>3. LivenessInv' BY <1>1, <1>3, LivenessStutter
  <2>4. finalized \in 0..Len(Modules) /\ finalized < Len(Modules) BY <1>1 DEF CodeInvOf, LayerInv
  <2> QED BY <1>1, <1>2, <1>3, <1>4, <2>1, <2>2, <2>3, <2>4 DEF LayerInv
<1>18. /\ DOMAIN ids = UNION {Safepoint(m, Pruned(p[m])) : m \in Compiled \cup Placed}
       /\ \A s \in DOMAIN ids : ids[s] \in Nat /\ ids[s] <= nextId
       /\ \A s, t \in DOMAIN ids : ids[s] = ids[t] => s = t
       /\ DOMAIN safepoints = Placed
       /\ \A m \in Placed : safepoints[m] = {ids[s] : s \in Safepoint(m, Pruned(p[m]))}
       /\ DOMAIN patchpoints =
             {ids[s] : s \in {t \in DOMAIN ids : t.name \in Placed /\ IsStub(Ins(Pruned(p[t.name]), t))}}
       /\ \A s \in DOMAIN ids : ids[s] \in DOMAIN patchpoints =>
             patchpoints[ids[s]] = Ins(Pruned(p[s.name]), s).size
  BY DEF CodeInvOf, IdsInv
<1>19. \A s \in DOMAIN ids : s.name \in Compiled \cup Placed /\ s \notin S
  <2> SUFFICES ASSUME NEW m \in Compiled \cup Placed, NEW s \in Safepoint(m, Pruned(p[m]))
               PROVE  s.name = m /\ s \notin S
    BY <1>18
  <2>1. s.name = m BY SafepointType
  <2> QED BY <1>2, <1>5, <1>15, <2>1
<1>20. /\ DOMAIN ids' = DOMAIN ids \cup S
       /\ \A s \in DOMAIN ids : ids'[s] = ids[s]
       /\ \A s \in S : ids'[s] = id[s]
  BY <1>1, <1>10, <1>19 DEF Emplace
<1>21. nextId' = nextId + Cardinality(S) BY <1>1, <1>10
<1>22. \A s \in DOMAIN ids' : ids'[s] \in Nat /\ ids'[s] <= nextId'
  BY <1>8, <1>10, <1>11, <1>18, <1>20, <1>21
<1>23. ASSUME NEW s \in DOMAIN ids', NEW t \in DOMAIN ids', ids'[s] = ids'[t]
       PROVE  s = t
  <2>1. \A u \in DOMAIN ids, v \in S : ids[u] # id[v] BY <1>8, <1>10, <1>18
  <2> QED BY <1>10, <1>18, <1>20, <1>23, <2>1
<1>24. DOMAIN ids' = UNION {Safepoint(m, Pruned(p[m])) : m \in (Compiled \cup Placed)'}
  <2>1. S = Safepoint(n, Pruned(p[n])) BY <1>7 DEF S
  <2> QED BY <1>4, <1>5, <1>18, <1>20, <2>1
<1>25. DOMAIN safepoints' = Placed' BY <1>1, <1>5, <1>16, <1>18 DEF Emplace
<1>26. ASSUME NEW m \in Placed'
       PROVE  safepoints'[m] = {ids'[s] : s \in Safepoint(m, Pruned(p[m]))}
  <2>1. CASE m = n
    <3>1. safepoints'[m] = table[n] BY <1>1, <1>5, <1>16, <1>18, <2>1 DEF Emplace
    <3>2. S = Safepoint(m, Pruned(p[m])) BY <1>7, <2>1 DEF S
    <3> QED BY <1>16, <1>20, <3>1, <3>2
  <2>2. CASE m # n
    <3>1. m \in Placed BY <1>5, <2>2
    <3>2. safepoints'[m] = safepoints[m] BY <1>1, <1>18, <3>1 DEF Emplace
    <3>3. Safepoint(m, Pruned(p[m])) \subseteq DOMAIN ids BY <1>18, <3>1
    <3> QED BY <1>18, <1>20, <3>1, <3>2, <3>3
  <2> QED BY <2>1, <2>2
<1>27. DOMAIN patchpoints' = DOMAIN patchpoints \cup DOMAIN sizes BY <1>1 DEF Emplace
<1>28. /\ \A k \in DOMAIN patchpoints : k <= nextId /\ k \in Nat
       /\ \A k \in DOMAIN sizes : nextId < k /\ k \in Nat
  BY <1>10, <1>14, <1>18
<1>29. DOMAIN patchpoints' =
          {ids'[s] : s \in {t \in DOMAIN ids' : t.name \in Placed' /\ IsStub(Ins(Pruned(p[t.name]), t))}}
  <2>1. \A t \in DOMAIN ids : t.name \in Placed' <=> t.name \in Placed
    BY <1>2, <1>5, <1>19
  <2>2. \A t \in S : t.name \in Placed' /\ Pruned(p[t.name]) = f BY <1>5, <1>7, <1>15
  <2>3. \A k \in DOMAIN patchpoints : \E t \in DOMAIN ids' :
           /\ k = ids'[t] /\ t.name \in Placed' /\ IsStub(Ins(Pruned(p[t.name]), t))
    BY <1>18, <1>20, <2>1
  <2>4. \A k \in DOMAIN sizes : \E t \in DOMAIN ids' :
           /\ k = ids'[t] /\ t.name \in Placed' /\ IsStub(Ins(Pruned(p[t.name]), t))
    BY <1>14, <1>20, <2>2
  <2>5. ASSUME NEW t \in DOMAIN ids', t.name \in Placed', IsStub(Ins(Pruned(p[t.name]), t))
        PROVE  ids'[t] \in DOMAIN patchpoints'
    <3>1. CASE t \in S BY <1>13, <1>20, <1>27, <2>2, <2>5, <3>1
    <3>2. CASE t \in DOMAIN ids BY <1>18, <1>20, <1>27, <2>1, <2>5, <3>2
    <3> QED BY <1>20, <3>1, <3>2
  <2> QED BY <1>27, <2>3, <2>4, <2>5
<1>30. ASSUME NEW s \in DOMAIN ids', ids'[s] \in DOMAIN patchpoints'
       PROVE  patchpoints'[ids'[s]] = Ins(Pruned(p[s.name]), s).size
  <2>1. CASE s \in DOMAIN ids
    <3>1. ids'[s] = ids[s] /\ ids[s] \in DOMAIN patchpoints BY <1>8, <1>18, <1>20, <1>27, <1>28, <1>30, <2>1
    <3> QED BY <1>1, <1>18, <2>1, <3>1 DEF Emplace
  <2>2. CASE s \in S
    <3>1. ids'[s] = id[s] /\ id[s] \in DOMAIN sizes /\ id[s] \notin DOMAIN patchpoints
      BY <1>8, <1>10, <1>20, <1>27, <1>28, <1>30, <2>2
    <3>2. patchpoints'[id[s]] = sizes[id[s]] BY <1>1, <3>1 DEF Emplace
    <3>3. IsStub(Ins(f, s)) BY <1>10, <1>14, <2>2, <3>1
    <3>4. Pruned(p[s.name]) = f BY <1>7, <1>15, <2>2
    <3> QED BY <1>13, <2>2, <3>1, <3>2, <3>3, <3>4
  <2> QED BY <1>20, <2>1, <2>2
<1>31. IdsInv(p)'
  <2>1. nextId' \in Nat BY <1>8, <1>11, <1>21
  <2> QED BY <1>22, <1>23, <1>24, <1>25, <1>26, <1>29, <1>30, <2>1 DEF IdsInv
<1>32. TablesInv(p)'
  <2>1. \A s \in DOMAIN statepoint : s \in DOMAIN ids
    <3> SUFFICES ASSUME NEW m \in Compiled, NEW s \in Safepoint(m, Prepared(m, p[m]))
                 PROVE  s \in DOMAIN ids
      BY DEF CodeInvOf, TablesInv
    <3>1. m \in Name BY ModuleNames, <1>1 DEF CodeInvOf, LayerInv
    <3>2. s \in Safepoint(m, Pruned(p[m])) BY <3>1, ProgramType
    <3> QED BY <1>18, <3>2
  <2>2. \A s \in DOMAIN statepoint : ids'[s] = ids[s] BY <1>20, <2>1
  <2>3. {ids'[s] : s \in DOMAIN statepoint} = {ids[s] : s \in DOMAIN statepoint} BY <2>2
  <2> QED BY <1>1, <1>4, <1>5, <2>2, <2>3 DEF CodeInvOf, TablesInv
<1> QED BY <1>17, <1>31, <1>32 DEF CodeInvOf

LEMMA EmitCode ==
    ASSUME NEW p \in Programs, CodeInvOf(p), Emit
    PROVE  CodeInvOf(p)'
<1> DEFINE records == {s \in DOMAIN live : s.name \in Module}
           Owner(k) == CHOOSE n \in DOMAIN safepoints : k \in safepoints[n]
           Address(s) == [s EXCEPT !.name = Owner(ids[s])]
           stubs == {s \in records : ids[s] \in DOMAIN patchpoints}
           new == [k \in {ids[s] : s \in stubs} |-> Address(CHOOSE s \in stubs : ids[s] = k)]
           recorded == Emplace(patchpoint, new)
           sites == {recorded[k] : k \in DOMAIN patchpoints}
           points == [a \in {Address(s) : s \in records} |-> live[CHOOSE s \in records : Address(s) = a]]
           sizes == [a \in sites |-> patchpoints[CHOOSE k \in DOMAIN patchpoints : recorded[k] = a]]
<1>1. /\ pass = "rewrite" /\ queue = <<>> /\ pass' = "none" /\ finalized' = finalized + 1
      /\ safepoints' = <<>> /\ patchpoints' = <<>>
      /\ UNCHANGED livenessVars /\ code' = code /\ ids' = ids /\ live' = live /\ nextId' = nextId
  BY DEF Emit, irVars
<1>2. /\ statepoint' = Emplace(statepoint, points)
      /\ patchpoint' = recorded
      /\ target' = Emplace(sizes, target)
  BY DEF Emit, Module
<1> HIDE DEF records, Address, stubs, new, recorded, sites, points, sizes
<1>3. fn = None /\ fn' = None /\ finalized \in Nat /\ finalized < Len(Modules) /\ LivenessInv
  BY <1>1 DEF livenessVars, CodeInvOf, LayerInv
<1>4. Module \subseteq Name /\ Module \cap Compiled = {} /\ Compiled \subseteq Name
  BY <1>3, ModuleNames
<1>5. Compiled' = Compiled \cup Module
  <2>1. 1..(finalized + 1) = (1..finalized) \cup {finalized + 1} BY <1>3
  <2> QED BY <1>1, <2>1 DEF Compiled, Module
<1>6. /\ Rest = {} /\ Covered = Module /\ Placed = Module /\ Folded = Module
      /\ Placed' = {} /\ Covered' = {} /\ Folded' = {}
  BY <1>1, <1>3 DEF Rest, Covered, Placed, Folded
<1>7. \A m \in Compiled \cup Module : Safepoint(m, Prepared(m, p[m])) = Safepoint(m, Pruned(p[m]))
  BY <1>4, ProgramType
<1>8. /\ nextId \in Nat
      /\ DOMAIN ids = UNION {Safepoint(m, Prepared(m, p[m])) : m \in Compiled \cup Module}
      /\ \A s \in DOMAIN ids : ids[s] \in Nat /\ ids[s] <= nextId
      /\ \A s, t \in DOMAIN ids : ids[s] = ids[t] => s = t
      /\ DOMAIN safepoints = Module
      /\ \A m \in Module : safepoints[m] = {ids[s] : s \in Safepoint(m, Prepared(m, p[m]))}
      /\ DOMAIN patchpoints =
            {ids[s] : s \in {t \in DOMAIN ids : t.name \in Module /\ IsStub(Ins(Pruned(p[t.name]), t))}}
      /\ \A s \in DOMAIN ids : ids[s] \in DOMAIN patchpoints =>
            patchpoints[ids[s]] = Ins(Pruned(p[s.name]), s).size
  BY <1>6, <1>7 DEF CodeInvOf, IdsInv
<1>9. DOMAIN live = DOMAIN ids
  BY <1>6, <1>8 DEF CodeInvOf, TablesInv
<1>10. ASSUME NEW s \in DOMAIN ids
       PROVE  /\ s.name \in Compiled \cup Module /\ s \in Safepoint(s.name, Prepared(s.name, p[s.name]))
              /\ s = Site(s.name, s.block, s.at)
  <2>1. PICK m \in Compiled \cup Module : s \in Safepoint(m, Prepared(m, p[m])) BY <1>8
  <2>2. s.name = m /\ s = Site(m, s.block, s.at) BY <2>1, SafepointType
  <2> QED BY <2>1, <2>2
<1>11. ASSUME NEW s \in records
       PROVE  s \in DOMAIN ids /\ s.name \in Module /\ Address(s) = s
  <2>1. s \in DOMAIN ids /\ s.name \in Module BY <1>9 DEF records
  <2>2. ids[s] \in safepoints[s.name] BY <1>8, <1>10, <2>1
  <2>3. ASSUME NEW m \in Module, ids[s] \in safepoints[m]
        PROVE  m = s.name
    <3>1. PICK t \in Safepoint(m, Prepared(m, p[m])) : ids[s] = ids[t] BY <1>8, <2>3
    <3>2. t \in DOMAIN ids /\ t.name = m BY <1>8, <3>1, SafepointType
    <3> QED BY <1>8, <2>1, <3>1, <3>2
  <2>4. Owner(ids[s]) = s.name BY <1>8, <2>1, <2>2, <2>3
  <2>5. [s EXCEPT !.name = s.name] = s BY <1>10, <2>1 DEF Site
  <2> QED BY <2>1, <2>4, <2>5 DEF Address
<1>12. \A s \in DOMAIN ids : s \in records <=> s.name \in Module BY <1>9 DEF records
<1>13. /\ DOMAIN points = records
       /\ \A s \in records : points[s] = live[s]
  <2>1. {Address(s) : s \in records} = records BY <1>11
  <2>2. \A a \in records : (CHOOSE s \in records : Address(s) = a) = a BY <1>11
  <2> QED BY <2>1, <2>2 DEF points
<1>14. DOMAIN statepoint = UNION {Safepoint(m, Prepared(m, p[m])) : m \in Compiled}
  BY DEF CodeInvOf, TablesInv
<1>15. \A s \in DOMAIN statepoint : s \in DOMAIN ids /\ s.name \in Compiled /\ s \notin records
  <2> SUFFICES ASSUME NEW m \in Compiled, NEW s \in Safepoint(m, Prepared(m, p[m]))
               PROVE  s \in DOMAIN ids /\ s.name = m /\ s \notin records
    BY <1>14
  <2>1. s.name = m BY SafepointType
  <2> QED BY <1>4, <1>8, <1>11, <2>1
<1>16. /\ DOMAIN statepoint' = DOMAIN statepoint \cup records
       /\ \A s \in DOMAIN statepoint : statepoint'[s] = statepoint[s]
       /\ \A s \in records : statepoint'[s] = live[s]
  BY <1>2, <1>13, <1>15 DEF Emplace
<1>17. DOMAIN statepoint' = DOMAIN ids
  <2>1. records \subseteq DOMAIN ids BY <1>11
  <2>2. \A s \in DOMAIN ids : s.name \in Compiled => s \in DOMAIN statepoint
    BY <1>10, <1>14
  <2> QED BY <1>10, <1>12, <1>15, <1>16, <2>1, <2>2
<1>18. \A s \in DOMAIN statepoint' :
          statepoint'[s] = Needs(Prepared(s.name, p[s.name]), s) /\ statepoint'[s] \subseteq Reg
  <2>1. \A s \in DOMAIN live : live[s] = Needs(Prepared(s.name, p[s.name]), s) /\ live[s] \subseteq Reg
    BY DEF CodeInvOf, TablesInv
  <2>2. \A s \in DOMAIN statepoint :
          statepoint[s] = Needs(Prepared(s.name, p[s.name]), s) /\ statepoint[s] \subseteq Reg
    BY DEF CodeInvOf, TablesInv
  <2>3. records \subseteq DOMAIN live BY DEF records
  <2> QED BY <1>16, <2>1, <2>2, <2>3
\* The stubs of the module.
<1>19. stubs = {s \in DOMAIN ids : ids[s] \in DOMAIN patchpoints}
  <2>1. ASSUME NEW s \in DOMAIN ids, ids[s] \in DOMAIN patchpoints
        PROVE  s \in records
    <3>1. PICK t \in DOMAIN ids : ids[s] = ids[t] /\ t.name \in Module BY <1>8, <2>1
    <3> QED BY <1>8, <1>12, <3>1
  <2> QED BY <1>11, <2>1 DEF stubs
<1>20. /\ DOMAIN new = DOMAIN patchpoints
       /\ \A s \in stubs : new[ids[s]] = s
  <2>1. {ids[s] : s \in stubs} = DOMAIN patchpoints BY <1>8, <1>19
  <2>2. ASSUME NEW s \in stubs
        PROVE  (CHOOSE t \in stubs : ids[t] = ids[s]) = s /\ s \in records
    BY <1>8, <1>19 DEF stubs
  <2> QED BY <1>11, <2>1, <2>2 DEF new
<1>21. DOMAIN patchpoint \cap DOMAIN patchpoints = {}
  <2> SUFFICES ASSUME NEW k \in DOMAIN patchpoint, k \in DOMAIN patchpoints
               PROVE  FALSE
    OBVIOUS
  <2>1. PICK s \in DOMAIN statepoint : ids[s] = k BY DEF CodeInvOf, TablesInv
  <2>2. s \in stubs BY <1>15, <1>19, <2>1
  <2> QED BY <1>15, <2>1, <2>2 DEF stubs
<1>22. /\ DOMAIN recorded = DOMAIN patchpoint \cup DOMAIN patchpoints
       /\ \A k \in DOMAIN patchpoint : recorded[k] = patchpoint[k]
       /\ \A s \in stubs : recorded[ids[s]] = s
  <2>1. \A s \in stubs : ids[s] \in DOMAIN patchpoints /\ ids[s] \notin DOMAIN patchpoint
    BY <1>19, <1>21
  <2> QED BY <1>20, <2>1 DEF recorded, Emplace
<1>23. sites = stubs
  <2>1. \A k \in DOMAIN patchpoints : \E s \in stubs : k = ids[s] BY <1>8, <1>19
  <2> QED BY <1>19, <1>22, <2>1 DEF sites
<1>24. /\ DOMAIN sizes = stubs
       /\ \A s \in stubs : sizes[s] = patchpoints[ids[s]]
  <2>1. ASSUME NEW s \in stubs
        PROVE  (CHOOSE k \in DOMAIN patchpoints : recorded[k] = s) = ids[s]
    <3>1. \A k \in DOMAIN patchpoints : \E t \in stubs : k = ids[t] BY <1>8, <1>19
    <3>2. ids[s] \in DOMAIN patchpoints /\ recorded[ids[s]] = s BY <1>19, <1>22
    <3>3. \A k \in DOMAIN patchpoints : recorded[k] = s => k = ids[s] BY <1>22, <3>1
    <3> QED BY <3>2, <3>3
  <2> QED BY <1>23, <2>1 DEF sizes
<1>25. ASSUME NEW s \in DOMAIN statepoint', IsStub(Ins(Prepared(s.name, p[s.name]), s))
       PROVE  /\ ids[s] \in DOMAIN patchpoint' /\ patchpoint'[ids[s]] = s
              /\ s \in DOMAIN target' /\ target'[s] = Ins(Prepared(s.name, p[s.name]), s).size
  <2>1. s \in DOMAIN ids BY <1>17
  <2>2. CASE s \in DOMAIN statepoint
    <3>1. /\ ids[s] \in DOMAIN patchpoint /\ patchpoint[ids[s]] = s
          /\ s \in DOMAIN target /\ target[s] = Ins(Prepared(s.name, p[s.name]), s).size
      BY <1>25, <2>2 DEF CodeInvOf, TablesInv
    <3>2. s \notin stubs BY <1>15, <2>2 DEF stubs
    <3> QED BY <1>2, <1>22, <1>24, <3>1, <3>2 DEF Emplace
  <2>3. CASE s \in records
    <3>1. s.name \in Module /\ s.name \in Name BY <1>4, <1>11, <2>3
    <3>2. s \in Safepoint(s.name, Pruned(p[s.name])) BY <1>7, <1>10, <2>1, <3>1
    <3>3. /\ IsStub(Ins(Pruned(p[s.name]), s))
          /\ Ins(Pruned(p[s.name]), s).size = Ins(Prepared(s.name, p[s.name]), s).size
      BY <1>25, <3>1, <3>2, ProgramType
    <3>4. s \in stubs /\ ids[s] \in DOMAIN patchpoints BY <1>8, <1>19, <2>1, <3>1, <3>3
    <3>5. patchpoint'[ids[s]] = s /\ ids[s] \in DOMAIN patchpoint' BY <1>2, <1>22, <3>4
    <3>6. s \in DOMAIN target' /\ target'[s] = patchpoints[ids[s]] BY <1>2, <1>24, <3>4 DEF Emplace
    <3> QED BY <1>8, <2>1, <3>3, <3>4, <3>5, <3>6
  <2> QED BY <1>16, <2>2, <2>3
<1>26. DOMAIN patchpoint' \subseteq {ids[s] : s \in DOMAIN statepoint'}
  <2>1. DOMAIN patchpoint \subseteq {ids[s] : s \in DOMAIN statepoint} BY DEF CodeInvOf, TablesInv
  <2>2. DOMAIN patchpoints \subseteq {ids[s] : s \in DOMAIN ids} BY <1>8
  <2> QED BY <1>2, <1>16, <1>17, <1>22, <2>1, <2>2
<1>27. LayerInv(p)'
  <2>1. LivenessInv' BY <1>1, <1>3, LivenessStutter
  <2>2. \A m \in Name : CodeOf(p, m)' = CodeOf(p, m)
    BY <1>5, <1>6 DEF CodeOf
  <2>3. finalized' \in 0..Len(Modules) BY <1>1, <1>3, ModulesAssumption
  <2> QED BY <1>1, <1>3, <2>1, <2>2, <2>3 DEF CodeInvOf, LayerInv
<1>28. IdsInv(p)'
  <2>1. DOMAIN ids' = UNION {Safepoint(m, Pruned(p[m])) : m \in (Compiled \cup Placed)'}
    BY <1>1, <1>5, <1>6, <1>7, <1>8
  <2>2. DOMAIN safepoints' = {} /\ DOMAIN patchpoints' = {} BY <1>1
  <2>3. DOMAIN patchpoints' = {ids'[s] : s \in {t \in DOMAIN ids' :
                                  t.name \in Placed' /\ IsStub(Ins(Pruned(p[t.name]), t))}}
    BY <1>6, <2>2
  <2>4. DOMAIN safepoints' = Placed'
        /\ \A m \in Placed' : safepoints'[m] = {ids'[s] : s \in Safepoint(m, Pruned(p[m]))}
    BY <1>6, <2>2
  <2>5. \A s \in DOMAIN ids' : ids'[s] \notin DOMAIN patchpoints' BY <2>2
  <2>6. /\ nextId' \in Nat
        /\ \A s \in DOMAIN ids' : ids'[s] \in Nat /\ ids'[s] <= nextId'
        /\ \A s, t \in DOMAIN ids' : ids'[s] = ids'[t] => s = t
    BY <1>1, <1>8
  <2> QED BY <2>1, <2>3, <2>4, <2>5, <2>6 DEF IdsInv
<1>29. TablesInv(p)'
  <2>1. DOMAIN live' = UNION {Safepoint(m, Prepared(m, p[m])) : m \in (Compiled \cup Covered)'}
    BY <1>1, <1>5, <1>6, <1>8, <1>9
  <2>2. \A s \in DOMAIN live' : live'[s] = Needs(Prepared(s.name, p[s.name]), s) /\ live'[s] \subseteq Reg
    BY <1>1 DEF CodeInvOf, TablesInv
  <2>3. DOMAIN statepoint' = UNION {Safepoint(m, Prepared(m, p[m])) : m \in Compiled'}
    BY <1>5, <1>8, <1>17
  <2> QED BY <1>1, <1>18, <1>25, <1>26, <2>1, <2>2, <2>3 DEF TablesInv
<1> QED BY <1>27, <1>28, <1>29 DEF CodeInvOf

\* The invariant of the layer holds.
LEMMA InitCode ==
    ASSUME NEW p \in Programs, Init, code = p
    PROVE  CodeInvOf(p)
<1>1. /\ fn = None /\ worklist = {} /\ finalized = 0 /\ pass = "none" /\ nextId = 2
      /\ ids = <<>> /\ safepoints = <<>> /\ patchpoints = <<>> /\ live = <<>>
      /\ statepoint = <<>> /\ patchpoint = <<>> /\ target = <<>>
  BY DEF Init, LivenessInit
<1>2. Compiled = {} /\ Placed = {} /\ Covered = {} /\ Folded = {}
  BY <1>1 DEF Compiled, Placed, Covered, Folded
<1>3. LayerInv(p)
  <2>1. DOMAIN code = Name BY ProgramsAssumption
  <2>2. Len(Modules) \in Nat BY ModulesAssumption
  <2> QED BY <1>1, <1>2, <2>1, <2>2 DEF LayerInv, CodeOf, LivenessInv
<1>4. DOMAIN ids = {} /\ DOMAIN safepoints = {} /\ DOMAIN patchpoints = {} /\ DOMAIN live = {}
      /\ DOMAIN statepoint = {} /\ DOMAIN patchpoint = {}
  BY <1>1
<1>5. IdsInv(p) BY <1>1, <1>2, <1>4 DEF IdsInv
<1>6. TablesInv(p) BY <1>2, <1>4 DEF TablesInv
<1> QED BY <1>3, <1>5, <1>6 DEF CodeInvOf

LEMMA RunStays == Run => CodeStays
BY DEF Run, Enter, Execute, Call, Resume, Jump, Return, Unwind, Collect

LEMMA StutterCode == UNCHANGED vars => CodeStays
BY DEF vars, CodeStays, irVars, layerVars, tableVars

LEMMA NextCode ==
    ASSUME NEW p \in Programs, CodeInvOf(p), [Next]_vars
    PROVE  CodeInvOf(p)'
<1>1. CASE Begin BY <1>1, BeginCode
<1>2. CASE Compile
  <2>1. CASE Place BY <2>1, PlaceCode
  <2>2. CASE Rewrite BY <2>2, RewriteCode
  <2>3. CASE Skip BY <2>3, SkipCode
  <2>4. CASE Analyse BY <2>4, AnalyseCode
  <2>5. CASE Propagate BY <2>5, PropagateCode
  <2>6. CASE InsertParsePoints BY <2>6, InsertCode
  <2>7. CASE Emit BY <2>7, EmitCode
  <2> QED BY <1>2, <2>1, <2>2, <2>3, <2>4, <2>5, <2>6, <2>7 DEF Compile
<1>3. CASE Run BY <1>3, RunStays, RunCode
<1>4. CASE UNCHANGED vars BY <1>4, StutterCode, RunCode
<1> QED BY <1>1, <1>2, <1>3, <1>4 DEF Next

\* What the activations and the properties need to know of a compiled function.
LEMMA CompiledCode ==
    ASSUME NEW p \in Programs, CodeInvOf(p), NEW n \in Compiled
    PROVE  /\ n \in Name /\ code[n] = Prepared(n, p[n])
           /\ code[n] \in Function /\ WellFormed(code[n])
           /\ \A s \in Safepoint(n, code[n]) :
                s \in DOMAIN statepoint /\ statepoint[s] = Needs(code[n], s)
           /\ \A s \in DOMAIN statepoint : s.name = n => s \in Safepoint(n, code[n])
<1>1. Compiled \subseteq Name
  <2>1. finalized \in Nat /\ finalized <= Len(Modules) BY ModulesAssumption DEF CodeInvOf, LayerInv
  <2>2. /\ DOMAIN Modules = 1..Len(Modules)
        /\ \A m \in DOMAIN Modules : Modules[m] \in Seq(Name)
    BY ModulesAssumption
  <2>3. \A m \in 1..finalized : m \in DOMAIN Modules BY <2>1, <2>2, ModulesAssumption
  <2>4. \A m \in DOMAIN Modules : \A k \in DOMAIN Modules[m] : Modules[m][k] \in Name BY <2>2
  <2> QED BY <2>3, <2>4 DEF Compiled
<1>2. code[n] = Prepared(n, p[n]) BY <1>1 DEF CodeInvOf, LayerInv, CodeOf
<1>3. code[n] \in Function /\ WellFormed(code[n]) BY <1>1, <1>2, ProgramType
<1>4. ASSUME NEW s \in Safepoint(n, code[n])
      PROVE  s \in DOMAIN statepoint /\ statepoint[s] = Needs(code[n], s)
  <2>1. s.name = n BY SafepointType
  <2>2. s \in DOMAIN statepoint BY <1>2 DEF CodeInvOf, TablesInv
  <2> QED BY <1>2, <2>1, <2>2 DEF CodeInvOf, TablesInv
<1>5. ASSUME NEW s \in DOMAIN statepoint, s.name = n
      PROVE  s \in Safepoint(n, code[n])
  <2>1. PICK m \in Compiled : s \in Safepoint(m, Prepared(m, p[m])) BY DEF CodeInvOf, TablesInv
  <2>2. m = n BY <1>5, <2>1, SafepointType
  <2> QED BY <1>2, <2>1, <2>2
<1> QED BY <1>1, <1>2, <1>3, <1>4, <1>5

-----------------------------------------------------------------------------
(* Activations *)

FrameType ==
    [name : Name, block : Block, at : Nat, busy : BOOLEAN, env : [Reg -> Obj \cup {None, Const}]]

\* The registers that are live where an activation is.
Live(frame) ==
    LiveAt(code[frame.name], frame.block, frame.at, MustLive(code[frame.name], frame.block))

\* An activation is at an instruction, which is a call if it waits for one, and
\* has set what is live.
InCode(frame) ==
    /\ frame.name \in Compiled
    /\ frame.block \in code[frame.name].blocks
    /\ frame.at \in 1..Len(code[frame.name].body[frame.block])
    /\ frame.busy => Collects(Next_(frame))
    /\ \A r \in Live(frame) : frame.env[r] # None

\* The registers whose objects it still needs.
Needed(frame) ==
    IF frame.busy /\ ~NeedsStatepoint(Next_(frame)) THEN {}
    ELSE Live(frame) \ IF frame.busy THEN {Next_(frame).dst} ELSE {}

FrameInv ==
    /\ frames \in Seq(FrameType)
    /\ freed \subseteq HeldBy(frames)
    /\ \A k \in DOMAIN frames : InCode(frames[k])
    /\ \A k \in 1..(Len(frames) - 1) : frames[k].busy
    /\ \A k \in DOMAIN frames : \A r \in Needed(frames[k]) : frames[k].env[r] \notin freed

\* The code of an activation is well formed, and its safepoints are recorded.
LEMMA FrameCode ==
    ASSUME NEW p \in Programs, CodeInvOf(p), NEW frame, InCode(frame)
    PROVE  LET f == code[frame.name] IN
           /\ f \in Function /\ WellFormed(f) /\ frame.block \in f.blocks
           /\ Len(f.body[frame.block]) \in Nat
           /\ DOMAIN f.body[frame.block] = 1..Len(f.body[frame.block])
           /\ Next_(frame) = f.body[frame.block][frame.at]
           /\ MustLive(f, frame.block) \subseteq Reg
           /\ NeedsStatepoint(Next_(frame)) => Where(frame) \in DOMAIN statepoint
           /\ Where(frame) \in DOMAIN statepoint =>
                 statepoint[Where(frame)] = LiveAcross(f, frame.block, frame.at, MustLive(f, frame.block))
<1> DEFINE f == code[frame.name]
           s == Where(frame)
<1>1. /\ f \in Function /\ WellFormed(f)
      /\ \A t \in Safepoint(frame.name, f) :
            t \in DOMAIN statepoint /\ statepoint[t] = Needs(f, t)
      /\ \A t \in DOMAIN statepoint : t.name = frame.name => t \in Safepoint(frame.name, f)
  BY CompiledCode DEF InCode
<1>2. /\ frame.block \in f.blocks /\ frame.at \in DOMAIN f.body[frame.block]
      /\ Len(f.body[frame.block]) \in Nat
      /\ DOMAIN f.body[frame.block] = 1..Len(f.body[frame.block])
  BY <1>1 DEF InCode, WellFormed
<1>3. s.name = frame.name /\ s.block = frame.block /\ s.at = frame.at BY DEF Where, Site
<1>4. Next_(frame) = f.body[frame.block][frame.at] BY <1>3 DEF Next_, Ins
<1>5. NeedsStatepoint(Next_(frame)) => s \in Safepoint(frame.name, f)
  BY <1>2, <1>3, <1>4 DEF Safepoint, Sites, Where, Ins
<1>6. MustLive(f, frame.block) \subseteq Reg BY DEF MustLive
<1>7. Needs(f, s) = LiveAcross(f, frame.block, frame.at, MustLive(f, frame.block)) BY <1>3 DEF Needs
<1> HIDE DEF s
<1>8. NeedsStatepoint(Next_(frame)) => s \in DOMAIN statepoint BY <1>1, <1>5
<1>9. s \in DOMAIN statepoint =>
        statepoint[s] = LiveAcross(f, frame.block, frame.at, MustLive(f, frame.block))
  BY <1>1, <1>3, <1>7
<1> QED BY <1>1, <1>2, <1>4, <1>6, <1>8, <1>9 DEF s

\* What an activation needs does not depend on anything else.
LEMMA SameCode ==
    ASSUME CodeStays
    PROVE  /\ code' = code /\ Compiled' = Compiled /\ statepoint' = statepoint
           /\ \A frame : InCode(frame)' <=> InCode(frame)
           /\ \A frame : Needed(frame)' = Needed(frame)
<1>1. code' = code /\ finalized' = finalized /\ statepoint' = statepoint
  BY DEF CodeStays, irVars, layerVars, tableVars
<1>2. Compiled' = Compiled BY <1>1 DEF Compiled
<1>3. ASSUME NEW frame PROVE (InCode(frame)' <=> InCode(frame)) /\ Needed(frame)' = Needed(frame)
  BY <1>1, <1>2 DEF InCode, Needed, Live, Next_
<1> QED BY <1>1, <1>2, <1>3

\* The innermost activation takes a step.
LEMMA TopStep ==
    ASSUME FrameInv, CodeStays, frames # <<>>, NEW x \in FrameType, InCode(x),
           \A r \in Needed(x) : x.env[r] \notin freed,
           Activate(Append(Front(frames), x))
    PROVE  FrameInv'
<1> DEFINE fs == Append(Front(frames), x)
<1>1. frames' = fs /\ freed' = freed \cap HeldBy(fs) BY DEF Activate
<1>2. /\ frames \in Seq(FrameType) /\ Len(frames) \in Nat \ {0} /\ DOMAIN frames = 1..Len(frames)
  BY EmptySeq DEF FrameInv
<1>3. /\ fs \in Seq(FrameType) /\ Len(fs) = Len(frames) /\ fs[Len(frames)] = x
      /\ \A k \in 1..(Len(frames) - 1) : fs[k] = frames[k]
  <2>1. Front(frames) \in Seq(FrameType) /\ Len(Front(frames)) = Len(frames) - 1
        /\ \A k \in 1..(Len(frames) - 1) : Front(frames)[k] = frames[k]
    BY <1>2 DEF Front
  <2> DEFINE g == Front(frames)
  <2>2. g \in Seq(FrameType) /\ Len(g) + 1 = Len(frames) BY <1>2, <2>1
  <2> HIDE DEF g
  <2>3. /\ Append(g, x) \in Seq(FrameType) /\ Len(Append(g, x)) = Len(g) + 1
        /\ Append(g, x)[Len(g) + 1] = x
        /\ \A k \in 1..Len(g) : Append(g, x)[k] = g[k]
    BY <2>2, AppendProperties
  <2>4. \A k \in 1..(Len(frames) - 1) : k \in 1..Len(g) BY <1>2, <2>1 DEF g
  <2> QED BY <2>1, <2>2, <2>3, <2>4 DEF g
<1>4. /\ \A frame : InCode(frame)' <=> InCode(frame)
      /\ \A frame : Needed(frame)' = Needed(frame)
  BY SameCode
<1> HIDE DEF fs
<1>5. \A k \in DOMAIN fs : k = Len(frames) \/ (k \in 1..(Len(frames) - 1) /\ k \in DOMAIN frames)
  BY <1>2, <1>3
<1>6. freed' \subseteq HeldBy(frames)' BY <1>1 DEF HeldBy
<1>7. \A k \in DOMAIN fs : InCode(fs[k]) BY <1>3, <1>5 DEF FrameInv
<1>8. \A k \in 1..(Len(fs) - 1) : fs[k].busy BY <1>3 DEF FrameInv
<1>9. \A k \in DOMAIN fs : \A r \in Needed(fs[k]) : fs[k].env[r] \notin freed
  BY <1>3, <1>5 DEF FrameInv
<1> QED BY <1>1, <1>3, <1>4, <1>6, <1>7, <1>8, <1>9 DEF FrameInv

\* Activations end.
LEMMA PopStep ==
    ASSUME FrameInv, CodeStays, NEW k \in 0..(Len(frames) - 1), Activate(SubSeq(frames, 1, k))
    PROVE  FrameInv'
<1> DEFINE fs == SubSeq(frames, 1, k)
<1>1. frames' = fs /\ freed' = freed \cap HeldBy(fs) BY DEF Activate
<1>2. frames \in Seq(FrameType) /\ Len(frames) \in Nat /\ DOMAIN frames = 1..Len(frames)
  BY DEF FrameInv
<1>3. fs \in Seq(FrameType) /\ Len(fs) = k /\ DOMAIN fs = 1..k /\ \A i \in 1..k : fs[i] = frames[i]
  BY <1>2
<1>4. /\ \A frame : InCode(frame)' <=> InCode(frame)
      /\ \A frame : Needed(frame)' = Needed(frame)
  BY SameCode
<1> HIDE DEF fs
<1>5. \A i \in 1..k : i \in DOMAIN frames BY <1>2
<1>6. \A i \in 1..(k - 1) : i \in 1..k /\ i \in 1..(Len(frames) - 1) BY <1>2
<1>7. freed' \subseteq HeldBy(frames)' BY <1>1 DEF HeldBy
<1>8. \A i \in DOMAIN fs : InCode(fs[i]) BY <1>3, <1>5 DEF FrameInv
<1>9. \A i \in 1..(Len(fs) - 1) : fs[i].busy BY <1>3, <1>6 DEF FrameInv
<1>10. \A i \in DOMAIN fs : \A r \in Needed(fs[i]) : fs[i].env[r] \notin freed
  BY <1>3, <1>5 DEF FrameInv
<1> QED BY <1>1, <1>3, <1>4, <1>7, <1>8, <1>9, <1>10 DEF FrameInv

\* The innermost activation, and the object that it gets.
LEMMA TopType ==
    ASSUME FrameInv, frames # <<>>
    PROVE  /\ Top \in FrameType /\ InCode(Top)
           /\ \A r \in Needed(Top) : Top.env[r] \notin freed
<1>1. Len(frames) \in DOMAIN frames /\ frames[Len(frames)] \in FrameType
  BY EmptySeq DEF FrameInv
<1> QED BY <1>1 DEF FrameInv, Top, Last

LEMMA NewType == CanAllocate => New \in Obj /\ New \notin HeldBy(frames) \cup freed
BY DEF CanAllocate, New

\* An instruction without a safepoint needs after it what it needed before.
LEMMA AfterStep ==
    ASSUME NEW p \in Programs, CodeInvOf(p), FrameInv, CodeStays, frames # <<>>, CanAllocate,
           Top.at < Len(code[Top.name].body[Top.block]),
           \A r \in LiveAt(code[Top.name], Top.block, Top.at + 1, MustLive(code[Top.name], Top.block)) :
               r # Next_(Top).dst => Top.env[r] \notin freed /\ Top.env[r] # None,
           Activate(Append(Front(frames), After(Top)))
    PROVE  FrameInv'
<1> DEFINE x == After(Top)
           f == code[Top.name]
<1>1. Top \in FrameType /\ InCode(Top) BY TopType
<1>2. New \in Obj /\ New \notin freed /\ New # None BY NewType, ObjAssumption
<1>3. /\ x.name = Top.name /\ x.block = Top.block /\ x.at = Top.at + 1 /\ x.busy = FALSE
      /\ x.env = [q \in Reg |-> IF q = Next_(Top).dst THEN New ELSE Top.env[q]]
      /\ x \in FrameType
  <2> DEFINE env == [q \in Reg |-> IF q = Next_(Top).dst THEN New ELSE Top.env[q]]
  <2>1. x = [Top EXCEPT !.at = Top.at + 1, !.busy = FALSE, !.env = env] BY DEF After
  <2>2. env \in [Reg -> Obj \cup {None, Const}] BY <1>1, <1>2 DEF FrameType
  <2> HIDE DEF x, env
  <2> DEFINE next == Top.at + 1
  <2>3. next \in Nat BY <1>1 DEF FrameType
  <2>4. x = [Top EXCEPT !.at = next, !.busy = FALSE, !.env = env] BY <2>1
  <2> HIDE DEF next
  <2>5. x.name = Top.name /\ x.block = Top.block /\ x.at = next /\ x.busy = FALSE /\ x.env = env
        /\ x \in FrameType
    BY <1>1, <2>2, <2>3, <2>4 DEF FrameType
  <2> QED BY <2>5 DEF env, next
<1>4. MustLive(f, Top.block) \subseteq Reg /\ Len(f.body[Top.block]) \in Nat BY <1>1, FrameCode
<1> HIDE DEF x
<1>5. InCode(x)
  <2>1. Live(x) = LiveAt(f, Top.block, Top.at + 1, MustLive(f, Top.block)) BY <1>3 DEF Live
  <2>2. \A r \in Live(x) : x.env[r] # None
    <3>1. Live(x) \subseteq Reg BY <1>4, <2>1, LiveAtType
    <3> QED BY <1>2, <1>3, <2>1, <3>1
  <2>3. x.at \in 1..Len(f.body[Top.block]) BY <1>1, <1>3, <1>4 DEF InCode, FrameType
  <2> QED BY <1>1, <1>3, <2>2, <2>3 DEF InCode
<1>6. Needed(x) \subseteq LiveAt(f, Top.block, Top.at + 1, MustLive(f, Top.block))
  BY <1>3 DEF Needed, Live
<1>7. ASSUME NEW r \in Needed(x) PROVE x.env[r] \notin freed
  <2>1. r \in Reg BY <1>4, <1>6, LiveAtType
  <2> QED BY <1>2, <1>3, <1>6, <2>1
<1> QED BY <1>3, <1>5, <1>7, TopStep DEF x

LEMMA EnterFrames ==
    ASSUME NEW p \in Programs, CodeInvOf(p), FrameInv, NEW n \in Name, Enter(n)
    PROVE  FrameInv'
<1> DEFINE env == [r \in Reg |-> IF r = code[n].param THEN New ELSE None]
           x == [name |-> n, block |-> code[n].entry, at |-> 1, busy |-> FALSE, env |-> env]
           fs == Append(frames, x)
<1>1. /\ InRuntime /\ n \in Compiled /\ CanAllocate
      /\ frames' = fs /\ freed' = freed \cap HeldBy(fs)
      /\ CodeStays
  BY DEF Enter, Activate
<1>2. New \in Obj /\ New \notin freed /\ None \notin freed /\ New # None
  BY <1>1, NewType, ObjAssumption DEF FrameInv, HeldBy
<1>3. WellFormed(code[n]) /\ BasicSSA(code[n]) BY <1>1, CompiledCode, SSAAssumption
<1>4. /\ code[n].entry \in code[n].blocks /\ code[n].entry \in Block
      /\ 1 \in 1..Len(code[n].body[code[n].entry])
  BY <1>3 DEF WellFormed
<1>5. env \in [Reg -> Obj \cup {None, Const}] /\ \A r \in Reg : env[r] \notin freed BY <1>2
<1>17. \A r \in Reg : r = code[n].param => env[r] # None BY <1>2
<1> HIDE DEF env
<1>6. /\ x \in FrameType /\ x.name = n /\ x.block = code[n].entry /\ x.at = 1 /\ x.busy = FALSE
      /\ x.env = env
  BY <1>4, <1>5 DEF FrameType
<1> HIDE DEF x
<1>7. InCode(x)
  <2>1. Live(x) = LiveAt(code[n], code[n].entry, 1, MustLive(code[n], code[n].entry))
    BY <1>6 DEF Live
  <2>2. \A r \in Live(x) : r \in Reg /\ r = code[n].param
    BY <1>3, <2>1, LiveAtEntry, LiveAtType DEF MustLive
  <2> QED BY <1>1, <1>4, <1>6, <1>17, <2>2 DEF InCode
<1>8. \A r \in Needed(x) : x.env[r] \notin freed
  <2>1. MustLive(code[n], x.block) \subseteq Reg BY DEF MustLive
  <2>2. Needed(x) \subseteq LiveAt(code[n], x.block, x.at, MustLive(code[n], x.block))
    BY <1>6 DEF Needed, Live
  <2> QED BY <1>5, <1>6, <2>1, <2>2, LiveAtType
<1>9. frames \in Seq(FrameType) /\ Len(frames) \in Nat /\ DOMAIN frames = 1..Len(frames)
  BY DEF FrameInv
<1>10. /\ fs \in Seq(FrameType) /\ Len(fs) = Len(frames) + 1 /\ DOMAIN fs = 1..(Len(frames) + 1)
       /\ fs[Len(frames) + 1] = x /\ \A k \in 1..Len(frames) : fs[k] = frames[k]
  BY <1>6, <1>9, AppendProperties
<1> HIDE DEF fs
<1>11. \A k \in DOMAIN fs : k = Len(frames) + 1 \/ (k \in 1..Len(frames) /\ k \in DOMAIN frames)
  BY <1>9, <1>10
<1>12. ASSUME NEW k \in 1..(Len(fs) - 1) PROVE fs[k].busy
  <2>1. k \in 1..Len(frames) BY <1>9, <1>10
  <2>2. CASE k = Len(frames)
    <3>1. frames # <<>> BY <1>9, <2>1
    <3>2. frames[Len(frames)].busy BY <1>1, <3>1 DEF InRuntime, Last
    <3> QED BY <1>10, <2>1, <2>2, <3>2
  <2>3. CASE k # Len(frames)
    <3>0. \A l \in Nat : \A i \in 1..l : i # l => i \in 1..(l - 1) OBVIOUS
    <3>1. k \in 1..(Len(frames) - 1) BY <1>9, <2>1, <2>3, <3>0, Zenon
    <3> QED BY <1>10, <2>1, <3>1 DEF FrameInv
  <2> QED BY <2>2, <2>3
<1>13. /\ \A frame : InCode(frame)' <=> InCode(frame)
       /\ \A frame : Needed(frame)' = Needed(frame)
  BY <1>1, SameCode
<1>14. freed' \subseteq HeldBy(frames)' BY <1>1 DEF HeldBy
<1>15. \A k \in DOMAIN fs : InCode(fs[k]) BY <1>7, <1>10, <1>11 DEF FrameInv
<1>16. \A k \in DOMAIN fs : \A r \in Needed(fs[k]) : fs[k].env[r] \notin freed
  BY <1>8, <1>10, <1>11 DEF FrameInv
<1> QED BY <1>1, <1>10, <1>12, <1>13, <1>14, <1>15, <1>16 DEF FrameInv

LEMMA ExecuteFrames ==
    ASSUME NEW p \in Programs, CodeInvOf(p), FrameInv, Execute
    PROVE  FrameInv'
<1> DEFINE f == code[Top.name]
<1>1. /\ frames # <<>> /\ Top.busy = FALSE /\ CanAllocate /\ CodeStays
      /\ Top.at < Len(f.body[Top.block]) /\ Activate(Append(Front(frames), After(Top)))
  BY TopType DEF Execute, Runs, FrameType
<1>2. Top \in FrameType /\ InCode(Top) /\ \A r \in Needed(Top) : Top.env[r] \notin freed
  BY <1>1, TopType
<1>3. /\ Len(f.body[Top.block]) \in Nat /\ DOMAIN f.body[Top.block] = 1..Len(f.body[Top.block])
      /\ Next_(Top) = f.body[Top.block][Top.at] /\ Top.at \in 1..Len(f.body[Top.block])
  BY <1>2, FrameCode DEF InCode
<1>4. Needed(Top) = LiveAt(f, Top.block, Top.at, MustLive(f, Top.block)) BY <1>1 DEF Needed, Live
<1>5. ASSUME NEW r \in LiveAt(f, Top.block, Top.at + 1, MustLive(f, Top.block)), r # Next_(Top).dst
      PROVE  Top.env[r] \notin freed /\ Top.env[r] # None
  <2>1. r \in LiveAt(f, Top.block, Top.at, MustLive(f, Top.block)) BY <1>3, <1>5, LiveStep
  <2> QED BY <1>2, <1>4, <2>1 DEF InCode, Live
<1> QED BY <1>1, <1>5, AfterStep

LEMMA CallFrames ==
    ASSUME NEW p \in Programs, CodeInvOf(p), FrameInv, Call
    PROVE  FrameInv'
<1> DEFINE x == [Top EXCEPT !.busy = TRUE]
<1>1. /\ frames # <<>> /\ Top.busy = FALSE /\ CodeStays /\ Collects(Next_(Top))
      /\ Activate(Append(Front(frames), x))
  BY TopType DEF Call, Runs, FrameType
<1>2. Top \in FrameType /\ InCode(Top) /\ \A r \in Needed(Top) : Top.env[r] \notin freed
  BY <1>1, TopType
<1>3. /\ x \in FrameType /\ x.name = Top.name /\ x.block = Top.block /\ x.at = Top.at
      /\ x.busy = TRUE /\ x.env = Top.env
  BY <1>2 DEF FrameType
<1> HIDE DEF x
<1>4. Next_(x) = Next_(Top) BY <1>3 DEF Next_, Where
<1>5. InCode(x)
  <2>1. Live(x) = Live(Top) BY <1>3 DEF Live
  <2> QED BY <1>1, <1>2, <1>3, <1>4, <2>1 DEF InCode
<1>6. Needed(x) \subseteq Needed(Top) BY <1>1, <1>3, <1>4 DEF Needed, Live
<1> QED BY <1>1, <1>2, <1>3, <1>5, <1>6, TopStep DEF x

LEMMA ResumeFrames ==
    ASSUME NEW p \in Programs, CodeInvOf(p), FrameInv, Resume
    PROVE  FrameInv'
<1> DEFINE f == code[Top.name]
           must == MustLive(f, Top.block)
<1>1. /\ frames # <<>> /\ Top.busy = TRUE /\ CanAllocate /\ CodeStays
      /\ Activate(Append(Front(frames), After(Top)))
  BY TopType DEF Resume, InCall, FrameType
<1>2. Top \in FrameType /\ InCode(Top) /\ \A r \in Needed(Top) : Top.env[r] \notin freed
  BY <1>1, TopType
<1>3. /\ Len(f.body[Top.block]) \in Nat /\ DOMAIN f.body[Top.block] = 1..Len(f.body[Top.block])
      /\ Next_(Top) = f.body[Top.block][Top.at] /\ Top.at \in 1..Len(f.body[Top.block])
      /\ f \in Function /\ Top.block \in f.blocks /\ Collects(Next_(Top))
  BY <1>1, <1>2, FrameCode DEF InCode
<1>4. /\ Top.at # Len(f.body[Top.block])
      /\ ~NeedsStatepoint(Next_(Top)) => LiveAt(f, Top.block, Top.at + 1, must) \subseteq {Next_(Top).dst}
  <2> DEFINE body == f.body[Top.block]
  <2>1. /\ ~Collects(body[Len(body)])
        /\ \A i \in DOMAIN body : Collects(body[i]) /\ ~NeedsStatepoint(body[i])
              => LiveAt(f, Top.block, i + 1, must) \subseteq {body[i].dst}
    BY <1>3, CallsAssumption
  <2>2. Next_(Top) = body[Top.at] /\ Top.at \in DOMAIN body BY <1>3
  <2> HIDE DEF f, body, must
  <2>3. Top.at # Len(body) BY <1>3, <2>1, <2>2
  <2>4. ~NeedsStatepoint(Next_(Top)) => LiveAt(f, Top.block, Top.at + 1, must) \subseteq {Next_(Top).dst}
    BY <1>3, <2>1, <2>2
  <2> QED BY <2>3, <2>4 DEF body
<1>5. Top.at < Len(f.body[Top.block])
  <2> HIDE DEF f
  <2>1. \A i, l \in Nat : i \in 1..l /\ i # l => i < l OBVIOUS
  <2>2. Top.at \in Nat BY <1>2 DEF FrameType
  <2> QED BY <1>3, <1>4, <2>1, <2>2
<1>6. ASSUME NEW r \in LiveAt(f, Top.block, Top.at + 1, must), r # Next_(Top).dst
      PROVE  Top.env[r] \notin freed /\ Top.env[r] # None
  <2>1. NeedsStatepoint(Next_(Top)) BY <1>4, <1>6
  <2>2. Needed(Top) = LiveAt(f, Top.block, Top.at, must) \ {Next_(Top).dst}
    BY <1>1, <2>1 DEF Needed, Live
  <2>3. r \in LiveAt(f, Top.block, Top.at, must) BY <1>3, <1>6, LiveStep
  <2>4. Top.env[r] # None BY <1>2, <2>3 DEF InCode, Live
  <2> QED BY <1>2, <1>6, <2>2, <2>3, <2>4
<1> QED BY <1>1, <1>5, <1>6, AfterStep

LEMMA JumpFrames ==
    ASSUME NEW p \in Programs, CodeInvOf(p), FrameInv, Jump
    PROVE  FrameInv'
<1> DEFINE f == code[Top.name]
           b == Top.block
<1>1. PICK c \in f.succ[b] : Activate(Append(Front(frames), AtBlock(Top, c))) BY DEF Jump
<1>2. frames # <<>> /\ Top.busy = FALSE /\ CodeStays /\ Top.at = Len(f.body[b])
  BY TopType DEF Jump, Runs, FrameType
<1>3. Top \in FrameType /\ InCode(Top) /\ \A r \in Needed(Top) : Top.env[r] \notin freed
  BY <1>2, TopType
<1>4. WellFormed(f) /\ b \in f.blocks /\ MustLive(f, b) \subseteq Reg BY <1>3, FrameCode
<1>5. /\ c \in f.blocks /\ c \in Block /\ 1 \in 1..Len(f.body[c]) /\ MustLive(f, c) \subseteq Reg
  <2>1. c \in f.blocks BY <1>1, <1>4 DEF WellFormed
  <2> QED BY <1>4, <2>1 DEF WellFormed, MustLive
<1>6. \A r \in MustLive(f, b) : Top.env[r] \notin freed /\ Top.env[r] # None
  <2>1. MustLive(f, b) \subseteq LiveAt(f, b, Len(f.body[b]), MustLive(f, b)) BY <1>4, EndLive
  <2>2. Needed(Top) = LiveAt(f, b, Top.at, MustLive(f, b)) BY <1>2 DEF Needed, Live
  <2>3. \A r \in Live(Top) : Top.env[r] # None BY <1>3 DEF InCode
  <2> QED BY <1>2, <1>3, <2>1, <2>2, <2>3 DEF Live
<1>7. Seed(f, b) \subseteq MustLive(f, b) /\ LiveInOf(f, c, MustLive(f, c)) \subseteq MustLive(f, b)
  BY <1>1, <1>4, <1>5, MustSolves DEF Solves, Must
\* The values of the phi nodes.
<1> DEFINE phis == f.phis[c]
           Phi(r) == CHOOSE phi \in phis : phi.dst = r
<1>8. ASSUME NEW phi \in phis
      PROVE  /\ Value(Top, phi.from[b]) \in Obj \cup {None, Const}
             /\ Value(Top, phi.from[b]) \notin freed /\ Value(Top, phi.from[b]) # None
  <2>1. b \in DOMAIN phi.from /\ phi.from[b] \in Reg \cup {Const} BY <1>1, <1>4 DEF WellFormed
  <2>2. CASE phi.from[b] \in Reg
    <3>1. phi.from[b] \in {psi.from[b] : psi \in phis} OBVIOUS
    <3>2. \A d \in f.blocks : \A psi \in f.phis[d] : ~Trivial(psi) BY <1>4 DEF WellFormed
    <3>3. Managed(f, phi.from[b]) BY <2>2, <3>2 DEF Managed
    <3>4. phi.from[b] \in Seed(f, b) BY <1>1, <3>1, <3>3 DEF Seed
    <3>5. Top.env[phi.from[b]] \notin freed /\ Top.env[phi.from[b]] # None BY <1>6, <1>7, <3>4
    <3>6. Top.env[phi.from[b]] \in Obj \cup {None, Const} BY <1>3, <2>2 DEF FrameType
    <3> QED BY <2>2, <3>5, <3>6 DEF Value
  <2>3. CASE phi.from[b] \notin Reg
    <3>1. Const \notin freed /\ Const # None BY ObjAssumption DEF FrameInv, HeldBy
    <3> QED BY <2>1, <2>3, <3>1 DEF Value
  <2> QED BY <2>2, <2>3
<1> DEFINE env == [r \in Reg |-> IF r \in {phi.dst : phi \in phis}
                                THEN Value(Top, Phi(r).from[b]) ELSE Top.env[r]]
           x == AtBlock(Top, c)
<1>9. \A r \in {phi.dst : phi \in phis} : Phi(r) \in phis OBVIOUS
<1>10. env \in [Reg -> Obj \cup {None, Const}]
  BY <1>3, <1>8, <1>9 DEF FrameType
<1>11. x = [Top EXCEPT !.block = c, !.at = 1, !.env = env] BY DEF AtBlock
<1> HIDE DEF x, env, Phi
<1>12. /\ x \in FrameType /\ x.name = Top.name /\ x.block = c /\ x.at = 1 /\ x.busy = FALSE
       /\ x.env = env
  BY <1>2, <1>3, <1>5, <1>10, <1>11 DEF FrameType
<1>13. ASSUME NEW r \in Live(x)
       PROVE  x.env[r] \notin freed /\ x.env[r] # None
  <2>1. r \in LiveAt(f, c, 1, MustLive(f, c)) BY <1>12 DEF Live
  <2>2. r \in Reg BY <1>5, <2>1, LiveAtType
  <2>3. CASE r \in {phi.dst : phi \in phis}
    BY <1>8, <1>9, <1>12, <2>2, <2>3 DEF env
  <2>4. CASE r \notin {phi.dst : phi \in phis}
    <3>1. r \in LiveInOf(f, c, MustLive(f, c)) BY <1>4, <1>5, <2>1, <2>4, EntryLive DEF PhiDefs
    <3>2. Top.env[r] \notin freed /\ Top.env[r] # None BY <1>6, <1>7, <3>1
    <3> QED BY <1>12, <2>2, <2>4, <3>2 DEF env
  <2> QED BY <2>3, <2>4
<1>14. InCode(x) /\ Needed(x) \subseteq Live(x)
  BY <1>3, <1>5, <1>12, <1>13 DEF InCode, Needed
<1> QED BY <1>1, <1>2, <1>12, <1>13, <1>14, TopStep DEF x

LEMMA ReturnFrames ==
    ASSUME FrameInv, Return
    PROVE  FrameInv'
<1>1. frames # <<>> /\ CodeStays /\ Activate(Front(frames)) BY DEF Return, Runs
<1>2. Len(frames) - 1 \in 0..(Len(frames) - 1) BY <1>1, EmptySeq DEF FrameInv
<1> QED BY <1>1, <1>2, PopStep DEF Front

LEMMA UnwindFrames ==
    ASSUME FrameInv, Unwind
    PROVE  FrameInv'
<1>1. CodeStays BY DEF Unwind
<1>2. PICK k \in 0..(Len(frames) - 1) : Activate(SubSeq(frames, 1, k)) BY DEF Unwind
<1> QED BY <1>1, <1>2, PopStep

\* A collection finds what every activation needs: those that it skips need
\* nothing.
LEMMA CollectFrames ==
    ASSUME NEW p \in Programs, CodeInvOf(p), FrameInv, Collect
    PROVE  FrameInv'
<1>1. /\ frames # <<>> /\ Top.busy /\ frames' = frames /\ CodeStays
      /\ freed' = HeldBy(frames) \ (Scanned \ freed)
  BY DEF Collect, InCall
<1>2. Len(frames) \in Nat /\ DOMAIN frames = 1..Len(frames) BY DEF FrameInv
<1>3. ASSUME NEW k \in DOMAIN frames, NEW r \in Needed(frames[k])
      PROVE  frames[k].env[r] \notin freed'
  <2>1. frames[k].busy
    <3>1. CASE k = Len(frames) BY <1>1, <3>1 DEF Top, Last
    <3>2. CASE k # Len(frames)
      <4>1. k \in 1..(Len(frames) - 1) BY <1>2, <3>2
      <4> QED BY <4>1 DEF FrameInv
    <3> QED BY <3>1, <3>2
  <2>2. InCode(frames[k]) /\ frames[k].env[r] \notin freed BY DEF FrameInv
  <2>3. NeedsStatepoint(Next_(frames[k])) BY <2>1 DEF Needed, Live
  <2>4. Where(frames[k]) \in DOMAIN statepoint /\ r \in statepoint[Where(frames[k])]
    BY <2>1, <2>2, <2>3, FrameCode DEF Needed, Live, LiveAcross
  <2>5. frames[k].env[r] \in Scanned BY <2>4 DEF Scanned
  <2> QED BY <1>1, <2>2, <2>5
<1>4. freed' \subseteq HeldBy(frames)' BY <1>1 DEF HeldBy
<1>5. /\ \A frame : InCode(frame)' <=> InCode(frame)
      /\ \A frame : Needed(frame)' = Needed(frame)
  BY <1>1, SameCode
<1> QED BY <1>1, <1>3, <1>4, <1>5 DEF FrameInv

\* Modules that are compiled meanwhile change nothing about the code that runs.
LEMMA CompileFrames ==
    ASSUME NEW p \in Programs, CodeInvOf(p), CodeInvOf(p)', FrameInv, UNCHANGED runVars,
           finalized' = finalized \/ finalized' = finalized + 1
    PROVE  FrameInv'
<1>1. frames' = frames /\ freed' = freed BY DEF runVars
<1>2. finalized \in Nat BY DEF CodeInvOf, LayerInv
<1>3. Compiled \subseteq Compiled'
  <2>1. 1..finalized \subseteq 1..finalized' BY <1>2
  <2> QED BY <2>1 DEF Compiled
<1>4. \A n \in Compiled : code'[n] = code[n]
  <2> SUFFICES ASSUME NEW n \in Compiled PROVE code'[n] = code[n]
    OBVIOUS
  <2>1. n \in Name /\ code[n] = Prepared(n, p[n]) BY CompiledCode
  <2>2. code'[n] = Prepared(n, p[n]) BY <1>3, <2>1 DEF CodeInvOf, LayerInv, CodeOf
  <2> QED BY <2>1, <2>2
<1>5. ASSUME NEW k \in DOMAIN frames
      PROVE  InCode(frames[k])' /\ Needed(frames[k])' = Needed(frames[k])
  <2>1. InCode(frames[k]) BY DEF FrameInv
  <2>2. frames[k].name \in Compiled /\ code'[frames[k].name] = code[frames[k].name]
    BY <1>4, <2>1 DEF InCode
  <2>3. Next_(frames[k])' = Next_(frames[k]) BY <1>1, <2>2 DEF Next_
  <2> QED BY <1>1, <1>3, <2>1, <2>2, <2>3 DEF InCode, Needed, Live
<1> QED BY <1>1, <1>5 DEF FrameInv, HeldBy

-----------------------------------------------------------------------------
(* Theorems *)

\* The layer and the activations together.
SafepointsInv == (\E p \in Programs : CodeInvOf(p)) /\ FrameInv

LEMMA InitInv == Init => SafepointsInv
<1> SUFFICES ASSUME Init PROVE SafepointsInv
  OBVIOUS
<1>1. \E p \in Programs : CodeInvOf(p)
  <2>1. code \in Programs BY DEF Init
  <2>2. PICK p \in Programs : code = p BY <2>1
  <2> QED BY <2>2, InitCode
<1>2. FrameInv
  <2>1. frames = <<>> /\ freed = {} BY DEF Init
  <2> QED BY <2>1 DEF FrameInv, HeldBy
<1> QED BY <1>1, <1>2 DEF SafepointsInv

LEMMA NextInv == SafepointsInv /\ [Next]_vars => SafepointsInv'
<1> SUFFICES ASSUME SafepointsInv, [Next]_vars PROVE SafepointsInv'
  OBVIOUS
<1>1. PICK p \in Programs : CodeInvOf(p) BY DEF SafepointsInv
<1>2. FrameInv BY DEF SafepointsInv
<1>3. CodeInvOf(p)' BY <1>1, NextCode
<1>4. FrameInv'
  <2>1. CASE Begin \/ Compile \/ UNCHANGED vars
    <3>1. UNCHANGED runVars /\ (finalized' = finalized \/ finalized' = finalized + 1)
      BY <2>1 DEF Begin, Compile, Place, Rewrite, Skip, Analyse, Propagate, InsertParsePoints, Emit,
                  vars, layerVars
    <3> QED BY <1>1, <1>2, <1>3, <3>1, CompileFrames
  <2>2. CASE Run
    <3>1. ASSUME NEW n \in Name, Enter(n) PROVE FrameInv' BY <1>1, <1>2, <3>1, EnterFrames
    <3>2. CASE Execute BY <1>1, <1>2, <3>2, ExecuteFrames
    <3>3. CASE Call BY <1>1, <1>2, <3>3, CallFrames
    <3>4. CASE Resume BY <1>1, <1>2, <3>4, ResumeFrames
    <3>5. CASE Jump BY <1>1, <1>2, <3>5, JumpFrames
    <3>6. CASE Return BY <1>2, <3>6, ReturnFrames
    <3>7. CASE Unwind BY <1>2, <3>7, UnwindFrames
    <3>8. CASE Collect BY <1>1, <1>2, <3>8, CollectFrames
    <3> QED BY <2>2, <3>1, <3>2, <3>3, <3>4, <3>5, <3>6, <3>7, <3>8 DEF Run
  <2> QED BY <2>1, <2>2 DEF Next
<1> QED BY <1>3, <1>4 DEF SafepointsInv

LEMMA InvHolds == Spec => []SafepointsInv
BY InitInv, NextInv, PTL DEF Spec

\* The tables hold registers, for exactly the calls of finalized code that are
\* tagged, whatever is compiled and run in between.
THEOREM SafepointsType == Spec => []SPTypeOK
<1>1. SafepointsInv => SPTypeOK
  <2> SUFFICES ASSUME SafepointsInv PROVE SPTypeOK
    OBVIOUS
  <2>1. PICK p \in Programs : CodeInvOf(p) BY DEF SafepointsInv
  <2>2. \A n \in Compiled : code[n] = Prepared(n, p[n]) BY <2>1, CompiledCode
  <2>3. DOMAIN statepoint = UNION {Safepoint(n, Prepared(n, p[n])) : n \in Compiled}
        /\ \A s \in DOMAIN statepoint : statepoint[s] \subseteq Reg
    BY <2>1 DEF CodeInvOf, TablesInv
  <2>4. DOMAIN statepoint = UNION {Safepoint(n, code[n]) : n \in Compiled} BY <2>2, <2>3
  <2>5. pass \in {"none", "place", "rewrite"} /\ (fn # None => pass = "rewrite")
    BY <2>1 DEF CodeInvOf, LayerInv
  <2> QED BY <2>3, <2>4, <2>5 DEF SPTypeOK, SafepointsInv, FrameInv
<1> QED BY <1>1, InvHolds, PTL

\* The analyses that the pass runs, one function after the other, settle.
THEOREM SafepointsSettled == Spec => []Settled
<1>1. SafepointsInv => Settled
  BY LivenessInvSettled DEF SafepointsInv, CodeInvOf, LayerInv
<1> QED BY <1>1, InvHolds, PTL

\* A step of the pass on the analysis is one of the analysis; no other touches it.
LEMMA NextLiveness ==
    ASSUME SafepointsInv, [Next]_vars
    PROVE  [LivenessNext]_livenessVars
<1>1. PICK p \in Programs : CodeInvOf(p) BY DEF SafepointsInv
<1>2. CASE Analyse
  <2> DEFINE n == Head(queue)
  <2>1. /\ pass = "rewrite" /\ queue # <<>> /\ fn = None
        /\ code' = [code EXCEPT ![n] = FoldPhis(code[n])] /\ Start(code'[n])
    BY <1>2 DEF Analyse
  <2>2. n \in Rest /\ n \in Module /\ n \in Name BY <1>1, <2>1, HeadOfQueue
  <2>3. DOMAIN code = Name /\ code[n] = CodeOf(p, n) BY <1>1, <2>2 DEF CodeInvOf, LayerInv
  <2>4. Safepoint(n, code[n]) # {} BY <1>2 DEF Analyse
  <2>5. code[n] = Pruned(p[n])
    <3>1. Covered = Module \ Rest /\ Folded = Covered /\ Placed = Module /\ n \notin Compiled
      BY <1>1, <2>1, HeadOfQueue DEF Placed, Covered, Folded
    <3> QED BY <2>2, <2>3, <3>1 DEF CodeOf
  <2>6. code'[n] = Prepared(n, p[n]) BY <2>1, <2>2, <2>3, <2>4, <2>5 DEF Prepared
  <2>7. code'[n] \in Function BY <2>2, <2>6, ProgramType
  <2> QED BY <2>1, <2>7 DEF LivenessNext
<1>3. CASE Propagate BY <1>3 DEF Propagate, LivenessNext
<1>4. CASE InsertParsePoints BY <1>4 DEF InsertParsePoints, LivenessNext
<1>5. CASE ~(Analyse \/ Propagate \/ InsertParsePoints)
  <2>1. CASE Begin \/ Compile \/ UNCHANGED vars
    BY <1>5, <2>1 DEF Begin, Compile, Place, Rewrite, Skip, Emit, vars
  <2>2. CASE Run BY <2>2, RunStays DEF CodeStays
  <2> QED BY <2>1, <2>2 DEF Next
<1> QED BY <1>2, <1>3, <1>4, <1>5

\* What the pass does to the data of liveness, between everything else that finalizing
\* and running code do, are runs of the analysis from its beginning to its end.
THEOREM SafepointsAnalyse == Spec => LivenessSpec
<1>1. Init => LivenessInit BY DEF Init
<1> QED BY <1>1, NextLiveness, InvHolds, PTL DEF Spec, LivenessSpec

\* So they advance as such runs do: each visit of a block adds to what is live, or
\* shortens the worklist.
THEOREM SafepointsAdvance == Spec => Advances
BY SafepointsAnalyse, LivenessAdvances

\* No activation uses an object that a collection has freed, for all programs
\* within the assumptions, all nestings of calls and all times of collections.
THEOREM SafepointsUsesAlive == Spec => []UsesAlive
<1>1. SafepointsInv => UsesAlive
  <2> SUFFICES ASSUME SafepointsInv, NEW k \in DOMAIN frames, NEW r \in Uses(frames[k])
               PROVE  frames[k].env[r] \notin freed
    BY DEF UsesAlive
  <2>1. PICK p \in Programs : CodeInvOf(p) BY DEF SafepointsInv
  <2> DEFINE frame == frames[k]
             f == code[frame.name]
             b == frame.block
             body == f.body[b]
             must == MustLive(f, b)
  <2>2. InCode(frame) /\ \A q \in Needed(frame) : frame.env[q] \notin freed
    BY DEF SafepointsInv, FrameInv
  <2>3. /\ f \in Function /\ WellFormed(f) /\ b \in f.blocks
        /\ Len(body) \in Nat /\ DOMAIN body = 1..Len(body)
        /\ Next_(frame) = body[frame.at] /\ frame.at \in DOMAIN body
        /\ must \subseteq Reg
    BY <2>1, <2>2, FrameCode DEF InCode
  <2>4. frame.busy => Collects(Next_(frame)) BY <2>2 DEF InCode
  <2>5. ~Collects(body[Len(body)]) BY <2>3, CallsAssumption
  <2> HIDE DEF frame
  <2>6. CASE frame.busy /\ ~NeedsStatepoint(Next_(frame))
    <3>1. frame.at # Len(body) BY <2>3, <2>4, <2>5, <2>6
    <3>2. Uses(frame) = {} BY <2>6, <3>1 DEF Uses
    <3> QED BY <3>2 DEF frame
  <2>7. CASE ~(frame.busy /\ ~NeedsStatepoint(Next_(frame)))
    <3>1. Needed(frame) = LiveAt(f, b, frame.at, must) \ IF frame.busy THEN {Next_(frame).dst} ELSE {}
      BY <2>7 DEF Needed, Live
    <3>2. CASE r \in Next_(frame).args \cap Reg
      <4>1. r \in LiveAt(f, b, frame.at, must) BY <2>3, <3>2, OperandsLive
      <4>2. r # Next_(frame).dst
        <5>1. frame.at \in 1..frame.at BY <2>3
        <5>2. body[frame.at].dst \notin body[frame.at].args BY <2>3, <5>1 DEF WellFormed
        <5> QED BY <2>3, <3>2, <5>2
      <4> QED BY <2>2, <3>1, <4>1, <4>2 DEF frame
    <3>3. CASE r \notin Next_(frame).args \cap Reg
      <4>1. frame.at = Len(body) /\ r \in Seed(f, b) BY <3>3, <2>7 DEF Uses, frame
      <4>2. ~frame.busy BY <2>3, <2>4, <2>5, <4>1
      <4>3. Seed(f, b) \subseteq must BY <2>3, MustSolves DEF Solves, Must
      <4>4. r \in LiveAt(f, b, frame.at, must) BY <2>3, <4>1, <4>3, EndLive
      <4> QED BY <2>2, <3>1, <4>2, <4>4 DEF frame
    <3> QED BY <3>2, <3>3
  <2> QED BY <2>6, <2>7
<1> QED BY <1>1, InvHolds, PTL

\* A scan reads no register that the activation has not set, for all programs
\* within the assumptions, wherever the activations are.
THEOREM SafepointsRoots == Spec => []RootsAssigned
<1>1. SafepointsInv => RootsAssigned
  <2> SUFFICES ASSUME SafepointsInv, NEW k \in DOMAIN frames, Where(frames[k]) \in DOMAIN statepoint,
                      NEW r \in statepoint[Where(frames[k])]
               PROVE  frames[k].env[r] # None
    BY DEF RootsAssigned
  <2>1. PICK p \in Programs : CodeInvOf(p) BY DEF SafepointsInv
  <2>2. InCode(frames[k]) BY DEF SafepointsInv, FrameInv
  <2>3. r \in Live(frames[k]) BY <2>1, <2>2, FrameCode DEF LiveAcross, Live
  <2> QED BY <2>2, <2>3 DEF InCode
<1> QED BY <1>1, InvHolds, PTL

\* Every call site that is finalized calls its own stub, whatever the order in
\* which modules and functions get their identifiers.
THEOREM SafepointsPatches == Spec => []PatchesRight
<1>1. SafepointsInv => PatchesRight
  <2> SUFFICES ASSUME SafepointsInv, NEW n \in Compiled, NEW s \in Safepoint(n, code[n]),
                      IsStub(Ins(code[n], s))
               PROVE  /\ s \in DOMAIN target /\ target[s] = Ins(code[n], s).size
                      /\ patchpoint[ids[s]] = s
    BY DEF PatchesRight
  <2>1. PICK p \in Programs : CodeInvOf(p) BY DEF SafepointsInv
  <2>2. code[n] = Prepared(n, p[n]) /\ s \in DOMAIN statepoint BY <2>1, CompiledCode
  <2>3. s.name = n BY SafepointType
  <2> QED BY <2>1, <2>2, <2>3 DEF CodeInvOf, TablesInv
<1> QED BY <1>1, InvHolds, PTL
=============================================================================
