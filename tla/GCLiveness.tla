----------------------------- MODULE GCLiveness -----------------------------
(* Which registers hold pointers that the garbage collector has to know at a *)
(* safepoint: the backward analysis of RewriteStatepointsForGC.cpp, with its *)
(* worklist, for one function.                                               *)
(*                                                                           *)
(* A function has blocks, an entry, the successors of each block, the phi    *)
(* nodes at its start and the instructions after them, of which the last one *)
(* ends the block:                                                           *)
(*   phi          [dst, from]: the value for each predecessor                *)
(*   instruction  [op, dst, args]: the register it defines, or None, and the *)
(*                set of its operands, registers or Const                    *)
(* The static single assignment form is LLVM's; a call and the gc.result     *)
(* that follows it count as one instruction.                                 *)
EXTENDS Naturals, Sequences, FiniteSets

CONSTANTS
    Reg,       \* registers for pointers to R objects
    None,      \* no register, no function, no object
    Const,     \* a constant operand
    Block,     \* labels, in the order of the blocks
    Function   \* the functions that the analysis meets

VARIABLES
    fn,        \* the function whose liveness is computed, or None
    worklist,  \* blocks whose successors have changed
    liveIn,    \* GCPtrLivenessData: registers live into a block
    liveOut    \* registers live out of a block

livenessVars == <<fn, worklist, liveIn, liveOut>>

-----------------------------------------------------------------------------
(* Functions *)

Operands(phi) == {phi.from[p] : p \in DOMAIN phi.from}
Preds(f, b) == {p \in f.blocks : b \in f.succ[p]}

\* PHINode::hasConstantValue: all edges bring the same value.
Trivial(phi) == \E v \in Operands(phi) : Operands(phi) \subseteq {v, phi.dst}

\* isGCManaged: pointers to objects, but no constants, nor phi nodes that
\* merge one value.  All registers here have the type of objects (t::SEXP); registers of
\* other types, like the pointers into vectors, are never managed and are left out.
\* Faulty variant: constants count too.
ManagedWithConst(f, v) ==
    \A b \in f.blocks : \A phi \in f.phis[b] : v = phi.dst => ~Trivial(phi)
Managed(f, v) ==
    v \in Reg /\ \A b \in f.blocks : \A phi \in f.phis[b] : v = phi.dst => ~Trivial(phi)

PhiDefs(f, b) == {phi.dst : phi \in f.phis[b]}
Defs(f, b) == PhiDefs(f, b) \cup {f.body[b][i].dst : i \in DOMAIN f.body[b]}

\* computeKillSet.
Kill(f, b) == {r \in Defs(f, b) : Managed(f, r)}

\* computeLiveInValues for the instructions from the i-th to the end of b: what
\* they use before one of them defines it, and what is live out of b and none
\* of them defines.
LiveAt(f, b, i, out) ==
    LET code == f.body[b]
        Kept(r, j) == \A k \in i..(j - 1) : code[k].dst # r
    IN  {r \in UNION {code[j].args : j \in DOMAIN code} :
            Managed(f, r) /\ \E j \in i..Len(code) : r \in code[j].args /\ Kept(r, j)}
        \cup {r \in out : Kept(r, Len(code) + 1)}

\* Uses in the block itself.  Those of phi nodes do not count here: they are
\* uses at the end of the predecessors.
LiveSet(f, b) == LiveAt(f, b, 1, {}) \ PhiDefs(f, b)

\* computeLiveOutSeed: what the phi nodes of the successors want from b.
\* Faulty variant: phi nodes are ignored.
NoSeed(f, b) == {}
Seed(f, b) ==
    {r \in UNION {{phi.from[b] : phi \in f.phis[s]} : s \in f.succ[b]} : Managed(f, r)}

\* Live into b if out is live out of it.
\* Faulty variant: what b defines stays live.
LiveInKeeping(f, b, out) == out \cup LiveSet(f, b)
LiveInOf(f, b, out) == (out \cup LiveSet(f, b)) \ Kill(f, b)

\* findLiveSetAtInst: what is live at the i-th instruction, before it takes its
\* operands, except for its own result.
LiveAcross(f, b, i, out) == LiveAt(f, b, i, out) \ {f.body[b][i].dst}

-----------------------------------------------------------------------------
(* What the passes before guarantee (LLVM's verifier and its simplifier): every *)
(* block ends with an instruction without result; phi nodes have a value for *)
(* each predecessor and merge different ones; within a block, a definition   *)
(* comes before its uses.                                                    *)

WellFormed(f) ==
    /\ f # None
    /\ f.entry \in f.blocks /\ f.blocks \subseteq Block
    /\ f.succ \in [f.blocks -> SUBSET f.blocks]
    /\ \A b \in f.blocks :
          /\ Len(f.body[b]) \in Nat \ {0}
          /\ DOMAIN f.body[b] = 1..Len(f.body[b])
          /\ f.body[b][Len(f.body[b])].dst = None
          /\ \A j \in DOMAIN f.body[b] : \A i \in 1..j : f.body[b][j].dst \notin f.body[b][i].args
          /\ \A phi \in f.phis[b] : ~Trivial(phi)
          /\ \A c \in f.succ[b] : \A phi \in f.phis[c] :
                b \in DOMAIN phi.from /\ phi.from[b] \in Reg \cup {Const}

\* No way from the entry to b leaves out a: a set of blocks that holds the entry
\* and not b, and that code leaves through a only.
Dominates(f, a, b) ==
    \E S \in SUBSET (f.blocks \ {a, b}) :
        /\ f.entry = a \/ f.entry \in S
        /\ \A c \in S : f.succ[c] \subseteq S \cup {a}

\* Definitions dominate their uses; those of phi nodes are at the end of the
\* predecessors.  (The code asserts as much before it computes.)
Available(f, b) ==
    {r \in Reg : r = f.param \/ \E a \in f.blocks : r \in Defs(f, a) /\ Dominates(f, a, b)}
BasicSSA(f) ==
    /\ f.phis[f.entry] = {}
    /\ \A b \in f.blocks :
          /\ \A i \in DOMAIN f.body[b] : \A r \in f.body[b][i].args \cap Reg :
                \/ r \in PhiDefs(f, b) \/ \E j \in 1..(i - 1) : f.body[b][j].dst = r
                \/ r = f.param
                \/ \E a \in f.blocks \ {b} : r \in Defs(f, a) /\ Dominates(f, a, b)
          /\ \A c \in f.succ[b] : \A phi \in f.phis[c] :
                phi.from[b] \in Reg => phi.from[b] \in Available(f, b)

ASSUME FunctionAssumption ==
    Block \subseteq Nat /\ None \notin Reg /\ \A f \in Function : WellFormed(f)

-----------------------------------------------------------------------------
(* The analysis *)

LivenessInit == fn = None /\ worklist = {} /\ liveIn = <<>> /\ liveOut = <<>>

\* Each block starts with what its own instructions and its successors' phi
\* nodes use; where that leaves something live in, the predecessors follow.
Start(f) ==
    LET in == [b \in f.blocks |-> LiveInOf(f, b, Seed(f, b))]
    IN  /\ fn' = f
        /\ liveOut' = [b \in f.blocks |-> Seed(f, b)]
        /\ liveIn' = in
        /\ worklist' = UNION {Preds(f, b) : b \in {c \in f.blocks : in[c] # {}}}

\* A block whose predecessors have to be visited, because what is live into it
\* has changed.  (Sets only grow, so that the code compares their sizes.)
\* Faulty variants: nobody has to; everybody has to, changed or not.
NoRevisit(f, b, in) == {}
RevisitAlways(f, b, in) == Preds(f, b)
Revisit(f, b, in) == IF in = liveIn[b] THEN {} ELSE Preds(f, b)

\* The worklist is a vector whose order the lists of predecessors give; here it
\* is a set, and any block may be next.  (The code stops early when liveOut stays
\* as it is; then so does liveIn.)
Visit(b) ==
    LET out == liveOut[b] \cup UNION {liveIn[s] : s \in fn.succ[b]}
        in == LiveInOf(fn, b, out)
    IN  /\ fn # None /\ b \in worklist
        /\ liveOut' = [liveOut EXCEPT ![b] = out]
        /\ liveIn' = [liveIn EXCEPT ![b] = in]
        /\ worklist' = (worklist \ {b}) \cup Revisit(fn, b, in)
        /\ UNCHANGED fn

\* The data of the analysis are dropped.
Drop == fn' = None /\ worklist' = {} /\ liveIn' = <<>> /\ liveOut' = <<>>

LivenessNext ==
    \/ fn = None /\ \E f \in Function : Start(f)
    \/ \E b \in worklist : Visit(b)
    \/ fn # None /\ worklist = {} /\ Drop

LivenessSpec == LivenessInit /\ [][LivenessNext]_livenessVars

-----------------------------------------------------------------------------
(* Properties *)

\* What liveness means, as inclusions: whatever phi nodes want and whatever is
\* live into a successor is live out.
Solves(f, out) ==
    \A b \in f.blocks :
        /\ Seed(f, b) \subseteq out[b]
        /\ \A s \in f.succ[b] : LiveInOf(f, s, out[s]) \subseteq out[b]

\* The registers that are live out of a block, whatever the solution.
MustLive(f, b) == {r \in Reg : \A out \in [f.blocks -> SUBSET Reg] : Solves(f, out) => r \in out[b]}

\* Every block knows what its successors know to be live, unless it is still in
\* the worklist, and no analysis ends before all blocks agree
\* (RewriteStatepointsForGC.cpp, computeLiveInValues).
Settled ==
    fn # None =>
        /\ \A b \in fn.blocks : liveIn[b] = LiveInOf(fn, b, liveOut[b])
        /\ \A b \in fn.blocks : b \in worklist
                                \/ \A s \in fn.succ[b] : liveIn[s] \subseteq liveOut[b]
        /\ worklist = {} => Solves(fn, liveOut)

\* Nothing is live that need not be: the analysis is below every solution
\* (RewriteStatepointsForGC.cpp, checkBasicSSA, relies on it).
Least ==
    fn # None =>
        \A out \in [fn.blocks -> SUBSET Reg] :
            Solves(fn, out) => \A b \in fn.blocks : liveOut[b] \subseteq out[b]

\* What the comments in computeLiveInValues (1145, 1163) leave unasserted: live
\* sets only grow, so that comparing sizes finds every change; a block whose
\* liveOut stays as it is need not be computed; and each visit makes progress,
\* either what is live grows or there is a block less to visit.
Advances ==
    [][fn # None /\ fn' = fn =>
          /\ \A b \in fn.blocks : liveOut[b] \subseteq liveOut'[b] /\ liveIn[b] \subseteq liveIn'[b]
          /\ liveOut' = liveOut =>
                liveIn' = liveIn /\ worklist' \subseteq worklist /\ worklist' # worklist]_livenessVars
=============================================================================
