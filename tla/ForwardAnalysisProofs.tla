----------------------- MODULE ForwardAnalysisProofs -----------------------
(***************************************************************************)
(* Proofs about the driver of forward analyses: no change is lost, and     *)
(* stored states stay the ones that blocks were analysed from, for every   *)
(* analysis, function and set of blocks.                                   *)
(***************************************************************************)
EXTENDS ForwardAnalysis, TLAPS

\* An analysis makes states from states.
TransferTyped ==
    \A f \in Function, b \in Block : \A s : IsState(s) => IsState(Transfer(f.code[b], s))

\* What the queue holds.
State == UNION {[D -> Value] : D \in SUBSET Name}
Item == [block : Block, state : State]

\* The inductive invariant.
QueueTyped == queue \in Seq(Item)
Inv == ATypeOK /\ QueueTyped /\ UpToDate /\ Propagated

----------------------------------------------------------------------------
(* Merging states                                                          *)

LEMMA StateIs == \A s : s \in State <=> IsState(s)
<1>1. ASSUME NEW s, s \in State PROVE IsState(s)
  BY <1>1 DEF State, IsState
<1>2. ASSUME NEW s, IsState(s) PROVE s \in State
  <2>1. DOMAIN s \in SUBSET Name /\ s \in [DOMAIN s -> Value]
    BY <1>2 DEF IsState
  <2> QED BY <2>1 DEF State
<1> QED BY <1>1, <1>2

LEMMA GetTyped == ASSUME NEW s, IsState(s), NEW n PROVE Get(s, n) \in Value
BY BlockAssumption DEF IsState, Get

LEMMA MergeTyped ==
    ASSUME NEW s, NEW t, IsState(s), IsState(t)
    PROVE  IsState(MergeStates(s, t))
<1> DEFINE D == DOMAIN s \cup DOMAIN t
           V(n) == IF n \in DOMAIN t THEN MergeValues(Get(s, n), t[n]) ELSE s[n]
<1>1. D \subseteq Name
  BY DEF IsState
<1>2. ASSUME NEW n \in D PROVE V(n) \in Value
  <2>1. CASE n \in DOMAIN t
    <3>1. t[n] \in Value /\ Get(s, n) \in Value
      BY <2>1, GetTyped DEF IsState
    <3> QED BY <3>1, <2>1, MergeAssumption
  <2>2. CASE n \notin DOMAIN t
    BY <1>2, <2>2 DEF IsState
  <2> QED BY <2>1, <2>2
<1>3. [n \in D |-> V(n)] \in [D -> Value] /\ DOMAIN [n \in D |-> V(n)] = D
  <2> HIDE DEF V, D
  <2> QED BY <1>2
<1>4. MergeStates(s, t) = [n \in D |-> V(n)]
  BY DEF MergeStates
<1> HIDE DEF V, D
<1> QED BY <1>1, <1>3, <1>4 DEF IsState

\* The merge says what arrived, and all that was said before.
LEMMA MergeAbsorbs ==
    ASSUME NEW s, NEW t, IsState(s), IsState(t)
    PROVE  /\ Absorbs(MergeStates(s, t), t)
           /\ \A u : IsState(u) /\ Absorbs(s, u) => Absorbs(MergeStates(s, t), u)
<1>1. Absorbs(MergeStates(s, t), t)
  <2>1. ASSUME NEW n \in DOMAIN t
        PROVE  MergeValues(MergeStates(s, t)[n], t[n]) = MergeStates(s, t)[n]
    <3>1. MergeStates(s, t)[n] = MergeValues(Get(s, n), t[n])
      BY DEF MergeStates
    <3>2. t[n] \in Value /\ Get(s, n) \in Value
      BY GetTyped DEF IsState
    <3> QED BY <3>1, <3>2, MergeAssumption
  <2>2. DOMAIN t \subseteq DOMAIN MergeStates(s, t)
    BY DEF MergeStates
  <2> QED BY <2>1, <2>2 DEF Absorbs
<1>2. ASSUME NEW u, IsState(u), Absorbs(s, u) PROVE Absorbs(MergeStates(s, t), u)
  <2>1. ASSUME NEW n \in DOMAIN u
        PROVE  MergeValues(MergeStates(s, t)[n], u[n]) = MergeStates(s, t)[n]
    <3>1. n \in DOMAIN s /\ MergeValues(s[n], u[n]) = s[n]
      BY <1>2 DEF Absorbs
    <3>2. u[n] \in Value /\ s[n] \in Value
      BY <1>2, <3>1 DEF IsState
    <3>3. CASE n \in DOMAIN t
      <4>1. MergeStates(s, t)[n] = MergeValues(s[n], t[n])
        BY <3>1, <3>3 DEF MergeStates, Get
      <4>2. t[n] \in Value
        BY <3>3 DEF IsState
      <4> QED BY <4>1, <4>2, <3>1, <3>2, MergeAssumption
    <3>4. CASE n \notin DOMAIN t
      BY <3>1, <3>4 DEF MergeStates
    <3> QED BY <3>3, <3>4
  <2>2. DOMAIN u \subseteq DOMAIN MergeStates(s, t)
    BY <1>2 DEF MergeStates, Absorbs
  <2> QED BY <2>1, <2>2 DEF Absorbs
<1> QED BY <1>1, <1>2

LEMMA SelfAbsorbs == ASSUME NEW s, IsState(s) PROVE Absorbs(s, s)
BY MergeAssumption DEF IsState, Absorbs

\* A merge that reports no change only adds names, with the value Bottom.
LEMMA MergeUnchanged ==
    ASSUME NEW s, NEW t, IsState(s), IsState(t), ~Changed(s, t),
           NEW n \in DOMAIN MergeStates(s, t)
    PROVE  MergeStates(s, t)[n] = Get(s, n)
<1>1. CASE n \in DOMAIN t
  <2>1. MergeStates(s, t)[n] = MergeValues(Get(s, n), t[n])
    BY <1>1 DEF MergeStates
  <2>2. ~Changes(Get(s, n), t[n])
    BY <1>1 DEF Changed
  <2>3. t[n] \in Value /\ Get(s, n) \in Value
    BY <1>1, GetTyped DEF IsState
  <2> QED BY <2>1, <2>2, <2>3, MergeAssumption
<1>2. CASE n \notin DOMAIN t
  BY <1>2 DEF MergeStates, Get
<1> QED BY <1>1, <1>2

----------------------------------------------------------------------------
(* The queue                                                               *)

Holds(q, item) == \E k \in DOMAIN q : q[k] = item

LEMMA HeadAndTail ==
    ASSUME NEW q \in Seq(Item), q # <<>>
    PROVE  /\ Head(q) \in Item /\ Tail(q) \in Seq(Item)
           /\ \A item : Holds(q, item) => item = Head(q) \/ Holds(Tail(q), item)
<1>1. Head(q) \in Item /\ Tail(q) \in Seq(Item)
  OBVIOUS
<1>2. ASSUME NEW k \in DOMAIN q PROVE q[k] = Head(q) \/ Holds(Tail(q), q[k])
  <2>1. CASE k = 1
    BY <2>1
  <2>2. CASE k # 1
    <3>1. k - 1 \in DOMAIN Tail(q) /\ Tail(q)[k - 1] = q[k]
      BY <1>2, <2>2
    <3> QED BY <3>1 DEF Holds
  <2> QED BY <2>1, <2>2
<1> QED BY <1>1, <1>2 DEF Holds

LEMMA Joined ==
    ASSUME NEW q \in Seq(Item), NEW r \in Seq(Item)
    PROVE  /\ q \o r \in Seq(Item)
           /\ \A item : Holds(q, item) \/ Holds(r, item) => Holds(q \o r, item)
<1>1. q \o r \in Seq(Item)
  OBVIOUS
<1>2. ASSUME NEW k \in DOMAIN q PROVE Holds(q \o r, q[k])
  <2>1. k \in DOMAIN (q \o r) /\ (q \o r)[k] = q[k]
    OBVIOUS
  <2> QED BY <2>1 DEF Holds
<1>3. ASSUME NEW k \in DOMAIN r PROVE Holds(q \o r, r[k])
  <2>1. Len(q) + k \in DOMAIN (q \o r) /\ (q \o r)[Len(q) + k] = r[k]
    OBVIOUS
  <2> QED BY <2>1 DEF Holds
<1> QED BY <1>1, <1>2, <1>3 DEF Holds

\* Every successor is queued, with the state that is passed on.
LEMMA AllEnqueued ==
    ASSUME function \in Function, NEW b \in Block, NEW s, IsState(s)
    PROVE  /\ Enqueue(b, s) \in Seq(Item)
           /\ \A i \in DOMAIN function.succ[b] :
                 Holds(Enqueue(b, s), [block |-> function.succ[b][i], state |-> s])
<1> DEFINE succ == function.succ[b]
<1>1. succ \in Seq(Block)
  BY FunctionAssumption
<1>2. s \in State
  BY StateIs
<1>3. /\ Successors(b) \in Seq(Block)
      /\ \A i \in DOMAIN succ : \E k \in 1..Len(Successors(b)) : Successors(b)[k] = succ[i]
  <2>1. CASE succ = <<>>
    BY <2>1 DEF Successors
  <2>2. CASE succ # <<>>
    <3>1. Successors(b) = Append(Tail(succ), Head(succ))
      BY <2>2 DEF Successors
    <3> HIDE DEF succ
    <3>2. Successors(b) \in Seq(Block) /\ Len(Successors(b)) = Len(succ)
      BY <1>1, <2>2, <3>1
    <3>3. Successors(b)[Len(succ)] = succ[1]
      BY <1>1, <2>2, <3>1
    <3>4. \A i \in 2..Len(succ) : Successors(b)[i - 1] = succ[i]
      BY <1>1, <2>2, <3>1
    <3>5. ASSUME NEW i \in DOMAIN succ
          PROVE  \E k \in 1..Len(Successors(b)) : Successors(b)[k] = succ[i]
      <4>1. CASE i = 1
        BY <1>1, <2>2, <3>2, <3>3, <4>1
      <4>2. CASE i # 1
        BY <1>1, <3>2, <3>4, <4>2, i - 1 \in 1..Len(Successors(b)), i \in 2..Len(succ)
      <4> QED BY <4>1, <4>2
    <3> QED BY <3>2, <3>5
  <2> QED BY <2>1, <2>2
<1> HIDE DEF succ
<1>4. /\ Enqueue(b, s) \in Seq(Item)
      /\ \A k \in 1..Len(Successors(b)) :
            /\ k \in DOMAIN Enqueue(b, s)
            /\ Enqueue(b, s)[k] = [block |-> Successors(b)[k], state |-> s]
  BY <1>2, <1>3 DEF Enqueue, Item
<1>5. ASSUME NEW i \in DOMAIN succ
      PROVE  Holds(Enqueue(b, s), [block |-> succ[i], state |-> s])
  <2>1. PICK k \in 1..Len(Successors(b)) : Successors(b)[k] = succ[i]
    BY <1>3
  <2> QED BY <2>1, <1>4 DEF Holds
<1> QED BY <1>4, <1>5 DEF succ

----------------------------------------------------------------------------
(* The steps                                                               *)

\* What holds of the state that a block is analysed from: it says what arrived
\* and all that the stored state said.
Takes(s) ==
    LET b == Head(queue).block
    IN  /\ IsState(s) /\ Absorbs(s, Head(queue).state)
        /\ b \in DOMAIN states =>
              \A u : IsState(u) /\ Absorbs(states[b], u) => Absorbs(s, u)

LEMMA RunPreserves ==
    ASSUME TransferTyped, Inv, queue # <<>>, NEW s, Takes(s), Run(s)
    PROVE  Inv'
<1> DEFINE b == Head(queue).block
           q == Enqueue(b, Transfer(function.code[b], s))
<1>1. /\ Head(queue) \in Item /\ Tail(queue) \in Seq(Item) /\ b \in Block
      /\ \A item : Holds(queue, item) => item = Head(queue) \/ Holds(Tail(queue), item)
  BY HeadAndTail DEF Inv, QueueTyped, Item
<1>2. /\ states' = Put(states, b, s) /\ ran' = Put(ran, b, s)
      /\ queue' = Tail(queue) \o q /\ function' = function
  BY DEF Run
<1>3. function \in Function /\ IsState(s)
  BY DEF Inv, ATypeOK, Takes
<1>4. IsState(Transfer(function.code[b], s))
  BY <1>1, <1>3 DEF TransferTyped
<1>5. /\ q \in Seq(Item)
      /\ \A i \in DOMAIN function.succ[b] :
            Holds(q, [block |-> function.succ[b][i], state |-> Transfer(function.code[b], s)])
  BY <1>1, <1>3, <1>4, AllEnqueued
<1>6. /\ queue' \in Seq(Item)
      /\ \A item : Holds(Tail(queue), item) \/ Holds(q, item) => Holds(queue', item)
  <2> HIDE DEF q
  <2> QED BY <1>1, <1>2, <1>5, Joined
<1> HIDE DEF q
<1>7. /\ DOMAIN states' = DOMAIN states \cup {b} /\ DOMAIN ran' = DOMAIN ran \cup {b}
      /\ states'[b] = s /\ ran'[b] = s
      /\ \A c \in DOMAIN states : c # b => states'[c] = states[c]
      /\ \A c \in DOMAIN ran : c # b => ran'[c] = ran[c]
  BY <1>2 DEF Put
<1>8. DOMAIN states \subseteq Block /\ DOMAIN ran = DOMAIN states
  BY DEF Inv, ATypeOK
<1> HIDE DEF b
<1>9. ATypeOK'
  <2>1. \A i \in DOMAIN queue' : queue'[i].block \in Block /\ IsState(queue'[i].state)
    <3> SUFFICES ASSUME NEW i \in DOMAIN queue'
                 PROVE  queue'[i].block \in Block /\ IsState(queue'[i].state)
      OBVIOUS
    <3>1. queue'[i] \in Item
      BY <1>6
    <3> QED BY <3>1, StateIs DEF Item
  <2>2. \A c \in DOMAIN states' : IsState(states'[c]) /\ IsState(ran'[c])
    BY <1>3, <1>7, <1>8 DEF Inv, ATypeOK
  <2> QED BY <2>1, <2>2, <1>1, <1>2, <1>3, <1>7, <1>8 DEF ATypeOK
<1>10. QueueTyped'
  BY <1>6 DEF QueueTyped
<1>11. UpToDate'
  <2> SUFFICES ASSUME NEW c \in DOMAIN states'
               PROVE  /\ Absorbs(states'[c], ran'[c])
                      /\ \A n \in DOMAIN states'[c] : states'[c][n] = Get(ran'[c], n)
    BY DEF UpToDate
  <2>1. CASE c = b
    BY <2>1, <1>3, <1>7, SelfAbsorbs DEF Get
  <2>2. CASE c # b
    BY <2>2, <1>7, <1>8 DEF Inv, UpToDate
  <2> QED BY <2>1, <2>2
<1>12. Propagated'
  <2> SUFFICES ASSUME NEW c \in DOMAIN ran', NEW i \in DOMAIN function.succ[c]
               PROVE  LET d == function.succ[c][i]
                          o == Transfer(function.code[c], ran'[c])
                      IN  \/ Holds(queue', [block |-> d, state |-> o])
                          \/ d \in DOMAIN states' /\ Absorbs(states'[d], o)
    BY <1>2 DEF Propagated, Out, Holds
  <2>1. CASE c = b
    BY <2>1, <1>5, <1>6, <1>7
  <2>2. CASE c # b
    <3> DEFINE d == function.succ[c][i]
               o == Transfer(function.code[c], ran[c])
    <3>1. ran'[c] = ran[c] /\ c \in DOMAIN ran
      BY <2>2, <1>7
    <3>2. \/ Holds(queue, [block |-> d, state |-> o])
          \/ d \in DOMAIN states /\ Absorbs(states[d], o)
      BY <3>1 DEF Inv, Propagated, Out, Holds
    <3>3. IsState(o)
      BY <3>1, <1>3, <1>8 DEF Inv, ATypeOK, TransferTyped
    <3> HIDE DEF o, d
    <3>4. CASE Holds(Tail(queue), [block |-> d, state |-> o])
      BY <3>4, <1>6, <3>1 DEF d, o
    <3>5. CASE [block |-> d, state |-> o] = Head(queue)
      <4>1. d = b /\ o = Head(queue).state
        BY <3>5 DEF b
      <4>2. Absorbs(s, o)
        BY <4>1 DEF Takes
      <4> QED BY <4>1, <4>2, <1>7, <3>1 DEF d, o
    <3>6. CASE d \in DOMAIN states /\ Absorbs(states[d], o)
      <4>1. CASE d = b
        <5>1. Absorbs(s, o)
          BY <3>3, <3>6, <4>1 DEF Takes, b
        <5> QED BY <5>1, <4>1, <1>7, <3>1 DEF d, o
      <4>2. CASE d # b
        BY <3>6, <4>2, <1>7, <3>1 DEF d, o
      <4> QED BY <4>1, <4>2
    <3> QED BY <3>2, <3>4, <3>5, <3>6, <1>1
  <2> QED BY <2>1, <2>2
<1> QED BY <1>9, <1>10, <1>11, <1>12 DEF Inv

LEMMA VisitTakes ==
    ASSUME Inv, Visit
    PROVE  Takes(Head(queue).state)
<1>1. Head(queue) \in Item
  BY HeadAndTail DEF Inv, QueueTyped, Visit
<1>2. IsState(Head(queue).state)
  BY <1>1, StateIs DEF Item
<1> QED BY <1>2, SelfAbsorbs DEF Takes, Visit

LEMMA RevisitTakes ==
    ASSUME Inv, Revisit
    PROVE  Takes(MergeStates(states[Head(queue).block], Head(queue).state))
<1>1. Head(queue) \in Item
  BY HeadAndTail DEF Inv, QueueTyped, Revisit
<1>2. IsState(Head(queue).state)
  BY <1>1, StateIs DEF Item
<1>3. IsState(states[Head(queue).block])
  BY DEF Inv, ATypeOK, Revisit
<1> QED BY <1>2, <1>3, MergeTyped, MergeAbsorbs DEF Takes

\* What a merge without a change adds to the stored state are names with the value
\* Bottom: the block need not be analysed again.
LEMMA SettlePreserves ==
    ASSUME TransferTyped, Inv, Settle
    PROVE  Inv'
<1> DEFINE b == Head(queue).block
           t == Head(queue).state
           m == MergeStates(states[b], t)
<1>1. /\ Head(queue) \in Item /\ Tail(queue) \in Seq(Item)
      /\ \A item : Holds(queue, item) => item = Head(queue) \/ Holds(Tail(queue), item)
  BY HeadAndTail DEF Inv, QueueTyped, Settle
<1>2. /\ b \in DOMAIN states /\ ~Changed(states[b], t)
      /\ states' = [states EXCEPT ![b] = m] /\ queue' = Tail(queue)
      /\ function' = function /\ ran' = ran
  BY DEF Settle
<1>3. IsState(t) /\ IsState(states[b])
  <2>1. IsState(t)
    BY <1>1, StateIs DEF Item
  <2>2. IsState(states[b])
    BY <1>2 DEF Inv, ATypeOK
  <2> QED BY <2>1, <2>2
<1>4. /\ IsState(m) /\ Absorbs(m, t)
      /\ \A u : IsState(u) /\ Absorbs(states[b], u) => Absorbs(m, u)
  BY <1>3, MergeTyped, MergeAbsorbs
<1>5. \A n \in DOMAIN m : m[n] = Get(states[b], n)
  BY <1>2, <1>3, MergeUnchanged
<1>6. /\ DOMAIN states' = DOMAIN states /\ states'[b] = m
      /\ \A c \in DOMAIN states : c # b => states'[c] = states[c]
  BY <1>2
<1>7. DOMAIN states \subseteq Block /\ DOMAIN ran = DOMAIN states
  BY DEF Inv, ATypeOK
<1> HIDE DEF b, t, m
<1>8. ATypeOK'
  <2>1. \A i \in DOMAIN queue' : queue'[i].block \in Block /\ IsState(queue'[i].state)
    <3> SUFFICES ASSUME NEW i \in DOMAIN queue'
                 PROVE  queue'[i].block \in Block /\ IsState(queue'[i].state)
      OBVIOUS
    <3>1. queue'[i] \in Item
      BY <1>1, <1>2
    <3> QED BY <3>1, StateIs DEF Item
  <2>2. \A c \in DOMAIN states' : IsState(states'[c]) /\ IsState(ran'[c])
    BY <1>2, <1>4, <1>6 DEF Inv, ATypeOK
  <2> QED BY <2>1, <2>2, <1>2, <1>6, <1>7 DEF Inv, ATypeOK
<1>9. QueueTyped'
  BY <1>1, <1>2 DEF QueueTyped
<1>10. UpToDate'
  <2> SUFFICES ASSUME NEW c \in DOMAIN states'
               PROVE  /\ Absorbs(states'[c], ran'[c])
                      /\ \A n \in DOMAIN states'[c] : states'[c][n] = Get(ran'[c], n)
    BY DEF UpToDate
  <2>1. CASE c = b
    <3>1. /\ IsState(ran[b]) /\ Absorbs(states[b], ran[b])
          /\ \A n \in DOMAIN states[b] : states[b][n] = Get(ran[b], n)
      BY <1>2 DEF Inv, ATypeOK, UpToDate
    <3>2. Absorbs(m, ran[b])
      BY <3>1, <1>4
    <3>3. ASSUME NEW n \in DOMAIN m PROVE m[n] = Get(ran[b], n)
      <4>1. m[n] = Get(states[b], n)
        BY <1>5
      <4>2. CASE n \in DOMAIN states[b]
        BY <4>1, <4>2, <3>1 DEF Get
      <4>3. CASE n \notin DOMAIN states[b]
        BY <4>1, <4>3, <3>1 DEF Get, Absorbs
      <4> QED BY <4>2, <4>3
    <3> QED BY <2>1, <3>2, <3>3, <1>2, <1>6
  <2>2. CASE c # b
    BY <2>2, <1>2, <1>6 DEF Inv, UpToDate
  <2> QED BY <2>1, <2>2
<1>11. Propagated'
  <2> SUFFICES ASSUME NEW c \in DOMAIN ran, NEW i \in DOMAIN function.succ[c]
               PROVE  LET d == function.succ[c][i]
                          o == Transfer(function.code[c], ran[c])
                      IN  \/ Holds(queue', [block |-> d, state |-> o])
                          \/ d \in DOMAIN states' /\ Absorbs(states'[d], o)
    BY <1>2 DEF Propagated, Out, Holds
  <2> DEFINE d == function.succ[c][i]
             o == Transfer(function.code[c], ran[c])
  <2>1. \/ Holds(queue, [block |-> d, state |-> o])
        \/ d \in DOMAIN states /\ Absorbs(states[d], o)
    BY DEF Inv, Propagated, Out, Holds
  <2>2. IsState(o)
    BY <1>7 DEF Inv, ATypeOK, TransferTyped
  <2> HIDE DEF o, d
  <2>3. CASE Holds(Tail(queue), [block |-> d, state |-> o])
    BY <2>3, <1>2 DEF d, o
  <2>4. CASE [block |-> d, state |-> o] = Head(queue)
    <3>1. d = b /\ o = t
      BY <2>4 DEF b, t
    <3> QED BY <3>1, <1>2, <1>4, <1>6 DEF d, o
  <2>5. CASE d \in DOMAIN states /\ Absorbs(states[d], o)
    <3>1. CASE d = b
      BY <2>2, <2>5, <3>1, <1>4, <1>6 DEF d, o
    <3>2. CASE d # b
      BY <2>5, <3>2, <1>6 DEF d, o
    <3> QED BY <3>1, <3>2
  <2> QED BY <2>1, <2>3, <2>4, <2>5, <1>1
<1> QED BY <1>8, <1>9, <1>10, <1>11 DEF Inv

LEMMA InvInit == AInit => Inv
<1> SUFFICES ASSUME AInit PROVE Inv
  OBVIOUS
<1>1. IsState(Unknown)
  BY DEF IsState, Unknown
<1>2. [block |-> Entry, state |-> Unknown] \in Item
  BY <1>1, StateIs, BlockAssumption DEF Item
<1>3. /\ function \in Function /\ queue = <<[block |-> Entry, state |-> Unknown]>>
      /\ DOMAIN states = {} /\ DOMAIN ran = {}
  BY DEF AInit
<1>4. ATypeOK
  BY <1>1, <1>3, BlockAssumption DEF ATypeOK
<1>5. QueueTyped
  BY <1>2, <1>3 DEF QueueTyped
<1> QED BY <1>3, <1>4, <1>5 DEF Inv, UpToDate, Propagated

LEMMA InvNext == ASSUME TransferTyped PROVE Inv /\ [ANext]_avars => Inv'
<1> SUFFICES ASSUME Inv, [ANext]_avars PROVE Inv'
  OBVIOUS
<1>1. CASE Visit
  BY <1>1, VisitTakes, RunPreserves DEF Visit
<1>2. CASE Revisit
  BY <1>2, RevisitTakes, RunPreserves DEF Revisit
<1>3. CASE Settle
  BY <1>3, SettlePreserves
<1>4. CASE UNCHANGED avars
  BY <1>4 DEF avars, Inv, ATypeOK, QueueTyped, UpToDate, Propagated, Out
<1> QED BY <1>1, <1>2, <1>3, <1>4 DEF ANext

----------------------------------------------------------------------------
(* Theorems                                                                *)

LEMMA Invariance == ASSUME TransferTyped PROVE ASpec => []Inv
<1>1. Inv /\ [ANext]_avars => Inv'
  BY InvNext
<1> QED BY <1>1, InvInit, PTL DEF ASpec

\* The driver's variables are well-typed in every analysis (ForwardDriver, Fixpoint).
THEOREM AnalysisTypes == ASSUME TransferTyped PROVE ASpec => []ATypeOK
<1>1. Inv => ATypeOK
  BY DEF Inv
<1> QED BY <1>1, Invariance, PTL

\* What a block passes on is never lost on its way to a successor
\* (ForwardDriver::runOnBlock): when the queue is empty the states are a fixpoint.
THEOREM NothingLost == ASSUME TransferTyped PROVE ASpec => []Propagated
<1>1. Inv => Propagated
  BY DEF Inv
<1> QED BY <1>1, Invariance, PTL

\* The states that optimizations read are the ones that the blocks were analysed
\* from (Fixpoint::setState), whatever the order in which states arrive.
THEOREM StatesUpToDate == ASSUME TransferTyped PROVE ASpec => []UpToDate
<1>1. Inv => UpToDate
  BY DEF Inv
<1> QED BY <1>1, Invariance, PTL

----------------------------------------------------------------------------
(* Progress                                                                *)

\* What reports a change changes the value (AVALUE::mergeWith).  The scalars of
\* ScalarsTracking.tla do not keep to this.
ChangesMove == \A a, b \in Value : Changes(a, b) => MergeValues(a, b) # a

\* Then the merge with a state that reports a change is another state.
LEMMA MergeMoves ==
    ASSUME ChangesMove, NEW s, NEW t, IsState(s), IsState(t), Changed(s, t)
    PROVE  MergeStates(s, t) # s
<1>1. PICK n \in DOMAIN t : Changes(Get(s, n), t[n])
  BY DEF Changed
<1>2. Get(s, n) \in Value /\ t[n] \in Value
  BY <1>1, GetTyped DEF IsState
<1>3. MergeValues(Get(s, n), t[n]) # Get(s, n)
  BY <1>1, <1>2 DEF ChangesMove
<1>4. n \in DOMAIN MergeStates(s, t) /\ MergeStates(s, t)[n] = MergeValues(Get(s, n), t[n])
  BY <1>1 DEF MergeStates
<1>5. CASE n \in DOMAIN s
  BY <1>3, <1>4, <1>5 DEF Get
<1>6. CASE n \notin DOMAIN s
  BY <1>4, <1>6
<1> QED BY <1>5, <1>6

\* A step puts one state in the place of another that it absorbs.
LEMMA Rises ==
    ASSUME Inv, NEW b, NEW s,
           DOMAIN states' = DOMAIN states \cup {b}, states'[b] = s,
           \A c \in DOMAIN states : c # b => states'[c] = states[c],
           b \in DOMAIN states => Absorbs(s, states[b])
    PROVE  \A c \in DOMAIN states : c \in DOMAIN states' /\ Absorbs(states'[c], states[c])
<1> SUFFICES ASSUME NEW c \in DOMAIN states PROVE Absorbs(states'[c], states[c])
  OBVIOUS
<1>1. IsState(states[c])
  BY DEF Inv, ATypeOK
<1>2. CASE c = b
  BY <1>2
<1>3. CASE c # b
  BY <1>1, <1>3, SelfAbsorbs
<1> QED BY <1>2, <1>3

\* What a step does to the states and the queue.
Progress ==
    /\ \A b \in DOMAIN states : b \in DOMAIN states' /\ Absorbs(states'[b], states[b])
    /\ states' # states \/ Len(queue') < Len(queue)

LEMMA StepProgresses == ASSUME ChangesMove, Inv, ANext PROVE Progress
<1> DEFINE b == Head(queue).block
           t == Head(queue).state
           m == MergeStates(states[b], t)
<1>1. queue # <<>> /\ queue \in Seq(Item) /\ Head(queue) \in Item
  BY HeadAndTail DEF Inv, QueueTyped, ANext, Visit, Revisit, Settle
<1>2. IsState(t)
  BY <1>1, StateIs DEF Item
<1>3. b \in DOMAIN states => IsState(states[b]) /\ Absorbs(m, states[b])
  <2> SUFFICES ASSUME b \in DOMAIN states PROVE IsState(states[b]) /\ Absorbs(m, states[b])
    OBVIOUS
  <2>1. IsState(states[b])
    BY DEF Inv, ATypeOK
  <2> QED BY <2>1, <1>2, MergeAbsorbs, SelfAbsorbs
<1>4. CASE Visit
  <2>1. /\ b \notin DOMAIN states /\ DOMAIN states' = DOMAIN states \cup {b} /\ states'[b] = t
        /\ \A c \in DOMAIN states : c # b => states'[c] = states[c]
    BY <1>4 DEF Visit, Run, Put
  <2>2. \A c \in DOMAIN states : c \in DOMAIN states' /\ Absorbs(states'[c], states[c])
    <3> HIDE DEF b, t
    <3> QED BY <2>1, Rises
  <2> QED BY <2>1, <2>2 DEF Progress
<1>5. CASE Revisit
  <2>1. /\ b \in DOMAIN states /\ Changed(states[b], t)
        /\ DOMAIN states' = DOMAIN states \cup {b} /\ states'[b] = m
        /\ \A c \in DOMAIN states : c # b => states'[c] = states[c]
    BY <1>5 DEF Revisit, Run, Put
  <2>2. states'[b] # states[b]
    BY <2>1, <1>2, <1>3, MergeMoves
  <2>3. \A c \in DOMAIN states : c \in DOMAIN states' /\ Absorbs(states'[c], states[c])
    <3> HIDE DEF b, t, m
    <3> QED BY <2>1, <1>3, Rises
  <2> QED BY <2>2, <2>3 DEF Progress
<1>6. CASE Settle
  <2>1. /\ b \in DOMAIN states /\ states' = [states EXCEPT ![b] = m] /\ queue' = Tail(queue)
    BY <1>6 DEF Settle
  <2>2. /\ DOMAIN states' = DOMAIN states \cup {b} /\ states'[b] = m
        /\ \A c \in DOMAIN states : c # b => states'[c] = states[c]
    <3> HIDE DEF b, m
    <3> QED BY <2>1
  <2>3. \A c \in DOMAIN states : c \in DOMAIN states' /\ Absorbs(states'[c], states[c])
    <3> HIDE DEF b, t, m
    <3> QED BY <2>1, <2>2, <1>3, Rises
  <2>4. Len(queue') < Len(queue)
    <3> HIDE DEF b, t, m
    <3> QED BY <2>1, <1>1
  <2> QED BY <2>3, <2>4 DEF Progress
<1> QED BY <1>4, <1>5, <1>6 DEF ANext

\* An analysis whose merges report true changes gets on with each step, for every
\* function and in whatever order states arrive (Fixpoint::setState): to a first state,
\* to a higher one, or to a shorter queue.
THEOREM AnalysisProgresses == ASSUME TransferTyped, ChangesMove PROVE ASpec => Progresses
<1>1. Inv /\ [ANext]_avars => [Progress]_avars
  BY StepProgresses
<1> QED BY <1>1, Invariance, PTL DEF ASpec, Progresses, Progress
============================================================================
