-------------------------- MODULE ForwardAnalysis --------------------------
(***************************************************************************)
(* The driver of forward analyses (ir::ForwardDriver, ir::Fixpoint and     *)
(* ir::AState): a queue of blocks with the states that arrive at them, and *)
(* for every visited block the merge of what has arrived.  A state maps    *)
(* the registers and variables that it knows to abstract values; what an   *)
(* analysis does on a block, and how its values merge, are parameters.     *)
(***************************************************************************)
EXTENDS Naturals, Sequences, SequencesExt

CONSTANTS
    Block,             \* basic blocks
    Entry,             \* the first block of every function
    Function,          \* functions: [code : [Block -> ..], succ : [Block -> Seq(Block)]]
    Name,              \* registers and variables
    Value,             \* abstract values
    Bottom,            \* AVALUE(): the value of a name that a state gets to know
    MergeValues(_, _), \* AVALUE::mergeWith: the merged value
    Changes(_, _),     \* AVALUE::mergeWith: its result
    Transfer(_, _)     \* dispatch on all instructions of a block's code

\* A state is a map of some registers and variables (AState).
IsState(s) == DOMAIN s \subseteq Name /\ s \in [DOMAIN s -> Value]
Unknown == [n \in {} |-> Bottom]
Get(s, n) == IF n \in DOMAIN s THEN s[n] ELSE Bottom

ASSUME BlockAssumption == Entry \in Block /\ Bottom \in Value
ASSUME FunctionAssumption ==
    \A f \in Function : f.succ \in [Block -> Seq(Block)] /\ DOMAIN f.code = Block

\* Values merge to values; merging again what is merged already has no effect, nor
\* has it after further merges; and a merge that reports no change makes none.
ASSUME MergeAssumption ==
    \A a, b \in Value :
       /\ MergeValues(a, b) \in Value
       /\ MergeValues(a, a) = a
       /\ MergeValues(MergeValues(a, b), b) = MergeValues(a, b)
       /\ ~Changes(a, b) => MergeValues(a, b) = a
       /\ MergeValues(a, b) = a =>
             \A c \in Value : MergeValues(MergeValues(a, c), b) = MergeValues(a, c)

VARIABLES
    function,   \* the function that is analysed
    queue,      \* ForwardDriver::q_
    states,     \* Fixpoint::states_: a map of the blocks that have been visited
    ran         \* ran[b]: the state that such a block was last analysed from

avars == <<function, queue, states, ran>>

----------------------------------------------------------------------------

\* Faulty variants: names of theirs that mine does not know get no value, and do not
\* count as a change.
Unset == <<>>
MergeStatesUnset(mine, theirs) ==
    [n \in DOMAIN mine \cup DOMAIN theirs |->
        IF n \notin DOMAIN mine THEN Unset
        ELSE IF n \in DOMAIN theirs THEN MergeValues(mine[n], theirs[n]) ELSE mine[n]]
ChangedKnown(mine, theirs) ==
    \E n \in DOMAIN mine \cap DOMAIN theirs : Changes(mine[n], theirs[n])

\* AState::mergeWith: names of theirs that mine does not know start from Bottom.
MergeStates(mine, theirs) ==
    [n \in DOMAIN mine \cup DOMAIN theirs |->
        IF n \in DOMAIN theirs THEN MergeValues(Get(mine, n), theirs[n]) ELSE mine[n]]
Changed(mine, theirs) == \E n \in DOMAIN theirs : Changes(Get(mine, n), theirs[n])

Out(b) == Transfer(function.code[b], ran[b])

\* A block's successors are queued from the second one on, then the first.
Successors(b) ==
    LET succ == function.succ[b]
    IN  IF succ = <<>> THEN <<>> ELSE Append(Tail(succ), Head(succ))
Enqueue(b, s) == [i \in 1..Len(Successors(b)) |-> [block |-> Successors(b)[i], state |-> s]]

AInit ==
    /\ function \in Function
    /\ queue = <<[block |-> Entry, state |-> Unknown]>>
    /\ states = [b \in {} |-> Unknown]
    /\ ran = [b \in {} |-> Unknown]

\* std::map's assignment to an element.
Put(map, b, s) == [c \in DOMAIN map \cup {b} |-> IF c = b THEN s ELSE map[c]]

\* The block at the front is analysed from the state s.
Run(s) ==
    LET b == Head(queue).block
    IN  /\ states' = Put(states, b, s)
        /\ ran' = Put(ran, b, s)
        /\ queue' = Tail(queue) \o Enqueue(b, Transfer(function.code[b], s))
        /\ UNCHANGED function

\* Faulty variant: a state that arrives replaces the stored one.
RevisitReplacing ==
    /\ queue # <<>> /\ Head(queue).block \in DOMAIN states
    /\ Changed(states[Head(queue).block], Head(queue).state)
    /\ Run(Head(queue).state)

\* Faulty variant: a block is analysed again whatever arrives.
RevisitAlways ==
    /\ queue # <<>> /\ Head(queue).block \in DOMAIN states
    /\ Run(MergeStates(states[Head(queue).block], Head(queue).state))

\* A block that has no state takes the one that arrives.
Visit ==
    /\ queue # <<>> /\ Head(queue).block \notin DOMAIN states
    /\ Run(Head(queue).state)

\* A block that has one is analysed again if the merge reports a change.
Revisit ==
    /\ queue # <<>> /\ Head(queue).block \in DOMAIN states
    /\ Changed(states[Head(queue).block], Head(queue).state)
    /\ Run(MergeStates(states[Head(queue).block], Head(queue).state))

\* Otherwise the block has reached its fixpoint; what the merge got to know stays.
Settle ==
    /\ queue # <<>> /\ Head(queue).block \in DOMAIN states
    /\ ~Changed(states[Head(queue).block], Head(queue).state)
    /\ states' = [states EXCEPT ![Head(queue).block] = MergeStates(@, Head(queue).state)]
    /\ queue' = Tail(queue)
    /\ UNCHANGED <<function, ran>>

ANext == Visit \/ Revisit \/ Settle
ASpec == AInit /\ [][ANext]_avars

Analysed == queue = <<>>

----------------------------------------------------------------------------
(* Properties *)

\* Every variable has its type.
ATypeOK ==
    /\ function \in Function
    /\ \A i \in DOMAIN queue : queue[i].block \in Block /\ IsState(queue[i].state)
    /\ DOMAIN states \subseteq Block /\ DOMAIN ran = DOMAIN states
    /\ \A b \in DOMAIN states : IsState(states[b]) /\ IsState(ran[b])

\* The state s says all that t does: t merges into it without effect.
Absorbs(s, t) ==
    DOMAIN t \subseteq DOMAIN s /\ \A n \in DOMAIN t : MergeValues(s[n], t[n]) = s[n]

\* What a visited block passes on waits in the queue or has been merged into the
\* successor's state: no change gets lost (ForwardDriver::runOnBlock).
Propagated ==
    \A b \in DOMAIN ran :
       \A i \in DOMAIN function.succ[b] :
          LET c == function.succ[b][i]
          IN  \/ \E k \in DOMAIN queue : queue[k] = [block |-> c, state |-> Out(b)]
              \/ c \in DOMAIN states /\ Absorbs(states[c], Out(b))

\* The stored state is the one that the block was last analysed from, up to names
\* whose value is Bottom.
UpToDate ==
    \A b \in DOMAIN states :
       /\ Absorbs(states[b], ran[b])
       /\ \A n \in DOMAIN states[b] : states[b][n] = Get(ran[b], n)

\* A merge that reports a change makes one (AState::mergeWith): otherwise the block
\* is analysed again for nothing, and a block that follows itself for ever.
ChangesReal ==
    queue # <<>> => LET b == Head(queue).block
                        s == Head(queue).state
                    IN  b \in DOMAIN states /\ Changed(states[b], s) =>
                            MergeStates(states[b], s) # states[b]

\* The driver forgets nothing and gets on: the states of blocks only rise, and each
\* step gives one its first state, or a higher one, or shortens the queue.
Progresses ==
    [][/\ \A b \in DOMAIN states : b \in DOMAIN states' /\ Absorbs(states'[b], states[b])
       /\ states' # states \/ Len(queue') < Len(queue)]_avars

\* The queue runs dry.
Terminates == <>Analysed
============================================================================
