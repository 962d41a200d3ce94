--------------------------- MODULE FunctionCalls ---------------------------
(***************************************************************************)
(* What a function call in R promises, without caches or compilation: the  *)
(* call runs the code its callee was made from, with the calling           *)
(* convention of the callee's kind and the arguments in the order the      *)
(* callee's formals ask for.  Module InlineCache implements this.          *)
(***************************************************************************)
EXTENDS Naturals

CONSTANTS Site, Fun, Lit, None, Kind, Order, MaxDepth

VARIABLES lit,    \* lit[f]: what f is made from, None if undefined
          depth,  \* number of calls on the stack
          calls   \* calls[d] = [site, fun, ran], ran = None until the callee runs

vars == <<lit, depth, calls>>

Top == calls[depth]

Init ==
    /\ lit = [f \in Fun |-> None]
    /\ depth = 0
    /\ calls = [d \in 1..MaxDepth |-> None]

Idle(f) == \A d \in 1..depth : calls[d].fun # f

\* R code runs at top level, in a callee, or in the arguments of a builtin.
RCodeRuns == depth > 0 => Top.ran # None \/ Kind[lit[Top.fun]] = "builtin"

Define(f, l) ==
    /\ RCodeRuns /\ Idle(f)
    /\ lit' = [lit EXCEPT ![f] = l]
    /\ UNCHANGED <<depth, calls>>

Invoke(s, f) ==
    /\ RCodeRuns /\ depth < MaxDepth /\ lit[f] # None
    /\ depth' = depth + 1
    /\ calls' = [calls EXCEPT ![depth + 1] = [site |-> s, fun |-> f, ran |-> None]]
    /\ UNCHANGED lit

\* What running f as the callee of site s means.
Outcome(s, f) == [how |-> Kind[lit[f]], lit |-> lit[f], order |-> Order[s][lit[f]]]

RunCallee ==
    /\ depth > 0 /\ Top.ran = None
    /\ calls' = [calls EXCEPT ![depth].ran = Outcome(Top.site, Top.fun)]
    /\ UNCHANGED <<lit, depth>>

\* A call returns, or an R error drops the calls above d.
Leave(d) ==
    /\ depth > 0 /\ RCodeRuns
    /\ depth' = d
    /\ calls' = [e \in 1..MaxDepth |-> IF e > d THEN None ELSE calls[e]]
    /\ UNCHANGED lit

Next ==
    \/ \E f \in Fun, l \in Lit : Define(f, l)
    \/ \E s \in Site, f \in Fun : Invoke(s, f)
    \/ RunCallee
    \/ \E d \in 0..(depth - 1) : Leave(d)

Spec == Init /\ [][Next]_vars
============================================================================
