--------------------------- MODULE MCInlineCache ---------------------------
(* Instances of InlineCache: its literals, their kinds and orders.          *)
EXTENDS InlineCache, TLC

CONSTANTS s1, s2, AB, BA, ABC, Prim, Quote, Unit, InOrder, Swapped

\* AB and BA take the named arguments of s1 in opposite orders, ABC has another
\* number of formals, Prim is a builtin, Quote a special, Unit has a NULL body.
MCKind == [l \in Lit |-> CASE l = Prim -> "builtin" [] l = Quote -> "special"
                           [] OTHER -> "closure"]
MCBodyType == [l \in Lit |-> IF l \in {Prim, Quote, Unit} THEN "nil"
                             ELSE IF l = ABC THEN "bcode" ELSE "lang"]

\* Site s1 names its arguments, s2 does not.
MCOrder == [s \in Site |-> [l \in Lit |->
    CASE l \in {ABC, Prim, Quote, Unit} -> NoOrder
      [] s = s1 /\ l = BA -> Swapped
      [] OTHER -> InOrder]]
MCSize == [s \in Site |-> 2]
MCOrders == {InOrder, Swapped}
MCDiffSize == [s \in Site |-> IF s = s1 THEN 2 ELSE 1]

\* Addresses and functions are only ever compared, so permuting them is sound
\* for the invariants.
Symmetric == Permutations(Addr) \cup Permutations(Fun)
============================================================================
