--------------------------- MODULE MCArgumentMatch ---------------------------
(* ArgumentMatch for TLC: calls of up to three arguments with every mixture  *)
(* of names, and of up to two with every mixture of kinds, for all orders of *)
(* up to three formals, two of which start alike, and some with an ellipsis. *)
EXTENDS ArgumentMatch

MCName == {"x", "xy", "z"}
MCPrefix == {<<"x", "xy">>}

A(tag, kind) == [tag |-> tag, kind |-> kind]
Tags == MCName \cup {None}
Dotted == A(None, "dots")
OneOf == {A(t, k) : t \in {"x", None}, k \in {"literal", "null", "code", "missing"}} \cup {Dotted}
Plain == {A(t, "code") : t \in Tags}
MCSites ==
    {<<>>} \cup {<<a>> : a \in OneOf}
    \cup {s \in {<<a, b>> : a, b \in OneOf} : s # <<Dotted, Dotted>>}
    \cup {<<a, b, c>> : a, b, c \in Plain}
    \cup {<<a, Dotted, c>> : a, c \in Plain}
    \cup {<<a, b, A(None, "null")>> : a, b \in Plain}

Distinct(S, n) == {s \in [1..n -> S] : \A i, j \in 1..n : s[i] = s[j] => i = j}
MCCallees ==
    {[kind |-> "closure", native |-> TRUE, formals |-> f]
        : f \in UNION {Distinct(MCName \cup {Dots}, n) : n \in 0..2}
               \cup Distinct(MCName, 3)
               \cup {<<"x", Dots, "xy">>, <<Dots, "x", "z">>, <<"xy", "z", Dots>>}}
    \cup {[kind |-> "closure", native |-> FALSE, formals |-> <<"x", "z">>],
          [kind |-> "builtin", native |-> FALSE, formals |-> <<>>]}

MCEllipses ==
    {<<>>, <<[tag |-> None, value |-> Val("promise", 11)]>>,
     <<[tag |-> "x", value |-> Val("promise", 11)], [tag |-> None, value |-> Val("literal", 12)]>>}
=============================================================================
