--------------------------- MODULE MCTypeAndShape ---------------------------
(* Instances of TypeAndShape: the functions that are analysed.               *)
EXTENDS TypeAndShape

X == <<"x">>
Y == <<"y">>
MCVar == {X, Y}
MCBlock == {"b1", "b2", "b3", "b4"}

\* Registers: block, statement in it (0 for a phi), instruction in that.
MCName == MCVar \cup (MCBlock \X (0..2) \X (1..4))

\* Statements: NULL, an assigned literal, an assigned operation, a call.
Null(b) == <<[op |-> "const", to |-> <<b, 1, 1>>, class |-> "other"]>>
Literal(b, n, x, class) ==
    <<[op |-> "const", to |-> <<b, n, 1>>, class |-> class],
      [op |-> "set", var |-> x, from |-> <<b, n, 1>>]>>
Binary(b, x, op, y, z) ==
    <<[op |-> "get", to |-> <<b, 1, 1>>, var |-> y],
      [op |-> "get", to |-> <<b, 1, 2>>, var |-> z],
      [op |-> op, to |-> <<b, 1, 3>>, lhs |-> <<b, 1, 1>>, rhs |-> <<b, 1, 2>>],
      [op |-> "set", var |-> x, from |-> <<b, 1, 3>>]>>
CallIn(b) == <<[op |-> "call", to |-> <<b, 1, 1>>]>>

\* The value of a statement, and its join with that of another branch.
Result(code) == LET i == code[Len(code)] IN IF i.op = "set" THEN i.from ELSE i.to
Join(second, third) ==
    <<[op |-> "phi", to |-> <<"b4", 0, 1>>,
       values |-> [b2 |-> Result(second), b3 |-> Result(third)]]>>

Bodies(b) == {Null(b), Literal(b, 1, X, "dbl"), Binary(b, X, "add", X, Y), CallIn(b)}
Finish == Binary("b4", Y, "add", X, Y)

\* An if with an else, whose value is not used, and a while loop.
If(first, second, third) ==
    [succ |-> [b1 |-> <<"b2", "b3">>, b2 |-> <<"b4">>, b3 |-> <<"b4">>, b4 |-> <<>>],
     code |-> [b1 |-> first, b2 |-> second, b3 |-> third,
               b4 |-> Join(second, third) \o Finish]]
While(first, second, third) ==
    [succ |-> [b1 |-> <<"b2">>, b2 |-> <<"b3", "b4">>, b3 |-> <<"b2">>, b4 |-> <<>>],
     code |-> [b1 |-> first, b2 |-> second, b3 |-> third, b4 |-> Finish]]
Functions(firsts) ==
    {If(first, second, third) :
        first \in firsts, second \in Bodies("b2"), third \in Bodies("b3")}
    \cup {While(first, second, third) :
        first \in firsts, second \in Bodies("b2"), third \in Bodies("b3")}

\* Functions that assign all variables before they branch.
Assigned ==
    Functions({Literal("b1", 1, X, c[1]) \o Literal("b1", 2, Y, c[2]) :
                  c \in {<<"int", "int">>, <<"dbl", "int">>, <<"lgl", "int">>}})

ASSUME AssignedAnalysable == \A f \in Assigned : Analysable(f)
=============================================================================
