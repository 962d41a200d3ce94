----------------------- MODULE MCExpressionCompiler -----------------------
(* Families of functions for ExpressionCompiler.                          *)
EXTENDS ExpressionMeaning

One == Literal(11)
Two == Literal(12)
ReadX == Expr("read", <<>>)
SetX == Expr("assign", <<One>>)
BreakIt == Expr("break", <<>>)
NextOne == Expr("next", <<>>)
Missing == Expr("missing", <<>>)
ReturnOf(e) == Expr("return", <<e>>)
Block(a, b) == Expr("block", <<a, b>>)
If(a) == Expr("if", <<ReadX, a>>)
IfElse(a, b) == Expr("if", <<ReadX, a, b>>)
Arith(a, b) == Expr("arith", <<a, b>>)
CallOf(e) == Expr("call", <<e>>)
Applied(e) == Expr("apply", <<e>>)

Jumps == {BreakIt, NextOne, ReturnOf(One)}
Atoms == Jumps \cup {ReadX, SetX}
Loops(bodies) ==
    UNION {{Expr("repeat", <<b>>), Expr("while", <<ReadX, b>>), Expr("for", <<ReadX, b>>)}
           : b \in bodies}

\* Bodies of loops choose, so that no loop runs for ever without a choice.
Simple == Loops({Block(If(a), b) : a, b \in Atoms} \cup {IfElse(a, b) : a, b \in Atoms})
InnerLoops == Loops({If(a) : a \in Jumps})

\* Loops in loops, in what a for loop runs through, and in operands.
Nested ==
    Loops({Block(l, If(a)) : l \in InnerLoops, a \in {BreakIt, NextOne}})
        \cup {Expr("for", <<Block(l, ReadX), If(a)>>) : l \in InnerLoops, a \in Jumps}
        \cup {Arith(Block(l, ReadX), Two) : l \in InnerLoops}

\* What may be in a promise, alone, in a loop and in another promise.
Promised == {IfElse(ReturnOf(One), Two), SetX, ReturnOf(SetX),
             Expr("for", <<ReadX, If(ReturnOf(One))>>), Expr("while", <<ReadX, NextOne>>)}
Calls ==
    {CallOf(p) : p \in Promised} \cup {CallOf(CallOf(p)) : p \in Promised}
        \cup {Expr("call", <<SetX, One, p>>) : p \in Promised}
        \cup Loops({CallOf(p) : p \in Promised \cup {BreakIt}} \cup {Arith(If(BreakIt), ReadX)})
        \cup {Applied(Block(CallOf(p), Two)) : p \in Promised}
        \cup {CallOf(Applied(Block(If(ReturnOf(One)), Two)))}
        \cup {Applied(l) : l \in InnerLoops}

\* Switches of three cases: which ones have no name, which ones are empty; and one
\* without cases.
Cases(empty) == [i \in 1..3 |-> IF i \in empty THEN Missing ELSE
                                <<Two, SetX, ReturnOf(ReadX)>>[i]]
Switches ==
    {Switch(<<ReadX>> \o Cases(empty), [i \in 1..3 |-> i \notin unnamed]) :
        empty \in SUBSET (1..3), unnamed \in SUBSET (1..3)} \cup {Switch(<<SetX>>, <<>>)}

\* Reading and updating elements, parentheses, and results of all kinds.
Results == {Expr("paren", <<SetX>>), Expr("get", <<ReadX, Block(SetX, Two)>>),
            Expr("update", <<One, CallOf(ReadX)>>), Expr("update", <<Arith(One, Two), Two>>),
            ReturnOf(SetX), Expr("return", <<>>), Expr("block", <<>>)}

Functions ==
    {Block(e, ReadX) : e \in Simple \cup Nested \cup Calls \cup Switches \cup Results}
        \cup {Arith(e, Two) : e \in Switches \cup Results}
        \cup {Block(ReadX, e) : e \in Results \cup Calls}

\* With their parts, and how deep they are.
WithParts(S) == S \cup UNION {{e.parts[i] : i \in 1..Len(e.parts)} : e \in S}
Expressions == WithParts(WithParts(WithParts(WithParts(WithParts(Functions)))))
Depths[e \in Expressions] == 1 + Max({0} \cup {Depths[e.parts[i]] : i \in 1..Len(e.parts)})

\* The constants.  (TLC evaluates what stands here at every use of a constant,
\* and what it refers to once.)
MCPrograms == Functions
MCExpression == Expressions
MCDepth == Depths
===========================================================================
