------------------------- MODULE ExpressionMeaning --------------------------
(* What an expression means in R, as far as ExpressionCompiler tells things  *)
(* apart, and what the compiled function has to do to mean the same.         *)
EXTENDS ExpressionCompiler

(* R's meaning of an expression.  The state s has the choices still to come, *)
(* what has been observed, and x; evaluation ends with a value, or with the  *)
(* break, next or return on its way to its loop or function, or it wants a   *)
(* choice that has not been made.                                            *)

Ends(how, v, visible, s) == [how |-> how, v |-> v, visible |-> visible, s |-> s]
Yields(v, s) == Ends("value", v, TRUE, s)
Silently(v, s) == Ends("value", v, FALSE, s)
Saw(s, event) == [s EXCEPT !.out = Append(@, event)]
Then(r, Rest(_)) == IF r.how = "value" THEN Rest(r) ELSE r
Chosen(s, event, Rest(_, _)) ==
    IF s.in = <<>> THEN Ends("choice", Nil, TRUE, s)
    ELSE Rest(Head(s.in), Saw([s EXCEPT !.in = Tail(@)], event))

RECURSIVE Eval(_, _), EvalLoop(_, _), EvalFor(_, _, _, _)

\* Values of expressions from left to right, in r.vs.
EvalParts(parts, s) ==
    FoldLeft(LAMBDA r, e : Then(r, LAMBDA q :
                 LET v == Eval(e, q.s)
                 IN  IF v.how = "value" THEN [v EXCEPT !.v = Append(q.v, v.v)] ELSE v),
             Yields(<<>>, s), parts)

\* A loop goes on after its body or next, and a break ends it.
AfterBody(r, Again(_)) ==
    CASE r.how \in {"value", "next"} -> Again(r.s)
      [] r.how = "break" -> Silently(Nil, r.s)
      [] OTHER -> r

EvalTest(e, s, Yes(_), No(_)) ==
    Then(Eval(e, s), LAMBDA r :
        Chosen(r.s, <<"test", r.v>>, LAMBDA c, t : IF c = 1 THEN Yes(t) ELSE No(t)))

EvalLoop(e, s) ==
    LET Body(t) == AfterBody(Eval(Last(e.parts), t), LAMBDA u : EvalLoop(e, u))
    IN  IF e.op = "repeat" THEN Body(s)
        ELSE EvalTest(e.parts[1], s, Body, LAMBDA t : Silently(Nil, t))

EvalFor(e, i, n, s) ==
    IF i = n THEN Silently(Nil, s)
    ELSE AfterBody(Eval(e.parts[2], Saw(s, <<"element", i>>)), LAMBDA t : EvalFor(e, i + 1, n, t))

EvalCall(e, s) ==
    Chosen(s, <<"call">>, LAMBDA k, t :
        LET forced == FoldLeft(LAMBDA r, p : Then(r, LAMBDA q :
                                   Then(Eval(p, q.s), LAMBDA v : Yields(Nil, Saw(v.s, <<"forced", v.v>>)))),
                               Yields(Nil, t), SelectSeq(SubSeq(e.parts, 1, k), LAMBDA p : p.op # "literal"))
        IN  Then(forced, LAMBDA r : Yields(FromCall, r.s)))

\* A switch runs the case it selects, or the next one that is not empty.  With
\* no such case rjit runs the default for strings, else the last case (R has
\* NULL; tests/stackless.R expects the last).
EvalSwitch(e, s) ==
    LET n == Len(e.named)
        RunCase(i, t) ==
            LET rest == {j \in i..n : e.parts[j + 1].op # "missing"}
            IN  IF rest = {} THEN Yields(Nil, t)
                ELSE Eval(e.parts[1 + CHOOSE j \in rest : \A k \in rest : j <= k], t)
    IN  Then(Eval(e.parts[1], s), LAMBDA r :
            IF n = 0 THEN Silently(Nil, r.s)
            ELSE Chosen(r.s, <<"switch", r.v>>, LAMBDA c, t :
                     RunCase(CASE c[1] = "number" -> IF c[2] > n THEN n ELSE c[2]
                               [] c[1] = "name" -> CaseOfName(e, c[2]), t)))

Eval(e, s) ==
    CASE e.op = "literal" -> Yields(e.n, s)
      [] e.op = "read" -> Yields(s.x, s)
      [] e.op = "assign" ->
            Then(Eval(e.parts[1], s), LAMBDA r :
                Silently(r.v, [Saw(r.s, <<"assign", r.v>>) EXCEPT !.x = r.v]))
      [] e.op = "update" ->
            Then(EvalParts(<<e.parts[2], Expr("read", <<>>), e.parts[1]>>, s), LAMBDA r :
                Silently(r.v[1], [Saw(r.s, <<"update", r.v[2], r.v[1], r.v[3]>>) EXCEPT !.x = Updated]))
      [] e.op \in {"arith", "get"} ->
            Then(EvalParts(e.parts, s), LAMBDA r : Yields(FromPrimitive, Saw(r.s, <<e.op>> \o r.v)))
      [] e.op = "paren" -> Then(Eval(e.parts[1], s), LAMBDA r : Yields(r.v, r.s))
      [] e.op = "block" ->
            FoldLeft(LAMBDA r, p : Then(r, LAMBDA q : Eval(p, q.s)), Yields(Nil, s), e.parts)
      [] e.op = "if" ->
            EvalTest(e.parts[1], s, LAMBDA t : Eval(e.parts[2], t),
                     LAMBDA t : IF Len(e.parts) = 2 THEN Silently(Nil, t) ELSE Eval(e.parts[3], t))
      [] e.op \in {"repeat", "while"} -> EvalLoop(e, s)
      [] e.op = "for" ->
            Then(Eval(e.parts[1], s), LAMBDA r :
                Chosen(r.s, <<"for", r.v>>, LAMBDA n, t : EvalFor(e, 0, n, t)))
      [] e.op \in {"break", "next"} -> Ends(e.op, Nil, TRUE, s)
      [] e.op = "return" ->
            IF e.parts = <<>> THEN Ends("return", Nil, TRUE, s)
            ELSE Then(Eval(e.parts[1], s), LAMBDA r : [r EXCEPT !.how = "return"])
      [] e.op = "switch" -> EvalSwitch(e, s)
      [] e.op = "call" -> EvalCall(e, s)
      [] e.op = "apply" ->
            LET r == Eval(e.parts[1], s)
            IN  IF r.how = "return" THEN Yields(r.v, r.s) ELSE r

\* What the choices made so far let the function do.
Meaning == Eval(program, [in |-> choices, out |-> <<>>, x |-> Initial])

-----------------------------------------------------------------------------
(* Properties *)

\* The compiled function does what R says the function does: whenever it asks
\* for a choice or has returned, it has applied the same primitives to the same
\* operands in the same order, and it returns the same value; and it takes no
\* break or next whose target was never set (Compiler.cpp).
RunsRight ==
    /\ frames # <<>> /\ Top.kind # "callee" => Top.block # Unset
    /\ Chooses \/ result.given =>
        LET m == Meaning
        IN  /\ m.s.in = <<>> /\ m.s.out = out
            /\ m.how \in (IF result.given THEN {"value", "return"} ELSE {"choice"})
            /\ result.given => m.v = result.v

\* Expressions whose visibility is known where they are compiled.  It is not
\* if the way through them decides, for the flag of the compiler is that of the
\* branch it has compiled last; arithmetic leaves the flag as the last operand
\* did; and after a call it is up to the callee.
RECURSIVE Straight(_), Plain(_)
Straight(e) ==
    CASE e.op \in {"if", "switch", "arith", "call", "apply"} -> FALSE
      [] e.op \in {"block", "return"} -> e.parts = <<>> \/ Straight(Last(e.parts))
      [] OTHER -> TRUE
Plain(e) ==
    /\ e.op = "return" => Straight(e)
    /\ \A i \in 1..Len(e.parts) : Plain(e.parts[i])

\* The result of such a function is marked as invisible exactly if it is invisible in R
\* (Compiler::compileReturn marks it by the flag at that point of the code).
VisibleRight ==
    result.given /\ Straight(program) /\ Plain(program) => result.silent = ~Meaning.visible
=============================================================================
