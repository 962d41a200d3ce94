---------------------- MODULE ExpressionCompilerProofs ----------------------
(* Proofs about ExpressionCompiler, for all expressions, programs and        *)
(* bounds: the blocks that the compiler builds all end and lead to each      *)
(* other, by induction over the parts of an expression, and the machine that *)
(* runs them keeps every activation at an instruction, on top of the one     *)
(* that has called it.                                                       *)
EXTENDS ExpressionCompiler, WellFoundedInduction, FiniteSetTheorems, SequenceTheorems, TLAPS

-----------------------------------------------------------------------------
(* Induction and recursion                                                   *)

LEMMA Induction ==
    ASSUME NEW T, 0 \in T, \A n \in Nat : n \in T => n + 1 \in T
    PROVE  Nat \subseteq T
<1> DEFINE R == OpToRel(<, Nat)
<1>1. IsWellFoundedOn(R, Nat)
  BY NatLessThanWellFounded
<1>2. \A x1, y1 \in Nat : x1 < y1 => <<x1, y1>> \in R
  BY DEF OpToRel
<1> HIDE DEF R
<1> SUFFICES ASSUME Nat \ T # {} PROVE FALSE
  OBVIOUS
<1>3. PICK m \in Nat \ T : \A y1 \in Nat \ T : ~(<<y1, m>> \in R)
  BY <1>1, WFMin
<1>4. m # 0 /\ m - 1 \in Nat /\ m - 1 < m
  BY <1>3
<1>5. m - 1 \notin Nat \ T
  BY <1>2, <1>3, <1>4
<1>6. (m - 1) + 1 \in T
  BY <1>4, <1>5
<1> QED BY <1>3, <1>6

\* The parts of an expression are expressions of a smaller depth.
LEMMA PartsAreExpressions ==
    ASSUME NEW e \in Expression
    PROVE  /\ e.parts \in Seq(Expression) /\ Len(e.parts) \in Nat
           /\ Depth[e] \in Nat
           /\ \A i \in 1..Len(e.parts) :
                 e.parts[i] \in Expression /\ Depth[e.parts[i]] \in Nat /\ Depth[e.parts[i]] < Depth[e]
BY ExpressionAssumption

\* What holds for an expression whenever it holds for its parts holds for all.
LEMMA PartsInduction ==
    ASSUME NEW T,
           \A e \in Expression : (\A i \in 1..Len(e.parts) : e.parts[i] \in T) => e \in T
    PROVE  Expression \subseteq T
<1> DEFINE U == {n \in Nat : \A e \in Expression : Depth[e] < n => e \in T}
<1>1. 0 \in U
  BY PartsAreExpressions
<1>2. ASSUME NEW n \in Nat, n \in U PROVE n + 1 \in U
  <2> SUFFICES ASSUME NEW e \in Expression, Depth[e] < n + 1 PROVE e \in T
    OBVIOUS
  <2>1. \A i \in 1..Len(e.parts) : e.parts[i] \in Expression /\ Depth[e.parts[i]] < n
    BY PartsAreExpressions
  <2>2. \A i \in 1..Len(e.parts) : e.parts[i] \in T
    BY <2>1, <1>2
  <2> QED BY <2>2
<1> HIDE DEF U
<1>3. Nat \subseteq U
  BY <1>1, <1>2, Induction
<1>4. ASSUME NEW e \in Expression PROVE e \in T
  <2>1. Depth[e] \in Nat /\ Depth[e] < Depth[e] + 1 /\ Depth[e] + 1 \in Nat
    BY PartsAreExpressions
  <2>2. Depth[e] + 1 \in U
    BY <2>1, <1>3
  <2> QED BY <2>1, <2>2 DEF U
<1> QED BY <1>4

\* A function on expressions by recursion over their parts: step has its value for
\* an expression and the values for its parts.
OfParts(g, e) == [i \in 1..Len(e.parts) |-> g[e.parts[i]]]
Solves(g, n, step, R) ==
    \A e \in Expression : Depth[e] < n => g[e] \in R /\ g[e] = step[e][OfParts(g, e)]

LEMMA SolutionUnique ==
    ASSUME NEW R, NEW step, NEW g, NEW h, NEW n \in Nat, Solves(g, n, step, R), Solves(h, n, step, R)
    PROVE  \A e \in Expression : Depth[e] < n => g[e] = h[e]
<1> DEFINE T == {e \in Expression : Depth[e] < n => g[e] = h[e]}
<1>1. ASSUME NEW e \in Expression, \A i \in 1..Len(e.parts) : e.parts[i] \in T
      PROVE  e \in T
  <2> SUFFICES ASSUME Depth[e] < n PROVE g[e] = h[e]
    OBVIOUS
  <2>1. \A i \in 1..Len(e.parts) : g[e.parts[i]] = h[e.parts[i]]
    BY <1>1, PartsAreExpressions
  <2>2. OfParts(g, e) = OfParts(h, e)
    BY <2>1 DEF OfParts
  <2> QED BY <2>2 DEF Solves
<1> HIDE DEF T
<1>2. Expression \subseteq T
  BY <1>1, PartsInduction
<1> QED BY <1>2 DEF T

LEMMA SolutionBelow ==
    ASSUME NEW R, NEW step, \A e \in Expression : \A rs \in Seq(R) : step[e][rs] \in R
    PROVE  \A n \in Nat : \E g : Solves(g, n, step, R)
<1> DEFINE U == {n \in Nat : \E g : Solves(g, n, step, R)}
<1>1. 0 \in U
  BY PartsAreExpressions DEF Solves
<1>2. ASSUME NEW n \in Nat, n \in U PROVE n + 1 \in U
  <2>1. PICK g : Solves(g, n, step, R)
    BY <1>2
  <2> DEFINE h == [e \in Expression |-> IF Depth[e] = n THEN step[e][OfParts(g, e)] ELSE g[e]]
  <2>2. ASSUME NEW e \in Expression, Depth[e] < n + 1
        PROVE  h[e] \in R /\ h[e] = step[e][OfParts(h, e)]
    <3>1. \A i \in 1..Len(e.parts) :
             e.parts[i] \in Expression /\ Depth[e.parts[i]] < n /\ Depth[e.parts[i]] # n
      BY <2>2, PartsAreExpressions
    <3>2. \A i \in 1..Len(e.parts) : h[e.parts[i]] = g[e.parts[i]] /\ g[e.parts[i]] \in R
      BY <3>1, <2>1 DEF Solves
    <3> HIDE DEF h
    <3>3. OfParts(h, e) = OfParts(g, e)
      BY <3>2 DEF OfParts
    <3>4. OfParts(g, e) \in Seq(R)
      BY <3>2, PartsAreExpressions DEF OfParts
    <3>5. h[e] = IF Depth[e] = n THEN step[e][OfParts(g, e)] ELSE g[e]
      BY DEF h
    <3>6. CASE Depth[e] = n
      BY <3>3, <3>4, <3>5, <3>6
    <3>7. CASE Depth[e] # n
      <4>1. Depth[e] < n
        BY <3>7, <2>2, PartsAreExpressions
      <4> QED BY <4>1, <3>7, <3>3, <3>5, <2>1 DEF Solves
    <3> QED BY <3>6, <3>7
  <2> HIDE DEF h
  <2>3. Solves(h, n + 1, step, R)
    BY <2>2 DEF Solves
  <2> QED BY <2>3
<1> HIDE DEF U
<1>3. Nat \subseteq U
  BY <1>1, <1>2, Induction
<1> QED BY <1>3 DEF U

\* The value for e of the solution below a depth that e does not reach.
TheSolution(n, step, R) == CHOOSE g : Solves(g, n, step, R)

IsSolution(f, step, R) ==
    /\ f = [e \in Expression |-> f[e]]
    /\ \A e \in Expression : f[e] \in R /\ f[e] = step[e][OfParts(f, e)]

LEMMA SolutionExists ==
    ASSUME NEW R, NEW step, \A e \in Expression : \A rs \in Seq(R) : step[e][rs] \in R
    PROVE  \E f : IsSolution(f, step, R)
<1> DEFINE f == [e \in Expression |-> TheSolution(Depth[e] + 1, step, R)[e]]
<1>1. ASSUME NEW n \in Nat PROVE Solves(TheSolution(n, step, R), n, step, R)
  BY SolutionBelow DEF TheSolution
<1>2. ASSUME NEW e \in Expression, NEW n \in Nat, Depth[e] < n
      PROVE  f[e] = TheSolution(n, step, R)[e]
  <2>1. Depth[e] \in Nat /\ Depth[e] + 1 \in Nat /\ Depth[e] < Depth[e] + 1
    BY PartsAreExpressions
  <2>2. PICK m \in Nat : m = Depth[e] + 1
    BY <2>1
  <2>3. Solves(TheSolution(m, step, R), m, step, R) /\ Solves(TheSolution(n, step, R), n, step, R)
    BY <1>1
  <2>4. \A a \in Expression : Depth[a] < m => Depth[a] < n
    BY <2>1, <2>2, <1>2, PartsAreExpressions
  <2>5. Solves(TheSolution(n, step, R), m, step, R)
    BY <2>3, <2>4 DEF Solves
  <2>6. TheSolution(m, step, R)[e] = TheSolution(n, step, R)[e]
    BY <2>1, <2>2, <2>3, <2>5, SolutionUnique
  <2> QED BY <2>2, <2>6
<1>3. f = [e \in Expression |-> f[e]]
  OBVIOUS
<1> HIDE DEF f
<1>4. ASSUME NEW e \in Expression PROVE f[e] \in R /\ f[e] = step[e][OfParts(f, e)]
  <2>1. Depth[e] \in Nat /\ Depth[e] + 1 \in Nat /\ Depth[e] < Depth[e] + 1
    BY PartsAreExpressions
  <2>2. PICK n \in Nat : Depth[e] < n
    BY <2>1
  <2>3. PICK g : g = TheSolution(n, step, R)
    OBVIOUS
  <2>4. Solves(g, n, step, R)
    BY <2>3, <1>1
  <2>5. \A i \in 1..Len(e.parts) : e.parts[i] \in Expression /\ Depth[e.parts[i]] < n
    BY <2>1, <2>2, PartsAreExpressions
  <2>6. \A a \in Expression : Depth[a] < n => f[a] = g[a]
    <3>1. \A a \in Expression : Depth[a] < n => f[a] = TheSolution(n, step, R)[a]
      BY <1>2
    <3> QED BY <3>1, <2>3, Zenon
  <2>7. OfParts(f, e) = OfParts(g, e)
    BY <2>5, <2>6 DEF OfParts
  <2> QED BY <2>2, <2>4, <2>6, <2>7 DEF Solves
<1>5. IsSolution(f, step, R)
  BY <1>3, <1>4 DEF IsSolution
<1> QED BY <1>5

\* The conditions on expressions are what their recursive definitions say.
Condition == [BOOLEAN -> BOOLEAN]

SkipsStep(e, rs) ==
    [breakOK \in BOOLEAN |->
        CASE e.op \in {"break", "next"} -> breakOK
          [] e.op \in {"apply", "for", "while", "repeat"} -> TRUE
          [] e.op \in {"paren", "block", "if"} -> \A i \in 1..Len(e.parts) : rs[i][breakOK]
          [] OTHER -> \A i \in 1..Len(e.parts) : rs[i][FALSE]]
IsSkips(f) ==
    f = [e \in Expression |->
            [breakOK \in BOOLEAN |->
                CASE e.op \in {"break", "next"} -> breakOK
                  [] e.op \in {"apply", "for", "while", "repeat"} -> TRUE
                  [] e.op \in {"paren", "block", "if"} ->
                        \A i \in 1..Len(e.parts) : f[e.parts[i]][breakOK]
                  [] OTHER -> \A i \in 1..Len(e.parts) : f[e.parts[i]][FALSE]]]

LEMMA SkipsIs == IsSkips(Skips)
<1> DEFINE step == [e \in Expression |-> [rs \in Seq(Condition) |-> SkipsStep(e, rs)]]
<1>1. \A e \in Expression : \A rs \in Seq(Condition) : step[e][rs] = SkipsStep(e, rs)
  OBVIOUS
<1>2. \A e \in Expression : \A rs \in Seq(Condition) : SkipsStep(e, rs) \in Condition
  BY Zenon DEF SkipsStep, Condition
<1> HIDE DEF step
<1>3. \A e \in Expression : \A rs \in Seq(Condition) : step[e][rs] \in Condition
  BY <1>1, <1>2
<1>4. PICK f : IsSolution(f, step, Condition)
  BY <1>3, SolutionExists
<1>5. ASSUME NEW e \in Expression PROVE OfParts(f, e) \in Seq(Condition)
  <2>1. \A i \in 1..Len(e.parts) : f[e.parts[i]] \in Condition
    BY <1>4, PartsAreExpressions DEF IsSolution
  <2> QED BY <2>1, PartsAreExpressions DEF OfParts
<1>6. ASSUME NEW e \in Expression PROVE f[e] = SkipsStep(e, OfParts(f, e))
  BY <1>1, <1>4, <1>5 DEF IsSolution
<1>7. ASSUME NEW e \in Expression
      PROVE  SkipsStep(e, OfParts(f, e)) =
             [breakOK \in BOOLEAN |->
                CASE e.op \in {"break", "next"} -> breakOK
                  [] e.op \in {"apply", "for", "while", "repeat"} -> TRUE
                  [] e.op \in {"paren", "block", "if"} ->
                        \A i \in 1..Len(e.parts) : f[e.parts[i]][breakOK]
                  [] OTHER -> \A i \in 1..Len(e.parts) : f[e.parts[i]][FALSE]]
  <2>1. \A i \in 1..Len(e.parts) : OfParts(f, e)[i] = f[e.parts[i]]
    BY DEF OfParts
  <2> QED BY <2>1 DEF SkipsStep
<1>8. IsSkips(f)
  BY <1>4, <1>6, <1>7 DEF IsSkips, IsSolution
<1>9. Skips = CHOOSE g : IsSkips(g)
  BY DEF Skips, IsSkips
<1> QED BY <1>8, <1>9

JumpsStep(e, rs) ==
    [inLoop \in BOOLEAN |->
        /\ e.op \in {"break", "next"} => inLoop
        /\ \A i \in 1..Len(e.parts) : rs[i][PartInLoop(e, i, inLoop)]]
IsJumpsInLoops(f) ==
    f = [e \in Expression |->
            [inLoop \in BOOLEAN |->
                /\ e.op \in {"break", "next"} => inLoop
                /\ \A i \in 1..Len(e.parts) : f[e.parts[i]][PartInLoop(e, i, inLoop)]]]

LEMMA JumpsInLoopsIs == IsJumpsInLoops(JumpsInLoops)
<1> DEFINE step == [e \in Expression |-> [rs \in Seq(Condition) |-> JumpsStep(e, rs)]]
<1>1. \A e \in Expression : \A rs \in Seq(Condition) : step[e][rs] = JumpsStep(e, rs)
  OBVIOUS
<1>2. \A e \in Expression : \A rs \in Seq(Condition) : JumpsStep(e, rs) \in Condition
  BY Zenon DEF JumpsStep, Condition
<1> HIDE DEF step
<1>3. \A e \in Expression : \A rs \in Seq(Condition) : step[e][rs] \in Condition
  BY <1>1, <1>2
<1>4. PICK f : IsSolution(f, step, Condition)
  BY <1>3, SolutionExists
<1>5. ASSUME NEW e \in Expression PROVE OfParts(f, e) \in Seq(Condition)
  <2>1. \A i \in 1..Len(e.parts) : f[e.parts[i]] \in Condition
    BY <1>4, PartsAreExpressions DEF IsSolution
  <2> QED BY <2>1, PartsAreExpressions DEF OfParts
<1>6. ASSUME NEW e \in Expression PROVE f[e] = JumpsStep(e, OfParts(f, e))
  BY <1>1, <1>4, <1>5 DEF IsSolution
<1>7. ASSUME NEW e \in Expression
      PROVE  JumpsStep(e, OfParts(f, e)) =
             [inLoop \in BOOLEAN |->
                /\ e.op \in {"break", "next"} => inLoop
                /\ \A i \in 1..Len(e.parts) : f[e.parts[i]][PartInLoop(e, i, inLoop)]]
  <2>1. \A i \in 1..Len(e.parts) : OfParts(f, e)[i] = f[e.parts[i]]
    BY DEF OfParts
  <2> QED BY <2>1 DEF JumpsStep
<1>8. IsJumpsInLoops(f)
  BY <1>4, <1>6, <1>7 DEF IsJumpsInLoops, IsSolution
<1>9. JumpsInLoops = CHOOSE g : IsJumpsInLoops(g)
  BY DEF JumpsInLoops, IsJumpsInLoops
<1> QED BY <1>8, <1>9

CompiledInPlaceStep(e, rs) ==
    /\ e.op \in {"repeat", "while", "for"} => CanSkip(Last(e.parts), TRUE)
    /\ ~NullControl(e)
    /\ \A i \in 1..Len(e.parts) : rs[i]
IsCompiledInPlace(f) ==
    f = [e \in Expression |->
            /\ e.op \in {"repeat", "while", "for"} => CanSkip(Last(e.parts), TRUE)
            /\ ~NullControl(e)
            /\ \A i \in 1..Len(e.parts) : f[e.parts[i]]]

LEMMA CompiledInPlaceIs == IsCompiledInPlace(CompiledInPlace)
<1> DEFINE step == [e \in Expression |-> [rs \in Seq(BOOLEAN) |-> CompiledInPlaceStep(e, rs)]]
<1>1. \A e \in Expression : \A rs \in Seq(BOOLEAN) : step[e][rs] = CompiledInPlaceStep(e, rs)
  OBVIOUS
<1>2. \A e \in Expression : \A rs \in Seq(BOOLEAN) : CompiledInPlaceStep(e, rs) \in BOOLEAN
  BY Zenon DEF CompiledInPlaceStep
<1> HIDE DEF step
<1>3. \A e \in Expression : \A rs \in Seq(BOOLEAN) : step[e][rs] \in BOOLEAN
  BY <1>1, <1>2
<1>4. PICK f : IsSolution(f, step, BOOLEAN)
  BY <1>3, SolutionExists
<1>5. ASSUME NEW e \in Expression PROVE OfParts(f, e) \in Seq(BOOLEAN)
  <2>1. \A i \in 1..Len(e.parts) : f[e.parts[i]] \in BOOLEAN
    BY <1>4, PartsAreExpressions DEF IsSolution
  <2> QED BY <2>1, PartsAreExpressions DEF OfParts
<1>6. ASSUME NEW e \in Expression PROVE f[e] = CompiledInPlaceStep(e, OfParts(f, e))
  BY <1>1, <1>4, <1>5 DEF IsSolution
<1>7. ASSUME NEW e \in Expression
      PROVE  CompiledInPlaceStep(e, OfParts(f, e)) =
             (/\ e.op \in {"repeat", "while", "for"} => CanSkip(Last(e.parts), TRUE)
              /\ ~NullControl(e)
              /\ \A i \in 1..Len(e.parts) : f[e.parts[i]])
  <2>1. \A i \in 1..Len(e.parts) : OfParts(f, e)[i] = f[e.parts[i]]
    BY DEF OfParts
  <2> QED BY <2>1 DEF CompiledInPlaceStep
<1>8. IsCompiledInPlace(f)
  BY <1>4, <1>6, <1>7 DEF IsCompiledInPlace, IsSolution
<1>9. CompiledInPlace = CHOOSE g : IsCompiledInPlace(g)
  BY DEF CompiledInPlace, IsCompiledInPlace
<1> QED BY <1>8, <1>9

\* Every break and next in e is in a loop that is compiled as one, and so is e if
\* there may be one that leaves e; ok says if the context has targets for these.
Placed(e, ok) ==
    /\ CompiledInPlace[e]
    /\ \E inLoop \in BOOLEAN : JumpsInLoops[e][inLoop] /\ (inLoop => CanSkip(e, ok))

Loop == {"repeat", "while", "for"}
InPlace == {"paren", "block", "if"}

LEMMA ConditionsOfParts ==
    ASSUME NEW e \in Expression
    PROVE  /\ CompiledInPlace[e] => /\ e.op \in Loop => CanSkip(Last(e.parts), TRUE)
                                    /\ \A i \in 1..Len(e.parts) : CompiledInPlace[e.parts[i]]
           /\ \A inLoop \in BOOLEAN : JumpsInLoops[e][inLoop] =>
                 /\ e.op \in {"break", "next"} => inLoop
                 /\ \A i \in 1..Len(e.parts) : JumpsInLoops[e.parts[i]][PartInLoop(e, i, inLoop)]
           /\ \A ok \in BOOLEAN : CanSkip(e, ok) =>
                 /\ e.op \in {"break", "next"} => ok
                 /\ e.op \in InPlace => \A i \in 1..Len(e.parts) : CanSkip(e.parts[i], ok)
                 /\ e.op \notin InPlace \cup Loop \cup {"break", "next", "apply"} =>
                       \A i \in 1..Len(e.parts) : CanSkip(e.parts[i], FALSE)
<1>1. CompiledInPlace[e] = (/\ e.op \in {"repeat", "while", "for"} => CanSkip(Last(e.parts), TRUE)
                            /\ ~NullControl(e)
                            /\ \A i \in 1..Len(e.parts) : CompiledInPlace[e.parts[i]])
  BY CompiledInPlaceIs DEF IsCompiledInPlace
<1>2. ASSUME NEW inLoop \in BOOLEAN
      PROVE  JumpsInLoops[e][inLoop] =
                (/\ e.op \in {"break", "next"} => inLoop
                 /\ \A i \in 1..Len(e.parts) : JumpsInLoops[e.parts[i]][PartInLoop(e, i, inLoop)])
  <2>1. JumpsInLoops[e] =
            [flag \in BOOLEAN |->
                /\ e.op \in {"break", "next"} => flag
                /\ \A i \in 1..Len(e.parts) : JumpsInLoops[e.parts[i]][PartInLoop(e, i, flag)]]
    BY JumpsInLoopsIs DEF IsJumpsInLoops
  <2> QED BY <2>1, Zenon
<1>3. ASSUME NEW ok \in BOOLEAN
      PROVE  Skips[e][ok] =
                CASE e.op \in {"break", "next"} -> ok
                  [] e.op \in {"apply", "for", "while", "repeat"} -> TRUE
                  [] e.op \in {"paren", "block", "if"} ->
                        \A i \in 1..Len(e.parts) : Skips[e.parts[i]][ok]
                  [] OTHER -> \A i \in 1..Len(e.parts) : Skips[e.parts[i]][FALSE]
  <2>1. Skips[e] =
            [flag \in BOOLEAN |->
                CASE e.op \in {"break", "next"} -> flag
                  [] e.op \in {"apply", "for", "while", "repeat"} -> TRUE
                  [] e.op \in {"paren", "block", "if"} ->
                        \A i \in 1..Len(e.parts) : Skips[e.parts[i]][flag]
                  [] OTHER -> \A i \in 1..Len(e.parts) : Skips[e.parts[i]][FALSE]]
    BY SkipsIs DEF IsSkips
  <2> QED BY <2>1, Zenon
<1>4. ASSUME NEW ok \in BOOLEAN, CanSkip(e, ok)
      PROVE  /\ e.op \in {"break", "next"} => ok
             /\ e.op \in InPlace => \A i \in 1..Len(e.parts) : CanSkip(e.parts[i], ok)
             /\ e.op \notin InPlace \cup Loop \cup {"break", "next", "apply"} =>
                   \A i \in 1..Len(e.parts) : CanSkip(e.parts[i], FALSE)
  BY <1>3, <1>4 DEF CanSkip, InPlace, Loop
<1> QED BY <1>1, <1>2, <1>4 DEF Loop

LEMMA PlacedParts ==
    ASSUME NEW e \in Expression, NEW ok \in BOOLEAN, Placed(e, ok)
    PROVE  /\ e.op \in {"break", "next"} => ok
           /\ e.op \in InPlace => \A i \in 1..Len(e.parts) : Placed(e.parts[i], ok)
           /\ e.op \notin InPlace \cup Loop => \A i \in 1..Len(e.parts) : Placed(e.parts[i], FALSE)
           /\ e.op \in Loop => /\ CanSkip(Last(e.parts), TRUE)
                               /\ \A i \in 1..Len(e.parts) : Placed(e.parts[i], i = Len(e.parts))
<1>1. PICK inLoop \in BOOLEAN : JumpsInLoops[e][inLoop] /\ (inLoop => CanSkip(e, ok))
  BY DEF Placed
<1>2. /\ e.op \in Loop => CanSkip(Last(e.parts), TRUE)
      /\ \A i \in 1..Len(e.parts) : CompiledInPlace[e.parts[i]]
  BY ConditionsOfParts DEF Placed
<1>3. /\ e.op \in {"break", "next"} => inLoop
      /\ \A i \in 1..Len(e.parts) : JumpsInLoops[e.parts[i]][PartInLoop(e, i, inLoop)]
  BY <1>1, ConditionsOfParts
<1>4. e.op \in {"break", "next"} => ok
  BY <1>1, <1>3, ConditionsOfParts
<1>5. ASSUME e.op \in InPlace, NEW i \in 1..Len(e.parts) PROVE Placed(e.parts[i], ok)
  <2>1. PartInLoop(e, i, inLoop) = inLoop
    BY <1>5 DEF PartInLoop, InPlace
  <2>2. inLoop => CanSkip(e.parts[i], ok)
    BY <1>1, <1>5, ConditionsOfParts
  <2> QED BY <1>2, <1>3, <2>1, <2>2 DEF Placed
<1>6. ASSUME e.op \notin InPlace \cup Loop, NEW i \in 1..Len(e.parts) PROVE Placed(e.parts[i], FALSE)
  <2>1. CASE e.op = "apply"
    <3>1. PartInLoop(e, i, inLoop) = FALSE
      BY <2>1 DEF PartInLoop
    <3> QED BY <1>2, <1>3, <3>1 DEF Placed
  <2>2. CASE e.op \in {"break", "next"}
    <3>1. e.parts = <<>>
      BY <2>2, ExpressionAssumption DEF HasItsParts
    <3> QED BY <3>1, <1>6
  <2>3. CASE e.op \notin {"break", "next", "apply"}
    <3>1. PartInLoop(e, i, inLoop) = inLoop
      BY <1>6, <2>3 DEF PartInLoop, Loop
    <3>2. inLoop => CanSkip(e.parts[i], FALSE)
      BY <1>1, <1>6, <2>3, ConditionsOfParts
    <3> QED BY <1>2, <1>3, <3>1, <3>2 DEF Placed
  <2> QED BY <2>1, <2>2, <2>3
<1>7. ASSUME e.op \in Loop, NEW i \in 1..Len(e.parts) PROVE Placed(e.parts[i], i = Len(e.parts))
  <2>1. PartInLoop(e, i, inLoop) = (i = Len(e.parts))
    BY <1>7 DEF PartInLoop, Loop
  <2>2. CASE i = Len(e.parts)
    <3>1. CanSkip(e.parts[i], TRUE)
      BY <1>2, <1>7, <2>2 DEF Last
    <3> QED BY <1>2, <1>3, <2>1, <2>2, <3>1 DEF Placed
  <2>3. CASE i # Len(e.parts)
    BY <1>2, <1>3, <2>1, <2>3 DEF Placed
  <2> QED BY <2>2, <2>3
<1> QED BY <1>2, <1>4, <1>5, <1>6, <1>7

-----------------------------------------------------------------------------
(* The blocks that the compiler builds                                       *)

Terminator == {"branch", "test", "less", "switch", "return", "returnJump"}

\* The blocks that an instruction of n blocks leads to, or a call may enter, exist.
InstrOK(i, n) ==
    /\ i \in Instr
    /\ \A k \in 1..Len(i.to) : i.to[k] \in 1..n \/ (i.op = "call" /\ i.to[k] = Unset)
    /\ \A k \in 1..Len(i.names) : i.names[k] \in 1..n
    /\ i.op \in {"branch", "apply"} => Len(i.to) = 1
    /\ i.op \in {"test", "less"} => Len(i.to) = 2
    /\ i.op = "switch" => i.to # <<>>

\* Only the last instruction of a block leads out of it; a block that ends with no
\* such instruction is open.
BlockOK(s, n) ==
    /\ s \in Seq(Instr)
    /\ \A k \in 1..Len(s) : InstrOK(s[k], n) /\ (s[k].op \in Terminator => k = Len(s))
Ended(s) == s # <<>> /\ s[Len(s)].op \in Terminator

\* The builder b has n blocks, of which those in O are open, is at the block l, and
\* its context has the targets t of break and next.
Shape(b, n, l, O, t) ==
    /\ b \in Builder
    /\ Len(b.code) = n /\ b.cur = l /\ b.brk = t[1] /\ b.nxt = t[2]
    /\ \A k \in 1..n : BlockOK(b.code[k], n)
    /\ O = {k \in 1..n : ~Ended(b.code[k])}

LEMMA MoreBlocks ==
    ASSUME NEW n \in Nat, NEW m \in Nat, n <= m
    PROVE  /\ \A i : InstrOK(i, n) => InstrOK(i, m)
           /\ \A s : BlockOK(s, n) => BlockOK(s, m)
<1>1. \A k : k \in 1..n => k \in 1..m
  OBVIOUS
<1>2. \A i : InstrOK(i, n) => InstrOK(i, m)
  BY <1>1 DEF InstrOK
<1> QED BY <1>2 DEF BlockOK

LEMMA BlockExtended ==
    ASSUME NEW n \in Nat, NEW s, BlockOK(s, n), ~Ended(s), NEW i, InstrOK(i, n)
    PROVE  /\ BlockOK(Append(s, i), n)
           /\ Ended(Append(s, i)) <=> i.op \in Terminator
<1> DEFINE a == Append(s, i)
<1>1. s \in Seq(Instr) /\ i \in Instr /\ Len(s) \in Nat
  BY DEF BlockOK, InstrOK
<1>2. a \in Seq(Instr) /\ Len(a) = Len(s) + 1 /\ a[Len(a)] = i /\ \A k \in 1..Len(s) : a[k] = s[k]
  BY <1>1
<1> HIDE DEF a
<1>3. ASSUME NEW k \in 1..Len(a) PROVE InstrOK(a[k], n) /\ (a[k].op \in Terminator => k = Len(a))
  <2>1. CASE k = Len(a)
    BY <1>2, <2>1
  <2>2. CASE k # Len(a)
    <3>1. k \in 1..Len(s) /\ a[k] = s[k]
      BY <1>1, <1>2, <2>2
    <3>2. InstrOK(s[k], n) /\ (s[k].op \in Terminator => k = Len(s))
      BY <3>1 DEF BlockOK
    <3>3. s[k].op \notin Terminator
      BY <1>1, <3>1, <3>2 DEF Ended
    <3> QED BY <3>1, <3>2, <3>3
  <2> QED BY <2>1, <2>2
<1>4. BlockOK(a, n)
  BY <1>2, <1>3 DEF BlockOK
<1>5. Ended(a) <=> i.op \in Terminator
  BY <1>1, <1>2 DEF Ended
<1> QED BY <1>4, <1>5 DEF a

LEMMA ShapeFacts ==
    ASSUME NEW b, NEW n, NEW l, NEW O, NEW t, Shape(b, n, l, O, t)
    PROVE  /\ b \in Builder /\ n \in Nat /\ Len(b.code) = n /\ l \in Nat /\ b.cur = l
           /\ b.brk = t[1] /\ b.nxt = t[2] /\ O \subseteq 1..n
           /\ b.regs \in Nat /\ b.visible \in BOOLEAN /\ b.jump \in BOOLEAN
BY DEF Shape, Builder

LEMMA EmitShape ==
    ASSUME NEW b, NEW n, NEW l, NEW O, NEW t, Shape(b, n, l, O, t), l \in O,
           NEW i, InstrOK(i, n)
    PROVE  /\ i.op \notin Terminator => Shape(Emit(b, i), n, l, O, t)
           /\ i.op \in Terminator => Shape(Emit(b, i), n, l, O \ {l}, t)
<1> DEFINE c == Emit(b, i)
<1>1. /\ b \in Builder /\ n \in Nat /\ Len(b.code) = n /\ b.cur = l /\ l \in 1..n
      /\ b.code \in Seq(Seq(Instr)) /\ i \in Instr
  BY ShapeFacts DEF Builder, InstrOK
<1>2. BlockOK(b.code[l], n) /\ ~Ended(b.code[l])
  BY DEF Shape
<1>3. /\ c.code = [b.code EXCEPT ![l] = Append(b.code[l], i)]
      /\ c = [b EXCEPT !.code = c.code]
  <2>1. c = [b EXCEPT !.code = AppendTo(b.code, l, i)]
    BY <1>1 DEF Emit
  <2>2. AppendTo(b.code, l, i) = [b.code EXCEPT ![l] = Append(b.code[l], i)]
    BY DEF AppendTo
  <2> HIDE DEF c
  <2> QED BY <1>1, <2>1, <2>2 DEF Builder
<1>4. /\ c.code \in Seq(Seq(Instr)) /\ Len(c.code) = n
      /\ \A k \in 1..n : c.code[k] = IF k = l THEN Append(b.code[l], i) ELSE b.code[k]
  <2>1. Append(b.code[l], i) \in Seq(Instr)
    BY <1>1
  <2> QED BY <1>1, <1>3, <2>1
<1> HIDE DEF c
<1>5. c \in Builder /\ c.cur = l /\ c.brk = t[1] /\ c.nxt = t[2]
  BY <1>1, <1>3, <1>4 DEF Builder, Shape
<1> DEFINE s == Append(b.code[l], i)
<1> HIDE DEF s
<1>a. BlockOK(s, n) /\ (Ended(s) <=> i.op \in Terminator)
  BY <1>1, <1>2, BlockExtended DEF s
<1>b. \A k \in 1..n : c.code[k] = IF k = l THEN s ELSE b.code[k]
  BY <1>4 DEF s
<1>6. \A k \in 1..n : BlockOK(c.code[k], n)
  <2>1. \A k \in 1..n : BlockOK(b.code[k], n)
    BY DEF Shape
  <2> QED BY <2>1, <1>a, <1>b
<1>7. \A k \in 1..n : Ended(c.code[k]) <=> IF k = l THEN i.op \in Terminator ELSE Ended(b.code[k])
  BY <1>a, <1>b
<1>8. {k \in 1..n : ~Ended(c.code[k])} = IF i.op \in Terminator THEN O \ {l} ELSE O
  BY <1>7, <1>2 DEF Shape
<1> QED BY <1>4, <1>5, <1>6, <1>8 DEF Shape, c

LEMMA AddBlocksShape ==
    ASSUME NEW b, NEW n, NEW l, NEW O, NEW t, Shape(b, n, l, O, t), NEW k \in Nat
    PROVE  Shape(AddBlocks(b, k), n + k, l, O \cup ((n + 1)..(n + k)), t)
<1> DEFINE c == AddBlocks(b, k)
           new == [j \in 1..k |-> <<>>]
<1>1. b \in Builder /\ n \in Nat /\ Len(b.code) = n /\ b.cur = l /\ b.code \in Seq(Seq(Instr))
  BY ShapeFacts DEF Builder
<1>2. new \in Seq(Seq(Instr)) /\ Len(new) = k
  OBVIOUS
<1>3. c.code = b.code \o new /\ c = [b EXCEPT !.code = c.code]
  BY <1>1 DEF AddBlocks, Builder
<1>4. /\ c.code \in Seq(Seq(Instr)) /\ Len(c.code) = n + k
      /\ \A j \in 1..(n + k) : c.code[j] = IF j <= n THEN b.code[j] ELSE <<>>
  <2> HIDE DEF c
  <2>1. /\ c.code \in Seq(Seq(Instr)) /\ Len(c.code) = n + k
        /\ \A j \in 1..(n + k) : c.code[j] = IF j <= n THEN b.code[j] ELSE new[j - n]
    <3> HIDE DEF new
    <3>1. PICK S : S = Seq(Instr)
      OBVIOUS
    <3>2. b.code \in Seq(S) /\ new \in Seq(S)
      BY <1>1, <1>2, <3>1
    <3>3. /\ b.code \o new \in Seq(S) /\ Len(b.code \o new) = Len(b.code) + Len(new)
          /\ \A j \in 1..(Len(b.code) + Len(new)) :
                (b.code \o new)[j] = IF j <= Len(b.code) THEN b.code[j] ELSE new[j - Len(b.code)]
      BY <3>2, ConcatProperties
    <3> QED BY <1>1, <1>2, <1>3, <3>1, <3>3
  <2>2. \A j \in 1..(n + k) : ~(j <= n) => j - n \in 1..k
    BY <1>1
  <2> QED BY <2>1, <2>2
<1> HIDE DEF c, new
<1>5. c \in Builder /\ c.cur = l /\ c.brk = t[1] /\ c.nxt = t[2]
  BY <1>1, <1>3, <1>4 DEF Builder, Shape
<1>6. BlockOK(<<>>, n + k) /\ ~Ended(<<>>)
  BY DEF BlockOK, Ended
<1>7. \A j \in 1..(n + k) : BlockOK(c.code[j], n + k)
  <2>1. \A j \in 1..n : BlockOK(b.code[j], n + k)
    BY <1>1, MoreBlocks DEF Shape
  <2> QED BY <1>1, <1>4, <1>6, <2>1
<1>8. {j \in 1..(n + k) : ~Ended(c.code[j])} = O \cup ((n + 1)..(n + k))
  BY <1>1, <1>4, <1>6 DEF Shape
<1> QED BY <1>1, <1>4, <1>5, <1>7, <1>8 DEF Shape, c

LEMMA ContextShape ==
    ASSUME NEW b, NEW n, NEW l, NEW O, NEW t, Shape(b, n, l, O, t)
    PROVE  /\ \A m \in Nat : Shape(At(b, m), n, m, O, t)
           /\ \A v \in BOOLEAN : Shape(Visible(b, v), n, l, O, t)
           /\ \A k \in Nat : Shape(AddRegs(b, k), n, l, O, t)
           /\ Shape([b EXCEPT !.jump = FALSE], n, l, O, t)
<1>1. ASSUME NEW m \in Nat PROVE Shape(At(b, m), n, m, O, t)
  BY DEF Shape, Builder, At
<1>2. ASSUME NEW v \in BOOLEAN PROVE Shape(Visible(b, v), n, l, O, t)
  BY DEF Shape, Builder, Visible
<1>3. ASSUME NEW k \in Nat PROVE Shape(AddRegs(b, k), n, l, O, t)
  BY DEF Shape, Builder, AddRegs
<1>4. Shape([b EXCEPT !.jump = FALSE], n, l, O, t)
  BY DEF Shape, Builder
<1> QED BY <1>1, <1>2, <1>3, <1>4

\* Instructions that the compiler emits.
SimpleOp == {"branch", "test", "less", "return", "returnJump", "phi", "read", "assign", "update",
             "arith", "get", "startFor", "element", "increment", "call", "apply"}
TargetsOK(op, to, n) ==
    /\ \A k \in 1..Len(to) : to[k] \in 1..n \/ (op = "call" /\ to[k] = Unset)
    /\ op \in {"branch", "apply"} => Len(to) = 1
    /\ op \in {"test", "less"} => Len(to) = 2

LEMMA NoTargets ==
    ASSUME NEW n \in Nat, NEW op, op \notin {"branch", "apply", "test", "less"}
    PROVE  TargetsOK(op, <<>>, n)
BY DEF TargetsOK

LEMMA OperandsAreOperands ==
    ASSUME NEW n \in Nat
    PROVE  Const(n) \in Operand /\ Reg(n) \in Operand
BY DEF Const, Reg, Operand

LEMMA InsOK ==
    ASSUME NEW n \in Nat, NEW op \in SimpleOp,
           NEW vs \in Seq(Operand), NEW to \in Seq(Nat),
           TargetsOK(op, to, n)
    PROVE  InstrOK(Ins(op, vs, to), n) /\ Ins(op, vs, to).op = op
BY DEF InstrOK, Ins, Instr, TargetsOK, SimpleOp

LEMMA BrOK ==
    ASSUME NEW n \in Nat, NEW label \in 1..n
    PROVE  InstrOK(Br(label), n) /\ Br(label).op \in Terminator
<1>1. <<label>> \in Seq(Nat) /\ <<>> \in Seq(Operand) /\ TargetsOK("branch", <<label>>, n)
  BY DEF TargetsOK
<1>2. InstrOK(Br(label), n)
  BY <1>1, InsOK DEF Br, SimpleOp
<1>3. Br(label).op = "branch"
  BY DEF Br, Ins
<1> QED BY <1>2, <1>3 DEF Terminator

LEMMA PhiOK ==
    ASSUME NEW n \in Nat, NEW from \in SUBSET (Nat \X Operand)
    PROVE  InstrOK(PhiOf(from), n) /\ PhiOf(from).op = "phi"
<1>1. <<>> \in Seq(Operand) /\ <<>> \in Seq(Nat) /\ TargetsOK("phi", <<>>, n)
  BY NoTargets
<1>a. InstrOK(Ins("phi", <<>>, <<>>), n) /\ Ins("phi", <<>>, <<>>).op = "phi"
  <2>1. PICK op \in SimpleOp : op = "phi"
    BY DEF SimpleOp
  <2>2. InstrOK(Ins(op, <<>>, <<>>), n) /\ Ins(op, <<>>, <<>>).op = op
    BY <1>1, <2>1, InsOK
  <2> QED BY <2>1, <2>2
<1>2. PICK i : i = Ins("phi", <<>>, <<>>)
  OBVIOUS
<1>3. InstrOK(i, n) /\ i.op = "phi"
  BY <1>a, <1>2
<1>4. PhiOf(from) = [i EXCEPT !.from = from]
  BY <1>2 DEF PhiOf
<1> QED BY <1>3, <1>4 DEF InstrOK, Instr

LEMMA DestinationOK ==
    ASSUME NEW n \in Nat, NEW i, InstrOK(i, n), NEW r \in Nat
    PROVE  InstrOK([i EXCEPT !.dst = r], n) /\ [i EXCEPT !.dst = r].op = i.op
BY DEF InstrOK, Instr

LEMMA EmitValueShape ==
    ASSUME NEW b, NEW n, NEW l, NEW O, NEW t, Shape(b, n, l, O, t), l \in O,
           NEW i, InstrOK(i, n), i.op \notin Terminator
    PROVE  /\ EmitValue(b, i).v \in Operand
           /\ Shape(EmitValue(b, i).b, n, l, O, t)
<1>1. PICK r \in Nat : r = b.regs + 1
  BY ShapeFacts
<1>2. Shape(AddRegs(b, 1), n, l, O, t)
  BY ContextShape
<1>3. PICK j : j = [i EXCEPT !.dst = r]
  OBVIOUS
<1>4. InstrOK(j, n) /\ j.op \notin Terminator
  BY <1>1, <1>3, DestinationOK, ShapeFacts
<1>5. Shape(Emit(AddRegs(b, 1), j), n, l, O, t)
  BY <1>2, <1>4, EmitShape
<1>6. EmitValue(b, i) = Compiled(Emit(AddRegs(b, 1), j), Reg(r))
  BY <1>1, <1>3 DEF EmitValue
<1>7. Reg(r) \in Operand
  BY <1>1, OperandsAreOperands
<1> QED BY <1>5, <1>6, <1>7 DEF Compiled

LEMMA EmitReturnShape ==
    ASSUME NEW b, NEW n, NEW l, NEW O, NEW t, Shape(b, n, l, O, t), l \in O, NEW v \in Operand
    PROVE  Shape(EmitReturn(b, v), n, l, O \ {l}, t)
<1>1. PICK op \in {"return", "returnJump"} : op = IF b.jump THEN "returnJump" ELSE "return"
  OBVIOUS
<1>3. n \in Nat /\ b.visible \in BOOLEAN
  BY ShapeFacts
<1>2. <<v>> \in Seq(Operand) /\ <<>> \in Seq(Nat) /\ TargetsOK(op, <<>>, n)
  BY <1>1, <1>3, NoTargets
<1>4. InstrOK(Ins(op, <<v>>, <<>>), n)
  BY <1>1, <1>2, <1>3, InsOK DEF SimpleOp
<1>5. PICK i : i = [Ins(op, <<v>>, <<>>) EXCEPT !.silent = ~b.visible]
  OBVIOUS
<1>6. InstrOK(i, n) /\ i.op \in Terminator
  BY <1>1, <1>3, <1>4, <1>5 DEF InstrOK, Instr, Ins, Terminator
<1>7. EmitReturn(b, v) = Emit(b, i)
  BY <1>1, <1>5 DEF EmitReturn
<1> QED BY <1>6, <1>7, EmitShape

LEMMA OpenedShape ==
    ASSUME NEW b, NEW n, NEW l, NEW O, NEW t, Shape(b, n, l, O, t), NEW p \in BOOLEAN
    PROVE  Shape(Opened(b, p), n + 1, n + 1, O \cup {n + 1}, <<Unset, Unset>>)
<1>1. n \in Nat /\ Len(b.code) = n
  BY ShapeFacts
<1>2. Shape(AddBlocks(b, 1), n + 1, l, O \cup ((n + 1)..(n + 1)), t)
  BY AddBlocksShape
<1>3. O \cup ((n + 1)..(n + 1)) = O \cup {n + 1}
  BY <1>1
<1>4. PICK c : c = AddBlocks(b, 1)
  OBVIOUS
<1>5. Opened(b, p) = [c EXCEPT !.cur = n + 1, !.brk = Unset, !.nxt = Unset,
                               !.visible = TRUE, !.jump = p]
  BY <1>1, <1>4 DEF Opened
<1>6. Shape(c, n + 1, l, O \cup {n + 1}, t)
  BY <1>2, <1>3, <1>4, Zenon
<1>7. PICK d : d = Opened(b, p)
  OBVIOUS
<1>8. /\ d \in Builder /\ d.code = c.code /\ d.cur = n + 1 /\ d.brk = Unset /\ d.nxt = Unset
  <2>1. c \in Builder /\ n + 1 \in Nat /\ Unset \in Nat
    BY <1>1, <1>6 DEF Shape, Unset
  <2>2. d = [c EXCEPT !.cur = n + 1, !.brk = Unset, !.nxt = Unset, !.visible = TRUE, !.jump = p]
    BY <1>5, <1>7
  <2> QED BY <2>1, <2>2 DEF Builder
<1>9. Shape(d, n + 1, n + 1, O \cup {n + 1}, <<Unset, Unset>>)
  BY <1>6, <1>8 DEF Shape
<1> QED BY <1>7, <1>9

LEMMA ClosedShape ==
    ASSUME NEW b, NEW n, NEW l, NEW O, NEW t, Shape(b, n, l, O, t),
           NEW c, NEW m, NEW k, NEW P, NEW u, Shape(c, m, k, P, u)
    PROVE  /\ Shape(Closed(c, b), m, l, P, t)
           /\ Shape(CloseLoop(c, b), m, k, P, t)
BY DEF Shape, Builder, Closed, CloseLoop

LEMMA OpenLoopShape ==
    ASSUME NEW b, NEW n, NEW l, NEW O, NEW t, Shape(b, n, l, O, t)
    PROVE  /\ Shape(OpenLoop(b), n + 2, l, O \cup {n + 1, n + 2}, <<n + 1, n + 2>>)
           /\ OpenLoop(b).brk = n + 1 /\ OpenLoop(b).nxt = n + 2
<1>1. n \in Nat /\ Len(b.code) = n
  BY ShapeFacts
<1>2. Shape(AddBlocks(b, 2), n + 2, l, O \cup ((n + 1)..(n + 2)), t)
  BY AddBlocksShape
<1>3. O \cup ((n + 1)..(n + 2)) = O \cup {n + 1, n + 2}
  BY <1>1
<1>4. PICK c : c = AddBlocks(b, 2)
  OBVIOUS
<1>5. OpenLoop(b) = [c EXCEPT !.brk = n + 1, !.nxt = n + 2]
  BY <1>1, <1>4 DEF OpenLoop
<1>6. Shape(c, n + 2, l, O \cup {n + 1, n + 2}, t)
  BY <1>2, <1>3, <1>4, Zenon
<1>7. PICK d : d = OpenLoop(b)
  OBVIOUS
<1>8. /\ d \in Builder /\ d.code = c.code /\ d.cur = c.cur /\ d.brk = n + 1 /\ d.nxt = n + 2
  <2>1. c \in Builder /\ n + 1 \in Nat /\ n + 2 \in Nat
    BY <1>1, <1>6 DEF Shape
  <2>2. d = [c EXCEPT !.brk = n + 1, !.nxt = n + 2]
    BY <1>5, <1>7
  <2> QED BY <2>1, <2>2 DEF Builder
<1>9. Shape(d, n + 2, l, O \cup {n + 1, n + 2}, <<n + 1, n + 2>>)
  BY <1>6, <1>8 DEF Shape
<1> QED BY <1>7, <1>8, <1>9
-----------------------------------------------------------------------------
(* What the compilation of an expression leaves                              *)

\* From n blocks and the block l, the compiler has reached m blocks and the block c:
\* l or a new one.  Except for l, c is the only block it leaves open.
Reached(b, n, l, O, t, m, c) ==
    /\ n <= m /\ (c = l \/ n < c)
    /\ Shape(b, m, c, (O \ {l}) \cup {c}, t)
CompiledOK(r, n, l, O, t) ==
    /\ r.v \in Operand
    /\ \E m \in Nat : \E c \in Nat : Reached(r.b, n, l, O, t, m, c)

\* If breaks and nexts may leave an expression, its context has their targets.
Targets(ok, n, t) == ok => t[1] \in 1..n /\ t[2] \in 1..n
Compiles(C, e) ==
    \A ok \in BOOLEAN : Placed(e, ok) =>
        \A b, n, l, O, t :
            Shape(b, n, l, O, t) /\ l \in O /\ Targets(ok, n, t) => CompiledOK(C[e][b], n, l, O, t)

LEMMA ReachedFacts ==
    ASSUME NEW b, NEW n, NEW l, NEW O, NEW t, NEW m, NEW c, Reached(b, n, l, O, t, m, c),
           n \in Nat, O \subseteq 1..n, l \in O
    PROVE  /\ m \in Nat /\ n <= m /\ (c = l \/ n < c) /\ c \in 1..m /\ c \in Nat
           /\ Shape(b, m, c, (O \ {l}) \cup {c}, t)
           /\ c \in (O \ {l}) \cup {c}
           /\ ((O \ {l}) \cup {c}) \ {c} = O \ {l}
           /\ Len(b.code) = m /\ b.cur = c
<1>1. Shape(b, m, c, (O \ {l}) \cup {c}, t) /\ n <= m /\ (c = l \/ n < c)
  BY DEF Reached
<1>2. m \in Nat /\ c \in Nat /\ (O \ {l}) \cup {c} \subseteq 1..m /\ Len(b.code) = m /\ b.cur = c
  BY <1>1, ShapeFacts
<1>3. c \notin O \ {l}
  BY <1>1, <1>2
<1>4. ((O \ {l}) \cup {c}) \ {c} = O \ {l}
  BY <1>3
<1> QED BY <1>1, <1>2, <1>4

LEMMA ReachedLength ==
    ASSUME NEW b, NEW n, NEW l, NEW O, NEW t, NEW m, NEW c, Reached(b, n, l, O, t, m, c)
    PROVE  Len(b.code) = m /\ b.cur = c /\ n <= m
BY DEF Reached, Shape

\* The builder is at one of m blocks, c, and the open ones are this and those in R.
Inside(b, m, c, R, t) ==
    /\ m \in Nat /\ c \in 1..m /\ R \subseteq 1..m /\ c \notin R
    /\ Shape(b, m, c, R \cup {c}, t)

LEMMA ReachedFrom ==
    ASSUME NEW a, NEW n, NEW l, NEW O, NEW t, NEW u, Shape(a, n, l, O, u), l \in O,
           NEW b, NEW m, NEW c, Reached(b, n, l, O, t, m, c)
    PROVE  Inside(b, m, c, O \ {l}, t)
<1>1. n \in Nat /\ O \subseteq 1..n
  BY ShapeFacts
<1>2. Shape(b, m, c, (O \ {l}) \cup {c}, t) /\ (c = l \/ n < c)
  BY DEF Reached
<1>3. (O \ {l}) \cup {c} \subseteq 1..m /\ m \in Nat
  BY <1>2, ShapeFacts
<1>4. c \notin O \ {l}
  BY <1>1, <1>2, <1>3
<1> QED BY <1>2, <1>3, <1>4 DEF Inside

LEMMA InsideEmit ==
    ASSUME NEW b, NEW m, NEW c, NEW R, NEW t, Inside(b, m, c, R, t), NEW i, InstrOK(i, m)
    PROVE  /\ i.op \notin Terminator => Inside(Emit(b, i), m, c, R, t)
           /\ i.op \in Terminator => Shape(Emit(b, i), m, c, R, t)
<1>1. PICK P : P = R \cup {c}
  OBVIOUS
<1>2. Shape(b, m, c, P, t) /\ c \in P /\ P \ {c} = R
  BY <1>1 DEF Inside
<1>3. /\ i.op \notin Terminator => Shape(Emit(b, i), m, c, P, t)
      /\ i.op \in Terminator => Shape(Emit(b, i), m, c, P \ {c}, t)
  BY <1>2, EmitShape
<1>4. i.op \notin Terminator => Inside(Emit(b, i), m, c, R, t)
  BY <1>1, <1>3 DEF Inside
<1>5. i.op \in Terminator => Shape(Emit(b, i), m, c, R, t)
  BY <1>2, <1>3, Zenon
<1> QED BY <1>4, <1>5

LEMMA InsideFrom ==
    ASSUME NEW b, NEW m, NEW l, NEW P, NEW t, Shape(b, m, l, P, t), NEW c \in P
    PROVE  Inside(At(b, c), m, c, P \ {c}, t)
<1>1. m \in Nat /\ P \subseteq 1..m
  BY ShapeFacts
<1>2. c \in Nat /\ c \in 1..m
  BY <1>1
<1>3. Shape(At(b, c), m, c, P, t)
  BY <1>2, ContextShape
<1>4. P = (P \ {c}) \cup {c}
  OBVIOUS
<1>5. Shape(At(b, c), m, c, (P \ {c}) \cup {c}, t)
  BY <1>3, <1>4, Zenon
<1> QED BY <1>1, <1>2, <1>5 DEF Inside

LEMMA InsideShape ==
    ASSUME NEW b, NEW m, NEW c, NEW R, NEW t, Inside(b, m, c, R, t)
    PROVE  /\ Shape(b, m, c, R \cup {c}, t) /\ m \in Nat /\ c \in 1..m /\ c \in Nat
           /\ c \notin R /\ c \in R \cup {c}
           /\ Len(b.code) = m /\ b.cur = c /\ b.regs \in Nat
<1>1. Shape(b, m, c, R \cup {c}, t) /\ m \in Nat /\ c \in 1..m /\ c \notin R
  BY DEF Inside
<1> QED BY <1>1, ShapeFacts

LEMMA CompiledStays ==
    ASSUME NEW b, NEW n, NEW l, NEW O, NEW t, Shape(b, n, l, O, t), l \in O, NEW v \in Operand
    PROVE  CompiledOK(Compiled(b, v), n, l, O, t)
<1>1. n \in Nat /\ l \in Nat
  BY ShapeFacts
<1>2. (O \ {l}) \cup {l} = O
  OBVIOUS
<1>3. Shape(b, n, l, (O \ {l}) \cup {l}, t)
  BY <1>2, Zenon
<1>4. Reached(b, n, l, O, t, n, l)
  BY <1>1, <1>3 DEF Reached
<1> QED BY <1>1, <1>4 DEF CompiledOK, Compiled

\* What compiles one thing after another does what each of them does.
LEMMA CompiledThen ==
    ASSUME NEW b, NEW n, NEW l, NEW O, NEW t, NEW m, NEW c, Reached(b, n, l, O, t, m, c),
           n \in Nat, O \subseteq 1..n, l \in O,
           NEW r, CompiledOK(r, m, c, (O \ {l}) \cup {c}, t)
    PROVE  CompiledOK(r, n, l, O, t)
<1> DEFINE P == (O \ {l}) \cup {c}
<1>1. /\ m \in Nat /\ n <= m /\ (c = l \/ n < c) /\ c \in 1..m
      /\ P \ {c} = O \ {l}
  BY ReachedFacts
<1> HIDE DEF P
<1>2. PICK m2 \in Nat, c2 \in Nat : Reached(r.b, m, c, P, t, m2, c2)
  BY DEF CompiledOK, P
<1>3. m <= m2 /\ (c2 = c \/ m < c2) /\ Shape(r.b, m2, c2, (P \ {c}) \cup {c2}, t)
  BY <1>2 DEF Reached
<1>4. n <= m2 /\ (c2 = l \/ n < c2)
  BY <1>1, <1>3
<1>5. Shape(r.b, m2, c2, (O \ {l}) \cup {c2}, t)
  BY <1>1, <1>3, Zenon
<1>6. Reached(r.b, n, l, O, t, m2, c2)
  BY <1>4, <1>5 DEF Reached
<1> QED BY <1>2, <1>6 DEF CompiledOK

LEMMA CompilesPart ==
    ASSUME NEW C, NEW e, Compiles(C, e), NEW ok \in BOOLEAN, Placed(e, ok),
           NEW b, NEW n, NEW l, NEW O, NEW t, Shape(b, n, l, O, t), l \in O, Targets(ok, n, t)
    PROVE  /\ CompiledOK(C[e][b], n, l, O, t)
           /\ C[e][b].v \in Operand
           /\ \E m \in Nat, c \in Nat : Reached(C[e][b].b, n, l, O, t, m, c)
<1>1. CompiledOK(C[e][b], n, l, O, t)
  BY DEF Compiles
<1> QED BY <1>1 DEF CompiledOK

\* Sequenced yields what has been compiled before each of its things and after the last.
Sequence(rs, f, b, n) ==
    /\ Len(rs) = n + 1
    /\ rs[1] = Compiled(b, Const(Nil))
    /\ \A k \in 1..n : rs[k + 1] = f[k][rs[k].b]

DoneIs(done, f, b, n) ==
    done = [k \in 0..n |-> IF k = 0 THEN <<Compiled(b, Const(Nil))>>
                           ELSE LET r == done[k - 1] IN Append(r, f[k][r[k].b])]

LEMMA DoneExists ==
    ASSUME NEW f, NEW b
    PROVE  \A n \in Nat : \E done : DoneIs(done, f, b, n)
<1> DEFINE U == {n \in Nat : \E done : DoneIs(done, f, b, n)}
<1>1. 0 \in U
  <2>1. PICK done : done = [k \in 0..0 |-> <<Compiled(b, Const(Nil))>>]
    OBVIOUS
  <2>2. DoneIs(done, f, b, 0)
    BY <2>1 DEF DoneIs
  <2> QED BY <2>2
<1>2. ASSUME NEW n \in Nat, n \in U PROVE n + 1 \in U
  <2>1. PICK g : DoneIs(g, f, b, n)
    BY <1>2
  <2>2. PICK h : h = [k \in 0..(n + 1) |-> IF k = n + 1 THEN Append(g[n], f[n + 1][g[n][n + 1].b])
                                          ELSE g[k]]
    OBVIOUS
  <2>3. ASSUME NEW k \in 0..(n + 1)
        PROVE  h[k] = IF k = 0 THEN <<Compiled(b, Const(Nil))>>
                      ELSE LET r == h[k - 1] IN Append(r, f[k][r[k].b])
    <3>1. CASE k = n + 1
      <4>1. k # 0 /\ k - 1 = n /\ h[k] = Append(g[n], f[k][g[n][k].b]) /\ h[k - 1] = g[n]
        BY <3>1, <2>2
      <4> QED BY <4>1
    <3>2. CASE k # n + 1
      <4>1. k \in 0..n /\ h[k] = g[k] /\ (k # 0 => k - 1 \in 0..(n + 1) /\ k - 1 # n + 1)
        BY <3>2, <2>2
      <4>2. k # 0 => h[k - 1] = g[k - 1]
        BY <4>1, <2>2
      <4>3. g[k] = IF k = 0 THEN <<Compiled(b, Const(Nil))>>
                   ELSE LET r == g[k - 1] IN Append(r, f[k][r[k].b])
        BY <4>1, <2>1 DEF DoneIs
      <4> QED BY <4>1, <4>2, <4>3
    <3> QED BY <3>1, <3>2
  <2>4. DoneIs(h, f, b, n + 1)
    BY <2>2, <2>3 DEF DoneIs
  <2> QED BY <2>4
<1> HIDE DEF U
<1>3. Nat \subseteq U
  BY <1>1, <1>2, Induction
<1> QED BY <1>3 DEF U

LEMMA DoneIsSequence ==
    ASSUME NEW f, NEW b, NEW n \in Nat, NEW done, DoneIs(done, f, b, n)
    PROVE  /\ \E S : done[n] \in Seq(S)
           /\ Sequence(done[n], f, b, n)
<1> DEFINE U == {k \in Nat : k <= n => /\ \E S : done[k] \in Seq(S)
                                       /\ Sequence(done[k], f, b, k)}
<1>1. 0 \in U
  <2>1. done[0] = <<Compiled(b, Const(Nil))>>
    BY DEF DoneIs
  <2>2. done[0] \in Seq({Compiled(b, Const(Nil))})
    BY <2>1
  <2>3. Sequence(done[0], f, b, 0)
    BY <2>1 DEF Sequence
  <2> QED BY <2>2, <2>3
<1>2. ASSUME NEW k \in Nat, k \in U PROVE k + 1 \in U
  <2> SUFFICES ASSUME k + 1 <= n
               PROVE  /\ \E S : done[k + 1] \in Seq(S)
                      /\ Sequence(done[k + 1], f, b, k + 1)
    OBVIOUS
  <2>1. PICK r : r = done[k]
    OBVIOUS
  <2>2. PICK S : r \in Seq(S)
    BY <1>2, <2>1
  <2>3. Sequence(r, f, b, k)
    BY <1>2, <2>1
  <2>4. PICK a : a = f[k + 1][r[k + 1].b]
    OBVIOUS
  <2>5. PICK s : s = done[k + 1]
    OBVIOUS
  <2>6. s = Append(r, a)
    <3>1. k + 1 \in 0..n /\ k + 1 # 0 /\ (k + 1) - 1 = k
      OBVIOUS
    <3> QED BY <3>1, <2>1, <2>4, <2>5 DEF DoneIs
  <2>7. PICK T : T = S \cup {a}
    OBVIOUS
  <2>8. Len(r) = k + 1
    BY <2>3 DEF Sequence
  <2>9. r \in Seq(T) /\ a \in T
    BY <2>2, <2>7
  <2>10. s \in Seq(T) /\ Len(s) = k + 2 /\ s[k + 2] = a /\ \A j \in 1..(k + 1) : s[j] = r[j]
    BY <2>6, <2>8, <2>9
  <2>11. Sequence(s, f, b, k + 1)
    <3>1. ASSUME NEW j \in 1..(k + 1) PROVE s[j + 1] = f[j][s[j].b]
      <4>1. s[j] = r[j]
        BY <2>10
      <4>2. CASE j = k + 1
        BY <2>4, <2>10, <4>1, <4>2
      <4>3. CASE j # k + 1
        <5>1. j \in 1..k /\ j + 1 \in 1..(k + 1)
          BY <4>3
        <5> QED BY <5>1, <4>1, <2>3, <2>10 DEF Sequence
      <4> QED BY <4>2, <4>3
    <3>2. s[1] = Compiled(b, Const(Nil))
      BY <2>3, <2>10 DEF Sequence
    <3> QED BY <2>10, <3>1, <3>2 DEF Sequence
  <2> QED BY <2>5, <2>10, <2>11
<1> HIDE DEF U
<1>3. Nat \subseteq U
  BY <1>1, <1>2, Induction
<1> QED BY <1>3 DEF U

LEMMA SequencedIs ==
    ASSUME NEW f, NEW b, NEW n \in Nat
    PROVE  /\ \E S : Sequenced(f, b, n) \in Seq(S)
           /\ Sequence(Sequenced(f, b, n), f, b, n)
<1>1. PICK done : done = CHOOSE g : DoneIs(g, f, b, n)
  OBVIOUS
<1>2. Sequenced(f, b, n) = done[n]
  BY <1>1 DEF Sequenced, DoneIs
<1>3. DoneIs(done, f, b, n)
  BY <1>1, DoneExists
<1> QED BY <1>2, <1>3, DoneIsSequence
LEMMA Nondecreasing ==
    ASSUME NEW n \in Nat, NEW g \in [1..(n + 1) -> Nat], \A k \in 1..n : g[k] <= g[k + 1]
    PROVE  \A k \in 1..(n + 1) : g[k] <= g[n + 1]
<1> DEFINE U == {d \in Nat : d <= n => g[n + 1 - d] <= g[n + 1]}
<1>1. 0 \in U
  BY DEF U
<1>2. ASSUME NEW d \in Nat, d \in U PROVE d + 1 \in U
  <2> SUFFICES ASSUME d + 1 <= n PROVE g[n + 1 - (d + 1)] <= g[n + 1]
    OBVIOUS
  <2>1. PICK k \in 1..n : k = n + 1 - (d + 1)
    OBVIOUS
  <2>2. k + 1 = n + 1 - d
    BY <2>1
  <2>3. g[k + 1] <= g[n + 1] /\ g[k] <= g[k + 1]
    BY <2>2, <1>2
  <2>4. g[k] \in Nat /\ g[k + 1] \in Nat /\ g[n + 1] \in Nat
    OBVIOUS
  <2> QED BY <2>1, <2>3, <2>4
<1>3. Nat \subseteq U
  <2> HIDE DEF U
  <2> QED BY <1>1, <1>2, Induction
<1>4. ASSUME NEW k \in 1..(n + 1) PROVE g[k] <= g[n + 1]
  <2>1. PICK d \in Nat : d = n + 1 - k
    OBVIOUS
  <2>2. d <= n /\ n + 1 - d = k
    BY <2>1
  <2>3. d \in U
    BY <1>3
  <2> QED BY <2>2, <2>3
<1> QED BY <1>4

\* A sequence of things that are each compiled well is, and blocks are only added.
LEMMA Chain ==
    ASSUME NEW f, NEW b, NEW N \in Nat, NEW rs, Sequence(rs, f, b, N),
           NEW n, NEW l, NEW O, NEW t, Shape(b, n, l, O, t), l \in O,
           \A k \in 1..N : \A s, m, c, P :
              Shape(s, m, c, P, t) /\ c \in P /\ n <= m => CompiledOK(f[k][s], m, c, P, t)
    PROVE  \A k \in 0..N : /\ CompiledOK(rs[k + 1], n, l, O, t)
                           /\ Len(rs[k + 1].b.code) <= Len(rs[N + 1].b.code)
<1>1. n \in Nat /\ O \subseteq 1..n
  BY ShapeFacts
<1> DEFINE U == {k \in Nat : k <= N => CompiledOK(rs[k + 1], n, l, O, t)}
<1>2. 0 \in U
  <2>1. CompiledOK(Compiled(b, Const(Nil)), n, l, O, t)
    BY CompiledStays, OperandsAreOperands DEF Nil
  <2>2. rs[1] = Compiled(b, Const(Nil)) /\ 0 + 1 = 1
    BY DEF Sequence
  <2> QED BY <2>1, <2>2
<1>3. ASSUME NEW k \in Nat, k + 1 <= N, CompiledOK(rs[k + 1], n, l, O, t)
      PROVE  /\ CompiledOK(rs[k + 1 + 1], n, l, O, t)
             /\ Len(rs[k + 1].b.code) <= Len(rs[k + 1 + 1].b.code)
  <2>1. PICK s : s = rs[k + 1].b
    OBVIOUS
  <2>2. PICK r : r = rs[k + 1 + 1]
    OBVIOUS
  <2>3. r = f[k + 1][s]
    BY <1>3, <2>1, <2>2 DEF Sequence
  <2>4. PICK m \in Nat, c \in Nat : Reached(s, n, l, O, t, m, c)
    BY <1>3, <2>1 DEF CompiledOK
  <2>5. PICK P : P = (O \ {l}) \cup {c}
    OBVIOUS
  <2>6. Shape(s, m, c, P, t) /\ c \in P /\ n <= m /\ P \subseteq 1..m /\ Len(s.code) = m
    <3>1. Shape(s, m, c, P, t) /\ c \in P /\ n <= m /\ Len(s.code) = m
      BY <1>1, <2>4, <2>5, ReachedFacts
    <3> QED BY <3>1, ShapeFacts
  <2>7. CompiledOK(r, m, c, P, t)
    BY <1>3, <2>3, <2>6
  <2>8. CompiledOK(r, n, l, O, t)
    BY <1>1, <2>4, <2>5, <2>7, CompiledThen
  <2>9. PICK m2 \in Nat, c2 \in Nat : Reached(r.b, m, c, P, t, m2, c2)
    BY <2>7 DEF CompiledOK
  <2>10. m <= m2 /\ Len(r.b.code) = m2
    <3>1. m <= m2 /\ Shape(r.b, m2, c2, (P \ {c}) \cup {c2}, t)
      BY <2>9 DEF Reached
    <3> QED BY <3>1, ShapeFacts
  <2> QED BY <2>1, <2>2, <2>6, <2>8, <2>10
<1>4. Nat \subseteq U
  <2>1. ASSUME NEW k \in Nat, k \in U PROVE k + 1 \in U
    BY <1>3, <2>1
  <2> HIDE DEF U
  <2> QED BY <1>2, <2>1, Induction
<1>5. \A k \in 0..N : CompiledOK(rs[k + 1], n, l, O, t)
  BY <1>4
<1> HIDE DEF U
<1>6. PICK g : g = [k \in 1..(N + 1) |-> Len(rs[k].b.code)]
  OBVIOUS
<1>7. ASSUME NEW k \in 1..(N + 1) PROVE g[k] = Len(rs[k].b.code) /\ g[k] \in Nat
  <2>1. PICK j \in 0..N : j + 1 = k
    <3>1. k - 1 \in 0..N /\ (k - 1) + 1 = k
      OBVIOUS
    <3> QED BY <3>1
  <2>2. CompiledOK(rs[k], n, l, O, t)
    BY <1>5, <2>1
  <2>3. PICK m \in Nat, c \in Nat : Reached(rs[k].b, n, l, O, t, m, c)
    BY <2>2 DEF CompiledOK
  <2>4. Len(rs[k].b.code) = m
    BY <1>1, <2>3, ReachedFacts
  <2> QED BY <1>6, <2>4
<1>8. g \in [1..(N + 1) -> Nat]
  BY <1>6, <1>7
<1>9. ASSUME NEW k \in 1..N PROVE g[k] <= g[k + 1]
  <2>1. PICK j \in Nat : j + 1 = k
    <3>1. k - 1 \in Nat /\ (k - 1) + 1 = k
      OBVIOUS
    <3> QED BY <3>1
  <2>2. CompiledOK(rs[j + 1], n, l, O, t)
    BY <1>5, <2>1
  <2>3. Len(rs[k].b.code) <= Len(rs[k + 1].b.code)
    BY <1>3, <2>1, <2>2
  <2> QED BY <1>7, <2>3
<1>10. \A k \in 1..(N + 1) : g[k] <= g[N + 1]
  BY <1>8, <1>9, Nondecreasing
<1>11. ASSUME NEW k \in 0..N PROVE Len(rs[k + 1].b.code) <= Len(rs[N + 1].b.code)
  <2>1. k + 1 \in 1..(N + 1) /\ N + 1 \in 1..(N + 1)
    OBVIOUS
  <2>2. g[k + 1] <= g[N + 1]
    BY <1>10, <2>1
  <2> QED BY <1>7, <2>1, <2>2
<1> QED BY <1>5, <1>11

-----------------------------------------------------------------------------
(* The compilation of each kind of expression                                *)

LEMMA PartsCompiled ==
    ASSUME NEW C, NEW e \in Expression, \A i \in 1..Len(e.parts) : Compiles(C, e.parts[i]),
           NEW ok \in BOOLEAN, \A i \in 1..Len(e.parts) : Placed(e.parts[i], ok),
           NEW b, NEW n, NEW l, NEW O, NEW t, Shape(b, n, l, O, t), l \in O, Targets(ok, n, t)
    PROVE  LET rs == CompileParts(e.parts, b, C)
           IN  /\ \A k \in 0..Len(e.parts) : CompiledOK(rs[k + 1], n, l, O, t)
               /\ Len(rs) = Len(e.parts) + 1
               /\ CompiledOK(Last(rs), n, l, O, t)
               /\ ValuesOfParts(rs) \in Seq(Operand)
<1>1. PICK N \in Nat : N = Len(e.parts)
  BY PartsAreExpressions
<1>2. PICK f : f = [k \in 1..N |-> [s \in Builder |-> C[e.parts[k]][s]]]
  OBVIOUS
<1>3. PICK rs : rs = Sequenced(f, b, N)
  OBVIOUS
<1>4. CompileParts(e.parts, b, C) = rs
  BY <1>1, <1>2, <1>3 DEF CompileParts
<1>5. Sequence(rs, f, b, N)
  BY <1>3, SequencedIs
<1>6. ASSUME NEW k \in 1..N, NEW s, NEW m, NEW c, NEW P, Shape(s, m, c, P, t), c \in P, n <= m
      PROVE  CompiledOK(f[k][s], m, c, P, t)
  <2>1. s \in Builder /\ n \in Nat /\ m \in Nat
    BY <1>6, ShapeFacts
  <2>2. f[k][s] = C[e.parts[k]][s]
    BY <1>2, <2>1
  <2>3. Targets(ok, m, t)
    BY <1>6, <2>1 DEF Targets
  <2>4. Compiles(C, e.parts[k]) /\ Placed(e.parts[k], ok)
    BY <1>1
  <2>5. CompiledOK(C[e.parts[k]][s], m, c, P, t)
    BY <1>6, <2>3, <2>4, CompilesPart
  <2> QED BY <2>2, <2>5
<1>7. \A k \in 0..N : CompiledOK(rs[k + 1], n, l, O, t)
  BY <1>5, <1>6, Chain
<1>8. Len(rs) = N + 1
  BY <1>5 DEF Sequence
<1>9. CompiledOK(Last(rs), n, l, O, t)
  BY <1>7, <1>8 DEF Last
<1>10. ValuesOfParts(rs) \in Seq(Operand)
  <2>1. ValuesOfParts(rs) = [k \in 1..N |-> rs[k + 1].v]
    BY <1>8 DEF ValuesOfParts
  <2>2. \A k \in 1..N : rs[k + 1].v \in Operand
    BY <1>7 DEF CompiledOK
  <2> QED BY <2>1, <2>2
<1> QED BY <1>1, <1>4, <1>7, <1>8, <1>9, <1>10

\* A function or promise is compiled in blocks of its own, which all have ended.
LEMMA BodyCompiled ==
    ASSUME NEW C, NEW e, Compiles(C, e), Placed(e, FALSE), NEW p \in BOOLEAN,
           NEW b, NEW n, NEW l, NEW O, NEW t, Shape(b, n, l, O, t)
    PROVE  \E m \in Nat : n < m /\ Shape(CompileBody(e, b, p, C), m, l, O, t)
<1> DEFINE P == O \cup {n + 1}
           u == <<Unset, Unset>>
<1>1. n \in Nat /\ O \subseteq 1..n
  BY ShapeFacts
<1>2. Shape(Opened(b, p), n + 1, n + 1, P, u)
  BY OpenedShape
<1>3. n + 1 \in P /\ P \subseteq 1..(n + 1) /\ n + 1 \in Nat /\ P \ {n + 1} = O
  BY <1>1
<1> HIDE DEF P, u
<1>4. Targets(FALSE, n + 1, u)
  BY DEF Targets
<1>5. PICK r : r = C[e][Opened(b, p)]
  OBVIOUS
<1>6. /\ r.v \in Operand
      /\ \E m \in Nat, c \in Nat : Reached(r.b, n + 1, n + 1, P, u, m, c)
  BY <1>2, <1>3, <1>4, <1>5, CompilesPart
<1>7. PICK m \in Nat, c \in Nat : Reached(r.b, n + 1, n + 1, P, u, m, c)
  BY <1>6
<1>8. PICK Q : Q = (P \ {n + 1}) \cup {c}
  OBVIOUS
<1>9. /\ n + 1 <= m /\ Shape(r.b, m, c, Q, u) /\ c \in Q
      /\ Q \ {c} = O
  <2>1. PICK k \in Nat : k = n + 1
    BY <1>3
  <2>2. Reached(r.b, k, k, P, u, m, c) /\ k \in P /\ P \subseteq 1..k
    BY <1>3, <1>7, <2>1
  <2>3. /\ k <= m /\ Shape(r.b, m, c, (P \ {k}) \cup {c}, u)
        /\ c \in (P \ {k}) \cup {c} /\ ((P \ {k}) \cup {c}) \ {c} = P \ {k}
    BY <2>2, ReachedFacts
  <2> QED BY <1>3, <1>8, <2>1, <2>3
<1>10. PICK s : s = [r.b EXCEPT !.jump = FALSE]
  OBVIOUS
<1>11. Shape(s, m, c, Q, u)
  BY <1>9, <1>10, ContextShape
<1>12. Shape(EmitReturn(s, r.v), m, c, Q \ {c}, u)
  BY <1>6, <1>9, <1>11, EmitReturnShape
<1>13. Shape(EmitReturn(s, r.v), m, c, O, u)
  BY <1>9, <1>12, Zenon
<1>14. Shape(Closed(EmitReturn(s, r.v), b), m, l, O, t)
  BY <1>13, ClosedShape
<1>15. CompileBody(e, b, p, C) = Closed(EmitReturn(s, r.v), b)
  BY <1>5, <1>10 DEF CompileBody
<1> QED BY <1>1, <1>9, <1>14, <1>15
LEMMA CompiledAt ==
    ASSUME NEW n, NEW l, NEW O, NEW t, NEW s, NEW m, NEW c, n <= m, c = l \/ n < c,
           Shape(s, m, c, (O \ {l}) \cup {c}, t), NEW v \in Operand
    PROVE  CompiledOK(Compiled(s, v), n, l, O, t)
<1>1. m \in Nat /\ c \in Nat
  BY ShapeFacts
<1>2. Reached(s, n, l, O, t, m, c)
  BY DEF Reached
<1> QED BY <1>1, <1>2 DEF CompiledOK, Compiled

\* What has been compiled, and then an instruction with a result, or another flag.
LEMMA ThenEmitValue ==
    ASSUME NEW b, NEW n \in Nat, NEW l, NEW O, O \subseteq 1..n, l \in O, NEW t, NEW m, NEW c,
           Reached(b, n, l, O, t, m, c), NEW i, InstrOK(i, m), i.op \notin Terminator
    PROVE  CompiledOK(EmitValue(b, i), n, l, O, t)
<1>1. PICK P : P = (O \ {l}) \cup {c}
  OBVIOUS
<1>2. /\ Shape(b, m, c, P, t) /\ c \in P /\ n <= m /\ (c = l \/ n < c)
  BY <1>1, ReachedFacts
<1>3. PICK r : r = EmitValue(b, i)
  OBVIOUS
<1>4. r.v \in Operand /\ Shape(r.b, m, c, P, t)
  BY <1>2, <1>3, EmitValueShape
<1>5. Reached(r.b, n, l, O, t, m, c)
  BY <1>1, <1>2, <1>4 DEF Reached
<1>6. m \in Nat /\ c \in Nat
  BY <1>4, ShapeFacts
<1> QED BY <1>3, <1>4, <1>5, <1>6 DEF CompiledOK

LEMMA ThenVisible ==
    ASSUME NEW r, NEW n, NEW l, NEW O, NEW t, CompiledOK(r, n, l, O, t), NEW visible \in BOOLEAN
    PROVE  CompiledOK(Compiled(Visible(r.b, visible), r.v), n, l, O, t)
<1>1. PICK m \in Nat, c \in Nat : Reached(r.b, n, l, O, t, m, c)
  BY DEF CompiledOK
<1>2. n <= m /\ (c = l \/ n < c) /\ Shape(r.b, m, c, (O \ {l}) \cup {c}, t)
  BY <1>1 DEF Reached
<1>3. Shape(Visible(r.b, visible), m, c, (O \ {l}) \cup {c}, t)
  BY <1>2, ContextShape
<1> QED BY <1>2, <1>3, CompiledAt DEF CompiledOK

LEMMA CallCompiled ==
    ASSUME NEW C, NEW e \in Expression, \A i \in 1..Len(e.parts) : Compiles(C, e.parts[i]),
           \A i \in 1..Len(e.parts) : Placed(e.parts[i], FALSE),
           NEW b, NEW n, NEW l, NEW O, NEW t, Shape(b, n, l, O, t), l \in O
    PROVE  CompiledOK(CompileCall(e, b, C), n, l, O, t)
<1>0. n \in Nat /\ O \subseteq 1..n
  BY ShapeFacts
<1>1. PICK N \in Nat : N = Len(e.parts)
  BY PartsAreExpressions
<1>2. PICK f : f = [k \in 1..N |-> [s \in Builder |->
                    IF e.parts[k].op \in {"literal", "missing"} THEN Compiled(s, Const(Unset))
                    ELSE Compiled(CompileBody(e.parts[k], s, TRUE, C), Const(Len(s.code) + 1))]]
  OBVIOUS
<1>3. PICK rs : rs = Sequenced(f, b, N)
  OBVIOUS
<1>4. CompileCall(e, b, C) = EmitValue(rs[N + 1].b, Ins("call", <<>>, [k \in 1..N |-> rs[k + 1].v[2]]))
  BY <1>1, <1>2, <1>3 DEF CompileCall
<1>5. Sequence(rs, f, b, N)
  BY <1>3, SequencedIs
<1>6. ASSUME NEW k \in 1..N, NEW s, NEW m, NEW c, NEW P, Shape(s, m, c, P, t), c \in P
      PROVE  /\ CompiledOK(f[k][s], m, c, P, t)
             /\ f[k][s].v[2] \in {Unset} \cup 1..Len(f[k][s].b.code)
  <2>1. s \in Builder /\ m \in Nat /\ Len(s.code) = m /\ c \in Nat
    BY <1>6, ShapeFacts
  <2>2. CASE e.parts[k].op \in {"literal", "missing"}
    <3>1. f[k][s] = Compiled(s, Const(Unset))
      BY <1>2, <2>1, <2>2
    <3>2. Const(Unset) \in Operand
      BY OperandsAreOperands DEF Unset
    <3>3. CompiledOK(Compiled(s, Const(Unset)), m, c, P, t)
      BY <1>6, <3>2, CompiledStays
    <3>4. Compiled(s, Const(Unset)).v[2] = Unset
      BY DEF Compiled, Const
    <3> QED BY <3>1, <3>3, <3>4
  <2>3. CASE e.parts[k].op \notin {"literal", "missing"}
    <3>1. PICK d : d = CompileBody(e.parts[k], s, TRUE, C)
      OBVIOUS
    <3>2. f[k][s] = Compiled(d, Const(m + 1))
      BY <1>2, <2>1, <2>3, <3>1
    <3>3. Compiles(C, e.parts[k]) /\ Placed(e.parts[k], FALSE)
      BY <1>1
    <3>4. PICK m2 \in Nat : m < m2 /\ Shape(d, m2, c, P, t)
      BY <1>6, <3>1, <3>3, BodyCompiled
    <3>5. Const(m + 1) \in Operand
      BY <2>1, OperandsAreOperands
    <3>6. (P \ {c}) \cup {c} = P
      BY <1>6
    <3>7. Shape(d, m2, c, (P \ {c}) \cup {c}, t)
      BY <3>4, <3>6, Zenon
    <3>8. m <= m2
      BY <2>1, <3>4
    <3>9. CompiledOK(Compiled(d, Const(m + 1)), m, c, P, t)
      BY <3>5, <3>7, <3>8, CompiledAt
    <3>10. Compiled(d, Const(m + 1)).v[2] = m + 1 /\ Compiled(d, Const(m + 1)).b = d
      BY DEF Compiled, Const
    <3>11. Len(d.code) = m2 /\ m + 1 \in 1..m2
      BY <2>1, <3>4, ShapeFacts
    <3> QED BY <3>2, <3>9, <3>10, <3>11
  <2> QED BY <2>2, <2>3
<1>7. \A k \in 0..N : /\ CompiledOK(rs[k + 1], n, l, O, t)
                      /\ Len(rs[k + 1].b.code) <= Len(rs[N + 1].b.code)
  <2>1. \A k \in 1..N : \A s, m, c, P :
           Shape(s, m, c, P, t) /\ c \in P /\ n <= m => CompiledOK(f[k][s], m, c, P, t)
    BY <1>6
  <2> QED BY <1>5, <2>1, Chain
<1>8. PICK m \in Nat, c \in Nat : Reached(rs[N + 1].b, n, l, O, t, m, c)
  BY <1>7 DEF CompiledOK
<1>9. Len(rs[N + 1].b.code) = m
  BY <1>8, ReachedLength
<1>10. PICK to : to = [k \in 1..N |-> rs[k + 1].v[2]]
  OBVIOUS
<1>11. ASSUME NEW k \in 1..N PROVE to[k] \in {Unset} \cup 1..m
  <2>1. PICK j \in 0..N : j + 1 = k
    <3>1. k - 1 \in 0..N /\ (k - 1) + 1 = k
      OBVIOUS
    <3> QED BY <3>1
  <2>2. PICK s : s = rs[k].b
    OBVIOUS
  <2>3. PICK m1 \in Nat, c1 \in Nat : Reached(s, n, l, O, t, m1, c1)
    BY <1>7, <2>1, <2>2 DEF CompiledOK
  <2>4. PICK P : P = (O \ {l}) \cup {c1}
    OBVIOUS
  <2>5. Shape(s, m1, c1, P, t) /\ c1 \in P
    BY <1>0, <2>3, <2>4, ReachedFacts
  <2>6. f[k][s].v[2] \in {Unset} \cup 1..Len(f[k][s].b.code)
    BY <1>6, <2>5
  <2>7. rs[k + 1] = f[k][s]
    BY <1>5, <2>2 DEF Sequence
  <2>8. Len(rs[k + 1].b.code) <= m
    BY <1>7, <1>9
  <2>9. to[k] \in {Unset} \cup 1..Len(rs[k + 1].b.code)
    BY <2>6, <2>7, <1>10
  <2>10. PICK m3 \in Nat, c3 \in Nat : Reached(rs[k + 1].b, n, l, O, t, m3, c3)
    BY <1>7 DEF CompiledOK
  <2>11. Len(rs[k + 1].b.code) = m3
    BY <2>10, ReachedLength
  <2> QED BY <2>8, <2>9, <2>11
<1>12. to \in Seq(Nat) /\ Len(to) = N
  BY <1>10, <1>11 DEF Unset
<1>13. TargetsOK("call", to, m)
  BY <1>11, <1>12 DEF TargetsOK
<1>14. <<>> \in Seq(Operand)
  OBVIOUS
<1>15. InstrOK(Ins("call", <<>>, to), m) /\ Ins("call", <<>>, to).op = "call"
  <2>1. PICK op \in SimpleOp : op = "call"
    BY DEF SimpleOp
  <2>2. InstrOK(Ins(op, <<>>, to), m) /\ Ins(op, <<>>, to).op = op
    BY <1>12, <1>13, <1>14, <2>1, InsOK
  <2> QED BY <2>1, <2>2
<1>16. Ins("call", <<>>, to).op \notin Terminator
  BY <1>15 DEF Terminator
<1>17. CompiledOK(EmitValue(rs[N + 1].b, Ins("call", <<>>, to)), n, l, O, t)
  BY <1>0, <1>8, <1>15, <1>16, ThenEmitValue
<1> QED BY <1>4, <1>10, <1>17
StraightOp == {"read", "assign", "update", "arith", "get", "startFor", "element", "increment"}

LEMMA StraightOK ==
    ASSUME NEW n \in Nat, NEW op \in StraightOp, NEW vs \in Seq(Operand)
    PROVE  InstrOK(Ins(op, vs, <<>>), n) /\ Ins(op, vs, <<>>).op \notin Terminator
<1>1. op \in SimpleOp /\ op \notin Terminator /\ op \notin {"branch", "apply", "test", "less"}
  BY DEF StraightOp, SimpleOp, Terminator
<1>2. <<>> \in Seq(Nat) /\ TargetsOK(op, <<>>, n)
  BY <1>1, NoTargets
<1> QED BY <1>1, <1>2, InsOK

LEMMA ThenEmit ==
    ASSUME NEW b, NEW n \in Nat, NEW l, NEW O, O \subseteq 1..n, l \in O, NEW t, NEW m, NEW c,
           Reached(b, n, l, O, t, m, c), NEW i, InstrOK(i, m)
    PROVE  /\ i.op \notin Terminator => Reached(Emit(b, i), n, l, O, t, m, c)
           /\ i.op \in Terminator => Shape(Emit(b, i), m, c, O \ {l}, t)
<1>1. PICK P : P = (O \ {l}) \cup {c}
  OBVIOUS
<1>2. /\ Shape(b, m, c, P, t) /\ c \in P /\ n <= m /\ (c = l \/ n < c) /\ P \ {c} = O \ {l}
  BY <1>1, ReachedFacts
<1>3. /\ i.op \notin Terminator => Shape(Emit(b, i), m, c, P, t)
      /\ i.op \in Terminator => Shape(Emit(b, i), m, c, P \ {c}, t)
  BY <1>2, EmitShape
<1>4. i.op \notin Terminator => Reached(Emit(b, i), n, l, O, t, m, c)
  BY <1>1, <1>2, <1>3 DEF Reached
<1>5. i.op \in Terminator => Shape(Emit(b, i), m, c, O \ {l}, t)
  BY <1>2, <1>3, Zenon
<1> QED BY <1>4, <1>5

LEMMA HowManyParts ==
    ASSUME NEW e \in Expression
    PROVE  /\ Len(e.parts) \in Nat
           /\ e.op \in {"assign", "paren", "apply", "repeat"} => Len(e.parts) = 1 /\ 1 \in 1..Len(e.parts)
           /\ e.op \in {"update", "while", "for"} =>
                 Len(e.parts) = 2 /\ 1 \in 1..Len(e.parts) /\ 2 \in 1..Len(e.parts)
           /\ e.op = "if" =>
                 /\ 1 \in 1..Len(e.parts) /\ 2 \in 1..Len(e.parts)
                 /\ Len(e.parts) # 2 => 3 \in 1..Len(e.parts)
           /\ e.op \in {"break", "next", "read", "literal", "missing"} => e.parts = <<>>
           /\ e.op = "literal" => e.n \in Nat
<1>1. HasItsParts(e) /\ Len(e.parts) \in Nat
  BY ExpressionAssumption, PartsAreExpressions
<1>2. /\ e.op \in {"assign", "paren", "apply", "repeat"} => Len(e.parts) = 1
      /\ e.op \in {"update", "while", "for"} => Len(e.parts) = 2
      /\ e.op = "if" => Len(e.parts) \in {2, 3}
      /\ e.op \in {"literal", "missing", "read", "break", "next"} => e.parts = <<>>
      /\ e.op = "literal" => e.n \in Nat
  BY <1>1, Zenon DEF HasItsParts
<1>3. PICK N \in Nat : N = Len(e.parts)
  BY <1>1
<1>4. /\ N = 1 => 1 \in 1..N
      /\ N = 2 => 1 \in 1..N /\ 2 \in 1..N
      /\ N = 3 => 1 \in 1..N /\ 2 \in 1..N /\ 3 \in 1..N
  OBVIOUS
<1>5. e.op = "if" => /\ 1 \in 1..N /\ 2 \in 1..N
                     /\ N # 2 => 3 \in 1..N
  BY <1>2, <1>3, <1>4
<1>6. e.op \in {"assign", "paren", "apply", "repeat"} => N = 1 /\ 1 \in 1..N
  BY <1>2, <1>3, <1>4, Zenon
<1>7. e.op \in {"update", "while", "for"} => N = 2 /\ 1 \in 1..N /\ 2 \in 1..N
  BY <1>2, <1>3, <1>4, Zenon
<1>8. e.op \in {"break", "next", "read", "literal", "missing"} => e.parts = <<>>
  BY <1>2
<1> QED BY <1>1, <1>2, <1>3, <1>5, <1>6, <1>7, <1>8, Zenon

LEMMA ReadCompiled ==
    ASSUME NEW b, NEW n, NEW l, NEW O, NEW t, Shape(b, n, l, O, t), l \in O
    PROVE  /\ CompiledOK(CompileRead(b), n, l, O, t)
           /\ CompileRead(b).v \in Operand
           /\ Shape(CompileRead(b).b, n, l, O, t)
<1>1. n \in Nat /\ l \in Nat /\ O = (O \ {l}) \cup {l}
  BY ShapeFacts
<1>2. InstrOK(Ins("read", <<>>, <<>>), n) /\ Ins("read", <<>>, <<>>).op \notin Terminator
  <2>1. PICK op \in StraightOp : op = "read"
    BY DEF StraightOp
  <2>2. <<>> \in Seq(Operand)
    OBVIOUS
  <2> QED BY <1>1, <2>1, <2>2, StraightOK
<1>3. PICK r : r = CompileRead(b)
  OBVIOUS
<1>4. r.v \in Operand /\ Shape(r.b, n, l, O, t)
  BY <1>2, <1>3, EmitValueShape DEF CompileRead
<1>5. Shape(r.b, n, l, (O \ {l}) \cup {l}, t)
  BY <1>1, <1>4, Zenon
<1>6. Reached(r.b, n, l, O, t, n, l)
  BY <1>1, <1>5 DEF Reached
<1> QED BY <1>1, <1>3, <1>4, <1>6 DEF CompiledOK

LEMMA ParenCompiled ==
    ASSUME NEW C, NEW e \in Expression, e.op = "paren",
           \A i \in 1..Len(e.parts) : Compiles(C, e.parts[i]),
           NEW ok \in BOOLEAN, \A i \in 1..Len(e.parts) : Placed(e.parts[i], ok),
           NEW b, NEW n, NEW l, NEW O, NEW t, Shape(b, n, l, O, t), l \in O, Targets(ok, n, t)
    PROVE  CompiledOK(CompileParen(e, b, C), n, l, O, t)
<1>1. Compiles(C, e.parts[1]) /\ Placed(e.parts[1], ok)
  BY HowManyParts
<1>2. CompiledOK(C[e.parts[1]][b], n, l, O, t)
  BY <1>1, CompilesPart
<1>3. PICK r : r = C[e.parts[1]][b]
  OBVIOUS
<1>4. CompiledOK(Compiled(Visible(r.b, TRUE), r.v), n, l, O, t)
  BY <1>2, <1>3, ThenVisible
<1> QED BY <1>3, <1>4 DEF CompileParen

LEMMA ApplyCompiled ==
    ASSUME NEW C, NEW e \in Expression, e.op = "apply",
           \A i \in 1..Len(e.parts) : Compiles(C, e.parts[i]),
           \A i \in 1..Len(e.parts) : Placed(e.parts[i], FALSE),
           NEW b, NEW n, NEW l, NEW O, NEW t, Shape(b, n, l, O, t), l \in O
    PROVE  CompiledOK(CompileApply(e, b, C), n, l, O, t)
<1>1. Compiles(C, e.parts[1]) /\ Placed(e.parts[1], FALSE)
  BY HowManyParts
<1>2. n \in Nat /\ Len(b.code) = n /\ O \subseteq 1..n /\ l \in Nat
  BY ShapeFacts
<1>3. PICK d : d = CompileBody(e.parts[1], b, FALSE, C)
  OBVIOUS
<1>4. PICK m \in Nat : n < m /\ Shape(d, m, l, O, t)
  BY <1>1, <1>3, BodyCompiled
<1>5. (O \ {l}) \cup {l} = O
  OBVIOUS
<1>6. Shape(d, m, l, (O \ {l}) \cup {l}, t)
  BY <1>4, <1>5, Zenon
<1>7. Reached(d, n, l, O, t, m, l)
  BY <1>2, <1>4, <1>6 DEF Reached
<1>8. InstrOK(Ins("apply", <<>>, <<n + 1>>), m) /\ Ins("apply", <<>>, <<n + 1>>).op \notin Terminator
  <2>1. PICK op \in SimpleOp : op = "apply"
    BY DEF SimpleOp
  <2>2. PICK k \in Nat : k = n + 1 /\ k \in 1..m
    BY <1>2, <1>4
  <2>3. <<k>> \in Seq(Nat) /\ <<>> \in Seq(Operand) /\ TargetsOK(op, <<k>>, m)
    BY <2>1, <2>2 DEF TargetsOK
  <2>4. InstrOK(Ins(op, <<>>, <<k>>), m) /\ Ins(op, <<>>, <<k>>).op = op
    BY <2>3, InsOK
  <2>5. op \notin Terminator
    BY <2>1 DEF Terminator
  <2> QED BY <2>1, <2>2, <2>4, <2>5
<1>9. CompiledOK(EmitValue(d, Ins("apply", <<>>, <<n + 1>>)), n, l, O, t)
  BY <1>2, <1>7, <1>8, ThenEmitValue
<1> QED BY <1>2, <1>3, <1>9 DEF CompileApply

LEMMA PrimitiveCompiled ==
    ASSUME NEW C, NEW e \in Expression, e.op \in {"arith", "get"},
           \A i \in 1..Len(e.parts) : Compiles(C, e.parts[i]),
           \A i \in 1..Len(e.parts) : Placed(e.parts[i], FALSE),
           NEW b, NEW n, NEW l, NEW O, NEW t, Shape(b, n, l, O, t), l \in O
    PROVE  CompiledOK(CompilePrimitive(e, b, C), n, l, O, t)
<1>1. n \in Nat /\ O \subseteq 1..n
  BY ShapeFacts
<1>2. PICK rs : rs = CompileParts(e.parts, b, C)
  OBVIOUS
<1>3. CompiledOK(Last(rs), n, l, O, t) /\ ValuesOfParts(rs) \in Seq(Operand)
  BY <1>2, PartsCompiled DEF Targets
<1>4. PICK m \in Nat, c \in Nat : Reached(Last(rs).b, n, l, O, t, m, c)
  BY <1>3 DEF CompiledOK
<1>5. PICK i : i = Ins(e.op, ValuesOfParts(rs), <<>>)
  OBVIOUS
<1>6. InstrOK(i, m) /\ i.op \notin Terminator
  <2>1. PICK op \in StraightOp : op = e.op
    BY DEF StraightOp
  <2> QED BY <1>3, <1>5, <2>1, StraightOK
<1>7. PICK v : v = EmitValue(Last(rs).b, i)
  OBVIOUS
<1>8. CompiledOK(v, n, l, O, t)
  BY <1>1, <1>4, <1>6, <1>7, ThenEmitValue
<1>9. CompiledOK(Compiled(Visible(v.b, TRUE), v.v), n, l, O, t)
  BY <1>8, ThenVisible
<1>10. CompilePrimitive(e, b, C) = IF e.op = "get" THEN Compiled(Visible(v.b, TRUE), v.v) ELSE v
  BY <1>2, <1>5, <1>7 DEF CompilePrimitive
<1> QED BY <1>8, <1>9, <1>10

LEMMA AssignCompiled ==
    ASSUME NEW C, NEW e \in Expression, e.op = "assign",
           \A i \in 1..Len(e.parts) : Compiles(C, e.parts[i]),
           \A i \in 1..Len(e.parts) : Placed(e.parts[i], FALSE),
           NEW b, NEW n, NEW l, NEW O, NEW t, Shape(b, n, l, O, t), l \in O
    PROVE  CompiledOK(CompileAssign(e, b, C), n, l, O, t)
<1>1. Compiles(C, e.parts[1]) /\ Placed(e.parts[1], FALSE)
  BY HowManyParts
<1>2. n \in Nat /\ O \subseteq 1..n
  BY ShapeFacts
<1>3. PICK r : r = C[e.parts[1]][b]
  OBVIOUS
<1>4. r.v \in Operand /\ \E m \in Nat, c \in Nat : Reached(r.b, n, l, O, t, m, c)
  BY <1>1, <1>3, CompilesPart DEF Targets
<1>5. PICK m \in Nat, c \in Nat : Reached(r.b, n, l, O, t, m, c)
  BY <1>4
<1>6. PICK i : i = Ins("assign", <<r.v>>, <<>>)
  OBVIOUS
<1>7. InstrOK(i, m) /\ i.op \notin Terminator
  <2>1. PICK op \in StraightOp : op = "assign"
    BY DEF StraightOp
  <2>2. <<r.v>> \in Seq(Operand)
    BY <1>4
  <2> QED BY <1>6, <2>1, <2>2, StraightOK
<1>8. Reached(Emit(r.b, i), n, l, O, t, m, c)
  BY <1>2, <1>5, <1>7, ThenEmit
<1>9. PICK d : d = Compiled(Emit(r.b, i), r.v)
  OBVIOUS
<1>10. d.b = Emit(r.b, i) /\ d.v = r.v
  BY <1>9 DEF Compiled
<1>11. CompiledOK(d, n, l, O, t)
  BY <1>4, <1>8, <1>10 DEF CompiledOK
<1>12. CompiledOK(Compiled(Visible(d.b, FALSE), d.v), n, l, O, t)
  BY <1>11, ThenVisible
<1> QED BY <1>3, <1>6, <1>10, <1>12 DEF CompileAssign

LEMMA JumpCompiled ==
    ASSUME NEW b, NEW n, NEW l, NEW O, NEW t, Shape(b, n, l, O, t), l \in O, NEW target \in 1..n
    PROVE  CompiledOK(CompileJump(b, target), n, l, O, t)
<1>1. n \in Nat /\ O \subseteq 1..n /\ Len(b.code) = n
  BY ShapeFacts
<1>2. InstrOK(Br(target), n) /\ Br(target).op \in Terminator
  BY <1>1, BrOK
<1>3. Shape(Emit(b, Br(target)), n, l, O \ {l}, t)
  BY <1>2, EmitShape
<1>4. PICK d : d = AddBlocks(Emit(b, Br(target)), 1)
  OBVIOUS
<1>5. Shape(d, n + 1, l, (O \ {l}) \cup ((n + 1)..(n + 1)), t)
  BY <1>3, <1>4, AddBlocksShape
<1>6. (O \ {l}) \cup ((n + 1)..(n + 1)) = (O \ {l}) \cup {n + 1}
  BY <1>1
<1>7. Shape(d, n + 1, l, (O \ {l}) \cup {n + 1}, t)
  BY <1>5, <1>6, Zenon
<1>8. PICK k \in Nat : k = n + 1 /\ n <= k /\ n < k
  BY <1>1
<1>9. Shape(At(d, k), k, k, (O \ {l}) \cup {k}, t)
  <2>1. Shape(d, k, l, (O \ {l}) \cup {k}, t)
    BY <1>7, <1>8
  <2> QED BY <1>8, <2>1, ContextShape
<1>10. CompiledOK(Compiled(At(d, k), Const(Nil)), n, l, O, t)
  BY <1>8, <1>9, CompiledAt, OperandsAreOperands DEF Nil
<1> QED BY <1>1, <1>4, <1>8, <1>10 DEF CompileJump
LEMMA ThenNewBlock ==
    ASSUME NEW n \in Nat, NEW l, NEW O, O \subseteq 1..n, NEW t, NEW s, NEW m, NEW c,
           Shape(s, m, c, O \ {l}, t), n <= m
    PROVE  Reached(At(AddBlocks(s, 1), m + 1), n, l, O, t, m + 1, m + 1)
<1>1. m \in Nat
  BY ShapeFacts
<1>2. Shape(AddBlocks(s, 1), m + 1, c, (O \ {l}) \cup ((m + 1)..(m + 1)), t)
  BY AddBlocksShape
<1>3. (O \ {l}) \cup ((m + 1)..(m + 1)) = (O \ {l}) \cup {m + 1}
  BY <1>1
<1>4. Shape(AddBlocks(s, 1), m + 1, c, (O \ {l}) \cup {m + 1}, t)
  BY <1>2, <1>3, Zenon
<1>5. PICK k \in Nat : k = m + 1
  BY <1>1
<1>6. Shape(AddBlocks(s, 1), k, c, (O \ {l}) \cup {k}, t)
  BY <1>4, <1>5
<1>7. Shape(At(AddBlocks(s, 1), k), k, k, (O \ {l}) \cup {k}, t)
  BY <1>6, ContextShape
<1>8. n <= k /\ n < k
  BY <1>1, <1>5
<1>9. Reached(At(AddBlocks(s, 1), k), n, l, O, t, k, k)
  BY <1>7, <1>8 DEF Reached
<1> QED BY <1>5, <1>9

LEMMA UpdateCompiled ==
    ASSUME NEW C, NEW e \in Expression, e.op = "update",
           \A i \in 1..Len(e.parts) : Compiles(C, e.parts[i]),
           \A i \in 1..Len(e.parts) : Placed(e.parts[i], FALSE),
           NEW b, NEW n, NEW l, NEW O, NEW t, Shape(b, n, l, O, t), l \in O
    PROVE  CompiledOK(CompileUpdate(e, b, C), n, l, O, t)
<1>1. /\ Compiles(C, e.parts[1]) /\ Placed(e.parts[1], FALSE)
      /\ Compiles(C, e.parts[2]) /\ Placed(e.parts[2], FALSE)
  BY HowManyParts
<1>2. n \in Nat /\ O \subseteq 1..n
  BY ShapeFacts
<1>3. PICK r : r = CompileRead(b)
  OBVIOUS
<1>4. r.v \in Operand /\ Shape(r.b, n, l, O, t)
  BY <1>3, ReadCompiled
<1>5. PICK value : value = C[e.parts[2]][r.b]
  OBVIOUS
<1>6. value.v \in Operand /\ \E m \in Nat, c \in Nat : Reached(value.b, n, l, O, t, m, c)
  BY <1>1, <1>4, <1>5, CompilesPart DEF Targets
<1>7. PICK m \in Nat, c \in Nat : Reached(value.b, n, l, O, t, m, c)
  BY <1>6
<1>8. PICK P : P = (O \ {l}) \cup {c}
  OBVIOUS
<1>9. Shape(value.b, m, c, P, t) /\ c \in P
  BY <1>2, <1>7, <1>8, ReachedFacts
<1>10. PICK index : index = C[e.parts[1]][value.b]
  OBVIOUS
<1>11. CompiledOK(index, m, c, P, t)
  BY <1>1, <1>9, <1>10, CompilesPart DEF Targets
<1>12. CompiledOK(index, n, l, O, t)
  BY <1>2, <1>7, <1>8, <1>11, CompiledThen
<1>13. PICK m2 \in Nat, c2 \in Nat : index.v \in Operand /\ Reached(index.b, n, l, O, t, m2, c2)
  BY <1>12 DEF CompiledOK
<1>14. PICK i : i = Ins("update", <<r.v, value.v, index.v>>, <<>>)
  OBVIOUS
<1>15. InstrOK(i, m2) /\ i.op \notin Terminator
  <2>1. PICK op \in StraightOp : op = "update"
    BY DEF StraightOp
  <2>2. <<r.v, value.v, index.v>> \in Seq(Operand)
    BY <1>4, <1>6, <1>13
  <2> QED BY <1>14, <2>1, <2>2, StraightOK
<1>16. Reached(Emit(index.b, i), n, l, O, t, m2, c2)
  BY <1>2, <1>13, <1>15, ThenEmit
<1>17. PICK d : d = Compiled(Emit(index.b, i), value.v)
  OBVIOUS
<1>18. d.b = Emit(index.b, i) /\ d.v = value.v
  BY <1>17 DEF Compiled
<1>19. CompiledOK(d, n, l, O, t)
  BY <1>6, <1>16, <1>18 DEF CompiledOK
<1>20. CompiledOK(Compiled(Visible(d.b, FALSE), d.v), n, l, O, t)
  BY <1>19, ThenVisible
<1> QED BY <1>3, <1>5, <1>10, <1>14, <1>18, <1>20 DEF CompileUpdate

LEMMA ReturnCompiled ==
    ASSUME NEW C, NEW e \in Expression, \A i \in 1..Len(e.parts) : Compiles(C, e.parts[i]),
           \A i \in 1..Len(e.parts) : Placed(e.parts[i], FALSE),
           NEW b, NEW n, NEW l, NEW O, NEW t, Shape(b, n, l, O, t), l \in O
    PROVE  CompiledOK(CompileReturn(e, b, C), n, l, O, t)
<1>1. n \in Nat /\ O \subseteq 1..n
  BY ShapeFacts
<1>2. PICK r : r = IF e.parts = <<>> THEN Compiled(b, Const(Nil)) ELSE C[e.parts[1]][b]
  OBVIOUS
<1>3. CompiledOK(r, n, l, O, t)
  <2>1. CASE e.parts = <<>>
    BY <1>2, <2>1, CompiledStays, OperandsAreOperands DEF Nil
  <2>2. CASE e.parts # <<>>
    <3>1. 1 \in 1..Len(e.parts)
      BY <2>2, PartsAreExpressions
    <3>2. Compiles(C, e.parts[1]) /\ Placed(e.parts[1], FALSE)
      BY <3>1
    <3> QED BY <1>2, <2>2, <3>2, CompilesPart DEF Targets
  <2> QED BY <2>1, <2>2
<1>4. PICK m \in Nat, c \in Nat : r.v \in Operand /\ Reached(r.b, n, l, O, t, m, c)
  BY <1>3 DEF CompiledOK
<1>5. PICK P : P = (O \ {l}) \cup {c}
  OBVIOUS
<1>6. /\ Shape(r.b, m, c, P, t) /\ c \in P /\ P \ {c} = O \ {l} /\ n <= m
      /\ Len(r.b.code) = m
  <2>1. Shape(r.b, m, c, P, t) /\ c \in P /\ P \ {c} = O \ {l}
    BY <1>1, <1>4, <1>5, ReachedFacts
  <2> QED BY <2>1, <1>4, ReachedLength
<1>7. Shape(EmitReturn(r.b, r.v), m, c, P \ {c}, t)
  BY <1>4, <1>6, EmitReturnShape
<1>8. Shape(EmitReturn(r.b, r.v), m, c, O \ {l}, t)
  BY <1>6, <1>7, Zenon
<1>9. PICK s : s = At(AddBlocks(EmitReturn(r.b, r.v), 1), m + 1)
  OBVIOUS
<1>10. PICK k \in Nat : k = m + 1
  OBVIOUS
<1>11. Reached(s, n, l, O, t, k, k)
  BY <1>1, <1>6, <1>8, <1>9, <1>10, ThenNewBlock
<1>12. PICK Q : Q = (O \ {l}) \cup {k}
  OBVIOUS
<1>13. Shape(s, k, k, Q, t) /\ k \in Q
  BY <1>1, <1>11, <1>12, ReachedFacts
<1>14. CompiledOK(CompileCall(e, s, C), k, k, Q, t)
  BY <1>13, CallCompiled
<1>15. CompiledOK(CompileCall(e, s, C), n, l, O, t)
  BY <1>1, <1>11, <1>12, <1>14, CompiledThen
<1> QED BY <1>2, <1>6, <1>9, <1>15 DEF CompileReturn

LEMMA TestOK ==
    ASSUME NEW n \in Nat, NEW op \in {"test", "less"}, NEW vs \in Seq(Operand), NEW to1 \in 1..n, NEW to2 \in 1..n
    PROVE  InstrOK(Ins(op, vs, <<to1, to2>>), n) /\ Ins(op, vs, <<to1, to2>>).op \in Terminator
<1>1. op \in SimpleOp /\ op \in Terminator
  BY DEF SimpleOp, Terminator
<1>2. <<to1, to2>> \in Seq(Nat) /\ TargetsOK(op, <<to1, to2>>, n)
  BY DEF TargetsOK
<1> QED BY <1>1, <1>2, InsOK

LEMMA IfCompiled ==
    ASSUME NEW C, NEW e \in Expression, e.op = "if",
           \A i \in 1..Len(e.parts) : Compiles(C, e.parts[i]),
           NEW ok \in BOOLEAN, \A i \in 1..Len(e.parts) : Placed(e.parts[i], ok),
           NEW b, NEW n, NEW l, NEW O, NEW t, Shape(b, n, l, O, t), l \in O, Targets(ok, n, t)
    PROVE  CompiledOK(CompileIf(e, b, C), n, l, O, t)
<1> DEFINE c == C[e.parts[1]][b]
           true == Len(c.b.code) + 1
           false == true + 1
           next == true + 2
           test == Emit(AddBlocks(c.b, 3), Ins("test", <<c.v>>, <<true, false>>))
           y == C[e.parts[2]][At(test, true)]
           rest == At(Emit(y.b, Br(next)), false)
           f == IF Len(e.parts) = 2 THEN Compiled(Visible(rest, FALSE), Const(Nil))
                ELSE C[e.parts[3]][rest]
           s == At(Emit(f.b, Br(next)), next)
           from == {<<y.b.cur, y.v>>, <<f.b.cur, f.v>>}
<1> HIDE DEF c, true, false, next, test, y, rest, f, s, from
<1>1. /\ Compiles(C, e.parts[1]) /\ Placed(e.parts[1], ok)
      /\ Compiles(C, e.parts[2]) /\ Placed(e.parts[2], ok)
      /\ Len(e.parts) # 2 => Compiles(C, e.parts[3]) /\ Placed(e.parts[3], ok)
  BY HowManyParts
<1>2. n \in Nat /\ O \subseteq 1..n
  BY ShapeFacts
<1>3. PICK R : R = O \ {l}
  OBVIOUS
\* The condition.
<1>5. c.v \in Operand /\ \E m \in Nat, k \in Nat : Reached(c.b, n, l, O, t, m, k)
  BY <1>1, CompilesPart DEF c
<1>6. PICK m \in Nat, k \in Nat : Reached(c.b, n, l, O, t, m, k)
  BY <1>5
<1>7. Shape(c.b, m, k, R \cup {k}, t) /\ n <= m /\ k \in 1..m /\ Len(c.b.code) = m
  <2>1. Shape(c.b, m, k, R \cup {k}, t) /\ k \in 1..m
    <3>1. Shape(c.b, m, k, (O \ {l}) \cup {k}, t)
      BY <1>6 DEF Reached
    <3>2. Shape(c.b, m, k, R \cup {k}, t)
      BY <3>1, <1>3, Zenon
    <3>3. R \cup {k} \subseteq 1..m
      BY <3>2, ShapeFacts
    <3> QED BY <3>2, <3>3
  <2> QED BY <2>1, <1>6, ReachedLength
<1>8. PICK n1 \in Nat : /\ n1 = m + 3
                        /\ true \in Nat /\ true = m + 1
                        /\ false \in Nat /\ false = m + 2
                        /\ next \in Nat /\ next = m + 3
  BY <1>7 DEF true, false, next
<1>9. PICK O1 : O1 = R \cup {true, false, next}
  OBVIOUS
<1>11. Shape(test, n1, k, O1, t)
  <2>1. Shape(AddBlocks(c.b, 3), m + 3, k, (R \cup {k}) \cup ((m + 1)..(m + 3)), t)
    BY <1>7, AddBlocksShape
  <2>2. (R \cup {k}) \cup ((m + 1)..(m + 3)) = O1 \cup {k} /\ m + 3 = n1
    BY <1>8, <1>9
  <2>3. Shape(AddBlocks(c.b, 3), n1, k, O1 \cup {k}, t)
    BY <2>1, <2>2, Zenon
  <2>4. true \in 1..n1 /\ false \in 1..n1 /\ <<c.v>> \in Seq(Operand)
    BY <1>5, <1>8
  <2>5. PICK i : i = Ins("test", <<c.v>>, <<true, false>>)
    OBVIOUS
  <2>6. InstrOK(i, n1) /\ i.op \in Terminator
    BY <2>4, <2>5, TestOK
  <2>7. k \in O1 \cup {k}
    OBVIOUS
  <2>8. Shape(Emit(AddBlocks(c.b, 3), i), n1, k, (O1 \cup {k}) \ {k}, t)
    BY <2>3, <2>6, <2>7, EmitShape
  <2>9. k \notin O1
    <3>1. Reached(c.b, n, l, O, t, m, k)
      BY <1>6
    <3>2. k = l \/ n < k
      BY <3>1 DEF Reached
    <3> QED BY <1>2, <1>3, <1>7, <1>8, <1>9, <3>2
  <2>10. (O1 \cup {k}) \ {k} = O1
    BY <2>9
  <2> QED BY <2>5, <2>8, <2>10, Zenon DEF test
\* The branch that is taken if it holds.
<1>13. Targets(ok, n1, t)
  BY <1>2, <1>7, <1>8 DEF Targets
<1>14. O1 \subseteq 1..n1 /\ true \in O1 /\ false \in O1 /\ next \in O1
  BY <1>9, <1>11, ShapeFacts
<1>15. Shape(At(test, true), n1, true, O1, t)
  BY <1>8, <1>11, ContextShape
<1>16. y.v \in Operand /\ \E m1 \in Nat, k1 \in Nat : Reached(y.b, n1, true, O1, t, m1, k1)
  BY <1>1, <1>13, <1>14, <1>15, CompilesPart DEF y
<1>17. PICK m1 \in Nat, k1 \in Nat : Reached(y.b, n1, true, O1, t, m1, k1)
  BY <1>16
<1>18. n1 <= m1 /\ y.b.cur = k1
  BY <1>17, ReachedLength
<1>19. InstrOK(Br(next), m1) /\ Br(next).op \in Terminator
  <2>1. next \in 1..m1
    BY <1>8, <1>18
  <2> QED BY <2>1, BrOK
<1>20. Shape(Emit(y.b, Br(next)), m1, k1, O1 \ {true}, t)
  BY <1>14, <1>17, <1>19, ThenEmit
<1>22. PICK O2 : O2 = O1 \ {true}
  OBVIOUS
<1>23. Shape(rest, m1, false, O2, t) /\ O2 \subseteq 1..m1 /\ false \in O2
  <2>1. Shape(rest, m1, false, O2, t)
    BY <1>8, <1>20, <1>22, ContextShape DEF rest
  <2>2. O2 \subseteq 1..m1
    BY <2>1, ShapeFacts
  <2>3. false # true
    BY <1>8
  <2> QED BY <2>1, <2>2, <2>3, <1>14, <1>22
\* The other branch.
<1>25. CompiledOK(f, m1, false, O2, t)
  <2>1. CASE Len(e.parts) = 2
    <3>1. Shape(Visible(rest, FALSE), m1, false, O2, t)
      BY <1>23, ContextShape
    <3>2. f = Compiled(Visible(rest, FALSE), Const(Nil))
      BY <2>1 DEF f
    <3> QED BY <1>23, <3>1, <3>2, CompiledStays, OperandsAreOperands DEF Nil
  <2>2. CASE Len(e.parts) # 2
    <3>1. Targets(ok, m1, t)
      BY <1>13, <1>18 DEF Targets
    <3>2. f = C[e.parts[3]][rest]
      BY <2>2 DEF f
    <3> QED BY <1>1, <1>23, <2>2, <3>1, <3>2, CompilesPart
  <2> QED BY <2>1, <2>2
<1>26. PICK m2 \in Nat, k2 \in Nat : f.v \in Operand /\ Reached(f.b, m1, false, O2, t, m2, k2)
  BY <1>25 DEF CompiledOK
<1>27. m1 <= m2 /\ f.b.cur = k2
  BY <1>26, ReachedLength
<1>28. InstrOK(Br(next), m2) /\ Br(next).op \in Terminator
  <2>1. next \in 1..m2
    BY <1>8, <1>18, <1>27
  <2> QED BY <2>1, BrOK
<1>29. Shape(Emit(f.b, Br(next)), m2, k2, O2 \ {false}, t)
  BY <1>23, <1>26, <1>28, ThenEmit
\* Both go on behind the condition.
<1>31. Shape(s, m2, next, O2 \ {false}, t)
  BY <1>8, <1>29, ContextShape DEF s
<1>32. O2 \ {false} = (O \ {l}) \cup {next}
  <2>1. true \notin R /\ false \notin R
    BY <1>2, <1>3, <1>7, <1>8
  <2> QED BY <2>1, <1>3, <1>8, <1>9, <1>22
<1>33. Shape(s, m2, next, (O \ {l}) \cup {next}, t)
  BY <1>31, <1>32, Zenon
<1>34. n <= m2 /\ n < next
  BY <1>2, <1>7, <1>8, <1>18, <1>27
<1>35. Reached(s, n, l, O, t, m2, next)
  BY <1>33, <1>34 DEF Reached
<1>37. from \in SUBSET (Nat \X Operand)
  BY <1>16, <1>17, <1>18, <1>26, <1>27 DEF from
<1>38. InstrOK(PhiOf(from), m2) /\ PhiOf(from).op \notin Terminator
  BY <1>37, PhiOK DEF Terminator
<1>39. CompiledOK(EmitValue(s, PhiOf(from)), n, l, O, t)
  BY <1>2, <1>35, <1>38, ThenEmitValue
<1>40. CompileIf(e, b, C) = EmitValue(s, PhiOf(from))
  BY DEF CompileIf, c, true, false, next, test, y, rest, f, s, from
<1> QED BY <1>39, <1>40
LEMMA LoopEntered ==
    ASSUME NEW b, NEW n, NEW l, NEW O, NEW t, Shape(b, n, l, O, t), l \in O
    PROVE  LET o == OpenLoop(b)
           IN  /\ o.brk = n + 1 /\ o.nxt = n + 2
               /\ Shape(At(Emit(o, Br(o.nxt)), o.nxt), n + 2, n + 2, (O \ {l}) \cup {n + 1, n + 2},
                        <<n + 1, n + 2>>)
<1> DEFINE o == OpenLoop(b)
           O1 == O \cup {n + 1, n + 2}
           u == <<n + 1, n + 2>>
<1>1. n \in Nat /\ O \subseteq 1..n
  BY ShapeFacts
<1>2. Shape(o, n + 2, l, O1, u) /\ o.brk = n + 1 /\ o.nxt = n + 2
  BY OpenLoopShape
<1>3. l \in O1 /\ n + 2 \in 1..(n + 2) /\ n + 2 \in Nat /\ O1 \ {l} = (O \ {l}) \cup {n + 1, n + 2}
  BY <1>1
<1> HIDE DEF o, O1, u
<1>4. PICK k \in Nat : k = n + 2
  BY <1>3
<1>5. InstrOK(Br(k), k) /\ Br(k).op \in Terminator
  BY <1>3, <1>4, BrOK
<1>6. Shape(Emit(o, Br(k)), k, l, O1 \ {l}, u)
  <2>1. Shape(o, k, l, O1, u)
    BY <1>2, <1>4
  <2> QED BY <2>1, <1>3, <1>5, EmitShape
<1>7. Shape(At(Emit(o, Br(k)), k), k, k, O1 \ {l}, u)
  BY <1>6, ContextShape
<1>8. Shape(At(Emit(o, Br(k)), k), k, k, (O \ {l}) \cup {n + 1, n + 2}, u)
  BY <1>3, <1>7, Zenon
<1> QED BY <1>2, <1>4, <1>8 DEF o, u

\* The end of a loop's body leads back, and the code behind the loop goes on.
LEMMA LoopLeft ==
    ASSUME NEW b, NEW n, NEW l, NEW O, NEW t, Shape(b, n, l, O, t),
           NEW s, NEW m, NEW c, NEW R, NEW u, Inside(s, m, c, R, u),
           NEW back \in 1..m, NEW brk \in Nat
    PROVE  Shape(CloseLoop(At(Emit(s, Br(back)), brk), b), m, brk, R, t)
<1>1. m \in Nat
  BY InsideShape
<1>2. InstrOK(Br(back), m) /\ Br(back).op \in Terminator
  BY <1>1, BrOK
<1>3. Shape(Emit(s, Br(back)), m, c, R, u)
  BY <1>2, InsideEmit
<1>4. Shape(At(Emit(s, Br(back)), brk), m, brk, R, u)
  BY <1>3, ContextShape
<1> QED BY <1>4, ClosedShape

LoopCompiledAs(s, n, l, O, t) == \E m \in Nat : n + 1 <= m /\ Shape(s, m, n + 1, (O \ {l}) \cup {n + 1}, t)

LEMMA RepeatCompiled ==
    ASSUME NEW C, NEW e \in Expression, Compiles(C, e.parts[1]), Placed(e.parts[1], TRUE),
           NEW b, NEW n, NEW l, NEW O, NEW t, Shape(b, n, l, O, t), l \in O
    PROVE  LoopCompiledAs(CompileRepeat(e, b, C), n, l, O, t)
<1> DEFINE o == OpenLoop(b)
           entered == At(Emit(o, Br(o.nxt)), o.nxt)
           body == C[e.parts[1]][entered].b
           u == <<n + 1, n + 2>>
<1> HIDE DEF o, entered, body, u
<1>1. n \in Nat /\ O \subseteq 1..n
  BY ShapeFacts
<1>2. PICK brk \in Nat, nxt \in Nat : brk = n + 1 /\ nxt = n + 2
  BY <1>1
<1>3. PICK O1, R : O1 = (O \ {l}) \cup {brk, nxt} /\ R = (O \ {l}) \cup {brk}
  OBVIOUS
<1>4. o.brk = brk /\ o.nxt = nxt /\ Shape(entered, nxt, nxt, O1, u)
  <2>1. /\ o.brk = n + 1 /\ o.nxt = n + 2
        /\ Shape(entered, n + 2, n + 2, (O \ {l}) \cup {n + 1, n + 2}, u)
    BY LoopEntered DEF o, entered, u
  <2> QED BY <1>2, <1>3, <2>1
<1>5. Targets(TRUE, nxt, u)
  BY <1>1, <1>2 DEF Targets, u
<1>6. nxt \in O1 /\ O1 \ {nxt} = R
  BY <1>1, <1>2, <1>3
<1>7. \E m \in Nat, c \in Nat : Reached(body, nxt, nxt, O1, u, m, c)
  BY <1>4, <1>5, <1>6, CompilesPart DEF body
<1>8. PICK m \in Nat, c \in Nat : Reached(body, nxt, nxt, O1, u, m, c)
  BY <1>7
<1>9. Inside(body, m, c, R, u)
  <2>1. nxt \in O1 /\ Shape(entered, nxt, nxt, O1, u)
    BY <1>4, <1>6
  <2>2. Inside(body, m, c, O1 \ {nxt}, u)
    BY <2>1, <1>8, ReachedFrom
  <2> QED BY <2>2, <1>6, Zenon
<1>10. nxt \in 1..m /\ n + 1 <= m
  <2>1. nxt <= m
    BY <1>8, ReachedLength
  <2> QED BY <2>1, <1>1, <1>2
<1>11. Shape(CloseLoop(At(Emit(body, Br(nxt)), brk), b), m, brk, R, t)
  BY <1>2, <1>9, <1>10, LoopLeft
<1>12. Shape(CloseLoop(At(Emit(body, Br(nxt)), brk), b), m, n + 1, (O \ {l}) \cup {n + 1}, t)
  BY <1>2, <1>3, <1>11, Zenon
<1>13. CompileRepeat(e, b, C) = CloseLoop(At(Emit(body, Br(o.nxt)), o.brk), b)
  BY DEF CompileRepeat, o, entered, body
<1> QED BY <1>4, <1>8, <1>10, <1>12, <1>13 DEF LoopCompiledAs

LEMMA WhileCompiled ==
    ASSUME NEW C, NEW e \in Expression, Compiles(C, e.parts[1]), Placed(e.parts[1], FALSE),
           Compiles(C, e.parts[2]), Placed(e.parts[2], TRUE),
           NEW b, NEW n, NEW l, NEW O, NEW t, Shape(b, n, l, O, t), l \in O
    PROVE  LoopCompiledAs(CompileWhile(e, b, C), n, l, O, t)
<1> DEFINE o == OpenLoop(b)
           entered == At(Emit(o, Br(o.nxt)), o.nxt)
           c == C[e.parts[1]][entered]
           start == Len(c.b.code) + 1
           test == Emit(AddBlocks(c.b, 1), Ins("test", <<c.v>>, <<start, o.brk>>))
           body == C[e.parts[2]][At(test, start)].b
           u == <<n + 1, n + 2>>
<1> HIDE DEF o, entered, c, start, test, body, u
<1>1. n \in Nat /\ O \subseteq 1..n
  BY ShapeFacts
<1>2. PICK brk \in Nat, nxt \in Nat : brk = n + 1 /\ nxt = n + 2
  BY <1>1
<1>3. PICK O1, R : O1 = (O \ {l}) \cup {brk, nxt} /\ R = (O \ {l}) \cup {brk}
  OBVIOUS
<1>4. o.brk = brk /\ o.nxt = nxt /\ Shape(entered, nxt, nxt, O1, u)
  <2>1. /\ o.brk = n + 1 /\ o.nxt = n + 2
        /\ Shape(entered, n + 2, n + 2, (O \ {l}) \cup {n + 1, n + 2}, u)
    BY LoopEntered DEF o, entered, u
  <2> QED BY <1>2, <1>3, <2>1
<1>5. nxt \in O1 /\ O1 \ {nxt} = R /\ R \subseteq 1..brk
  BY <1>1, <1>2, <1>3
\* The condition, whose value is tested at the end of its last block.
<1>6. c.v \in Operand /\ \E m \in Nat, k \in Nat : Reached(c.b, nxt, nxt, O1, u, m, k)
  BY <1>4, <1>5, CompilesPart DEF c, Targets
<1>7. PICK m \in Nat, k \in Nat : Reached(c.b, nxt, nxt, O1, u, m, k)
  BY <1>6
<1>8. Inside(c.b, m, k, R, u)
  <2>1. nxt \in O1 /\ Shape(entered, nxt, nxt, O1, u)
    BY <1>4, <1>5
  <2>2. Inside(c.b, m, k, O1 \ {nxt}, u)
    BY <2>1, <1>7, ReachedFrom
  <2> QED BY <2>2, <1>5, Zenon
<1>9. nxt <= m /\ Len(c.b.code) = m
  BY <1>7, ReachedLength
<1>10. PICK n1 \in Nat : n1 = m + 1 /\ start = n1
  BY <1>9 DEF start
<1>11. PICK O2 : O2 = R \cup {n1}
  OBVIOUS
<1>12. n1 \in O2 /\ O2 \ {n1} = R
  <2>1. n1 \notin 1..brk
    BY <1>1, <1>2, <1>9, <1>10
  <2> QED BY <2>1, <1>5, <1>11
<1>13. Shape(test, n1, k, O2, u)
  <2>1. Shape(c.b, m, k, R \cup {k}, u) /\ k \in 1..m /\ k \notin R
    BY <1>8, InsideShape
  <2>2. Shape(AddBlocks(c.b, 1), m + 1, k, (R \cup {k}) \cup ((m + 1)..(m + 1)), u)
    BY <2>1, AddBlocksShape
  <2>3. (R \cup {k}) \cup ((m + 1)..(m + 1)) = O2 \cup {k} /\ m + 1 = n1
    BY <1>10, <1>11
  <2>4. Shape(AddBlocks(c.b, 1), n1, k, O2 \cup {k}, u)
    BY <2>2, <2>3, Zenon
  <2>5. k \in 1..n1 /\ k \notin O2 /\ O2 \subseteq 1..n1
    BY <1>1, <1>2, <1>5, <1>9, <1>10, <1>11, <2>1
  <2>6. Inside(AddBlocks(c.b, 1), n1, k, O2, u)
    BY <1>10, <2>4, <2>5 DEF Inside
  <2>7. n1 \in 1..n1 /\ brk \in 1..n1 /\ <<c.v>> \in Seq(Operand)
    BY <1>1, <1>2, <1>6, <1>9, <1>10
  <2>8. PICK i : i = Ins("test", <<c.v>>, <<n1, brk>>)
    OBVIOUS
  <2>9. InstrOK(i, n1) /\ i.op \in Terminator
    BY <1>10, <2>7, <2>8, TestOK
  <2>10. Shape(Emit(AddBlocks(c.b, 1), i), n1, k, O2, u)
    BY <2>6, <2>9, InsideEmit
  <2>11. test = Emit(AddBlocks(c.b, 1), i)
    BY <2>8, <1>4, <1>10 DEF test
  <2> QED BY <2>10, <2>11
<1>14. Shape(At(test, start), n1, n1, O2, u)
  BY <1>10, <1>13, ContextShape
<1>15. Targets(TRUE, n1, u)
  BY <1>1, <1>2, <1>9, <1>10 DEF Targets, u
<1>16. \E m2 \in Nat, k2 \in Nat : Reached(body, n1, n1, O2, u, m2, k2)
  BY <1>12, <1>14, <1>15, CompilesPart DEF body
<1>17. PICK m2 \in Nat, k2 \in Nat : Reached(body, n1, n1, O2, u, m2, k2)
  BY <1>16
<1>18. Inside(body, m2, k2, R, u)
  <2>1. n1 \in O2
    BY <1>12
  <2>2. Inside(body, m2, k2, O2 \ {n1}, u)
    BY <2>1, <1>14, <1>17, ReachedFrom
  <2> QED BY <2>2, <1>12, Zenon
<1>19. nxt \in 1..m2 /\ n + 1 <= m2
  <2>1. n1 <= m2
    BY <1>17, ReachedLength
  <2> QED BY <2>1, <1>1, <1>2, <1>9, <1>10
<1>20. Shape(CloseLoop(At(Emit(body, Br(nxt)), brk), b), m2, brk, R, t)
  BY <1>2, <1>18, <1>19, LoopLeft
<1>21. Shape(CloseLoop(At(Emit(body, Br(nxt)), brk), b), m2, n + 1, (O \ {l}) \cup {n + 1}, t)
  BY <1>2, <1>3, <1>20, Zenon
<1>22. CompileWhile(e, b, C) = CloseLoop(At(Emit(body, Br(o.nxt)), o.brk), b)
  BY DEF CompileWhile, o, entered, c, start, test, body
<1> QED BY <1>4, <1>17, <1>19, <1>21, <1>22 DEF LoopCompiledAs
LEMMA ForCompiled ==
    ASSUME NEW C, NEW e \in Expression, Compiles(C, e.parts[1]), Placed(e.parts[1], FALSE),
           Compiles(C, e.parts[2]), Placed(e.parts[2], TRUE),
           NEW b, NEW n, NEW l, NEW O, NEW t, Shape(b, n, l, O, t), l \in O
    PROVE  LoopCompiledAs(CompileFor(e, b, C), n, l, O, t)
<1> DEFINE o == AddBlocks(OpenLoop(b), 2)
           cond == Len(o.code) - 1
           start == Len(o.code)
           s == C[e.parts[1]][o]
           length == s.b.regs + 1
           counter == length + 1
           incremented == length + 2
           startFor == [Ins("startFor", <<s.v>>, <<>>) EXCEPT !.dst = length]
           phiOf == PhiOf({<<s.b.cur, Const(0)>>, <<o.nxt, Reg(incremented)>>})
           counts == [phiOf EXCEPT !.dst = counter]
           compares == Ins("less", <<Reg(counter), Reg(length)>>, <<start, o.brk>>)
           takes == Ins("element", <<Reg(counter)>>, <<>>)
           increments == [Ins("increment", <<Reg(counter)>>, <<>>) EXCEPT !.dst = incremented]
           init == Emit(AddRegs(s.b, 3), startFor)
           phi == Emit(At(Emit(init, Br(cond)), cond), counts)
           less == Emit(phi, compares)
           element == Emit(At(less, start), takes)
           body == C[e.parts[2]][element].b
           step == Emit(At(Emit(body, Br(o.nxt)), o.nxt), increments)
           u == <<n + 1, n + 2>>
<1> HIDE DEF o, cond, start, s, length, counter, incremented, startFor, phiOf, counts, compares, takes,
             increments, init, phi, less, element, body, step, u
<1>1. n \in Nat /\ O \subseteq 1..n
  BY ShapeFacts
<1>2. PICK brk \in Nat, nxt \in Nat, k3 \in Nat, k4 \in Nat :
         brk = n + 1 /\ nxt = n + 2 /\ k3 = n + 3 /\ k4 = n + 4
  BY <1>1
<1>3. PICK R, O4 : R = (O \ {l}) \cup {brk} /\ O4 = O \cup {brk, nxt, k3, k4}
  OBVIOUS
<1>4. Shape(o, k4, l, O4, u) /\ o.brk = brk /\ o.nxt = nxt /\ cond = k3 /\ start = k4
  <2>1. /\ Shape(OpenLoop(b), n + 2, l, O \cup {n + 1, n + 2}, u)
        /\ OpenLoop(b).brk = n + 1 /\ OpenLoop(b).nxt = n + 2
    BY OpenLoopShape DEF u
  <2>2. Shape(o, (n + 2) + 2, l, (O \cup {n + 1, n + 2}) \cup ((n + 2 + 1)..(n + 2 + 2)), u)
    BY <2>1, AddBlocksShape DEF o
  <2>3. (O \cup {n + 1, n + 2}) \cup ((n + 2 + 1)..(n + 2 + 2)) = O4 /\ (n + 2) + 2 = k4
    BY <1>1, <1>2, <1>3
  <2>4. Shape(o, k4, l, O4, u)
    BY <2>2, <2>3, Zenon
  <2>5. Len(o.code) = k4 /\ o.brk = u[1] /\ o.nxt = u[2]
    BY <2>4, ShapeFacts
  <2>6. start = k4
    BY <2>5 DEF start
  <2>7. cond = k3
    <3>1. cond = k4 - 1
      BY <2>5 DEF cond
    <3> QED BY <3>1, <1>1, <1>2
  <2>8. u[1] = brk /\ u[2] = nxt
    BY <1>2 DEF u
  <2> QED BY <2>4, <2>5, <2>6, <2>7, <2>8
<1>5. /\ brk \in 1..k4 /\ nxt \in 1..k4 /\ k3 \in 1..k4 /\ k4 \in 1..k4 /\ n + 1 <= k4
      /\ k3 # k4 /\ nxt # k3 /\ nxt # k4
      /\ nxt \notin R /\ k3 \notin R /\ k4 \notin R /\ R \subseteq 1..k4
  BY <1>1, <1>2, <1>3
<1>6. l \in O4 /\ O4 \ {l} = R \cup {nxt, k3, k4}
  BY <1>1, <1>2, <1>3
\* The sequence.
<1>7. s.v \in Operand /\ \E m \in Nat, k \in Nat : Reached(s.b, k4, l, O4, u, m, k)
  BY <1>4, <1>6, CompilesPart DEF s, Targets
<1>8. PICK m \in Nat, k \in Nat : Reached(s.b, k4, l, O4, u, m, k)
  BY <1>7
<1>9. Inside(s.b, m, k, R \cup {nxt, k3, k4}, u)
  <2>1. Inside(s.b, m, k, O4 \ {l}, u)
    BY <1>4, <1>6, <1>8, ReachedFrom
  <2> QED BY <2>1, <1>6, Zenon
<1>10. k4 <= m
  BY <1>8, ReachedLength
<1>11. brk \in 1..m /\ nxt \in 1..m /\ k3 \in 1..m /\ k4 \in 1..m
  BY <1>2, <1>5, <1>8, <1>10
<1>12. length \in Nat /\ counter \in Nat /\ incremented \in Nat /\ s.b.cur = k
  <2>1. s.b.regs \in Nat /\ s.b.cur = k
    BY <1>9, InsideShape
  <2>2. length \in Nat
    BY <2>1 DEF length
  <2> QED BY <2>1, <2>2 DEF counter, incremented
\* The instructions.
<1>13. <<s.v>> \in Seq(Operand) /\ <<Reg(counter)>> \in Seq(Operand) /\ <<Reg(counter), Reg(length)>> \in Seq(Operand)
  BY <1>7, <1>12, OperandsAreOperands
<1>14. InstrOK(startFor, m) /\ startFor.op \notin Terminator
  <2>1. PICK op \in StraightOp : op = "startFor"
    BY DEF StraightOp
  <2>2. InstrOK(Ins(op, <<s.v>>, <<>>), m) /\ Ins(op, <<s.v>>, <<>>).op \notin Terminator
    BY <1>8, <1>13, StraightOK
  <2> QED BY <1>8, <1>12, <2>1, <2>2, DestinationOK DEF startFor
<1>15. InstrOK(counts, m) /\ counts.op \notin Terminator
  <2>1. PICK from : from = {<<s.b.cur, Const(0)>>, <<o.nxt, Reg(incremented)>>}
    OBVIOUS
  <2>2. from \in SUBSET (Nat \X Operand)
    BY <1>2, <1>4, <1>8, <1>12, <2>1, OperandsAreOperands
  <2>3. InstrOK(phiOf, m) /\ phiOf.op = "phi"
    BY <1>8, <2>1, <2>2, PhiOK DEF phiOf
  <2> QED BY <1>8, <1>12, <2>3, DestinationOK DEF counts, Terminator
<1>16. InstrOK(compares, m) /\ compares.op \in Terminator
  <2>1. PICK op \in {"test", "less"} : op = "less"
    OBVIOUS
  <2>2. InstrOK(Ins(op, <<Reg(counter), Reg(length)>>, <<k4, brk>>), m)
        /\ Ins(op, <<Reg(counter), Reg(length)>>, <<k4, brk>>).op \in Terminator
    BY <1>8, <1>11, <1>13, TestOK
  <2> QED BY <2>1, <2>2, <1>4 DEF compares
<1>17. InstrOK(takes, m) /\ takes.op \notin Terminator
  <2>1. PICK op \in StraightOp : op = "element"
    BY DEF StraightOp
  <2>2. InstrOK(Ins(op, <<Reg(counter)>>, <<>>), m) /\ Ins(op, <<Reg(counter)>>, <<>>).op \notin Terminator
    BY <1>8, <1>13, StraightOK
  <2> QED BY <2>1, <2>2 DEF takes
<1>18. \A j \in Nat : InstrOK(increments, j) /\ increments.op \notin Terminator
  <2>1. PICK op \in StraightOp : op = "increment"
    BY DEF StraightOp
  <2>2. ASSUME NEW j \in Nat PROVE InstrOK(increments, j) /\ increments.op \notin Terminator
    <3>1. InstrOK(Ins(op, <<Reg(counter)>>, <<>>), j)
          /\ Ins(op, <<Reg(counter)>>, <<>>).op \notin Terminator
      BY <1>13, StraightOK
    <3> QED BY <1>12, <2>1, <3>1, DestinationOK DEF increments
  <2> QED BY <2>2
\* Before the loop, and its condition.
<1>19. Inside(init, m, k, R \cup {nxt, k3, k4}, u)
  <2>1. Shape(s.b, m, k, (R \cup {nxt, k3, k4}) \cup {k}, u)
    BY <1>9, InsideShape
  <2>2. Shape(AddRegs(s.b, 3), m, k, (R \cup {nxt, k3, k4}) \cup {k}, u)
    BY <2>1, ContextShape
  <2>3. Inside(AddRegs(s.b, 3), m, k, R \cup {nxt, k3, k4}, u)
    BY <1>9, <2>2 DEF Inside
  <2> QED BY <1>14, <2>3, InsideEmit DEF init
<1>20. Shape(Emit(init, Br(cond)), m, k, R \cup {nxt, k3, k4}, u)
  <2>1. InstrOK(Br(k3), m) /\ Br(k3).op \in Terminator
    BY <1>8, <1>11, BrOK
  <2> QED BY <1>4, <1>19, <2>1, InsideEmit
<1>21. Inside(At(Emit(init, Br(cond)), cond), m, k3, R \cup {nxt, k4}, u)
  <2>1. PICK P : P = R \cup {nxt, k3, k4}
    OBVIOUS
  <2>2. k3 \in P /\ P \ {k3} = R \cup {nxt, k4}
    BY <2>1, <1>5
  <2>3. Shape(Emit(init, Br(cond)), m, k, P, u)
    BY <2>1, <1>20
  <2>4. Inside(At(Emit(init, Br(cond)), cond), m, k3, P \ {k3}, u)
    BY <1>4, <2>2, <2>3, InsideFrom
  <2> QED BY <2>2, <2>4, Zenon
<1>22. Inside(phi, m, k3, R \cup {nxt, k4}, u)
  BY <1>15, <1>21, InsideEmit DEF phi
<1>23. Shape(less, m, k3, R \cup {nxt, k4}, u)
  BY <1>16, <1>22, InsideEmit DEF less
\* The body.
<1>24. PICK O5, R5 : O5 = R5 \cup {k4} /\ R5 = R \cup {nxt}
  OBVIOUS
<1>25. Shape(element, m, k4, O5, u) /\ k4 \in O5 /\ O5 \ {k4} = R5
  <2>1. PICK P : P = R \cup {nxt, k4}
    OBVIOUS
  <2>2. k4 \in P /\ P \ {k4} = R5 /\ k4 \notin R5
    BY <2>1, <1>5, <1>24
  <2>3. Shape(less, m, k3, P, u)
    BY <2>1, <1>23
  <2>4. Inside(At(less, start), m, k4, P \ {k4}, u)
    BY <1>4, <2>2, <2>3, InsideFrom
  <2>5. Inside(At(less, start), m, k4, R5, u)
    BY <2>2, <2>4, Zenon
  <2>6. Inside(element, m, k4, R5, u)
    BY <1>17, <2>5, InsideEmit DEF element
  <2>7. Shape(element, m, k4, R5 \cup {k4}, u)
    BY <2>6, InsideShape
  <2> QED BY <1>24, <2>2, <2>7
<1>26. Targets(TRUE, m, u)
  <2>1. u[1] = brk /\ u[2] = nxt
    BY <1>2 DEF u
  <2> QED BY <2>1, <1>11 DEF Targets
<1>27. \E m2 \in Nat, k2 \in Nat : Reached(body, m, k4, O5, u, m2, k2)
  BY <1>25, <1>26, CompilesPart DEF body
<1>28. PICK m2 \in Nat, k2 \in Nat : Reached(body, m, k4, O5, u, m2, k2)
  BY <1>27
<1>29. Inside(body, m2, k2, R5, u)
  <2>1. Shape(element, m, k4, O5, u) /\ k4 \in O5
    BY <1>25
  <2>2. Inside(body, m2, k2, O5 \ {k4}, u)
    BY <2>1, <1>28, ReachedFrom
  <2> QED BY <2>2, <1>25, Zenon
<1>30. m <= m2
  BY <1>28, ReachedLength
<1>31. nxt \in 1..m2 /\ k3 \in 1..m2 /\ n + 1 <= m2
  BY <1>1, <1>2, <1>8, <1>10, <1>28, <1>30
\* The increment, and the way back.
<1>32. Shape(Emit(body, Br(nxt)), m2, k2, R5, u)
  <2>1. InstrOK(Br(nxt), m2) /\ Br(nxt).op \in Terminator
    BY <1>28, <1>31, BrOK
  <2> QED BY <1>29, <2>1, InsideEmit
<1>33. Inside(At(Emit(body, Br(nxt)), nxt), m2, nxt, R, u)
  <2>1. nxt \in R5 /\ R5 \ {nxt} = R
    BY <1>5, <1>24
  <2>2. Inside(At(Emit(body, Br(nxt)), nxt), m2, nxt, R5 \ {nxt}, u)
    BY <1>32, <2>1, InsideFrom
  <2> QED BY <2>1, <2>2, Zenon
<1>34. Inside(step, m2, nxt, R, u)
  BY <1>4, <1>18, <1>28, <1>33, InsideEmit DEF step
<1>35. Shape(CloseLoop(At(Emit(step, Br(k3)), brk), b), m2, brk, R, t)
  BY <1>2, <1>31, <1>34, LoopLeft
<1>36. Shape(CloseLoop(At(Emit(step, Br(k3)), brk), b), m2, n + 1, (O \ {l}) \cup {n + 1}, t)
  BY <1>2, <1>3, <1>35, Zenon
<1>37. CompileFor(e, b, C) = CloseLoop(At(Emit(step, Br(cond)), o.brk), b)
  BY DEF CompileFor, o, cond, start, s, length, counter, incremented, startFor, phiOf, counts, compares,
         takes, increments, init, phi, less, element, body, step
<1> QED BY <1>4, <1>28, <1>31, <1>36, <1>37 DEF LoopCompiledAs

LEMMA LoopCompiled ==
    ASSUME NEW C, NEW e \in Expression, e.op \in Loop, CanSkip(Last(e.parts), TRUE),
           \A i \in 1..Len(e.parts) : Compiles(C, e.parts[i]) /\ Placed(e.parts[i], i = Len(e.parts)),
           NEW b, NEW n, NEW l, NEW O, NEW t, Shape(b, n, l, O, t), l \in O
    PROVE  CompiledOK(CompileLoop(e, b, C), n, l, O, t)
<1> DEFINE loop == CASE e.op = "repeat" -> CompileRepeat(e, b, C)
                     [] e.op = "while" -> CompileWhile(e, b, C)
                     [] e.op = "for" -> CompileFor(e, b, C)
<1> HIDE DEF loop
<1>1. LoopCompiledAs(loop, n, l, O, t)
  <2>1. CASE e.op = "repeat"
    <3>1. Len(e.parts) = 1 /\ 1 \in 1..Len(e.parts)
      BY <2>1, HowManyParts
    <3>2. Compiles(C, e.parts[1]) /\ Placed(e.parts[1], TRUE)
      BY <3>1
    <3>3. loop = CompileRepeat(e, b, C)
      BY <2>1 DEF loop
    <3> QED BY <3>2, <3>3, RepeatCompiled
  <2>2. CASE e.op \in {"while", "for"}
    <3>1. Len(e.parts) = 2 /\ 1 \in 1..Len(e.parts) /\ 2 \in 1..Len(e.parts)
      BY <2>2, HowManyParts
    <3>2. (1 = Len(e.parts)) = FALSE /\ (2 = Len(e.parts)) = TRUE
      BY <3>1
    <3>3. /\ Compiles(C, e.parts[1]) /\ Placed(e.parts[1], FALSE)
          /\ Compiles(C, e.parts[2]) /\ Placed(e.parts[2], TRUE)
      BY <3>1, <3>2
    <3>4. CASE e.op = "while"
      <4>1. loop = CompileWhile(e, b, C)
        BY <3>4 DEF loop
      <4> QED BY <3>3, <4>1, WhileCompiled
    <3>5. CASE e.op = "for"
      <4>1. loop = CompileFor(e, b, C)
        BY <3>5 DEF loop
      <4> QED BY <3>3, <4>1, ForCompiled
    <3> QED BY <2>2, <3>4, <3>5
  <2> QED BY <2>1, <2>2 DEF Loop
<1>2. PICK m \in Nat : n + 1 <= m /\ Shape(loop, m, n + 1, (O \ {l}) \cup {n + 1}, t)
  BY <1>1 DEF LoopCompiledAs
<1>3. PICK k \in Nat : k = n + 1 /\ n < k /\ n <= m
  BY <1>2, ShapeFacts
<1>4. Shape(loop, m, k, (O \ {l}) \cup {k}, t)
  BY <1>2, <1>3
<1>5. Shape(Visible(loop, FALSE), m, k, (O \ {l}) \cup {k}, t)
  BY <1>4, ContextShape
<1>6. CompiledOK(Compiled(Visible(loop, FALSE), Const(Nil)), n, l, O, t)
  BY <1>3, <1>5, CompiledAt, OperandsAreOperands DEF Nil
<1>7. CompileLoop(e, b, C) = Compiled(Visible(loop, FALSE), Const(Nil))
  BY DEF CompileLoop, loop
<1> QED BY <1>6, <1>7
\* What names lead to, in a switch with one default at most, are cases of it.
LEMMA CasesOfSwitch ==
    ASSUME NEW e \in Expression, e.op = "switch", e.named # <<>>, ~Several(e)
    PROVE  Named(e) \in Nat /\ \A k \in 1..(Named(e) + 1) : CaseOfName(e, k) \in 1..Len(e.named)
<1>1. e.named \in Seq(BOOLEAN) /\ e.named # <<>>
  <2>1. HasItsParts(e)
    BY ExpressionAssumption
  <2> QED BY <2>1, Zenon DEF HasItsParts
<1>2. PICK N \in Nat : N = Len(e.named) /\ N >= 1
  BY <1>1
<1>3. Defaults(e) \subseteq 1..N /\ \A i, j \in Defaults(e) : i = j
  BY <1>2 DEF Defaults, Several
<1>4. CASE Defaults(e) = {}
  <2>1. Cardinality(Defaults(e)) = 0
    BY <1>4, FS_EmptySet
  <2>2. Named(e) = N
    BY <1>2, <2>1 DEF Named
  <2>3. \A k : NamedCase(e, k) = k
    BY <1>4 DEF NamedCase
  <2>4. OtherCase(e) = N
    BY <1>2, <1>4 DEF OtherCase
  <2>5. \A k \in 1..(N + 1) : CaseOfName(e, k) \in 1..N
    BY <1>2, <2>2, <2>3, <2>4 DEF CaseOfName
  <2> QED BY <1>2, <2>2, <2>5
<1>5. CASE Defaults(e) # {}
  <2>1. PICK d : d \in Defaults(e)
    BY <1>5
  <2>2. Defaults(e) = {d} /\ d \in 1..N
    BY <1>3, <2>1
  <2>3. Cardinality(Defaults(e)) = 1
    BY <2>2, FS_Singleton
  <2>4. Named(e) = N - 1 /\ Named(e) \in Nat
    BY <1>2, <2>3 DEF Named
  <2>5. \A k : NamedCase(e, k) \in {k, k + 1}
    BY DEF NamedCase
  <2>6. OtherCase(e) \in 1..N
    BY <1>3, <1>5 DEF OtherCase
  <2>7. ASSUME NEW k \in 1..N PROVE CaseOfName(e, k) \in 1..N
    <3>1. CASE k <= N - 1
      <4>1. CaseOfName(e, k) = NamedCase(e, k)
        BY <2>4, <3>1 DEF CaseOfName
      <4>2. NamedCase(e, k) \in {k, k + 1}
        BY <2>5
      <4> QED BY <1>2, <3>1, <4>1, <4>2
    <3>2. CASE ~(k <= N - 1)
      BY <2>4, <2>6, <3>2 DEF CaseOfName
    <3> QED BY <3>1, <3>2
  <2> QED BY <1>2, <2>4, <2>7
<1> QED BY <1>4, <1>5

\* Between two cases of a switch only the blocks of B are open, and also the last
\* case's if it is empty.
BetweenCases(s, n, B, t, empty) ==
    \E m \in Nat, l \in Nat : n <= m /\ IF empty THEN Inside(s, m, l, B, t) ELSE Shape(s, m, l, B, t)
IsEmpty(e, k) == k > 1 /\ e.parts[k].op = "missing"

LEMMA CaseCompiled ==
    ASSUME NEW C, NEW e \in Expression, NEW k \in Nat, k >= 1,
           Compiles(C, e.parts[k + 1]), Placed(e.parts[k + 1], FALSE),
           NEW s, NEW n \in Nat, NEW B, B \subseteq 1..n, NEW t, BetweenCases(s, n, B, t, IsEmpty(e, k)),
           NEW next \in B
    PROVE  LET r == CompileCase(e, k, s, next, C)
           IN  /\ BetweenCases(r.b, n, B, t, IsEmpty(e, k + 1))
               /\ r.v \in Operand /\ r.b.cur \in Nat
               /\ Len(s.code) \in Nat /\ Len(r.b.code) \in Nat /\ Len(s.code) + 1 <= Len(r.b.code)
<1> DEFINE label == Len(s.code) + 1
           added == AddBlocks(s, 1)
           falls == k > 1 /\ e.parts[k].op = "missing"
           entered == At(IF falls THEN Emit(added, Br(label)) ELSE added, label)
           c == C[e.parts[k + 1]][entered]
<1> HIDE DEF label, added, falls, entered, c
<1>1. falls = IsEmpty(e, k)
  BY DEF falls, IsEmpty
<1>2. PICK m \in Nat, l \in Nat : n <= m /\ IF falls THEN Inside(s, m, l, B, t) ELSE Shape(s, m, l, B, t)
  BY <1>1 DEF BetweenCases
<1>3. Len(s.code) = m /\ label = m + 1
  <2>1. Len(s.code) = m
    <3>1. CASE falls
      BY <1>2, <3>1, InsideShape
    <3>2. CASE ~falls
      BY <1>2, <3>2, ShapeFacts
    <3> QED BY <3>1, <3>2
  <2> QED BY <2>1 DEF label
<1>4. PICK q \in Nat : q = m + 1 /\ q \notin B /\ B \subseteq 1..q /\ q \in 1..q /\ n <= q
  BY <1>2
<1>5. PICK Q : Q = B \cup {q}
  OBVIOUS
<1>6. Shape(entered, q, q, Q, t)
  <2>1. CASE falls
    <3>1. Shape(s, m, l, B \cup {l}, t) /\ l \in 1..m /\ l \notin B
      BY <1>2, <2>1, InsideShape
    <3>2. Shape(added, m + 1, l, (B \cup {l}) \cup ((m + 1)..(m + 1)), t)
      BY <3>1, AddBlocksShape DEF added
    <3>3. (B \cup {l}) \cup ((m + 1)..(m + 1)) = Q \cup {l} /\ m + 1 = q
      BY <1>4, <1>5
    <3>4. Shape(added, q, l, Q \cup {l}, t)
      BY <3>2, <3>3, Zenon
    <3>5. l \notin Q /\ l \in 1..q /\ Q \subseteq 1..q
      BY <3>1, <1>2, <1>4, <1>5
    <3>6. Inside(added, q, l, Q, t)
      BY <1>4, <3>4, <3>5 DEF Inside
    <3>7. InstrOK(Br(q), q) /\ Br(q).op \in Terminator
      BY <1>4, BrOK
    <3>8. Shape(Emit(added, Br(q)), q, l, Q, t)
      BY <3>6, <3>7, InsideEmit
    <3>9. entered = At(Emit(added, Br(q)), q)
      BY <2>1, <1>3, <1>4 DEF entered
    <3> QED BY <1>4, <3>8, <3>9, ContextShape
  <2>2. CASE ~falls
    <3>1. Shape(added, m + 1, l, B \cup ((m + 1)..(m + 1)), t)
      BY <1>2, <2>2, AddBlocksShape DEF added
    <3>2. B \cup ((m + 1)..(m + 1)) = Q /\ m + 1 = q
      BY <1>4, <1>5
    <3>3. Shape(added, q, l, Q, t)
      BY <3>1, <3>2, Zenon
    <3>4. entered = At(added, q)
      BY <2>2, <1>3, <1>4 DEF entered
    <3> QED BY <1>4, <3>3, <3>4, ContextShape
  <2> QED BY <2>1, <2>2
<1>7. q \in Q /\ Q \ {q} = B
  BY <1>4, <1>5
<1>8. CompileCase(e, k, s, next, C) =
         IF e.parts[k + 1].op = "missing" THEN Compiled(entered, Const(Nil))
         ELSE Compiled(Emit(c.b, Br(next)), c.v)
  BY DEF CompileCase, label, added, falls, entered, c
<1>9. IsEmpty(e, k + 1) = (e.parts[k + 1].op = "missing")
  BY DEF IsEmpty
<1>10. CASE e.parts[k + 1].op = "missing"
  <2>1. PICK r : r = Compiled(entered, Const(Nil))
    OBVIOUS
  <2>2. r.b = entered /\ r.v \in Operand
    BY <2>1, OperandsAreOperands DEF Compiled, Nil
  <2>3. Shape(entered, q, q, B \cup {q}, t)
    BY <1>5, <1>6
  <2>4. Inside(r.b, q, q, B, t)
    BY <1>4, <2>2, <2>3 DEF Inside
  <2>5. BetweenCases(r.b, n, B, t, TRUE)
    BY <1>4, <2>4 DEF BetweenCases
  <2>6. Len(r.b.code) = q /\ r.b.cur = q
    BY <2>2, <1>6, ShapeFacts
  <2>7. IsEmpty(e, k + 1) = TRUE
    BY <1>9, <1>10
  <2>8. CompileCase(e, k, s, next, C) = r
    BY <1>8, <1>10, <2>1
  <2>9. BetweenCases(r.b, n, B, t, IsEmpty(e, k + 1))
    BY <2>5, <2>7
  <2>10. Len(s.code) + 1 <= Len(r.b.code) /\ Len(s.code) \in Nat
    BY <1>3, <1>4, <2>6
  <2> QED BY <2>2, <2>6, <2>8, <2>9, <2>10, <1>4
<1>11. CASE e.parts[k + 1].op # "missing"
  <2>1. c.v \in Operand /\ \E m2 \in Nat, k2 \in Nat : Reached(c.b, q, q, Q, t, m2, k2)
    BY <1>6, <1>7, CompilesPart DEF c, Targets
  <2>2. PICK m2 \in Nat, k2 \in Nat : Reached(c.b, q, q, Q, t, m2, k2)
    BY <2>1
  <2>3. Inside(c.b, m2, k2, B, t)
    <3>1. Inside(c.b, m2, k2, Q \ {q}, t)
      BY <1>6, <1>7, <2>2, ReachedFrom
    <3> QED BY <3>1, <1>7, Zenon
  <2>4. q <= m2
    BY <2>2, ReachedLength
  <2>5. InstrOK(Br(next), m2) /\ Br(next).op \in Terminator
    <3>1. next \in 1..m2
      BY <1>4, <2>2, <2>4
    <3> QED BY <2>2, <3>1, BrOK
  <2>6. PICK r : r = Compiled(Emit(c.b, Br(next)), c.v)
    OBVIOUS
  <2>7. r.b = Emit(c.b, Br(next)) /\ r.v \in Operand
    BY <2>1, <2>6 DEF Compiled
  <2>8. Shape(r.b, m2, k2, B, t)
    BY <2>3, <2>5, <2>7, InsideEmit
  <2>9. n <= m2
    BY <1>4, <2>2, <2>4
  <2>10. BetweenCases(r.b, n, B, t, FALSE)
    BY <2>2, <2>8, <2>9 DEF BetweenCases
  <2>11. Len(r.b.code) = m2 /\ r.b.cur = k2
    BY <2>8, ShapeFacts
  <2>12. IsEmpty(e, k + 1) = FALSE
    BY <1>9, <1>11
  <2>13. CompileCase(e, k, s, next, C) = r
    BY <1>8, <1>11, <2>6
  <2>14. BetweenCases(r.b, n, B, t, IsEmpty(e, k + 1))
    BY <2>10, <2>12
  <2>15. Len(s.code) + 1 <= Len(r.b.code) /\ Len(s.code) \in Nat
    BY <1>3, <1>4, <2>2, <2>4, <2>11
  <2> QED BY <2>2, <2>7, <2>11, <2>13, <2>14, <2>15
<1> QED BY <1>10, <1>11
LEMMA SwitchOK ==
    ASSUME NEW n \in Nat, NEW vs \in Seq(Operand), NEW to \in Seq(Nat), NEW names \in Seq(Nat),
           to # <<>>, \A k \in 1..Len(to) : to[k] \in 1..n,
           \A k \in 1..Len(names) : names[k] \in 1..n
    PROVE  LET i == [Ins("switch", vs, to) EXCEPT !.names = names]
           IN  InstrOK(i, n) /\ i.op \in Terminator
<1>1. PICK j : j = Ins("switch", vs, to)
  OBVIOUS
<1>2. j \in Instr /\ j.op = "switch" /\ j.to = to
  <2>1. <<>> \in Seq(Nat)
    OBVIOUS
  <2> QED BY <1>1, <2>1 DEF Ins, Instr
<1>3. PICK i : i = [j EXCEPT !.names = names]
  OBVIOUS
<1>4. i \in Instr /\ i.op = "switch" /\ i.to = to /\ i.names = names
  BY <1>2, <1>3 DEF Instr
<1>5. InstrOK(i, n) /\ i.op \in Terminator
  BY <1>4 DEF InstrOK, Terminator
<1> QED BY <1>1, <1>3, <1>5

LEMMA SwitchParts ==
    ASSUME NEW e \in Expression, e.op = "switch"
    PROVE  e.named \in Seq(BOOLEAN) /\ Len(e.parts) = Len(e.named) + 1 /\ 1 \in 1..Len(e.parts)
<1>1. HasItsParts(e)
  BY ExpressionAssumption
<1>2. e.named \in Seq(BOOLEAN) /\ Len(e.parts) = Len(e.named) + 1
  BY <1>1, Zenon DEF HasItsParts
<1>3. Len(e.named) \in Nat
  BY <1>2
<1> QED BY <1>2, <1>3

LEMMA CasesCompiled ==
    ASSUME NEW C, NEW e \in Expression, e.op = "switch", e.named # <<>>,
           \A i \in 1..Len(e.parts) : Compiles(C, e.parts[i]),
           \A i \in 1..Len(e.parts) : Placed(e.parts[i], FALSE),
           NEW b, NEW n, NEW l, NEW O, NEW t, Shape(b, n, l, O, t), l \in O,
           NEW c, CompiledOK(c, n, l, O, t)
    PROVE  CompiledOK(CompileCases(e, c, C), n, l, O, t)
<1> DEFINE N == Len(e.named)
           next == Len(c.b.code) + 1
           compile == [k \in 1..N |-> [s \in Builder |-> CompileCase(e, k, s, next, C)]]
           cases == Sequenced(compile, AddBlocks(c.b, 1), N)
           label == [k \in 1..N |-> Len(cases[k].b.code) + 1]
           names == IF Several(e) THEN <<>>
                    ELSE [k \in 1..(Named(e) + 1) |-> label[CaseOfName(e, k)]]
           end == cases[N + 1].b
           ended == IF e.parts[N + 1].op = "missing" THEN Emit(end, Br(next)) ELSE end
           switch == [Ins("switch", <<c.v>>, label) EXCEPT !.names = names]
           from == {<<cases[k + 1].b.cur, cases[k + 1].v>> :
                       k \in {k \in 1..N : k = N \/ e.parts[k + 1].op # "missing"}}
           phied == At(Emit(At(ended, c.b.cur), switch), next)
<1>0. CompileCases(e, c, C) = EmitValue(phied, PhiOf(from))
  BY DEF CompileCases
<1> HIDE DEF N, next, compile, cases, label, names, end, ended, switch, from, phied
<1>1. n \in Nat /\ O \subseteq 1..n
  BY ShapeFacts
<1>2. N \in Nat /\ N >= 1 /\ Len(e.parts) = N + 1
  <2>1. e.named \in Seq(BOOLEAN) /\ Len(e.parts) = Len(e.named) + 1
    BY SwitchParts
  <2> QED BY <2>1 DEF N
<1>3. \A k \in 0..N : Compiles(C, e.parts[k + 1]) /\ Placed(e.parts[k + 1], FALSE)
  <2>1. \A k \in 0..N : k + 1 \in 1..Len(e.parts)
    BY <1>2
  <2> QED BY <2>1
\* The control.
<1>4. c.v \in Operand /\ \E m \in Nat, k \in Nat : Reached(c.b, n, l, O, t, m, k)
  BY DEF CompiledOK
<1>5. PICK m \in Nat, q \in Nat : Reached(c.b, n, l, O, t, m, q)
  BY <1>4
<1>6. Inside(c.b, m, q, O \ {l}, t)
  BY <1>5, ReachedFrom
<1>7. n <= m /\ Len(c.b.code) = m /\ c.b.cur = q /\ next = m + 1
  BY <1>5, ReachedLength DEF next
<1>8. PICK n0 \in Nat : n0 = m + 1 /\ next = n0 /\ n < n0
  BY <1>1, <1>5, <1>7
<1>9. PICK R, B : R = (O \ {l}) \cup {n0} /\ B = R \cup {q}
  OBVIOUS
<1>10. Shape(AddBlocks(c.b, 1), n0, q, B, t) /\ q \notin R /\ B \subseteq 1..n0 /\ next \in B
  <2>1. Shape(c.b, m, q, (O \ {l}) \cup {q}, t) /\ q \in 1..m /\ q \notin O \ {l}
    BY <1>6, InsideShape
  <2>2. Shape(AddBlocks(c.b, 1), m + 1, q, ((O \ {l}) \cup {q}) \cup ((m + 1)..(m + 1)), t)
    BY <2>1, AddBlocksShape
  <2>3. ((O \ {l}) \cup {q}) \cup ((m + 1)..(m + 1)) = B /\ m + 1 = n0
    BY <1>8, <1>9
  <2>4. Shape(AddBlocks(c.b, 1), n0, q, B, t)
    BY <2>2, <2>3, Zenon
  <2>5. B \subseteq 1..n0
    BY <2>4, ShapeFacts
  <2>6. q \notin R
    BY <2>1, <1>8, <1>9
  <2> QED BY <2>4, <2>5, <2>6, <1>8, <1>9
\* The cases.
<1>11. Sequence(cases, compile, AddBlocks(c.b, 1), N)
  BY <1>2, SequencedIs DEF cases
<1>12. ASSUME NEW k \in 1..N, BetweenCases(cases[k].b, n0, B, t, IsEmpty(e, k))
       PROVE  /\ BetweenCases(cases[k + 1].b, n0, B, t, IsEmpty(e, k + 1))
              /\ cases[k + 1].v \in Operand /\ cases[k + 1].b.cur \in Nat
              /\ Len(cases[k].b.code) \in Nat /\ Len(cases[k + 1].b.code) \in Nat
              /\ Len(cases[k].b.code) + 1 <= Len(cases[k + 1].b.code)
  <2>1. PICK s : s = cases[k].b
    OBVIOUS
  <2>2. s \in Builder
    <3>1. PICK m2 \in Nat, l2 \in Nat :
             IF IsEmpty(e, k) THEN Inside(s, m2, l2, B, t) ELSE Shape(s, m2, l2, B, t)
      BY <1>12, <2>1 DEF BetweenCases
    <3>2. \E P : Shape(s, m2, l2, P, t)
      BY <3>1, InsideShape
    <3> QED BY <3>2, ShapeFacts
  <2>3. compile[k][s] = CompileCase(e, k, s, next, C)
    BY <2>2 DEF compile
  <2>4. cases[k + 1] = compile[k][s]
    BY <1>11, <2>1 DEF Sequence
  <2>5. PICK r : r = CompileCase(e, k, s, next, C)
    OBVIOUS
  <2>6. cases[k + 1] = r
    BY <2>3, <2>4, <2>5
  <2>7. k \in Nat /\ k >= 1 /\ Compiles(C, e.parts[k + 1]) /\ Placed(e.parts[k + 1], FALSE)
    <3>1. k \in Nat /\ k >= 1 /\ k \in 0..N
      BY <1>2
    <3> QED BY <3>1, <1>3
  <2>8. BetweenCases(s, n0, B, t, IsEmpty(e, k))
    BY <1>12, <2>1
  <2>9. /\ BetweenCases(r.b, n0, B, t, IsEmpty(e, k + 1))
        /\ r.v \in Operand /\ r.b.cur \in Nat
        /\ Len(s.code) \in Nat /\ Len(r.b.code) \in Nat /\ Len(s.code) + 1 <= Len(r.b.code)
    BY <1>8, <1>10, <2>5, <2>7, <2>8, CaseCompiled
  <2> QED BY <2>1, <2>6, <2>9
<1>13. \A k \in 1..(N + 1) : BetweenCases(cases[k].b, n0, B, t, IsEmpty(e, k))
  <2> DEFINE U == {k \in Nat : k <= N => BetweenCases(cases[k + 1].b, n0, B, t, IsEmpty(e, k + 1))}
  <2>1. 0 \in U
    <3>1. cases[1].b = AddBlocks(c.b, 1)
      BY <1>11 DEF Sequence, Compiled
    <3>2. IsEmpty(e, 1) = FALSE
      BY DEF IsEmpty
    <3>3. Shape(cases[1].b, n0, q, B, t)
      BY <1>10, <3>1
    <3>4. BetweenCases(cases[1].b, n0, B, t, FALSE)
      BY <1>5, <1>8, <3>3 DEF BetweenCases
    <3>5. BetweenCases(cases[1].b, n0, B, t, IsEmpty(e, 1))
      BY <3>2, <3>4, Zenon
    <3> QED BY <3>5
  <2>2. ASSUME NEW k \in Nat, k \in U PROVE k + 1 \in U
    <3> SUFFICES ASSUME k + 1 <= N
                 PROVE  BetweenCases(cases[k + 1 + 1].b, n0, B, t, IsEmpty(e, k + 1 + 1))
      OBVIOUS
    <3>1. k + 1 \in 1..N /\ k <= N
      BY <1>2
    <3>2. BetweenCases(cases[k + 1].b, n0, B, t, IsEmpty(e, k + 1))
      BY <2>2, <3>1
    <3> QED BY <1>12, <3>1, <3>2
  <2> HIDE DEF U
  <2>3. Nat \subseteq U
    BY <2>1, <2>2, Induction
  <2>4. ASSUME NEW k \in 1..(N + 1) PROVE BetweenCases(cases[k].b, n0, B, t, IsEmpty(e, k))
    <3>1. PICK j \in Nat : j + 1 = k /\ j <= N
      <4>1. k - 1 \in Nat /\ (k - 1) + 1 = k /\ k - 1 <= N
        BY <1>2
      <4> QED BY <4>1
    <3>2. BetweenCases(cases[j + 1].b, n0, B, t, IsEmpty(e, j + 1))
      BY <2>3, <3>1 DEF U
    <3> QED BY <3>1, <3>2
  <2> QED BY <2>4
<1>14. \A k \in 1..N : /\ cases[k + 1].v \in Operand /\ cases[k + 1].b.cur \in Nat
                       /\ Len(cases[k].b.code) \in Nat /\ Len(cases[k + 1].b.code) \in Nat
                       /\ Len(cases[k].b.code) + 1 <= Len(cases[k + 1].b.code)
  <2>1. \A k \in 1..N : BetweenCases(cases[k].b, n0, B, t, IsEmpty(e, k))
    BY <1>2, <1>13
  <2> QED BY <1>12, <2>1
<1>15. PICK M \in Nat : M = Len(end.code)
  <2>1. N \in 1..N
    BY <1>2
  <2> QED BY <2>1, <1>14 DEF end
<1>16. \A k \in 1..N : label[k] \in 1..M
  <2>1. PICK g : g = [k \in 1..(N + 1) |-> Len(cases[k].b.code)]
    OBVIOUS
  <2>2. \A k \in 1..N : g[k] \in Nat /\ g[k + 1] \in Nat /\ g[k] + 1 <= g[k + 1]
    BY <1>2, <1>14, <2>1
  <2>3. g \in [1..(N + 1) -> Nat] /\ \A k \in 1..N : g[k] <= g[k + 1]
    <3>1. ASSUME NEW k \in 1..(N + 1) PROVE g[k] \in Nat
      <4>1. CASE k \in 1..N
        BY <2>2, <4>1
      <4>2. CASE k \notin 1..N
        <5>1. k = N + 1 /\ N \in 1..N
          BY <1>2, <4>2
        <5> QED BY <5>1, <2>2
      <4> QED BY <4>1, <4>2
    <3>2. g \in [1..(N + 1) -> Nat]
      BY <2>1, <3>1
    <3>3. \A k \in 1..N : g[k] <= g[k + 1]
      BY <2>2
    <3> QED BY <3>2, <3>3
  <2>4. \A k \in 1..(N + 1) : g[k] <= g[N + 1]
    BY <1>2, <2>3, Nondecreasing
  <2>5. g[N + 1] = M
    BY <1>2, <1>15, <2>1 DEF end
  <2>6. ASSUME NEW k \in 1..N PROVE label[k] \in 1..M
    <3>1. label[k] = g[k] + 1
      BY <1>2, <2>1 DEF label
    <3>2. k + 1 \in 1..(N + 1)
      BY <1>2
    <3>3. g[k + 1] <= M
      BY <2>4, <2>5, <3>2
    <3> QED BY <2>2, <3>1, <3>3, <1>15
  <2> QED BY <2>6
\* The end of the last case, and the switch.
<1>17. PICK l2 \in Nat : Shape(ended, M, l2, B, t) /\ n0 <= M
  <2>1. N + 1 \in 1..(N + 1) /\ N + 1 > 1
    BY <1>2
  <2>2. BetweenCases(end, n0, B, t, IsEmpty(e, N + 1))
    BY <1>13, <2>1 DEF end
  <2>3. PICK m2 \in Nat, l2 \in Nat :
           n0 <= m2 /\ IF IsEmpty(e, N + 1) THEN Inside(end, m2, l2, B, t) ELSE Shape(end, m2, l2, B, t)
    BY <2>2 DEF BetweenCases
  <2>4. IsEmpty(e, N + 1) = (e.parts[N + 1].op = "missing")
    BY <2>1 DEF IsEmpty
  <2>5. CASE e.parts[N + 1].op = "missing"
    <3>1. Inside(end, m2, l2, B, t)
      BY <2>3, <2>4, <2>5
    <3>2. m2 = M
      BY <1>15, <3>1, InsideShape
    <3>3. next \in 1..M
      BY <1>8, <2>3, <3>2
    <3>4. InstrOK(Br(next), M) /\ Br(next).op \in Terminator
      BY <1>15, <3>3, BrOK
    <3>5. Shape(Emit(end, Br(next)), M, l2, B, t)
      BY <3>1, <3>2, <3>4, InsideEmit
    <3>6. ended = Emit(end, Br(next))
      BY <2>5 DEF ended
    <3> QED BY <2>3, <3>2, <3>5, <3>6
  <2>6. CASE e.parts[N + 1].op # "missing"
    <3>1. Shape(end, m2, l2, B, t)
      BY <2>3, <2>4, <2>6
    <3>2. m2 = M
      BY <1>15, <3>1, ShapeFacts
    <3>3. ended = end
      BY <2>6 DEF ended
    <3> QED BY <2>3, <3>1, <3>2, <3>3
  <2> QED BY <2>5, <2>6
<1>18. InstrOK(switch, M) /\ switch.op \in Terminator
  <2>1. label \in Seq(Nat) /\ Len(label) = N /\ label # <<>>
    <3>2. \A k \in 1..N : Len(cases[k].b.code) + 1 \in Nat
      BY <1>14
    <3>3. label \in Seq(Nat) /\ Len(label) = N
      BY <1>2, <3>2 DEF label
    <3> QED BY <3>3, <1>2
  <2>2. Several(e) => names = <<>>
    BY DEF names
  <2>3. ASSUME ~Several(e) PROVE names \in Seq(Nat) /\ \A k \in 1..Len(names) : names[k] \in 1..M
    <3>1. Named(e) \in Nat /\ \A k \in 1..(Named(e) + 1) : CaseOfName(e, k) \in 1..N
      BY <2>3, CasesOfSwitch DEF N
    <3>2. PICK K \in Nat : K = Named(e) + 1
      BY <3>1
    <3>3. names = [k \in 1..K |-> label[CaseOfName(e, k)]]
      BY <2>3, <3>2 DEF names
    <3>4. \A k \in 1..K : label[CaseOfName(e, k)] \in 1..M
      BY <1>16, <3>1, <3>2
    <3> QED BY <1>15, <3>3, <3>4
  <2>4. \A k \in 1..Len(label) : label[k] \in 1..M
    BY <1>16, <2>1
  <2>5. names \in Seq(Nat) /\ \A k \in 1..Len(names) : names[k] \in 1..M
    <3>1. PICK none : none = <<>>
      OBVIOUS
    <3>2. none \in Seq(Nat) /\ Len(none) = 0
      BY <3>1
    <3>3. \A k \in 1..Len(none) : none[k] \in 1..M
      BY <3>2
    <3>4. Several(e) => names = none
      BY <2>2, <3>1
    <3> QED BY <2>3, <3>2, <3>3, <3>4, Zenon
  <2>6. <<c.v>> \in Seq(Operand)
    BY <1>4
  <2> QED BY <1>15, <2>1, <2>4, <2>5, <2>6, SwitchOK DEF switch
<1>19. Shape(Emit(At(ended, c.b.cur), switch), M, q, R, t)
  <2>1. q \in B /\ B \ {q} = R
    BY <1>9, <1>10
  <2>2. Inside(At(ended, q), M, q, B \ {q}, t)
    BY <1>17, <2>1, InsideFrom
  <2>3. Inside(At(ended, q), M, q, R, t)
    BY <2>1, <2>2, Zenon
  <2>4. Shape(Emit(At(ended, q), switch), M, q, R, t)
    BY <1>18, <2>3, InsideEmit
  <2> QED BY <1>7, <2>4
\* The phi in the block behind it.
<1>20. Shape(phied, M, n0, R, t)
  BY <1>8, <1>19, ContextShape DEF phied
<1>21. Reached(phied, n, l, O, t, M, n0)
  <2>1. Shape(phied, M, n0, (O \ {l}) \cup {n0}, t)
    BY <1>9, <1>20
  <2>2. n <= M
    BY <1>1, <1>8, <1>15, <1>17
  <2> QED BY <1>8, <2>1, <2>2 DEF Reached
<1>22. InstrOK(PhiOf(from), M) /\ PhiOf(from).op \notin Terminator
  <2>1. from \in SUBSET (Nat \X Operand)
    BY <1>14 DEF from
  <2> QED BY <1>15, <2>1, PhiOK DEF Terminator
<1>23. CompiledOK(EmitValue(phied, PhiOf(from)), n, l, O, t)
  BY <1>1, <1>21, <1>22, ThenEmitValue
<1> QED BY <1>0, <1>23

LEMMA SwitchCompiled ==
    ASSUME NEW C, NEW e \in Expression, e.op = "switch",
           \A i \in 1..Len(e.parts) : Compiles(C, e.parts[i]),
           \A i \in 1..Len(e.parts) : Placed(e.parts[i], FALSE),
           NEW b, NEW n, NEW l, NEW O, NEW t, Shape(b, n, l, O, t), l \in O
    PROVE  CompiledOK(CompileSwitch(e, b, C), n, l, O, t)
<1>1. n \in Nat /\ O \subseteq 1..n
  BY ShapeFacts
<1>2. PICK c : c = C[e.parts[1]][b]
  OBVIOUS
<1>3. CompiledOK(c, n, l, O, t)
  <2>1. Compiles(C, e.parts[1]) /\ Placed(e.parts[1], FALSE)
    BY SwitchParts
  <2>2. c.v \in Operand /\ \E m \in Nat, k \in Nat : Reached(c.b, n, l, O, t, m, k)
    BY <1>2, <2>1, CompilesPart DEF Targets
  <2> QED BY <2>2 DEF CompiledOK
<1>4. CASE NullControl(e)
  <2>1. CompileSwitch(e, b, C) = CompileCall(e, b, C)
    BY <1>4 DEF CompileSwitch
  <2> QED BY <2>1, CallCompiled
<1>5. CASE ~NullControl(e) /\ e.named = <<>>
  <2>1. CompiledOK(Compiled(Visible(c.b, TRUE), c.v), n, l, O, t)
    BY <1>3, ThenVisible
  <2>2. PICK d : d = Visible(c.b, TRUE)
    OBVIOUS
  <2>3. PICK m \in Nat, k \in Nat : Reached(d, n, l, O, t, m, k)
    BY <2>1, <2>2 DEF CompiledOK, Compiled
  <2>4. Const(Nil) \in Operand
    BY OperandsAreOperands DEF Nil
  <2>5. CompiledOK(Compiled(d, Const(Nil)), n, l, O, t)
    BY <2>3, <2>4 DEF CompiledOK, Compiled
  <2>6. CompileSwitch(e, b, C) = Compiled(d, Const(Nil))
    BY <1>2, <1>5, <2>2 DEF CompileSwitch
  <2> QED BY <2>5, <2>6
<1>6. CASE ~NullControl(e) /\ e.named # <<>>
  <2>1. CompileSwitch(e, b, C) = CompileCases(e, c, C)
    BY <1>2, <1>6 DEF CompileSwitch
  <2> QED BY <1>3, <1>6, <2>1, CasesCompiled
<1> QED BY <1>4, <1>5, <1>6

LEMMA ExpressionCompiled ==
    ASSUME NEW C, NEW e \in Expression, \A i \in 1..Len(e.parts) : Compiles(C, e.parts[i]),
           NEW ok \in BOOLEAN, Placed(e, ok),
           NEW b0, NEW n, NEW l, NEW O, NEW t, Shape(b0, n, l, O, t), l \in O, Targets(ok, n, t)
    PROVE  CompiledOK(CompileExpression(e, b0, C), n, l, O, t)
<1> DEFINE b == Visible(b0, TRUE)
<1>1. Shape(b, n, l, O, t)
  BY ContextShape
<1>2. PICK r : r = CompileExpression(e, b0, C)
  OBVIOUS
<1>3. r = CASE e.op = "literal" -> Compiled(b, Const(e.n))
            [] e.op = "missing" -> Compiled(b, Const(Nil))
            [] e.op = "read" -> CompileRead(b)
            [] e.op = "assign" -> CompileAssign(e, b, C)
            [] e.op = "update" -> CompileUpdate(e, b, C)
            [] e.op \in {"arith", "get"} -> CompilePrimitive(e, b, C)
            [] e.op = "paren" -> CompileParen(e, b, C)
            [] e.op = "block" -> CompileBlock(e, b, C)
            [] e.op = "if" -> CompileIf(e, b, C)
            [] e.op \in {"repeat", "while", "for"} -> CompileLoop(e, b, C)
            [] e.op = "break" -> CompileJump(b, b.brk)
            [] e.op = "next" -> CompileJump(b, b.nxt)
            [] e.op = "return" -> CompileReturn(e, b, C)
            [] e.op = "switch" -> CompileSwitch(e, b, C)
            [] e.op = "call" -> CompileCall(e, b, C)
            [] e.op = "apply" -> CompileApply(e, b, C)
  BY <1>2 DEF CompileExpression
<1> HIDE DEF b
<1>4. /\ e.op \in {"break", "next"} => ok
      /\ e.op \in InPlace => \A i \in 1..Len(e.parts) : Placed(e.parts[i], ok)
      /\ e.op \notin InPlace \cup Loop => \A i \in 1..Len(e.parts) : Placed(e.parts[i], FALSE)
      /\ e.op \in Loop => /\ CanSkip(Last(e.parts), TRUE)
                          /\ \A i \in 1..Len(e.parts) : Placed(e.parts[i], i = Len(e.parts))
  BY PlacedParts
<1>5. CASE e.op \in {"literal", "missing"}
  <2>1. e.op = "literal" => e.n \in Nat
    BY HowManyParts
  <2>2. PICK v \in Operand : r = Compiled(b, v)
    BY <1>3, <1>5, <2>1, OperandsAreOperands DEF Nil
  <2> QED BY <1>1, <1>2, <2>2, CompiledStays
<1>6. CASE e.op = "read"
  <2>1. r = CompileRead(b)
    BY <1>3, <1>6
  <2> QED BY <1>1, <1>2, <2>1, ReadCompiled
<1>7. CASE e.op \in {"break", "next"}
  <2>1. t[1] \in 1..n /\ t[2] \in 1..n
    BY <1>4, <1>7 DEF Targets
  <2>2. b.brk = t[1] /\ b.nxt = t[2]
    BY <1>1, ShapeFacts
  <2>3. PICK target \in 1..n : r = CompileJump(b, target)
    BY <1>3, <1>7, <2>1, <2>2
  <2> QED BY <1>1, <1>2, <2>3, JumpCompiled
<1>8. CASE e.op \in Loop
  <2>1. r = CompileLoop(e, b, C)
    BY <1>3, <1>8 DEF Loop
  <2>2. /\ CanSkip(Last(e.parts), TRUE)
        /\ \A i \in 1..Len(e.parts) : Compiles(C, e.parts[i]) /\ Placed(e.parts[i], i = Len(e.parts))
    BY <1>4, <1>8, Zenon
  <2>3. CompiledOK(CompileLoop(e, b, C), n, l, O, t)
    BY <1>1, <1>8, <2>2, LoopCompiled, Zenon
  <2> QED BY <1>2, <2>1, <2>3
<1>9. CASE e.op \in InPlace
  <2>1. \A i \in 1..Len(e.parts) : Placed(e.parts[i], ok)
    BY <1>4, <1>9
  <2>2. CASE e.op = "paren"
    <3>1. r = CompileParen(e, b, C)
      BY <1>3, <2>2
    <3> QED BY <1>1, <1>2, <2>1, <2>2, <3>1, ParenCompiled
  <2>3. CASE e.op = "block"
    <3>1. r = Last(CompileParts(e.parts, b, C))
      BY <1>3, <2>3 DEF CompileBlock
    <3> QED BY <1>1, <1>2, <2>1, <3>1, PartsCompiled
  <2>4. CASE e.op = "if"
    <3>1. r = CompileIf(e, b, C)
      BY <1>3, <2>4
    <3> QED BY <1>1, <1>2, <2>1, <2>4, <3>1, IfCompiled
  <2> QED BY <1>9, <2>2, <2>3, <2>4 DEF InPlace
<1>10. CASE e.op \in {"assign", "update", "arith", "get", "return", "switch", "call", "apply"}
  <2>1. \A i \in 1..Len(e.parts) : Placed(e.parts[i], FALSE)
    BY <1>4, <1>10 DEF InPlace, Loop
  <2>2. CASE e.op = "assign"
    <3>1. r = CompileAssign(e, b, C)
      BY <1>3, <2>2
    <3> QED BY <1>1, <1>2, <2>1, <2>2, <3>1, AssignCompiled
  <2>3. CASE e.op = "update"
    <3>1. r = CompileUpdate(e, b, C)
      BY <1>3, <2>3
    <3> QED BY <1>1, <1>2, <2>1, <2>3, <3>1, UpdateCompiled
  <2>4. CASE e.op \in {"arith", "get"}
    <3>1. r = CompilePrimitive(e, b, C)
      BY <1>3, <2>4
    <3> QED BY <1>1, <1>2, <2>1, <2>4, <3>1, PrimitiveCompiled
  <2>5. CASE e.op = "return"
    <3>1. r = CompileReturn(e, b, C)
      BY <1>3, <2>5
    <3> QED BY <1>1, <1>2, <2>1, <2>5, <3>1, ReturnCompiled
  <2>6. CASE e.op = "switch"
    <3>1. r = CompileSwitch(e, b, C)
      BY <1>3, <2>6
    <3> QED BY <1>1, <1>2, <2>1, <2>6, <3>1, SwitchCompiled
  <2>7. CASE e.op = "call"
    <3>1. r = CompileCall(e, b, C)
      BY <1>3, <2>7
    <3> QED BY <1>1, <1>2, <2>1, <2>7, <3>1, CallCompiled
  <2>8. CASE e.op = "apply"
    <3>1. r = CompileApply(e, b, C)
      BY <1>3, <2>8
    <3> QED BY <1>1, <1>2, <2>1, <2>8, <3>1, ApplyCompiled
  <2> QED BY <1>10, <2>2, <2>3, <2>4, <2>5, <2>6, <2>7, <2>8
<1> QED BY <1>5, <1>6, <1>7, <1>8, <1>9, <1>10, ExpressionAssumption DEF Loop, InPlace

\* The recursion of the compiler over the depth of expressions.
CompileIs(compile, d) ==
    compile = [n \in 0..d |->
                 [e \in Expression |-> [b \in Builder |->
                    IF n = 0 THEN Compiled(b, Const(Nil)) ELSE CompileExpression(e, b, compile[n - 1])]]]

LEMMA CompileExists == \A d \in Nat : \E compile : CompileIs(compile, d)
<1> DEFINE U == {d \in Nat : \E compile : CompileIs(compile, d)}
           Level(n, C) == [e \in Expression |-> [b \in Builder |->
                             IF n = 0 THEN Compiled(b, Const(Nil)) ELSE CompileExpression(e, b, C)]]
<1>1. 0 \in U
  <2>1. PICK compile : compile = [n \in 0..0 |-> [e \in Expression |-> [b \in Builder |->
                                                     Compiled(b, Const(Nil))]]]
    OBVIOUS
  <2>2. CompileIs(compile, 0)
    BY <2>1 DEF CompileIs
  <2> QED BY <2>2
<1>2. ASSUME NEW d \in Nat, d \in U PROVE d + 1 \in U
  <2>1. PICK g : CompileIs(g, d)
    BY <1>2
  <2>2. PICK h : h = [n \in 0..(d + 1) |-> IF n = d + 1 THEN Level(d + 1, g[d]) ELSE g[n]]
    OBVIOUS
  <2>3. \A n \in 0..d : g[n] = Level(n, g[n - 1])
    BY <2>1 DEF CompileIs
  <2> HIDE DEF Level
  <2>4. ASSUME NEW n \in 0..(d + 1) PROVE h[n] = Level(n, h[n - 1])
    <3>1. CASE n = d + 1
      <4>1. n - 1 = d /\ h[n] = Level(n, g[d]) /\ h[n - 1] = g[d]
        BY <3>1, <2>2
      <4> QED BY <4>1
    <3>2. CASE n # d + 1
      <4>1. n \in 0..d /\ h[n] = g[n] /\ h[n] = Level(n, g[n - 1])
        BY <3>2, <2>2, <2>3
      <4>2. CASE n = 0
        <5>1. \A C1, C2 : Level(0, C1) = Level(0, C2)
          BY DEF Level
        <5> QED BY <4>1, <4>2, <5>1
      <4>3. CASE n # 0
        <5>1. n - 1 \in 0..(d + 1) /\ n - 1 # d + 1
          BY <4>1, <4>3
        <5>2. h[n - 1] = g[n - 1]
          BY <2>2, <5>1
        <5> QED BY <4>1, <5>2
      <4> QED BY <4>2, <4>3
    <3> QED BY <3>1, <3>2
  <2>5. h = [n \in 0..(d + 1) |-> Level(n, h[n - 1])]
    BY <2>2, <2>4
  <2>6. CompileIs(h, d + 1)
    BY <2>5 DEF CompileIs, Level
  <2> QED BY <2>6
<1> HIDE DEF U
<1>3. Nat \subseteq U
  BY <1>1, <1>2, Induction
<1> QED BY <1>3 DEF U

LEMMA CompileCompiles ==
    ASSUME NEW d \in Nat, NEW e \in Expression, Depth[e] < d
    PROVE  Compiles(Compile(d), e)
<1>1. PICK compile : compile = CHOOSE g : CompileIs(g, d)
  OBVIOUS
<1>2. Compile(d) = compile[d]
  BY <1>1 DEF Compile, CompileIs
<1>3. CompileIs(compile, d)
  BY <1>1, CompileExists
<1> DEFINE U == {n \in Nat : n <= d => \A a \in Expression : Depth[a] < n => Compiles(compile[n], a)}
<1>4. 0 \in U
  BY PartsAreExpressions
<1>5. ASSUME NEW n \in Nat, n \in U PROVE n + 1 \in U
  <2> SUFFICES ASSUME n + 1 <= d, NEW a \in Expression, Depth[a] < n + 1
               PROVE  Compiles(compile[n + 1], a)
    OBVIOUS
  <2>1. PICK C, D : C = compile[n] /\ D = compile[n + 1]
    OBVIOUS
  <2>2. \A i \in 1..Len(a.parts) : a.parts[i] \in Expression /\ Depth[a.parts[i]] < n
    BY PartsAreExpressions
  <2>3. n <= d /\ n + 1 \in 0..d /\ n + 1 # 0 /\ (n + 1) - 1 = n
    OBVIOUS
  <2>4. \A i \in 1..Len(a.parts) : Compiles(C, a.parts[i])
    BY <1>5, <2>1, <2>2, <2>3
  <2>5. \A b \in Builder : D[a][b] = CompileExpression(a, b, C)
    <3>1. compile[n + 1] = [e1 \in Expression |-> [b \in Builder |->
                               IF n + 1 = 0 THEN Compiled(b, Const(Nil))
                               ELSE CompileExpression(e1, b, compile[(n + 1) - 1])]]
      BY <1>3, <2>3 DEF CompileIs
    <3> QED BY <2>1, <2>3, <3>1
  <2>6. ASSUME NEW ok \in BOOLEAN, Placed(a, ok),
               NEW b, NEW m, NEW l, NEW O, NEW t, Shape(b, m, l, O, t), l \in O, Targets(ok, m, t)
        PROVE  CompiledOK(D[a][b], m, l, O, t)
    <3>1. b \in Builder
      BY <2>6, ShapeFacts
    <3>2. CompiledOK(CompileExpression(a, b, C), m, l, O, t)
      BY <2>4, <2>6, ExpressionCompiled
    <3> QED BY <2>5, <3>1, <3>2
  <2>7. Compiles(D, a)
    BY <2>6 DEF Compiles
  <2> QED BY <2>1, <2>7
<1> HIDE DEF U
<1>6. Nat \subseteq U
  BY <1>4, <1>5, Induction
<1> QED BY <1>2, <1>6 DEF U

\* The blocks of a function that is compiled: all end, and lead to others of them.
CodeOK(blocks) ==
    /\ blocks \in Seq(Seq(Instr)) /\ Len(blocks) \in Nat /\ Len(blocks) >= 1
    /\ \A k \in 1..Len(blocks) : BlockOK(blocks[k], Len(blocks)) /\ Ended(blocks[k])

LEMMA CodeOfOK ==
    ASSUME NEW e \in Expression, Placed(e, FALSE)
    PROVE  CodeOK(CodeOf(e))
<1> DEFINE b == [code |-> <<>>, cur |-> Unset, brk |-> Unset, nxt |-> Unset, visible |-> TRUE,
                 jump |-> FALSE, regs |-> 0]
           t == <<Unset, Unset>>
<1>1. Shape(b, 0, Unset, {}, t)
  <2>1. <<>> \in Seq(Seq(Instr))
    OBVIOUS
  <2>2. b \in Builder /\ Len(b.code) = 0
    BY <2>1 DEF Builder, Unset
  <2> QED BY <2>2 DEF Shape
<1>2. PICK C : C = Compile(Depth[e] + 1)
  OBVIOUS
<1>3. Compiles(C, e)
  BY <1>2, PartsAreExpressions, CompileCompiles
<1> HIDE DEF b, t
<1>4. PICK s : s = CompileBody(e, b, FALSE, C)
  OBVIOUS
<1>5. PICK m \in Nat : 0 < m /\ Shape(s, m, Unset, {}, t)
  BY <1>1, <1>3, <1>4, BodyCompiled
<1>6. /\ s.code \in Seq(Seq(Instr)) /\ Len(s.code) = m
      /\ \A k \in 1..m : BlockOK(s.code[k], m) /\ Ended(s.code[k])
  BY <1>5 DEF Shape, Builder
<1>7. CodeOf(e) = s.code
  BY <1>2, <1>4 DEF CodeOf, b
<1> QED BY <1>5, <1>6, <1>7 DEF CodeOK

-----------------------------------------------------------------------------
(* The machine                                                               *)

\* An activation is at an instruction of its block; a callee's promises are blocks.
FrameGood(f, blocks) ==
    IF f.kind = "callee" THEN f.todo \in Seq(0..Len(blocks))
    ELSE /\ f.kind \in {"function", "promise"}
         /\ f.block \in 1..Len(blocks) /\ f.at \in 1..Len(blocks[f.block])

\* What is directly below an activation: a callee is at a call, the promise that a
\* callee forces is the next one it has to, a function that was called is at an apply.
OnTop(f, g, blocks) ==
    CASE f.kind = "callee" -> g.kind # "callee" /\ blocks[g.block][g.at].op = "call"
      [] f.kind = "promise" -> g.kind = "callee" /\ g.todo # <<>>
      [] f.kind = "function" -> g.kind # "callee" /\ blocks[g.block][g.at].op = "apply"

IsSequence(s) == \E S : s \in Seq(S)
StackOK(fs, blocks) ==
    /\ IsSequence(fs) /\ Len(fs) \in Nat
    /\ \A d \in 1..Len(fs) : FrameGood(fs[d], blocks)
    /\ \A d \in 1..(Len(fs) - 1) : OnTop(fs[d], fs[d + 1], blocks)
    /\ Len(fs) >= 1 => fs[Len(fs)].kind = "function"

MachineOK ==
    /\ program \in Programs
    /\ CodeOK(code)
    /\ StackOK(frames, code)
    /\ IsSequence(choices) /\ Len(choices) <= MaxChoices
    /\ result.given \in BOOLEAN
    /\ Len(frames) = 0 <=> result.given

\* s with f in front of it, and s without its first m elements.
Pushed(c, f, s) ==
    /\ IsSequence(c) /\ Len(c) = Len(s) + 1
    /\ c[1] = f /\ \A k \in 1..Len(s) : c[k + 1] = s[k]
SuffixOf(t, s, m) ==
    /\ IsSequence(t) /\ Len(t) = Len(s) - m
    /\ \A k \in 1..Len(t) : t[k] = s[m + k]

LEMMA PushFacts ==
    ASSUME NEW s, IsSequence(s), NEW f
    PROVE  Len(s) \in Nat /\ Pushed(<<f>> \o s, f, s)
<1>1. PICK S : s \in Seq(S)
  BY DEF IsSequence
<1>2. PICK T : T = S \cup {f}
  OBVIOUS
<1>3. PICK u : u = <<f>>
  OBVIOUS
<1>4. u \in Seq(T) /\ s \in Seq(T) /\ Len(u) = 1 /\ u[1] = f /\ Len(s) \in Nat
  BY <1>1, <1>2, <1>3
<1>5. /\ u \o s \in Seq(T) /\ Len(u \o s) = Len(u) + Len(s)
      /\ \A i \in 1..Len(u) + Len(s) : (u \o s)[i] = IF i <= Len(u) THEN u[i] ELSE s[i - Len(u)]
  BY <1>4, ConcatProperties
<1>6. PICK c : c = u \o s
  OBVIOUS
<1>7. /\ c \in Seq(T) /\ Len(c) = Len(s) + 1
      /\ \A i \in 1..Len(s) + 1 : c[i] = IF i <= 1 THEN f ELSE s[i - 1]
  BY <1>4, <1>5, <1>6
<1>8. c[1] = f /\ \A k \in 1..Len(s) : c[k + 1] = s[k]
  <2>1. c[1] = f
    BY <1>4, <1>7
  <2>2. ASSUME NEW k \in 1..Len(s) PROVE c[k + 1] = s[k]
    <3>1. k + 1 \in 1..Len(s) + 1 /\ ~(k + 1 <= 1) /\ (k + 1) - 1 = k
      BY <1>4
    <3> QED BY <3>1, <1>7
  <2> QED BY <2>1, <2>2
<1>9. Pushed(c, f, s)
  BY <1>7, <1>8 DEF Pushed, IsSequence
<1> QED BY <1>3, <1>4, <1>6, <1>9

LEMMA TailFacts ==
    ASSUME NEW s, IsSequence(s), Len(s) >= 1
    PROVE  SuffixOf(Tail(s), s, 1) /\ Head(s) = s[1]
<1>1. PICK S : s \in Seq(S)
  BY DEF IsSequence
<1>2. s # <<>> /\ Len(s) \in Nat
  BY <1>1
<1>3. /\ Tail(s) \in Seq(S) /\ Len(Tail(s)) = Len(s) - 1
      /\ \A i \in 1..Len(Tail(s)) : Tail(s)[i] = s[i + 1]
  BY <1>1, <1>2, HeadTailProperties
<1>4. \A i \in 1..Len(Tail(s)) : Tail(s)[i] = s[1 + i]
  BY <1>2, <1>3
<1>5. Head(s) = s[1]
  BY <1>1, <1>2
<1> QED BY <1>3, <1>4, <1>5 DEF SuffixOf, IsSequence

LEMMA SuffixFacts ==
    ASSUME NEW s, IsSequence(s), NEW m \in 1..Len(s)
    PROVE  SuffixOf(SubSeq(s, m + 1, Len(s)), s, m)
<1>1. PICK S : s \in Seq(S)
  BY DEF IsSequence
<1>2. PICK n \in Nat : n = Len(s)
  BY <1>1
<1>3. PICK p \in Int : p = m + 1
  BY <1>2
<1>4. \A i \in p..n : s[i] \in S
  BY <1>1, <1>2, <1>3
<1>5. PICK t : t = SubSeq(s, p, n)
  OBVIOUS
<1>6. /\ t \in Seq(S) /\ Len(t) = IF p <= n THEN n - p + 1 ELSE 0
      /\ \A i \in 1..(n - p + 1) : t[i] = s[p + i - 1]
  BY <1>4, <1>5, <1>2, SubSeqProperties
<1>7. Len(t) = n - m
  BY <1>2, <1>3, <1>6
<1>8. \A k \in 1..Len(t) : t[k] = s[m + k]
  <2> SUFFICES ASSUME NEW k \in 1..Len(t) PROVE t[k] = s[m + k]
    OBVIOUS
  <2>1. k \in 1..(n - p + 1) /\ p + k - 1 = m + k
    BY <1>2, <1>3, <1>7
  <2> QED BY <2>1, <1>6
<1>9. SuffixOf(t, s, m)
  BY <1>2, <1>6, <1>7, <1>8 DEF SuffixOf, IsSequence
<1> QED BY <1>2, <1>3, <1>5, <1>9

LEMMA StackSuffix ==
    ASSUME NEW fs, NEW blocks, StackOK(fs, blocks), NEW m \in 0..Len(fs), NEW t, SuffixOf(t, fs, m)
    PROVE  StackOK(t, blocks)
<1>1. Len(fs) \in Nat /\ Len(t) = Len(fs) - m /\ Len(t) \in Nat /\ IsSequence(t)
  BY DEF StackOK, SuffixOf
<1>2. \A k \in 1..Len(t) : t[k] = fs[m + k] /\ m + k \in 1..Len(fs)
  BY <1>1 DEF SuffixOf
<1>3. \A d \in 1..Len(t) : FrameGood(t[d], blocks)
  BY <1>2 DEF StackOK
<1>4. ASSUME NEW d \in 1..(Len(t) - 1) PROVE OnTop(t[d], t[d + 1], blocks)
  <2>1. d \in 1..Len(t) /\ d + 1 \in 1..Len(t) /\ m + d \in 1..(Len(fs) - 1) /\ m + (d + 1) = (m + d) + 1
    BY <1>1
  <2>2. t[d] = fs[m + d] /\ t[d + 1] = fs[(m + d) + 1]
    BY <1>2, <2>1
  <2>3. OnTop(fs[m + d], fs[(m + d) + 1], blocks)
    BY <2>1 DEF StackOK
  <2> QED BY <2>2, <2>3
<1>5. Len(t) >= 1 => t[Len(t)].kind = "function"
  <2> SUFFICES ASSUME Len(t) >= 1 PROVE t[Len(t)].kind = "function"
    OBVIOUS
  <2>1. Len(t) \in 1..Len(t) /\ m + Len(t) = Len(fs) /\ Len(fs) >= 1
    BY <1>1
  <2>2. t[Len(t)] = fs[Len(fs)]
    BY <1>2, <2>1
  <2> QED BY <2>1, <2>2 DEF StackOK
<1> QED BY <1>1, <1>3, <1>4, <1>5 DEF StackOK

LEMMA StackPush ==
    ASSUME NEW fs, NEW blocks, StackOK(fs, blocks), NEW f, FrameGood(f, blocks),
           Len(fs) >= 1 => OnTop(f, fs[1], blocks),
           Len(fs) = 0 => f.kind = "function"
    PROVE  StackOK(<<f>> \o fs, blocks) /\ Len(<<f>> \o fs) >= 1
<1>1. PICK c : c = <<f>> \o fs
  OBVIOUS
<1>2. Pushed(c, f, fs) /\ Len(fs) \in Nat
  BY <1>1, PushFacts DEF StackOK
<1>3. /\ IsSequence(c) /\ Len(c) = Len(fs) + 1 /\ Len(c) \in Nat /\ c[1] = f
      /\ \A k \in 1..Len(fs) : c[k + 1] = fs[k]
  BY <1>2 DEF Pushed
<1>4. ASSUME NEW d \in 1..Len(c), d # 1 PROVE d - 1 \in 1..Len(fs) /\ c[d] = fs[d - 1]
  <2>1. d - 1 \in 1..Len(fs) /\ (d - 1) + 1 = d
    BY <1>2, <1>3, <1>4
  <2> QED BY <2>1, <1>3
<1>5. ASSUME NEW d \in 1..Len(c) PROVE FrameGood(c[d], blocks)
  <2>1. CASE d = 1
    BY <2>1, <1>3
  <2>2. CASE d # 1
    BY <2>2, <1>4 DEF StackOK
  <2> QED BY <2>1, <2>2
<1>6. ASSUME NEW d \in 1..(Len(c) - 1) PROVE OnTop(c[d], c[d + 1], blocks)
  <2>1. c[d + 1] = fs[d] /\ d \in 1..Len(fs) /\ Len(fs) >= 1 /\ d \in 1..Len(c)
    BY <1>2, <1>3
  <2>2. CASE d = 1
    BY <2>1, <2>2, <1>3
  <2>3. CASE d # 1
    <3>1. d - 1 \in 1..(Len(fs) - 1) /\ (d - 1) + 1 = d /\ c[d] = fs[d - 1]
      BY <2>1, <2>3, <1>2, <1>4
    <3>2. OnTop(fs[d - 1], fs[(d - 1) + 1], blocks)
      BY <3>1 DEF StackOK
    <3> QED BY <2>1, <3>1, <3>2
  <2> QED BY <2>2, <2>3
<1>7. c[Len(c)].kind = "function"
  <2>1. CASE Len(fs) = 0
    BY <2>1, <1>3
  <2>2. CASE Len(fs) >= 1
    <3>1. c[Len(c)] = fs[Len(fs)]
      BY <1>2, <1>3, <2>2
    <3> QED BY <2>2, <3>1 DEF StackOK
  <2> QED BY <1>2, <2>1, <2>2
<1>8. StackOK(c, blocks)
  BY <1>3, <1>5, <1>6, <1>7 DEF StackOK
<1> QED BY <1>1, <1>2, <1>3, <1>8

\* What is below an activation depends on its kind only.
LEMMA SameKind ==
    ASSUME NEW f, NEW h, NEW g, NEW blocks, f.kind = h.kind, OnTop(h, g, blocks)
    PROVE  OnTop(f, g, blocks)
BY DEF OnTop

LEMMA StackReplace ==
    ASSUME NEW fs, NEW blocks, StackOK(fs, blocks), Len(fs) >= 1,
           NEW f, FrameGood(f, blocks), f.kind = fs[1].kind
    PROVE  StackOK(<<f>> \o Tail(fs), blocks) /\ Len(<<f>> \o Tail(fs)) >= 1
<1>1. PICK t : t = Tail(fs)
  OBVIOUS
<1>2. SuffixOf(t, fs, 1) /\ Len(fs) \in Nat
  BY <1>1, TailFacts DEF StackOK
<1>3. 1 \in 0..Len(fs)
  BY <1>2
<1>4. StackOK(t, blocks)
  BY <1>2, <1>3, StackSuffix
<1>5. Len(t) = Len(fs) - 1 /\ \A k \in 1..Len(t) : t[k] = fs[1 + k]
  BY <1>2 DEF SuffixOf
<1>6. Len(t) >= 1 => OnTop(f, t[1], blocks)
  <2> SUFFICES ASSUME Len(t) >= 1 PROVE OnTop(f, t[1], blocks)
    OBVIOUS
  <2>1. 1 \in 1..(Len(fs) - 1) /\ t[1] = fs[1 + 1]
    BY <1>2, <1>5
  <2>2. OnTop(fs[1], fs[1 + 1], blocks)
    BY <2>1 DEF StackOK
  <2> QED BY <2>1, <2>2, SameKind
<1>7. Len(t) = 0 => f.kind = "function"
  <2>1. Len(t) = 0 => Len(fs) = 1
    BY <1>2, <1>5
  <2> QED BY <2>1 DEF StackOK
<1>8. StackOK(<<f>> \o t, blocks) /\ Len(<<f>> \o t) >= 1
  BY <1>4, <1>6, <1>7, StackPush
<1> QED BY <1>1, <1>8
LEMMA AtInstruction ==
    ASSUME NEW f, NEW blocks, CodeOK(blocks), FrameGood(f, blocks), f.kind # "callee"
    PROVE  /\ f.kind \in {"function", "promise"} /\ f.block \in 1..Len(blocks)
           /\ InstrOK(blocks[f.block][f.at], Len(blocks))
           /\ blocks[f.block][f.at].op \notin Terminator => f.at + 1 \in 1..Len(blocks[f.block])
<1>1. PICK s : s = blocks[f.block]
  OBVIOUS
<1>2. /\ f.kind \in {"function", "promise"} /\ f.block \in 1..Len(blocks) /\ f.at \in 1..Len(s)
  BY <1>1 DEF FrameGood
<1>3. BlockOK(s, Len(blocks)) /\ Ended(s)
  BY <1>1, <1>2 DEF CodeOK
<1>4. s \in Seq(Instr) /\ Len(s) \in Nat
  BY <1>3 DEF BlockOK
<1>5. InstrOK(s[f.at], Len(blocks))
  BY <1>2, <1>3 DEF BlockOK
<1>6. s[f.at].op \notin Terminator => f.at # Len(s)
  BY <1>3 DEF Ended
<1> QED BY <1>1, <1>2, <1>4, <1>5, <1>6

\* A block is entered at its first instruction.
LEMMA EntryGood ==
    ASSUME NEW blocks, CodeOK(blocks), NEW label \in 1..Len(blocks),
           NEW kind \in {"function", "promise"}, NEW from, NEW regs
    PROVE  FrameGood(Activation(kind, label, 1, from, regs), blocks)
<1>1. PICK s : s = blocks[label]
  OBVIOUS
<1>2. BlockOK(s, Len(blocks)) /\ Ended(s)
  BY <1>1 DEF CodeOK
<1>3. s \in Seq(Instr) /\ s # <<>>
  BY <1>2 DEF BlockOK, Ended
<1>4. 1 \in 1..Len(s)
  BY <1>3
<1> QED BY <1>1, <1>4 DEF FrameGood, Activation

\* The activations go on with the next instruction, and with a result.
LEMMA ContinueOK ==
    ASSUME NEW fs, StackOK(fs, code), Len(fs) >= 1, CodeOK(code), fs[1].kind # "callee",
           code[fs[1].block][fs[1].at].op \notin Terminator, NEW from, NEW regs
    PROVE  LET f == Activation(fs[1].kind, fs[1].block, fs[1].at + 1, from, regs)
           IN  StackOK(<<f>> \o Tail(fs), code) /\ Len(<<f>> \o Tail(fs)) >= 1
<1>1. FrameGood(fs[1], code)
  BY DEF StackOK
<1>2. PICK f : f = Activation(fs[1].kind, fs[1].block, fs[1].at + 1, from, regs)
  OBVIOUS
<1>3. f.kind = fs[1].kind /\ f.block = fs[1].block /\ f.at = fs[1].at + 1
  BY <1>2 DEF Activation
<1>4. /\ fs[1].kind \in {"function", "promise"} /\ fs[1].block \in 1..Len(code)
      /\ fs[1].at + 1 \in 1..Len(code[fs[1].block])
  BY <1>1, AtInstruction
<1>5. FrameGood(f, code)
  BY <1>3, <1>4 DEF FrameGood
<1>6. StackOK(<<f>> \o Tail(fs), code) /\ Len(<<f>> \o Tail(fs)) >= 1
  BY <1>3, <1>5, StackReplace
<1> QED BY <1>2, <1>6

LEMMA WithValueOK ==
    ASSUME NEW fs, StackOK(fs, code), Len(fs) >= 1, CodeOK(code), fs[1].kind # "callee",
           code[fs[1].block][fs[1].at].op \notin Terminator, NEW v
    PROVE  StackOK(WithValue(fs, v), code) /\ Len(WithValue(fs, v)) >= 1
<1>1. PICK f : f = fs[1]
  OBVIOUS
<1>2. Head(fs) = f
  BY <1>1, TailFacts DEF StackOK
<1>3. PICK regs : regs = Bind(f.regs, code[f.block][f.at].dst, v)
  OBVIOUS
<1>4. WithValue(fs, v) = <<Activation(f.kind, f.block, f.at + 1, f.from, regs)>> \o Tail(fs)
  BY <1>2, <1>3 DEF WithValue
<1> QED BY <1>1, <1>4, ContinueOK

\* What is at the top when an instruction runs.
LEMMA RunsInstruction ==
    ASSUME MachineOK, NEW op, On(op)
    PROVE  /\ Len(frames) \in Nat /\ Len(frames) >= 1 /\ Top = frames[1]
           /\ FrameGood(Top, code)
           /\ Top.kind \in {"function", "promise"} /\ Top.kind # "callee"
           /\ Instruction = code[frames[1].block][frames[1].at]
           /\ InstrOK(Instruction, Len(code)) /\ Instruction.op = op
<1>1. StackOK(frames, code) /\ CodeOK(code)
  BY DEF MachineOK
<1>2. IsSequence(frames) /\ frames # <<>> /\ Len(frames) \in Nat
  BY <1>1 DEF StackOK, On, Running
<1>3. Len(frames) >= 1
  <2>1. PICK S : frames \in Seq(S)
    BY <1>2 DEF IsSequence
  <2> QED BY <1>2, <2>1
<1>4. Top = frames[1]
  BY <1>2, <1>3, TailFacts DEF Top
<1>5. FrameGood(Top, code)
  BY <1>1, <1>3, <1>4 DEF StackOK
<1>6. Top.kind # "callee" /\ Instruction.op = op
  BY DEF On, Running
<1>7. Top.kind \in {"function", "promise"} /\ InstrOK(code[Top.block][Top.at], Len(code))
  BY <1>1, <1>5, <1>6, AtInstruction
<1>8. Instruction = code[Top.block][Top.at]
  BY DEF Instruction
<1> QED BY <1>2, <1>3, <1>4, <1>5, <1>6, <1>7, <1>8

\* The same when a callee is at the top: it is at a call of what is below it.
LEMMA RunsCallee ==
    ASSUME MachineOK, frames # <<>>, Top.kind = "callee"
    PROVE  /\ Len(frames) \in Nat /\ Len(frames) >= 2 /\ Top = frames[1] /\ IsSequence(frames)
           /\ Top.todo \in Seq(0..Len(code)) /\ Len(code) \in Nat
           /\ OnTop(Top, frames[2], code)
<1>1. StackOK(frames, code) /\ CodeOK(code)
  BY DEF MachineOK
<1>2. IsSequence(frames) /\ Len(frames) \in Nat /\ Len(code) \in Nat
  BY <1>1 DEF StackOK, CodeOK
<1>3. Len(frames) >= 1
  <2>1. PICK S : frames \in Seq(S)
    BY <1>2 DEF IsSequence
  <2> QED BY <1>2, <2>1
<1>4. Top = frames[1]
  BY <1>2, <1>3, TailFacts DEF Top
<1>5. FrameGood(Top, code) /\ frames[Len(frames)].kind = "function"
  BY <1>1, <1>2, <1>3, <1>4 DEF StackOK
<1>6. Top.todo \in Seq(0..Len(code))
  BY <1>5 DEF FrameGood
<1>7. Len(frames) # 1
  BY <1>4, <1>5
<1>8. 1 \in 1..(Len(frames) - 1) /\ Len(frames) >= 2
  <2>1. PICK n \in Nat : n = Len(frames)
    BY <1>2
  <2>2. n >= 1 /\ n # 1
    BY <2>1, <1>3, <1>7
  <2>3. 1 \in 1..(n - 1) /\ n >= 2
    BY <2>2
  <2> QED BY <2>1, <2>3
<1>9. OnTop(frames[1], frames[1 + 1], code)
  BY <1>1, <1>8 DEF StackOK
<1> QED BY <1>2, <1>3, <1>4, <1>6, <1>8, <1>9

\* A step that goes on keeps the invariant if it keeps what it says of the stack.
GoesOn(fs) == StackOK(fs, code) /\ Len(fs) >= 1

LEMMA StepGoesOn ==
    ASSUME MachineOK, GoesOn(frames'), Len(frames) >= 1, UNCHANGED <<program, code, result>>,
           UNCHANGED choices \/ \E c : Choose(c)
    PROVE  MachineOK'
<1>1. IsSequence(choices') /\ Len(choices') <= MaxChoices
  <2>1. CASE UNCHANGED choices
    BY <2>1 DEF MachineOK
  <2>2. CASE \E c : Choose(c)
    <3>1. PICK c : Len(choices) < MaxChoices /\ choices' = Append(choices, c)
      BY <2>2 DEF Choose
    <3>2. PICK S : choices \in Seq(S)
      BY DEF MachineOK, IsSequence
    <3>3. choices \in Seq(S \cup {c}) /\ c \in S \cup {c}
      BY <3>2
    <3>4. Append(choices, c) \in Seq(S \cup {c}) /\ Len(Append(choices, c)) = Len(choices) + 1
      BY <3>3
    <3> QED BY <3>1, <3>2, <3>4, BoundsAssumption DEF IsSequence
  <2> QED BY <2>1, <2>2
<1>2. StackOK(frames', code') /\ Len(frames') \in Nat /\ Len(frames') >= 1
  BY DEF GoesOn, StackOK
<1>3. result.given = FALSE
  <2>1. Len(frames) # 0
    BY DEF MachineOK, StackOK
  <2> QED BY <2>1 DEF MachineOK
<1>4. (Len(frames') = 0 <=> result'.given) /\ result'.given \in BOOLEAN
  <2>1. result' = result /\ ~(Len(frames') = 0)
    BY <1>2
  <2> QED BY <1>3, <2>1
<1>5. program' \in Programs /\ CodeOK(code')
  BY DEF MachineOK
<1> QED BY <1>1, <1>2, <1>4, <1>5 DEF MachineOK
LEMMA GotoOK ==
    ASSUME MachineOK, NEW op, On(op), NEW label \in 1..Len(code)
    PROVE  GoesOn(Goto(label)) /\ Len(frames) >= 1
<1>1. /\ Len(frames) >= 1 /\ Top = frames[1] /\ Top.kind \in {"function", "promise"}
  BY RunsInstruction
<1>2. PICK f : f = Activation(Top.kind, label, 1, Top.block, Top.regs)
  OBVIOUS
<1>3. CodeOK(code) /\ StackOK(frames, code)
  BY DEF MachineOK
<1>4. FrameGood(f, code) /\ f.kind = Top.kind
  <2>1. PICK kind \in {"function", "promise"} : kind = Top.kind
    BY <1>1
  <2>2. PICK from, regs : from = Top.block /\ regs = Top.regs
    OBVIOUS
  <2>3. f = Activation(kind, label, 1, from, regs)
    BY <1>2, <2>1, <2>2
  <2>4. FrameGood(f, code)
    BY <1>3, <2>3, EntryGood
  <2>5. f.kind = kind
    BY <2>3 DEF Activation
  <2> QED BY <2>1, <2>4, <2>5
<1>5. StackOK(<<f>> \o Tail(frames), code) /\ Len(<<f>> \o Tail(frames)) >= 1
  BY <1>1, <1>3, <1>4, StackReplace
<1> QED BY <1>1, <1>2, <1>5 DEF Goto, GoesOn

LEMMA NextInstructionOK ==
    ASSUME MachineOK, NEW op, On(op), op \notin Terminator
    PROVE  /\ Len(frames) >= 1 /\ GoesOn(Continue)
           /\ \A v : GoesOn(WithValue(frames, v))
<1>1. /\ Len(frames) >= 1 /\ Top = frames[1] /\ frames[1].kind # "callee"
      /\ Instruction = code[frames[1].block][frames[1].at] /\ Instruction.op = op
  BY RunsInstruction
<1>2. CodeOK(code) /\ StackOK(frames, code)
  BY DEF MachineOK
<1>3. code[frames[1].block][frames[1].at].op \notin Terminator
  BY <1>1
<1>4. \A v : GoesOn(WithValue(frames, v))
  BY <1>1, <1>2, <1>3, WithValueOK DEF GoesOn
<1>5. PICK from, regs : from = Top.from /\ regs = Top.regs
  OBVIOUS
<1>6. PICK f : f = Activation(frames[1].kind, frames[1].block, frames[1].at + 1, from, regs)
  OBVIOUS
<1>7. StackOK(<<f>> \o Tail(frames), code) /\ Len(<<f>> \o Tail(frames)) >= 1
  BY <1>1, <1>2, <1>3, <1>6, ContinueOK
<1>8. Continue = <<f>> \o Tail(frames)
  BY <1>1, <1>5, <1>6 DEF Continue
<1> QED BY <1>1, <1>4, <1>7, <1>8 DEF GoesOn

LEMMA BranchOK == ASSUME MachineOK, Branch PROVE MachineOK'
<1>1. On("branch") /\ frames' = Goto(Instruction.to[1]) /\ UNCHANGED <<program, code, choices, result>>
  BY DEF Branch
<1>2. InstrOK(Instruction, Len(code)) /\ Instruction.op = "branch"
  BY <1>1, RunsInstruction
<1>3. Instruction.to[1] \in 1..Len(code)
  BY <1>2 DEF InstrOK
<1>4. GoesOn(frames') /\ Len(frames) >= 1
  BY <1>1, <1>3, GotoOK
<1> QED BY <1>1, <1>4, StepGoesOn

LEMMA TestTaken == ASSUME MachineOK, Test PROVE MachineOK'
<1>1. On("test") /\ UNCHANGED <<program, code, result>>
  BY DEF Test
<1>2. PICK c \in {0, 1} : Choose(c) /\ frames' = Goto(Instruction.to[IF c = 1 THEN 1 ELSE 2])
  BY DEF Test
<1>3. InstrOK(Instruction, Len(code)) /\ Instruction.op = "test"
  BY <1>1, RunsInstruction
<1>4. Instruction.to[IF c = 1 THEN 1 ELSE 2] \in 1..Len(code)
  BY <1>3 DEF InstrOK
<1>5. GoesOn(frames') /\ Len(frames) >= 1
  BY <1>1, <1>2, <1>4, GotoOK
<1> QED BY <1>1, <1>2, <1>5, StepGoesOn

LEMMA LessOK == ASSUME MachineOK, Less PROVE MachineOK'
<1>1. /\ On("less") /\ UNCHANGED <<program, code, choices, result>>
      /\ frames' = Goto(Instruction.to[IF Values[1] < Values[2] THEN 1 ELSE 2])
  BY DEF Less
<1>2. InstrOK(Instruction, Len(code)) /\ Instruction.op = "less"
  BY <1>1, RunsInstruction
<1>3. Instruction.to[1] \in 1..Len(code) /\ Instruction.to[2] \in 1..Len(code)
  BY <1>2 DEF InstrOK
<1>4. PICK k \in {1, 2} : k = IF Values[1] < Values[2] THEN 1 ELSE 2
  OBVIOUS
<1>5. Instruction.to[k] \in 1..Len(code) /\ frames' = Goto(Instruction.to[k])
  BY <1>1, <1>3, <1>4
<1>6. GoesOn(frames') /\ Len(frames) >= 1
  BY <1>1, <1>5, GotoOK
<1> QED BY <1>1, <1>6, StepGoesOn

LEMMA RunSwitchOK == ASSUME MachineOK, RunSwitch PROVE MachineOK'
<1>1. On("switch") /\ UNCHANGED <<program, code, result>>
  BY DEF RunSwitch
<1>2. PICK to, names : to = Instruction.to /\ names = Instruction.names
  OBVIOUS
<1>3. PICK c \in Controls(to, names) :
         /\ Choose(c)
         /\ frames' = Goto(CASE c[1] = "number" -> to[SmallerOf(c[2], Len(to))]
                             [] c[1] = "name" -> names[c[2]])
  BY <1>2 DEF RunSwitch
<1>4. InstrOK(Instruction, Len(code)) /\ Instruction.op = "switch"
  BY <1>1, RunsInstruction
<1>5. /\ to \in Seq(Nat) /\ names \in Seq(Nat) /\ to # <<>>
      /\ \A k \in 1..Len(to) : to[k] \in 1..Len(code)
      /\ \A k \in 1..Len(names) : names[k] \in 1..Len(code)
  BY <1>2, <1>4 DEF InstrOK, Instr
<1>6. Len(to) \in Nat /\ Len(to) >= 1
  BY <1>5
<1>7. PICK label : label = CASE c[1] = "number" -> to[SmallerOf(c[2], Len(to))]
                             [] c[1] = "name" -> names[c[2]]
  OBVIOUS
<1>8. label \in 1..Len(code)
  <2>1. CASE \E i \in 1..(Len(to) + 1) : c = IsNumber(i)
    <3>1. PICK i \in 1..(Len(to) + 1) : c = IsNumber(i)
      BY <2>1
    <3>2. c[1] = "number" /\ c[2] = i
      BY <3>1 DEF IsNumber
    <3>3. SmallerOf(i, Len(to)) \in 1..Len(to)
      BY <1>6 DEF SmallerOf
    <3>4. label = to[SmallerOf(i, Len(to))]
      BY <1>7, <3>2
    <3> QED BY <3>3, <3>4, <1>5
  <2>2. CASE \E i \in 1..Len(names) : c = IsName(i)
    <3>1. PICK i \in 1..Len(names) : c = IsName(i)
      BY <2>2
    <3>2. c[1] = "name" /\ c[2] = i
      BY <3>1 DEF IsName
    <3>3. label = names[i]
      BY <1>7, <3>2
    <3> QED BY <3>3, <1>5
  <2>3. PICK n : n = Len(to) + 1
    OBVIOUS
  <2>4. c \in {IsNumber(i) : i \in 1..n} \cup {IsName(k) : k \in 1..Len(names)}
    BY <2>3 DEF Controls
  <2>5. \/ \E i \in 1..n : c = IsNumber(i)
        \/ \E i \in 1..Len(names) : c = IsName(i)
    BY <2>4
  <2> QED BY <2>1, <2>2, <2>3, <2>5
<1>9. GoesOn(frames') /\ Len(frames) >= 1
  BY <1>1, <1>3, <1>7, <1>8, GotoOK
<1> QED BY <1>1, <1>3, <1>9, StepGoesOn

\* The instructions that only yield a value or change what can be observed.
LEMMA StraightStepOK ==
    ASSUME MachineOK, Phi \/ Read \/ Assign \/ Update \/ Primitive \/ StartFor \/ Element \/ Increment
    PROVE  MachineOK'
<1>1. \E op : On(op) /\ op \notin Terminator
  BY DEF Phi, Read, Assign, Update, Primitive, StartFor, Element, Increment, Terminator
<1>2. Len(frames) >= 1 /\ GoesOn(Continue) /\ \A v : GoesOn(WithValue(frames, v))
  BY <1>1, NextInstructionOK
<1>3. /\ UNCHANGED <<program, code, result>> /\ (UNCHANGED choices \/ \E c : Choose(c))
      /\ frames' = Continue \/ \E v : frames' = WithValue(frames, v)
  BY DEF Phi, Read, Assign, Update, Primitive, StartFor, Element, Increment
<1>4. GoesOn(frames')
  BY <1>2, <1>3
<1> QED BY <1>2, <1>3, <1>4, StepGoesOn
LEMMA TodoTail ==
    ASSUME NEW n \in Nat, NEW todo \in Seq(0..n), todo # <<>>
    PROVE  Tail(todo) \in Seq(0..n) /\ Head(todo) \in 0..n
BY HeadTailProperties

LEMMA CalleeGood ==
    ASSUME NEW blocks, NEW todo \in Seq(0..Len(blocks))
    PROVE  FrameGood(Callee(todo), blocks) /\ Callee(todo).kind = "callee"
BY DEF FrameGood, Callee

\* A callee, a promise or a function is entered.
LEMMA EnterOK ==
    ASSUME MachineOK, NEW f, FrameGood(f, code), OnTop(f, frames[1], code), Len(frames) >= 1
    PROVE  GoesOn(<<f>> \o frames)
<1>1. StackOK(frames, code) /\ Len(frames) # 0
  BY DEF MachineOK
<1> QED BY <1>1, StackPush DEF GoesOn

LEMMA FrameFacts ==
    ASSUME MachineOK, NEW kind \in {"function", "promise"}, NEW label \in 1..Len(code)
    PROVE  FrameGood(Frame(kind, label), code) /\ Frame(kind, label).kind = kind
<1>1. CodeOK(code)
  BY DEF MachineOK
<1>2. PICK regs, from : regs = <<>> /\ from = Unset
  OBVIOUS
<1>3. Frame(kind, label) = Activation(kind, label, 1, from, regs)
  BY <1>2 DEF Frame
<1>4. FrameGood(Frame(kind, label), code)
  BY <1>1, <1>3, EntryGood
<1> QED BY <1>4 DEF Frame, Activation

LEMMA CallOK == ASSUME MachineOK, Call PROVE MachineOK'
<1>1. On("call") /\ UNCHANGED <<program, code, result>>
  BY DEF Call
<1>2. PICK to : to = Instruction.to
  OBVIOUS
<1>3. PICK k \in 0..Len(to) : Choose(k) /\ frames' = <<Callee(SubSeq(to, 1, k))>> \o frames
  BY <1>2 DEF Call
<1>4. /\ InstrOK(Instruction, Len(code)) /\ Instruction.op = "call"
      /\ Len(frames) >= 1 /\ Top = frames[1] /\ Top.kind # "callee"
      /\ Instruction = code[frames[1].block][frames[1].at]
  BY <1>1, RunsInstruction
<1>5. to \in Seq(Nat) /\ \A j \in 1..Len(to) : to[j] \in 1..Len(code) \/ to[j] = Unset
  BY <1>2, <1>4 DEF InstrOK, Instr
<1>6. PICK n \in Nat : n = Len(code)
  BY DEF MachineOK, CodeOK
<1>7. \A j \in 1..Len(to) : to[j] \in 0..n
  BY <1>5, <1>6 DEF Unset
<1>8. Len(to) \in Nat /\ k \in Nat /\ 1 \in Int /\ k \in Int /\ \A j \in 1..k : to[j] \in 0..n
  BY <1>5, <1>7
<1>9. SubSeq(to, 1, k) \in Seq(0..n)
  BY <1>8, SubSeqProperties
<1>10. PICK f : f = Callee(SubSeq(to, 1, k))
  OBVIOUS
<1>11. FrameGood(f, code) /\ f.kind = "callee"
  BY <1>6, <1>9, <1>10, CalleeGood
<1>12. OnTop(f, frames[1], code)
  BY <1>4, <1>11 DEF OnTop
<1>13. GoesOn(frames')
  BY <1>3, <1>4, <1>10, <1>11, <1>12, EnterOK
<1> QED BY <1>1, <1>3, <1>4, <1>13, StepGoesOn

LEMMA ForceNextOK == ASSUME MachineOK, ForceNext PROVE MachineOK'
<1>1. /\ frames # <<>> /\ Top.kind = "callee" /\ Top.todo # <<>>
      /\ UNCHANGED <<program, code, choices, result>>
  BY DEF ForceNext
<1>2. /\ Len(frames) \in Nat /\ Len(frames) >= 2 /\ Top = frames[1]
      /\ Top.todo \in Seq(0..Len(code)) /\ Len(code) \in Nat
  BY <1>1, RunsCallee
<1>3. Tail(Top.todo) \in Seq(0..Len(code)) /\ Head(Top.todo) \in 0..Len(code)
  BY <1>1, <1>2, TodoTail
<1>4. Len(frames) >= 1 /\ StackOK(frames, code)
  BY <1>2 DEF MachineOK
<1>5. CASE Head(Top.todo) = Unset
  <2>1. PICK f : f = Callee(Tail(Top.todo))
    OBVIOUS
  <2>2. FrameGood(f, code) /\ f.kind = frames[1].kind
    BY <1>1, <1>2, <1>3, <2>1, CalleeGood
  <2>3. frames' = <<f>> \o Tail(frames)
    BY <1>5, <2>1 DEF ForceNext
  <2>4. GoesOn(frames')
    BY <1>4, <2>2, <2>3, StackReplace DEF GoesOn
  <2> QED BY <1>1, <1>4, <2>4, StepGoesOn
<1>6. CASE Head(Top.todo) # Unset
  <2>1. PICK label \in 1..Len(code) : label = Head(Top.todo)
    BY <1>2, <1>3, <1>6 DEF Unset
  <2>2. PICK f : f = Frame("promise", label)
    OBVIOUS
  <2>3. FrameGood(f, code) /\ f.kind = "promise"
    <3>1. PICK kind \in {"function", "promise"} : kind = "promise"
      OBVIOUS
    <3> QED BY <2>2, <3>1, FrameFacts
  <2>4. OnTop(f, frames[1], code)
    BY <1>1, <1>2, <2>3 DEF OnTop
  <2>5. frames' = <<f>> \o frames
    BY <1>6, <2>1, <2>2 DEF ForceNext
  <2>6. GoesOn(frames')
    BY <1>4, <2>3, <2>4, <2>5, EnterOK
  <2> QED BY <1>1, <1>4, <2>6, StepGoesOn
<1> QED BY <1>5, <1>6

LEMMA CalleeReturnsOK == ASSUME MachineOK, CalleeReturns PROVE MachineOK'
<1>1. /\ frames # <<>> /\ Top.kind = "callee" /\ UNCHANGED <<program, code, choices, result>>
      /\ frames' = WithValue(Tail(frames), FromCall)
  BY DEF CalleeReturns
<1>2. /\ Len(frames) \in Nat /\ Len(frames) >= 2 /\ IsSequence(frames) /\ OnTop(Top, frames[2], code)
  BY <1>1, RunsCallee
<1>3. frames[2].kind # "callee" /\ code[frames[2].block][frames[2].at].op = "call"
  BY <1>1, <1>2 DEF OnTop
<1>4. PICK t : t = Tail(frames)
  OBVIOUS
<1>5. SuffixOf(t, frames, 1) /\ Len(frames) >= 1 /\ 1 \in 0..Len(frames)
  BY <1>2, <1>4, TailFacts
<1>6. StackOK(t, code) /\ CodeOK(code)
  BY <1>5, StackSuffix DEF MachineOK
<1>7. Len(t) >= 1 /\ t[1] = frames[2]
  <2>1. Len(t) = Len(frames) - 1 /\ \A k \in 1..Len(t) : t[k] = frames[1 + k]
    BY <1>5 DEF SuffixOf
  <2>2. Len(t) >= 1 /\ 1 \in 1..Len(t) /\ 1 + 1 = 2
    BY <1>2, <2>1
  <2> QED BY <2>1, <2>2
<1>8. t[1].kind # "callee" /\ code[t[1].block][t[1].at].op \notin Terminator
  BY <1>3, <1>7 DEF Terminator
<1>9. GoesOn(WithValue(t, FromCall))
  BY <1>6, <1>7, <1>8, WithValueOK DEF GoesOn
<1> QED BY <1>1, <1>4, <1>5, <1>9, StepGoesOn

LEMMA ApplyOK == ASSUME MachineOK, Apply PROVE MachineOK'
<1>1. /\ On("apply") /\ UNCHANGED <<program, code, choices, result>>
      /\ frames' = <<Frame("function", Instruction.to[1])>> \o frames
  BY DEF Apply
<1>2. /\ InstrOK(Instruction, Len(code)) /\ Instruction.op = "apply"
      /\ Len(frames) >= 1 /\ Top = frames[1] /\ Top.kind # "callee"
      /\ Instruction = code[frames[1].block][frames[1].at]
  BY <1>1, RunsInstruction
<1>3. PICK label \in 1..Len(code) : label = Instruction.to[1]
  BY <1>2 DEF InstrOK
<1>4. PICK f : f = Frame("function", label)
  OBVIOUS
<1>5. FrameGood(f, code) /\ f.kind = "function"
  <2>1. PICK kind \in {"function", "promise"} : kind = "function"
    OBVIOUS
  <2> QED BY <1>4, <2>1, FrameFacts
<1>6. OnTop(f, frames[1], code)
  BY <1>2, <1>5 DEF OnTop
<1>7. GoesOn(frames')
  BY <1>1, <1>2, <1>3, <1>4, <1>5, <1>6, EnterOK
<1> QED BY <1>1, <1>2, <1>7, StepGoesOn

LEMMA ForceEndsOK == ASSUME MachineOK, ForceEnds PROVE MachineOK'
<1>1. /\ On("return") /\ Top.kind = "promise" /\ UNCHANGED <<program, code, choices, result>>
      /\ frames' = <<Callee(Tail(frames[2].todo))>> \o Tail(Tail(frames))
  BY DEF ForceEnds
<1>2. StackOK(frames, code) /\ IsSequence(frames) /\ CodeOK(code) /\ Len(code) \in Nat
  BY DEF MachineOK, StackOK, CodeOK
<1>3. PICK n \in Nat : n = Len(frames)
  BY <1>2 DEF StackOK
<1>4. n >= 1 /\ Top = frames[1]
  BY <1>1, <1>3, RunsInstruction
<1>5. frames[n].kind = "function"
  BY <1>2, <1>3, <1>4 DEF StackOK
<1>6. n >= 2 /\ 1 \in 1..(n - 1) /\ 1 \in 0..n /\ 2 \in 1..n
  BY <1>1, <1>4, <1>5
<1>7. OnTop(frames[1], frames[1 + 1], code)
  BY <1>2, <1>3, <1>6 DEF StackOK
<1>8. frames[2].kind = "callee" /\ frames[2].todo # <<>>
  <2>1. PICK g : g = frames[2]
    OBVIOUS
  <2>2. 1 + 1 = 2
    OBVIOUS
  <2>3. OnTop(frames[1], g, code)
    BY <1>7, <2>1, <2>2
  <2>4. frames[1].kind = "promise"
    BY <1>1, <1>4
  <2> QED BY <2>1, <2>3, <2>4 DEF OnTop
<1>9. PICK todo : todo = frames[2].todo
  OBVIOUS
<1>10. FrameGood(frames[2], code)
  BY <1>2, <1>3, <1>6 DEF StackOK
<1>11. todo \in Seq(0..Len(code)) /\ todo # <<>>
  BY <1>8, <1>9, <1>10 DEF FrameGood
<1>12. PICK t, f : t = Tail(frames) /\ f = Callee(Tail(todo))
  OBVIOUS
<1>13. FrameGood(f, code) /\ f.kind = "callee"
  BY <1>2, <1>11, <1>12, TodoTail, CalleeGood
<1>14. SuffixOf(t, frames, 1)
  BY <1>2, <1>3, <1>4, <1>12, TailFacts
<1>15. StackOK(t, code)
  BY <1>2, <1>3, <1>6, <1>14, StackSuffix
<1>16. Len(t) >= 1 /\ t[1] = frames[2]
  <2>1. Len(t) = n - 1 /\ \A k \in 1..Len(t) : t[k] = frames[1 + k]
    BY <1>3, <1>14 DEF SuffixOf
  <2>2. Len(t) >= 1 /\ 1 \in 1..Len(t) /\ 1 + 1 = 2
    BY <1>6, <2>1
  <2> QED BY <2>1, <2>2
<1>17. GoesOn(<<f>> \o Tail(t))
  BY <1>8, <1>13, <1>15, <1>16, StackReplace DEF GoesOn
<1> QED BY <1>1, <1>3, <1>4, <1>9, <1>12, <1>17, StepGoesOn

\* The end of a function: it was called by an apply, or its result is that of the run.
LEMMA ReturnFromOK ==
    ASSUME MachineOK, NEW d \in 1..Len(frames), frames[d].kind = "function", ReturnFrom(d)
    PROVE  MachineOK'
<1>1. StackOK(frames, code) /\ IsSequence(frames) /\ CodeOK(code) /\ Len(frames) \in Nat
  BY DEF MachineOK, StackOK
<1>2. UNCHANGED <<program, code, choices>>
  BY DEF ReturnFrom
<1>3. CASE d = Len(frames)
  <2>1. frames' = <<>> /\ result'.given = TRUE
    BY <1>3 DEF ReturnFrom
  <2>2. IsSequence(frames') /\ Len(frames') = 0
    BY <2>1 DEF IsSequence
  <2>3. StackOK(frames', code')
    BY <2>2 DEF StackOK
  <2>4. IsSequence(choices') /\ Len(choices') <= MaxChoices /\ program' \in Programs /\ CodeOK(code')
    BY <1>2 DEF MachineOK
  <2> QED BY <2>1, <2>2, <2>3, <2>4 DEF MachineOK
<1>4. CASE d # Len(frames)
  <2>1. PICK t : t = SubSeq(frames, d + 1, Len(frames))
    OBVIOUS
  <2>2. SuffixOf(t, frames, d) /\ d \in 0..Len(frames)
    BY <1>1, <2>1, SuffixFacts
  <2>3. StackOK(t, code)
    BY <1>1, <2>2, StackSuffix
  <2>4. Len(t) >= 1 /\ t[1] = frames[d + 1]
    <3>1. Len(t) = Len(frames) - d /\ \A k \in 1..Len(t) : t[k] = frames[d + k]
      BY <2>2 DEF SuffixOf
    <3>2. Len(t) >= 1 /\ 1 \in 1..Len(t)
      BY <1>1, <1>4, <3>1
    <3> QED BY <3>1, <3>2
  <2>5. OnTop(frames[d], frames[d + 1], code)
    <3>1. d \in 1..(Len(frames) - 1)
      BY <1>1, <1>4
    <3> QED BY <1>1, <3>1 DEF StackOK
  <2>6. t[1].kind # "callee" /\ code[t[1].block][t[1].at].op \notin Terminator
    BY <2>4, <2>5 DEF OnTop, Terminator
  <2>7. PICK v : frames' = WithValue(t, v)
    BY <1>4, <2>1 DEF ReturnFrom
  <2>8. GoesOn(frames') /\ Len(frames) >= 1
    BY <1>1, <2>3, <2>4, <2>6, <2>7, WithValueOK DEF GoesOn
  <2>9. UNCHANGED <<program, code, choices, result>>
    BY <1>2, <1>4 DEF ReturnFrom
  <2> QED BY <2>8, <2>9, StepGoesOn
<1> QED BY <1>3, <1>4

LEMMA ReturnOK == ASSUME MachineOK, Return PROVE MachineOK'
<1>1. On("return") /\ Top.kind = "function" /\ ReturnFrom(1)
  BY DEF Return
<1>2. Len(frames) \in Nat /\ Len(frames) >= 1 /\ Top = frames[1]
  BY <1>1, RunsInstruction
<1>3. 1 \in 1..Len(frames) /\ frames[1].kind = "function"
  BY <1>1, <1>2
<1> QED BY <1>1, <1>3, ReturnFromOK

\* The innermost activation of a function.
IsInnermost(d) ==
    /\ d \in 1..Len(frames) /\ frames[d].kind = "function"
    /\ \A c \in 1..(d - 1) : frames[c].kind # "function"

LEMMA InnermostExists ==
    ASSUME MachineOK, Len(frames) >= 1
    PROVE  \E d : IsInnermost(d)
<1>1. PICK n \in Nat : n = Len(frames)
  BY DEF MachineOK, StackOK
<1>2. frames[n].kind = "function"
  BY <1>1 DEF MachineOK, StackOK
<1> SUFFICES ASSUME \A d : ~IsInnermost(d) PROVE FALSE
  OBVIOUS
<1> DEFINE T == {m \in Nat : m <= n => \A c \in 1..m : frames[c].kind # "function"}
<1>3. 0 \in T
  OBVIOUS
<1>4. ASSUME NEW m \in Nat, m \in T PROVE m + 1 \in T
  <2> SUFFICES ASSUME m + 1 <= n, NEW c \in 1..(m + 1) PROVE frames[c].kind # "function"
    OBVIOUS
  <2>1. \A a \in 1..m : frames[a].kind # "function"
    BY <1>4
  <2>2. m + 1 \in 1..n /\ (m + 1) - 1 = m
    OBVIOUS
  <2>3. frames[m + 1].kind # "function"
    BY <1>1, <2>1, <2>2 DEF IsInnermost
  <2>4. c \in 1..m \/ c = m + 1
    OBVIOUS
  <2> QED BY <2>1, <2>3, <2>4
<1> HIDE DEF T
<1>5. Nat \subseteq T
  BY <1>3, <1>4, Induction
<1>6. n \in T /\ n \in 1..n
  BY <1>1, <1>5
<1> QED BY <1>2, <1>6 DEF T

LEMMA ReturnJumpOK == ASSUME MachineOK, ReturnJump PROVE MachineOK'
<1>1. On("returnJump")
  BY DEF ReturnJump
<1>2. Len(frames) >= 1
  BY <1>1, RunsInstruction
<1>3. PICK d : d = CHOOSE a \in 1..Len(frames) :
                  frames[a].kind = "function" /\ \A c \in 1..(a - 1) : frames[c].kind # "function"
  OBVIOUS
<1>4. \E c : IsInnermost(c)
  BY <1>2, InnermostExists
<1>5. d \in 1..Len(frames) /\ frames[d].kind = "function"
  BY <1>3, <1>4 DEF IsInnermost
<1>6. ReturnFrom(d)
  BY <1>3 DEF ReturnJump
<1> QED BY <1>5, <1>6, ReturnFromOK
-----------------------------------------------------------------------------
(* Theorems                                                                  *)

\* The compiler ends every block of a function whose jumps have targets, and leads
\* each branch, switch, call and apply to a block that it has made (Compiler.cpp).
THEOREM EveryBlockEnds ==
    ASSUME NEW p \in Programs, CompiledInPlace[p]
    PROVE  CodeOK(CodeOf(p))
<1>1. p \in Expression /\ JumpsInLoops[p][FALSE]
  BY ProgramsAssumption
<1>2. Placed(p, FALSE)
  BY <1>1 DEF Placed
<1> QED BY <1>1, <1>2, CodeOfOK

LEMMA InitOK == Init => MachineOK
<1> SUFFICES ASSUME Init PROVE MachineOK
  OBVIOUS
<1>1. program \in Programs /\ CompiledInPlace[program] /\ code = CodeOf(program)
  BY DEF Init
<1>2. CodeOK(code)
  BY <1>1, EveryBlockEnds
<1>3. PICK f : f = Frame("function", 1)
  OBVIOUS
<1>4. FrameGood(f, code) /\ f.kind = "function"
  <2>1. PICK kind \in {"function", "promise"} : kind = "function"
    OBVIOUS
  <2>2. PICK label \in 1..Len(code) : label = 1
    BY <1>2 DEF CodeOK
  <2>3. PICK regs, from : regs = <<>> /\ from = Unset
    OBVIOUS
  <2>4. f = Activation(kind, label, 1, from, regs)
    BY <1>3, <2>1, <2>2, <2>3 DEF Frame
  <2>5. FrameGood(f, code)
    BY <1>2, <2>4, EntryGood
  <2> QED BY <2>1, <2>4, <2>5 DEF Activation
<1>5. frames = <<f>> /\ choices = <<>> /\ result.given = FALSE
  BY <1>3 DEF Init, NoResult
<1>6. StackOK(frames, code) /\ Len(frames) = 1
  <2>1. frames \in Seq({f}) /\ Len(frames) = 1 /\ frames[1] = f
    BY <1>5
  <2> QED BY <1>4, <2>1 DEF StackOK, IsSequence
<1>7. IsSequence(choices) /\ Len(choices) <= MaxChoices
  <2>1. choices \in Seq({}) /\ Len(choices) = 0
    BY <1>5
  <2>2. IsSequence(choices)
    BY <2>1, Zenon DEF IsSequence
  <2> QED BY <2>1, <2>2, BoundsAssumption
<1>8. result.given \in BOOLEAN /\ (Len(frames) = 0 <=> result.given)
  <2>1. Len(frames) # 0
    BY <1>6
  <2>2. result.given = FALSE
    BY <1>5
  <2> QED BY <2>1, <2>2, Zenon
<1> QED BY <1>1, <1>2, <1>6, <1>7, <1>8 DEF MachineOK

LEMMA NextOK == MachineOK /\ [Next]_vars => MachineOK'
<1> SUFFICES ASSUME MachineOK, [Next]_vars PROVE MachineOK'
  OBVIOUS
<1>1. CASE Branch
  BY <1>1, BranchOK
<1>2. CASE Test
  BY <1>2, TestTaken
<1>3. CASE Phi \/ Read \/ Assign \/ Update \/ Primitive \/ StartFor \/ Element \/ Increment
  BY <1>3, StraightStepOK
<1>4. CASE Less
  BY <1>4, LessOK
<1>5. CASE RunSwitch
  BY <1>5, RunSwitchOK
<1>6. CASE Call
  BY <1>6, CallOK
<1>7. CASE ForceNext
  BY <1>7, ForceNextOK
<1>8. CASE CalleeReturns
  BY <1>8, CalleeReturnsOK
<1>9. CASE Apply
  BY <1>9, ApplyOK
<1>10. CASE ForceEnds
  BY <1>10, ForceEndsOK
<1>11. CASE Return
  BY <1>11, ReturnOK
<1>12. CASE ReturnJump
  BY <1>12, ReturnJumpOK
<1>13. CASE Stop \/ UNCHANGED vars
  <2>1. UNCHANGED vars
    BY <1>13 DEF Stop
  <2> QED BY <2>1 DEF MachineOK, vars
<1> QED BY <1>1, <1>2, <1>3, <1>4, <1>5, <1>6, <1>7, <1>8, <1>9, <1>10, <1>11, <1>12, <1>13 DEF Next

\* The stack of activations is as calls, promises and returns have built it: what
\* a callee or a called function returns to is at that call, a callee that a promise
\* returns to has forced it, and the outermost activation is a function's.
THEOREM StackAlwaysOK == Spec => []MachineOK
BY InitOK, NextOK, PTL DEF Spec

LEMMA MachineTypes == MachineOK => ETypeOK
<1> SUFFICES ASSUME MachineOK PROVE ETypeOK
  OBVIOUS
<1>1. StackOK(frames, code) /\ IsSequence(frames) /\ Len(frames) \in Nat /\ Len(code) \in Nat
  BY DEF MachineOK, StackOK, CodeOK
<1>2. PICK S : frames \in Seq(S)
  BY <1>1 DEF IsSequence
<1>3. frames = <<>> <=> Len(frames) = 0
  BY <1>2
<1>4. ASSUME NEW d \in 1..Len(frames) PROVE FrameOK(frames[d])
  <2>1. PICK f : f = frames[d]
    OBVIOUS
  <2>2. FrameGood(f, code)
    BY <1>1, <2>1 DEF StackOK
  <2>3. CASE f.kind = "callee"
    <3>1. f.todo \in Seq(0..Len(code))
      BY <2>2, <2>3 DEF FrameGood
    <3>2. \A v \in Range(f.todo) : v \in 0..Len(code)
      BY <3>1 DEF Range
    <3>3. Range(f.todo) \subseteq {Unset} \cup 1..Len(code)
      BY <1>1, <3>2 DEF Unset
    <3> QED BY <2>1, <2>3, <3>3 DEF FrameOK
  <2>4. CASE f.kind # "callee"
    BY <2>1, <2>2, <2>4 DEF FrameGood, FrameOK
  <2> QED BY <2>3, <2>4
<1>5. frames # <<>> => Last(frames).kind = "function"
  BY <1>1, <1>2, <1>3 DEF StackOK, Last
<1> QED BY <1>3, <1>4, <1>5 DEF MachineOK, ETypeOK

\* Every activation is always at an instruction of a block that exists, and the
\* run has its result when no activation is left, for all programs (ETypeOK).
THEOREM ActivationsAtInstructions == Spec => []ETypeOK
BY StackAlwaysOK, MachineTypes, PTL
=============================================================================
