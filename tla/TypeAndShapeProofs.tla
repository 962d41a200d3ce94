------------------------- MODULE TypeAndShapeProofs -------------------------
(***************************************************************************)
(* Arithmetic that is rewritten on the strength of the type analysis meets *)
(* scalars of the kind it expects: a simulation of the executions of a     *)
(* function by the states of its analysis, for every analysable function   *)
(* and every set of blocks and names.                                      *)
(***************************************************************************)
EXTENDS TypeAndShape, ForwardAnalysisProofs, WellFoundedInduction

\* The driver runs the type analysis.
TypeAnalysis ==
    /\ Value = TypeInfo /\ Bottom = NoType
    /\ \A v, w \in TypeInfo :
          MergeValues(v, w) = MergeTypes(v, w) /\ (Changes(v, w) <=> TypesChange(v, w))
    /\ \A f \in Function, b \in Block : \A s : Transfer(f.code[b], s) = TypeTransfer(f.code[b], s)

AllAnalysable == \A f \in Function : Analysable(f)

----------------------------------------------------------------------------
(* The invariant                                                           *)

\* Variables that the function assigns.
Assigned(f, x) == \E b \in Block : BlockAssigns(f, b, x)

\* Nothing is known by Bottom, and no variable that is not assigned.
Definite(f, s) ==
    /\ IsState(s)
    /\ \A n \in DOMAIN s : s[n].types # {}
    /\ \A x \in Var \cap DOMAIN s : Assigned(f, x)

\* What a state that arrives at the block b knows: at the entry nothing, elsewhere all
\* variables that the function assigns and all registers of dominating blocks.
Arrives(f, b, s) ==
    /\ Definite(f, s)
    /\ b = Entry => DOMAIN s = {}
    /\ b # Entry => \A x \in Var : Assigned(f, x) => x \in DOMAIN s
    /\ \A d \in Block, S \in SUBSET Block : Around(f, d, S) /\ b \notin S =>
          \A r \in Register : ~Phi(f, r) /\ BlockAssigns(f, d, r) => r \in DOMAIN s

\* What the state t knows after k instructions of b, analysed from s.
Knows(f, b, s, k, t) ==
    /\ Definite(f, t) /\ DOMAIN s \subseteq DOMAIN t
    /\ \A j \in 1..k : \A n \in Name :
          Assigns(f.code[b][j], n) /\ ~Phi(f, n) => n \in DOMAIN t

Arrival(f) == {item \in Item : Arrives(f, item.block, item.state)}

\* Only such states arrive, no block keeps more than it was analysed from, and the
\* entry is the first to have a state.
Arrivals ==
    /\ queue \in Seq(Arrival(function))
    /\ \A b \in DOMAIN states : Arrives(function, b, states[b]) /\ states[b] = ran[b]
    /\ Entry \in DOMAIN states \/ (queue # <<>> /\ Head(queue).block = Entry)

\* A type that says nothing but Float, or Integer, says the truth.
Sound(type, class) ==
    /\ type.types \subseteq {"Float"} => class = "dbl"
    /\ type.types \subseteq {"Integer"} => class = "int"

\* Registers and variables have values, with the kinds g and e, of the types that the
\* state t has.
Fits(f, t, g, e) ==
    /\ \A r \in DOMAIN g : ~Phi(f, r) => r \in DOMAIN t /\ Sound(t[r], g[r])
    /\ \A x \in Var \cap DOMAIN t : Sound(t[x], e[x])

\* Registers of dominating blocks and of previous instructions have been assigned.
RegistersSet ==
    /\ DOMAIN regs \subseteq Register
    /\ \A d \in Block, S \in SUBSET Block : Around(function, d, S) /\ at.block \notin S =>
          \A r \in Register : BlockAssigns(function, d, r) => r \in DOMAIN regs
    /\ \A j \in 1..(at.k - 1) : \A r \in Register : Assigns(Code[j], r) => r \in DOMAIN regs

Execution ==
    /\ at \in [block : Block \cup {None}, k : Nat]
    /\ ~Running => DOMAIN regs = {}
    /\ Running =>
          /\ Analysed /\ at.block \in DOMAIN states
          /\ at.k \in 1..(Len(Code) + 1) /\ DOMAIN env = Var
          /\ RegistersSet
          /\ Fits(function, TypesAfter(Code, states[at.block])[at.k - 1], regs, env)

TypesInv == Inv /\ Arrivals /\ Execution

----------------------------------------------------------------------------
(* Induction, and the states after the instructions of a block             *)

LEMMA Induction ==
    ASSUME NEW T, 0 \in T, \A n \in Nat : n \in T => n + 1 \in T
    PROVE  Nat \subseteq T
<1> DEFINE R == OpToRel(<, Nat)
<1>1. IsWellFoundedOn(R, Nat)
  BY NatLessThanWellFounded
<1>2. \A x, y \in Nat : x < y => <<x, y>> \in R
  BY DEF OpToRel
<1> HIDE DEF R
<1> SUFFICES ASSUME Nat \ T # {} PROVE FALSE
  OBVIOUS
<1>3. PICK x \in Nat \ T : \A y \in Nat \ T : ~(<<y, x>> \in R)
  BY <1>1, WFMin
<1>4. x # 0 /\ x - 1 \in Nat /\ x - 1 < x
  BY <1>3
<1>5. x - 1 \notin Nat \ T
  BY <1>2, <1>3, <1>4
<1>6. (x - 1) + 1 \in T
  BY <1>4, <1>5
<1> QED BY <1>3, <1>6

\* The equation that defines the states after the first n instructions.
IsAfter(g, n, code, s) == g = [k \in 0..n |-> IF k = 0 THEN s ELSE After(g[k - 1], code[k])]

\* The recursive definition has a solution.
LEMMA AfterExists ==
    ASSUME NEW code, NEW s, NEW n \in Nat
    PROVE  \E g : IsAfter(g, n, code, s)
<1> DEFINE T == {m \in Nat : \E g : IsAfter(g, m, code, s)}
<1>1. 0 \in T
  <2>1. IsAfter([k \in 0..0 |-> s], 0, code, s)
    BY DEF IsAfter
  <2> QED BY <2>1
<1>2. ASSUME NEW m \in Nat, m \in T PROVE m + 1 \in T
  <2>1. PICK g : IsAfter(g, m, code, s)
    BY <1>2
  <2> DEFINE h == [k \in 0..(m + 1) |-> IF k = m + 1 THEN After(g[m], code[m + 1]) ELSE g[k]]
  <2>2. \A k \in 0..(m + 1) : h[k] = IF k = 0 THEN s ELSE After(h[k - 1], code[k])
    <3> SUFFICES ASSUME NEW k \in 0..(m + 1)
                 PROVE  h[k] = IF k = 0 THEN s ELSE After(h[k - 1], code[k])
      OBVIOUS
    <3>1. CASE k = m + 1
      <4>1. h[k] = After(g[m], code[m + 1]) /\ k # 0 /\ k - 1 = m /\ h[m] = g[m]
        BY <3>1
      <4> HIDE DEF h
      <4> QED BY <4>1, <3>1
    <3>2. CASE k = 0
      BY <2>1, <3>2 DEF IsAfter
    <3>3. CASE k # 0 /\ k # m + 1
      <4>1. k \in 0..m /\ k - 1 \in 0..m /\ h[k] = g[k] /\ h[k - 1] = g[k - 1]
        BY <3>3
      <4>2. g[k] = After(g[k - 1], code[k])
        BY <2>1, <4>1, <3>3 DEF IsAfter
      <4> HIDE DEF h
      <4> QED BY <4>1, <4>2, <3>3
    <3> QED BY <3>1, <3>2, <3>3
  <2>3. IsAfter(h, m + 1, code, s)
    BY <2>2, Zenon DEF IsAfter
  <2> QED BY <2>3
<1> HIDE DEF T
<1>3. Nat \subseteq T
  BY <1>1, <1>2, Induction
<1> QED BY <1>3 DEF T

\* The states after the instructions are what the recursion says.
LEMMA AfterIs ==
    ASSUME NEW code, NEW s, Len(code) \in Nat
    PROVE  /\ TypesAfter(code, s)[0] = s
           /\ \A k \in 1..Len(code) :
                 TypesAfter(code, s)[k] = After(TypesAfter(code, s)[k - 1], code[k])
<1> DEFINE t == TypesAfter(code, s)
<1>1. PICK g : IsAfter(g, Len(code), code, s)
  BY AfterExists
<1>2. t = CHOOSE h : IsAfter(h, Len(code), code, s)
  BY DEF TypesAfter, IsAfter
<1>3. IsAfter(t, Len(code), code, s)
  BY <1>1, <1>2
<1> HIDE DEF t
<1>4. t[0] = s /\ \A k \in 1..Len(code) : t[k] = After(t[k - 1], code[k])
  BY <1>3 DEF IsAfter
<1> QED BY <1>4 DEF t

\* What holds before the first instruction, and after each if it does before, holds
\* after all of them: T are the k after which it holds.
LEMMA AfterInduction ==
    ASSUME NEW len \in Nat, NEW T, 0 \in T, \A k \in 1..len : k - 1 \in T => k \in T
    PROVE  \A k \in 0..len : k \in T
<1> DEFINE U == {k \in Nat : k <= len => k \in T}
<1>1. 0 \in U
  OBVIOUS
<1>2. ASSUME NEW n \in Nat, n \in U PROVE n + 1 \in U
  <2>1. CASE n + 1 <= len
    <3>1. n \in T /\ n + 1 \in 1..len /\ (n + 1) - 1 = n
      BY <1>2, <2>1
    <3> QED BY <3>1
  <2>2. CASE ~(n + 1 <= len)
    BY <2>2
  <2> QED BY <2>1, <2>2
<1> HIDE DEF U
<1>3. Nat \subseteq U
  BY <1>1, <1>2, Induction
<1>4. ASSUME NEW k \in 0..len PROVE k \in T
  <2>1. k \in Nat /\ k <= len
    OBVIOUS
  <2> QED BY <2>1, <1>3 DEF U
<1> QED BY <1>4

----------------------------------------------------------------------------
(* The analysis of an instruction                                          *)

LEMMA AssignTyped ==
    ASSUME NEW s, IsState(s), NEW n \in Name, NEW v \in Value
    PROVE  /\ IsState(Assign(s, n, v)) /\ DOMAIN Assign(s, n, v) = DOMAIN s \cup {n}
           /\ Assign(s, n, v)[n] = v
           /\ \A m \in DOMAIN s : m # n => Assign(s, n, v)[m] = s[m]
BY DEF Assign, IsState

LEMMA TypesMerge ==
    ASSUME NEW v \in TypeInfo, NEW w \in TypeInfo
    PROVE  MergeTypes(v, w) \in TypeInfo /\ MergeTypes(v, w).types = v.types \cup w.types
BY DEF MergeTypes, TypeInfo

LEMMA ConstantTypes ==
    /\ \A class \in Class : TypeOf(class) \in TypeInfo /\ TypeOf(class).types # {}
    /\ NoType \in TypeInfo /\ AnyType \in TypeInfo /\ AnyType.types = {"Any"} /\ NoType.types = {}
<1>1. Len(Sizes) = 3
  BY DEF Sizes
<1> QED BY <1>1 DEF Class, TypeOf, TypeInfo, Types, NoType, AnyType, Scalar

LEMMA GetType ==
    ASSUME TypeAnalysis, NEW s, IsState(s), NEW n
    PROVE  Get(s, n) \in TypeInfo
BY ConstantTypes DEF TypeAnalysis, IsState, Get

LEMMA InstructionKinds ==
    ASSUME NEW i, IsInstruction(i)
    PROVE  i.op \in {"const", "get", "set", "call", "phi", "add", "div"}
BY DEF IsInstruction, Arithmetic

\* The states after the instructions of each kind.
LEMMA AfterKinds ==
    ASSUME NEW s, NEW i
    PROVE  /\ i.op = "const" => After(s, i) = Assign(s, i.to, TypeOf(i.class))
           /\ i.op = "get" => After(s, i) =
                 Assign(s, i.to, IF i.var \in DOMAIN s THEN s[i.var] ELSE AnyType)
           /\ i.op = "set" => After(s, i) =
                 IF i.from \in DOMAIN s THEN Assign(s, i.var, s[i.from]) ELSE s
           /\ i.op \in Arithmetic => After(s, i) =
                 Assign(Assign(Assign(s, i.lhs, Get(s, i.lhs)), i.rhs, Get(s, i.rhs)),
                        i.to, MergeTypes(Get(s, i.lhs), Get(s, i.rhs)))
           /\ i.op = "call" => After(s, i) =
                 Assign([n \in DOMAIN s |-> IF n \in Var THEN AnyType ELSE s[n]], i.to, AnyType)
           /\ i.op = "phi" => After(s, i) = s
BY DEF After, Arithmetic

LEMMA InstructionFields ==
    ASSUME NEW i, IsInstruction(i)
    PROVE  /\ i.op = "const" => i.to \in Register /\ i.class \in Class
           /\ i.op = "get" => i.to \in Register /\ i.var \in Var
           /\ i.op = "set" => i.from \in Register /\ i.var \in Var
           /\ i.op \in Arithmetic => {i.to, i.lhs, i.rhs} \subseteq Register
           /\ i.op \in {"call", "phi"} => i.to \in Register
           /\ Register \subseteq Name
BY DEF IsInstruction, Register, Arithmetic

\* A call forgets the types of variables.
Forget(s) == [n \in DOMAIN s |-> IF n \in Var THEN AnyType ELSE s[n]]

LEMMA ForgetTyped ==
    ASSUME TypeAnalysis, NEW s, IsState(s)
    PROVE  IsState(Forget(s)) /\ DOMAIN Forget(s) = DOMAIN s
BY ConstantTypes DEF TypeAnalysis, IsState, Forget

\* An instruction makes a state from a state, which knows at least the same names.
LEMMA AfterTyped ==
    ASSUME TypeAnalysis, NEW s, IsState(s), NEW i, IsInstruction(i)
    PROVE  IsState(After(s, i)) /\ DOMAIN s \subseteq DOMAIN After(s, i)
<1>0. Value = TypeInfo /\ Register \subseteq Name /\ Var \subseteq Name
  BY NameAssumption DEF TypeAnalysis, Register
<1> DEFINE Fine(u) == IsState(u) /\ DOMAIN s \subseteq DOMAIN u
<1>a. ASSUME NEW u, Fine(u), NEW n \in Name, NEW v \in Value
      PROVE  Fine(Assign(u, n, v))
  <2>1. IsState(u) /\ DOMAIN s \subseteq DOMAIN u
    BY <1>a
  <2>2. IsState(Assign(u, n, v)) /\ DOMAIN Assign(u, n, v) = DOMAIN u \cup {n}
    BY <2>1, AssignTyped
  <2> QED BY <2>1, <2>2
<1>s. Fine(s)
  OBVIOUS
<1> HIDE DEF Fine
<1>1. CASE i.op = "const"
  <2>1. i.to \in Name /\ TypeOf(i.class) \in Value
    BY <1>0, <1>1, InstructionFields, ConstantTypes
  <2>2. Fine(Assign(s, i.to, TypeOf(i.class)))
    BY <2>1, <1>a, <1>s
  <2> QED BY <2>2, <1>1, AfterKinds DEF Fine
<1>2. CASE i.op = "get"
  <2> DEFINE v == IF i.var \in DOMAIN s THEN s[i.var] ELSE AnyType
  <2>1. i.to \in Name /\ v \in Value
    BY <1>0, <1>2, InstructionFields, ConstantTypes DEF IsState
  <2>2. After(s, i) = Assign(s, i.to, v)
    BY <1>2, AfterKinds
  <2> HIDE DEF v
  <2>3. Fine(Assign(s, i.to, v))
    BY <2>1, <1>a, <1>s
  <2> QED BY <2>2, <2>3 DEF Fine
<1>3. CASE i.op = "set"
  <2>1. CASE i.from \in DOMAIN s
    <3>1. i.var \in Name /\ s[i.from] \in Value
      BY <1>0, <1>3, <2>1, InstructionFields DEF IsState
    <3>2. Fine(Assign(s, i.var, s[i.from]))
      BY <3>1, <1>a, <1>s
    <3> QED BY <3>2, <1>3, <2>1, AfterKinds DEF Fine
  <2>2. CASE i.from \notin DOMAIN s
    BY <2>2, <1>3, AfterKinds
  <2> QED BY <2>1, <2>2
<1>4. CASE i.op \in Arithmetic
  <2> DEFINE l == Get(s, i.lhs)
             r == Get(s, i.rhs)
  <2>1. l \in Value /\ r \in Value
    BY <1>0, GetType
  <2>2. MergeTypes(l, r) \in Value
    BY <1>0, <2>1, TypesMerge
  <2>3. i.lhs \in Name /\ i.rhs \in Name /\ i.to \in Name
    BY <1>0, <1>4, InstructionFields
  <2>4. After(s, i) = Assign(Assign(Assign(s, i.lhs, l), i.rhs, r), i.to, MergeTypes(l, r))
    BY <1>4, AfterKinds
  <2> HIDE DEF l, r
  <2>5. Fine(Assign(s, i.lhs, l))
    BY <2>1, <2>3, <1>a, <1>s
  <2>6. Fine(Assign(Assign(s, i.lhs, l), i.rhs, r))
    BY <2>1, <2>3, <2>5, <1>a
  <2>7. Fine(After(s, i))
    BY <2>2, <2>3, <2>4, <2>6, <1>a
  <2> QED BY <2>7 DEF Fine
<1>5. CASE i.op = "call"
  <2>1. Fine(Forget(s))
    BY ForgetTyped DEF Fine
  <2>2. After(s, i) = Assign(Forget(s), i.to, AnyType)
    BY <1>5, AfterKinds DEF Forget
  <2>3. i.to \in Name /\ AnyType \in Value
    BY <1>0, <1>5, InstructionFields, ConstantTypes
  <2> QED BY <2>1, <2>2, <2>3, <1>a DEF Fine
<1>6. CASE i.op = "phi"
  BY <1>6, AfterKinds
<1> QED BY <1>1, <1>2, <1>3, <1>4, <1>5, <1>6, InstructionKinds DEF Arithmetic

\* If the operands are known, arithmetic only assigns its result.
LEMMA AfterArithmetic ==
    ASSUME TypeAnalysis, NEW s, IsState(s), NEW i, IsInstruction(i), i.op \in Arithmetic,
           i.lhs \in DOMAIN s, i.rhs \in DOMAIN s
    PROVE  After(s, i) = Assign(s, i.to, MergeTypes(s[i.lhs], s[i.rhs]))
<1>1. Get(s, i.lhs) = s[i.lhs] /\ Get(s, i.rhs) = s[i.rhs]
  BY DEF Get
<1>2. ASSUME NEW n \in DOMAIN s PROVE Assign(s, n, s[n]) = s
  <2>1. DOMAIN s \cup {n} = DOMAIN s
    OBVIOUS
  <2>2. Assign(s, n, s[n]) = [m \in DOMAIN s |-> s[m]]
    BY <2>1 DEF Assign
  <2> QED BY <2>2 DEF IsState
<1>3. Assign(s, i.lhs, s[i.lhs]) = s /\ Assign(s, i.rhs, s[i.rhs]) = s
  BY <1>2
<1>4. After(s, i) = Assign(Assign(Assign(s, i.lhs, Get(s, i.lhs)), i.rhs, Get(s, i.rhs)),
                           i.to, MergeTypes(Get(s, i.lhs), Get(s, i.rhs)))
  BY AfterKinds
<1> QED BY <1>1, <1>3, <1>4

\* An instruction whose operands are known keeps states definite, and makes what it
\* assigns known, unless it is a phi.
LEMMA AfterDefinite ==
    ASSUME TypeAnalysis, NEW f, NEW s, Definite(f, s), NEW i, IsInstruction(i),
           Operands(i) \subseteq DOMAIN s, i.op = "set" => Assigned(f, i.var)
    PROVE  /\ Definite(f, After(s, i)) /\ DOMAIN s \subseteq DOMAIN After(s, i)
           /\ i.op # "phi" => \A n : Assigns(i, n) => n \in DOMAIN After(s, i)
<1>0. Value = TypeInfo /\ Register \subseteq Name /\ Var \subseteq Name /\ Register \cap Var = {}
  BY NameAssumption DEF TypeAnalysis, Register
<1> DEFINE Fine(u) == Definite(f, u) /\ DOMAIN s \subseteq DOMAIN u
<1>1. ASSUME NEW u, Fine(u), NEW n \in Name, NEW v \in Value, v.types # {},
             n \in Var => Assigned(f, n)
      PROVE  Fine(Assign(u, n, v)) /\ n \in DOMAIN Assign(u, n, v)
  <2>1. IsState(u) /\ DOMAIN s \subseteq DOMAIN u
    BY <1>1 DEF Definite
  <2>2. /\ IsState(Assign(u, n, v)) /\ DOMAIN Assign(u, n, v) = DOMAIN u \cup {n}
        /\ Assign(u, n, v)[n] = v
        /\ \A m \in DOMAIN u : m # n => Assign(u, n, v)[m] = u[m]
    BY <2>1, AssignTyped
  <2>3. \A m \in DOMAIN Assign(u, n, v) : Assign(u, n, v)[m].types # {}
    BY <1>1, <2>2 DEF Definite
  <2>4. \A x \in Var \cap DOMAIN Assign(u, n, v) : Assigned(f, x)
    BY <1>1, <2>2 DEF Definite
  <2> QED BY <2>1, <2>2, <2>3, <2>4 DEF Definite
<1>2. Fine(s)
  OBVIOUS
<1>3. IsState(s) /\ \A n \in DOMAIN s : s[n] \in Value /\ s[n].types # {}
  BY DEF Definite, IsState
<1> HIDE DEF Fine
<1> SUFFICES /\ Fine(After(s, i))
             /\ i.op \in Arithmetic \cup {"const", "get", "call"} => i.to \in DOMAIN After(s, i)
             /\ i.op = "set" => i.var \in DOMAIN After(s, i)
  BY InstructionKinds DEF Fine, Assigns, Arithmetic
<1>4. CASE i.op = "const"
  <2>1. i.to \in Register /\ TypeOf(i.class) \in Value /\ TypeOf(i.class).types # {}
    BY <1>0, <1>4, InstructionFields, ConstantTypes
  <2>2. Fine(Assign(s, i.to, TypeOf(i.class))) /\ i.to \in DOMAIN Assign(s, i.to, TypeOf(i.class))
    BY <1>0, <2>1, <1>1, <1>2
  <2> QED BY <2>2, <1>4, AfterKinds
<1>5. CASE i.op = "get"
  <2> DEFINE v == IF i.var \in DOMAIN s THEN s[i.var] ELSE AnyType
  <2>1. i.to \in Register /\ v \in Value /\ v.types # {}
    BY <1>0, <1>3, <1>5, InstructionFields, ConstantTypes
  <2>2. After(s, i) = Assign(s, i.to, v)
    BY <1>5, AfterKinds
  <2> HIDE DEF v
  <2>3. Fine(Assign(s, i.to, v)) /\ i.to \in DOMAIN Assign(s, i.to, v)
    BY <1>0, <2>1, <1>1, <1>2
  <2> QED BY <2>2, <2>3, <1>5
<1>6. CASE i.op = "set"
  <2>1. i.from \in DOMAIN s
    BY <1>6 DEF Operands, Arithmetic
  <2>2. i.var \in Var /\ s[i.from] \in Value /\ s[i.from].types # {} /\ Assigned(f, i.var)
    BY <1>3, <1>6, <2>1, InstructionFields
  <2>3. Fine(Assign(s, i.var, s[i.from])) /\ i.var \in DOMAIN Assign(s, i.var, s[i.from])
    BY <1>0, <2>2, <1>1, <1>2
  <2>4. After(s, i) = Assign(s, i.var, s[i.from])
    BY <1>6, <2>1, AfterKinds
  <2> QED BY <2>3, <2>4, <1>6 DEF Arithmetic
<1>7. CASE i.op \in Arithmetic
  <2>1. i.lhs \in DOMAIN s /\ i.rhs \in DOMAIN s
    BY <1>7 DEF Operands, Arithmetic
  <2> DEFINE v == MergeTypes(s[i.lhs], s[i.rhs])
  <2>2. v \in Value /\ v.types # {}
    <3>1. s[i.lhs] \in TypeInfo /\ s[i.rhs] \in TypeInfo /\ s[i.lhs].types # {}
      BY <1>0, <1>3, <2>1
    <3>2. v \in TypeInfo /\ v.types = s[i.lhs].types \cup s[i.rhs].types
      BY <3>1, TypesMerge
    <3> HIDE DEF v
    <3> QED BY <1>0, <3>1, <3>2
  <2>3. i.to \in Register
    BY <1>7, InstructionFields
  <2>4. After(s, i) = Assign(s, i.to, v)
    BY <1>3, <1>7, <2>1, AfterArithmetic
  <2> HIDE DEF v
  <2>5. Fine(Assign(s, i.to, v)) /\ i.to \in DOMAIN Assign(s, i.to, v)
    BY <1>0, <2>2, <2>3, <1>1, <1>2
  <2> QED BY <2>4, <2>5, <1>7 DEF Arithmetic
<1>8. CASE i.op = "call"
  <2>1. Definite(f, Forget(s)) /\ DOMAIN Forget(s) = DOMAIN s
    <3>1. IsState(Forget(s)) /\ DOMAIN Forget(s) = DOMAIN s
      BY <1>3, ForgetTyped
    <3>2. \A n \in DOMAIN s : Forget(s)[n].types # {}
      BY <1>3, ConstantTypes DEF Forget
    <3> QED BY <3>1, <3>2 DEF Definite
  <2>2. After(s, i) = Assign(Forget(s), i.to, AnyType)
    BY <1>8, AfterKinds DEF Forget
  <2>3. i.to \in Register /\ AnyType \in Value /\ AnyType.types # {}
    BY <1>0, <1>8, InstructionFields, ConstantTypes
  <2>4. Fine(Forget(s))
    BY <2>1 DEF Fine
  <2>5. Fine(Assign(Forget(s), i.to, AnyType)) /\ i.to \in DOMAIN Assign(Forget(s), i.to, AnyType)
    BY <1>0, <2>3, <2>4, <1>1
  <2> QED BY <2>2, <2>5, <1>8
<1>9. CASE i.op = "phi"
  BY <1>2, <1>9, AfterKinds DEF Arithmetic
<1> QED BY <1>4, <1>5, <1>6, <1>7, <1>8, <1>9, InstructionKinds DEF Arithmetic

----------------------------------------------------------------------------
(* The analysis of a block                                                 *)

LEMMA CodeIs ==
    ASSUME NEW f \in Function, NEW b \in Block
    PROVE  /\ Len(f.code[b]) \in Nat /\ DOMAIN f.code[b] = 1..Len(f.code[b])
           /\ \A k \in 1..Len(f.code[b]) : IsInstruction(f.code[b][k])
BY CodeAssumption

\* The analysis makes states from states.
LEMMA TypesTyped == ASSUME TypeAnalysis PROVE TransferTyped
<1> SUFFICES ASSUME NEW f \in Function, NEW b \in Block, NEW s, IsState(s)
             PROVE  IsState(Transfer(f.code[b], s))
  BY DEF TransferTyped
<1>0. Transfer(f.code[b], s) = TypeTransfer(f.code[b], s)
  BY DEF TypeAnalysis
<1> DEFINE code == f.code[b]
           t == TypesAfter(code, s)
           T == {k \in 0..Len(code) : IsState(t[k])}
<1>1. /\ Len(code) \in Nat /\ \A k \in 1..Len(code) : IsInstruction(code[k])
  BY CodeIs
<1>2. t[0] = s /\ \A k \in 1..Len(code) : t[k] = After(t[k - 1], code[k])
  BY <1>1, AfterIs
<1> HIDE DEF code, t
<1>3. 0 \in T
  BY <1>1, <1>2
<1>4. ASSUME NEW k \in 1..Len(code), k - 1 \in T PROVE k \in T
  <2>1. IsState(t[k - 1])
    BY <1>4
  <2>2. IsState(After(t[k - 1], code[k]))
    BY <2>1, <1>1, AfterTyped
  <2>3. k \in 0..Len(code)
    BY <1>1
  <2> QED BY <2>2, <2>3, <1>2
<1> HIDE DEF T
<1>5. \A k \in 0..Len(code) : k \in T
  BY <1>1, <1>3, <1>4, AfterInduction
<1>6. Len(code) \in T
  BY <1>1, <1>5
<1> QED BY <1>0, <1>6 DEF T, t, code, TypeTransfer

\* The operands of an instruction are known before it.
LEMMA OperandsKnown ==
    ASSUME NEW f \in Function, Analysable(f), NEW b \in Block, NEW s, Arrives(f, b, s),
           NEW k \in DOMAIN f.code[b], NEW t, Knows(f, b, s, k - 1, t)
    PROVE  Operands(f.code[b][k]) \subseteq DOMAIN t
<1> SUFFICES ASSUME NEW r \in Operands(f.code[b][k]) PROVE r \in DOMAIN t
  OBVIOUS
<1>1. r \in Register /\ r \in Name
  BY CodeIs, InstructionFields DEF Operands
<1>2. ~Phi(f, r)
  BY DEF Analysable, PhisUnread
<1>3. \/ \E j \in 1..(k - 1) : Assigns(f.code[b][j], r)
      \/ \E d \in Block : Dominates(f, d, b) /\ BlockAssigns(f, d, r)
  BY DEF Analysable, Verified
<1>4. CASE \E j \in 1..(k - 1) : Assigns(f.code[b][j], r)
  BY <1>1, <1>2, <1>4 DEF Knows
<1>5. CASE \E d \in Block : Dominates(f, d, b) /\ BlockAssigns(f, d, r)
  <2>1. r \in DOMAIN s
    BY <1>1, <1>2, <1>5 DEF Dominates, Arrives
  <2> QED BY <2>1 DEF Knows
<1> QED BY <1>3, <1>4, <1>5

\* What is known after each instruction of a block.
LEMMA BlockKnows ==
    ASSUME TypeAnalysis, NEW f \in Function, Analysable(f), NEW b \in Block,
           NEW s, Arrives(f, b, s)
    PROVE  \A k \in 0..Len(f.code[b]) : Knows(f, b, s, k, TypesAfter(f.code[b], s)[k])
<1> DEFINE code == f.code[b]
           t == TypesAfter(code, s)
           T == {k \in 0..Len(code) : Knows(f, b, s, k, t[k])}
<1>1. /\ Len(code) \in Nat /\ DOMAIN code = 1..Len(code)
      /\ \A k \in 1..Len(code) : IsInstruction(code[k])
  BY CodeIs
<1>2. t[0] = s /\ \A k \in 1..Len(code) : t[k] = After(t[k - 1], code[k])
  BY <1>1, AfterIs
<1> HIDE DEF t
<1>3. 0 \in T
  BY <1>1, <1>2 DEF Knows, Arrives
<1>4. ASSUME NEW k \in 1..Len(code), k - 1 \in T PROVE k \in T
  <2>1. Knows(f, b, s, k - 1, t[k - 1])
    BY <1>4
  <2>2. Operands(code[k]) \subseteq DOMAIN t[k - 1]
    BY <1>1, <2>1, OperandsKnown
  <2>3. code[k].op = "set" => Assigned(f, code[k].var)
    BY <1>1 DEF Assigned, BlockAssigns, Assigns
  <2>4. Definite(f, t[k - 1]) /\ DOMAIN s \subseteq DOMAIN t[k - 1]
    BY <2>1 DEF Knows
  <2>5. /\ Definite(f, t[k]) /\ DOMAIN t[k - 1] \subseteq DOMAIN t[k]
        /\ code[k].op # "phi" => \A n : Assigns(code[k], n) => n \in DOMAIN t[k]
    <3> HIDE DEF code
    <3> QED BY <1>1, <1>2, <2>2, <2>3, <2>4, AfterDefinite
  <2>6. ASSUME NEW j \in 1..k, NEW n \in Name, Assigns(code[j], n), ~Phi(f, n)
        PROVE  n \in DOMAIN t[k]
    <3>1. CASE j = k
      <4>1. code[k].op # "phi"
        BY <1>1, <2>6, <3>1 DEF Phi, Assigns
      <4> QED BY <2>5, <2>6, <3>1, <4>1
    <3>2. CASE j # k
      <4>1. j \in 1..(k - 1)
        BY <1>1, <3>2
      <4>2. n \in DOMAIN t[k - 1]
        BY <2>1, <2>6, <4>1 DEF Knows
      <4> QED BY <4>2, <2>5
    <3> QED BY <3>1, <3>2
  <2>7. Knows(f, b, s, k, t[k])
    BY <2>4, <2>5, <2>6 DEF Knows
  <2>8. k \in 0..Len(code)
    BY <1>1
  <2> QED BY <2>7, <2>8
<1> HIDE DEF T
<1>5. \A k \in 0..Len(code) : k \in T
  <2> HIDE DEF code
  <2> QED BY <1>1, <1>3, <1>4, AfterInduction
<1> QED BY <1>5 DEF T, t

\* What a block passes on can arrive at its successors.
LEMMA OutArrives ==
    ASSUME TypeAnalysis, NEW f \in Function, Analysable(f), NEW b \in Block,
           NEW s, Arrives(f, b, s), NEW n \in DOMAIN f.succ[b]
    PROVE  Arrives(f, f.succ[b][n], Transfer(f.code[b], s))
<1> DEFINE code == f.code[b]
           t == TypesAfter(code, s)[Len(code)]
           c == f.succ[b][n]
<1>1. Len(code) \in Nat /\ DOMAIN code = 1..Len(code)
  BY CodeIs
<1>2. Transfer(f.code[b], s) = t
  BY DEF TypeAnalysis, TypeTransfer
<1>3. Knows(f, b, s, Len(code), t)
  <2> HIDE DEF code, t
  <2>1. Len(code) \in 0..Len(code)
    BY <1>1
  <2> QED BY <2>1, BlockKnows DEF code, t
<1>4. c # Entry
  BY DEF Analysable, Verified
<1> HIDE DEF t, c
<1>5. ASSUME NEW m \in Name, ~Phi(f, m), BlockAssigns(f, b, m) PROVE m \in DOMAIN t
  BY <1>1, <1>3, <1>5 DEF BlockAssigns, Knows
<1> HIDE DEF code
<1>6. ASSUME NEW x \in Var, Assigned(f, x) PROVE x \in DOMAIN t
  <2>1. x \in Name /\ ~Phi(f, x)
    BY NameAssumption, CodeIs, CodeAssumption, InstructionFields DEF Phi, Register
  <2>2. CASE b = Entry
    <3>1. BlockAssigns(f, b, x)
      BY <1>6, <2>2 DEF Analysable, AssignsFirst, Assigned
    <3> QED BY <2>1, <3>1, <1>5
  <2>3. CASE b # Entry
    BY <1>3, <1>6, <2>3 DEF Arrives, Knows
  <2> QED BY <2>2, <2>3
<1>7. ASSUME NEW d \in Block, NEW S \in SUBSET Block, Around(f, d, S), c \notin S,
             NEW r \in Register, ~Phi(f, r), BlockAssigns(f, d, r)
      PROVE  r \in DOMAIN t
  <2>1. CASE b \notin S
    BY <1>3, <1>7, <2>1 DEF Arrives, Knows
  <2>2. CASE b \in S
    <3>1. b = d
      BY <1>7, <2>2 DEF Around, c
    <3> QED BY <3>1, <1>5, <1>7 DEF Register
  <2> QED BY <2>1, <2>2
<1>8. Definite(f, t)
  BY <1>3 DEF Knows
<1> QED BY <1>2, <1>4, <1>6, <1>7, <1>8 DEF Arrives, c

\* Merged states can arrive too.
LEMMA MergeArrives ==
    ASSUME TypeAnalysis, NEW f, NEW b, NEW s, NEW t, Arrives(f, b, s), Arrives(f, b, t)
    PROVE  Arrives(f, b, MergeStates(s, t))
<1> DEFINE m == MergeStates(s, t)
<1>1. IsState(s) /\ IsState(t) /\ IsState(m) /\ DOMAIN m = DOMAIN s \cup DOMAIN t
  BY MergeTyped DEF Arrives, Definite, MergeStates
<1>2. ASSUME NEW n \in DOMAIN m PROVE m[n].types # {}
  <2>1. CASE n \in DOMAIN t
    <3>1. m[n] = MergeValues(Get(s, n), t[n])
      BY <2>1 DEF MergeStates
    <3>2. Get(s, n) \in TypeInfo /\ t[n] \in TypeInfo
      BY <1>1, <2>1, GetType DEF TypeAnalysis, IsState
    <3>3. m[n] = MergeTypes(Get(s, n), t[n])
      BY <3>1, <3>2 DEF TypeAnalysis
    <3>4. t[n].types # {}
      BY <2>1 DEF Arrives, Definite
    <3> QED BY <3>2, <3>3, <3>4, TypesMerge
  <2>2. CASE n \notin DOMAIN t
    <3>1. m[n] = s[n] /\ n \in DOMAIN s
      BY <1>2, <2>2 DEF MergeStates
    <3> QED BY <3>1 DEF Arrives, Definite
  <2> QED BY <2>1, <2>2
<1> HIDE DEF m
<1>3. Definite(f, m)
  BY <1>1, <1>2 DEF Arrives, Definite
<1> QED BY <1>1, <1>3 DEF Arrives, m

----------------------------------------------------------------------------
(* The driver                                                              *)

LEMMA ArrivalSeq ==
    ASSUME NEW f, NEW q \in Seq(Arrival(f)), q # <<>>
    PROVE  Head(q) \in Arrival(f) /\ Tail(q) \in Seq(Arrival(f))
OBVIOUS

\* What is queued for the successors of a block.
LEMMA ArrivalsEnqueued ==
    ASSUME TypeAnalysis, AllAnalysable, function \in Function, NEW b \in Block,
           NEW s, Arrives(function, b, s)
    PROVE  Enqueue(b, Transfer(function.code[b], s)) \in Seq(Arrival(function))
<1> DEFINE succ == function.succ[b]
           o == Transfer(function.code[b], s)
<1>1. succ \in Seq(Block)
  BY FunctionAssumption
<1>2. \A n \in DOMAIN succ : Arrives(function, succ[n], o)
  BY OutArrives DEF AllAnalysable
<1>3. \A n \in DOMAIN succ : [block |-> succ[n], state |-> o] \in Arrival(function)
  <2> SUFFICES ASSUME NEW n \in DOMAIN succ
               PROVE  [block |-> succ[n], state |-> o] \in Arrival(function)
    OBVIOUS
  <2>1. succ[n] \in Block /\ Arrives(function, succ[n], o)
    BY <1>1, <1>2
  <2> HIDE DEF succ, o
  <2>2. o \in State
    BY <2>1, StateIs DEF Arrives, Definite
  <2> QED BY <2>1, <2>2 DEF Arrival, Item
<1> HIDE DEF o
<1>4. /\ Len(Successors(b)) \in Nat
      /\ \A k \in 1..Len(Successors(b)) : \E n \in DOMAIN succ : Successors(b)[k] = succ[n]
  <2>1. CASE succ = <<>>
    BY <2>1 DEF Successors
  <2>2. CASE succ # <<>>
    <3>1. Successors(b) = Append(Tail(succ), Head(succ))
      BY <2>2 DEF Successors
    <3> HIDE DEF succ
    <3>2. Len(Successors(b)) = Len(succ) /\ Len(succ) \in Nat \ {0}
      BY <1>1, <2>2, <3>1
    <3>3. Successors(b)[Len(succ)] = succ[1] /\ 1 \in DOMAIN succ
      BY <1>1, <2>2, <3>1
    <3>4. \A k \in 1..(Len(succ) - 1) : Successors(b)[k] = succ[k + 1] /\ k + 1 \in DOMAIN succ
      BY <1>1, <2>2, <3>1
    <3>5. ASSUME NEW k \in 1..Len(Successors(b))
          PROVE  \E n \in DOMAIN succ : Successors(b)[k] = succ[n]
      <4>1. CASE k = Len(succ)
        BY <3>3, <4>1
      <4>2. CASE k # Len(succ)
        <5>1. k \in 1..(Len(succ) - 1)
          BY <3>2, <4>2
        <5> QED BY <5>1, <3>4
      <4> QED BY <4>1, <4>2
    <3> QED BY <3>2, <3>5
  <2> QED BY <2>1, <2>2
<1> HIDE DEF succ
<1>5. \A k \in 1..Len(Successors(b)) : [block |-> Successors(b)[k], state |-> o] \in Arrival(function)
  BY <1>3, <1>4
<1> QED BY <1>4, <1>5 DEF Enqueue, o

LEMMA RunArrivals ==
    ASSUME TypeAnalysis, AllAnalysable, Inv, Arrivals, queue # <<>>,
           NEW s, Arrives(function, Head(queue).block, s), Run(s)
    PROVE  Arrivals'
<1> DEFINE b == Head(queue).block
           e == Enqueue(b, Transfer(function.code[b], s))
<1>1. /\ states' = Put(states, b, s) /\ ran' = Put(ran, b, s)
      /\ queue' = Tail(queue) \o e /\ function' = function
  BY DEF Run
<1>2. Head(queue) \in Arrival(function) /\ Tail(queue) \in Seq(Arrival(function))
  BY ArrivalSeq DEF Arrivals
<1>3. b \in Block /\ function \in Function
  BY <1>2 DEF Arrival, Item, Inv, ATypeOK
<1>4. e \in Seq(Arrival(function))
  BY <1>3, ArrivalsEnqueued
<1> HIDE DEF e
<1>5. queue' \in Seq(Arrival(function))
  BY <1>1, <1>2, <1>4
<1>6. /\ DOMAIN states' = DOMAIN states \cup {b} /\ states'[b] = s /\ ran'[b] = s
      /\ \A c \in DOMAIN states : c # b => states'[c] = states[c] /\ ran'[c] = ran[c]
  <2>1. DOMAIN ran = DOMAIN states
    BY DEF Inv, ATypeOK
  <2> QED BY <1>1, <2>1 DEF Put
<1> HIDE DEF b
<1>7. \A c \in DOMAIN states' : Arrives(function, c, states'[c]) /\ states'[c] = ran'[c]
  BY <1>6 DEF Arrivals, b
<1>8. Entry \in DOMAIN states'
  BY <1>6 DEF Arrivals, b
<1> QED BY <1>1, <1>5, <1>7, <1>8 DEF Arrivals

\* A merge that reports no change makes none: a state knows nothing by Bottom.
LEMMA SettleArrivals ==
    ASSUME TypeAnalysis, Inv, Arrivals, Settle
    PROVE  Arrivals'
<1> DEFINE b == Head(queue).block
           t == Head(queue).state
           m == MergeStates(states[b], t)
<1>1. /\ b \in DOMAIN states /\ ~Changed(states[b], t) /\ states' = [states EXCEPT ![b] = m]
      /\ queue' = Tail(queue) /\ function' = function /\ ran' = ran /\ queue # <<>>
  BY DEF Settle
<1>2. Head(queue) \in Arrival(function) /\ Tail(queue) \in Seq(Arrival(function))
  BY <1>1, ArrivalSeq DEF Arrivals
<1>3. Arrives(function, b, t) /\ Arrives(function, b, states[b])
  BY <1>1, <1>2 DEF Arrival, Arrivals
<1>4. Arrives(function, b, m) /\ IsState(states[b]) /\ IsState(t)
  <2> HIDE DEF b, t
  <2>1. Arrives(function, b, m)
    BY <1>3, MergeArrives
  <2> QED BY <1>3, <2>1 DEF Arrives, Definite
<1>5. \A n \in DOMAIN m : m[n] = Get(states[b], n)
  BY <1>1, <1>4, MergeUnchanged
<1>6. DOMAIN m = DOMAIN states[b] \cup DOMAIN t /\ m = [n \in DOMAIN m |-> m[n]]
  BY DEF MergeStates
<1> HIDE DEF m, t, b
<1>7. ASSUME NEW n \in DOMAIN m PROVE n \in DOMAIN states[b]
  <2>1. m[n].types # {}
    BY <1>4 DEF Arrives, Definite
  <2> QED BY <2>1, <1>5, ConstantTypes DEF Get, TypeAnalysis
<1>8. m = states[b]
  <2>1. DOMAIN m = DOMAIN states[b]
    BY <1>6, <1>7
  <2>2. \A n \in DOMAIN m : m[n] = states[b][n]
    BY <1>5, <1>7 DEF Get
  <2>3. states[b] = [n \in DOMAIN states[b] |-> states[b][n]]
    BY <1>4 DEF IsState
  <2> QED BY <2>1, <2>2, <2>3, <1>6
<1>9. DOMAIN states' = DOMAIN states /\ \A c \in DOMAIN states : states'[c] = states[c]
  BY <1>1, <1>8
<1>10. \A c \in DOMAIN states' : Arrives(function, c, states'[c]) /\ states'[c] = ran'[c]
  BY <1>1, <1>9 DEF Arrivals
<1>11. Entry \in DOMAIN states'
  BY <1>1, <1>9 DEF Arrivals, b
<1> QED BY <1>1, <1>2, <1>10, <1>11 DEF Arrivals

LEMMA ArrivalsNext ==
    ASSUME TypeAnalysis, AllAnalysable, Inv, Arrivals, ANext
    PROVE  Arrivals'
<1>1. queue # <<>>
  BY DEF ANext, Visit, Revisit, Settle
<1>2. Arrives(function, Head(queue).block, Head(queue).state)
  BY <1>1, ArrivalSeq DEF Arrivals, Arrival
<1>3. CASE Visit
  BY <1>1, <1>2, <1>3, RunArrivals DEF Visit
<1>4. CASE Revisit
  <2> DEFINE s == MergeStates(states[Head(queue).block], Head(queue).state)
  <2>1. Head(queue).block \in DOMAIN states /\ Run(s)
    BY <1>4 DEF Revisit
  <2>2. Arrives(function, Head(queue).block, s)
    BY <1>2, <2>1, MergeArrives DEF Arrivals
  <2> HIDE DEF s
  <2> QED BY <1>1, <2>1, <2>2, RunArrivals
<1>5. CASE Settle
  BY <1>5, SettleArrivals
<1> QED BY <1>3, <1>4, <1>5 DEF ANext

LEMMA ArrivalsInit == ASSUME AInit PROVE Arrivals
<1>1. /\ queue = <<[block |-> Entry, state |-> Unknown]>> /\ DOMAIN states = {}
  BY DEF AInit
<1>2. DOMAIN Unknown = {} /\ IsState(Unknown)
  BY DEF Unknown, IsState
<1>3. Arrives(function, Entry, Unknown)
  BY <1>2 DEF Arrives, Definite, Around
<1>4. [block |-> Entry, state |-> Unknown] \in Arrival(function)
  BY <1>2, <1>3, StateIs, BlockAssumption DEF Arrival, Item
<1> QED BY <1>1, <1>4 DEF Arrivals

----------------------------------------------------------------------------
(* Executions                                                              *)

LEMMA AnalyseExecution == ASSUME Execution, Analyse PROVE Execution'
<1>1. queue # <<>> /\ UNCHANGED evars
  BY DEF Analyse, ANext, Visit, Revisit, Settle
<1> QED BY <1>1 DEF Execution, evars, Running, Analysed

LEMMA EnterExecution == ASSUME Inv, Arrivals, Execution, Enter PROVE Execution'
<1>1. /\ queue = <<>> /\ ~Running /\ at' = [block |-> Entry, k |-> 1] /\ DOMAIN env' = Var
      /\ UNCHANGED <<avars, from, regs>>
  BY DEF Enter, Analysed
<1>2. /\ Entry \in DOMAIN states /\ Arrives(function, Entry, states[Entry])
      /\ function \in Function /\ Entry \in Block
  BY <1>1, BlockAssumption DEF Arrivals, Inv, ATypeOK
<1> DEFINE code == function.code[Entry]
<1>3. Len(code) \in Nat /\ TypesAfter(code, states[Entry])[0] = states[Entry]
  BY <1>2, CodeIs, AfterIs
<1>4. DOMAIN regs = {} /\ DOMAIN states[Entry] = {}
  BY <1>1, <1>2 DEF Execution, Arrives
<1>5. Code' = code /\ at'.block = Entry /\ at'.k = 1 /\ at'.k - 1 = 0
  BY <1>1 DEF Code, avars
<1>6. RegistersSet'
  BY <1>1, <1>4, <1>5 DEF RegistersSet, Around
<1>7. Fits(function, TypesAfter(code, states[Entry])[0], regs, env')
  BY <1>3, <1>4 DEF Fits
<1> HIDE DEF code
<1>8. at'.k \in 1..(Len(code) + 1) /\ at' \in [block : Block \cup {None}, k : Nat]
  BY <1>1, <1>2, <1>3, <1>5
<1>9. Running' /\ Analysed' /\ at'.block \in DOMAIN states
  BY <1>1, <1>2, <1>5, NameAssumption DEF Running, Analysed, avars
<1> QED BY <1>1, <1>5, <1>6, <1>7, <1>8, <1>9 DEF Execution, avars

\* A register is assigned a value of a type that is said of it.
LEMMA FitsRegister ==
    ASSUME NEW f, NEW t, NEW g, NEW e, Fits(f, t, g, e), NEW r \in Register,
           NEW v, NEW class, Sound(v, class)
    PROVE  Fits(f, Assign(t, r, v), Assign(g, r, class), e)
BY DEF Fits, Assign, Register

\* A phi, of which nothing is said, is assigned any value.
LEMMA FitsPhi ==
    ASSUME NEW f, NEW t, NEW g, NEW e, Fits(f, t, g, e), NEW r, Phi(f, r), NEW class
    PROVE  Fits(f, t, Assign(g, r, class), e)
BY DEF Fits, Assign

\* A variable is assigned what a register has.
LEMMA FitsVariable ==
    ASSUME NEW f, NEW t, NEW g, NEW e, Fits(f, t, g, e), NEW x \in Var, DOMAIN e = Var,
           NEW r \in DOMAIN g, ~Phi(f, r), DOMAIN g \subseteq Register
    PROVE  Fits(f, Assign(t, x, t[r]), g, [e EXCEPT ![x] = g[r]])
BY DEF Fits, Assign, Register

\* After a call variables have any values.
LEMMA FitsForget ==
    ASSUME NEW f, NEW t, NEW g, NEW e, Fits(f, t, g, e), DOMAIN g \subseteq Register, NEW h
    PROVE  Fits(f, Forget(t), g, h)
<1>1. Sound(AnyType, "other") /\ \A class : Sound(AnyType, class)
  BY ConstantTypes DEF Sound
<1> QED BY <1>1 DEF Fits, Forget, Register

LEMMA SoundConstants == \A class \in Class : Sound(TypeOf(class), class)
BY DEF Class, TypeOf, Sound

\* Arithmetic without division has a result of the merged types.
LEMMA SoundResults ==
    ASSUME NEW v \in TypeInfo, NEW w \in TypeInfo, NEW a, NEW b, Sound(v, a), Sound(w, b),
           NEW class \in Results("add", a, b)
    PROVE  Sound(MergeTypes(v, w), class)
BY TypesMerge DEF Sound, Results

\* What is true of a value stays true when more types are merged.
LEMMA SoundMerged ==
    ASSUME TypeAnalysis, NEW v \in TypeInfo, NEW w \in TypeInfo, MergeValues(w, v) = w,
           NEW class, Sound(v, class)
    PROVE  Sound(w, class)
<1>1. MergeTypes(w, v) = w
  BY DEF TypeAnalysis
<1>2. v.types \subseteq w.types
  BY <1>1, TypesMerge
<1> QED BY <1>2 DEF Sound

\* What holds when an execution stands before an instruction.
LEMMA Standing ==
    ASSUME TypeAnalysis, AllAnalysable, Inv, Arrivals, Execution, Running, at.k <= Len(Code)
    PROVE  LET t == TypesAfter(Code, states[at.block])[at.k - 1]
           IN  /\ function \in Function /\ at.block \in Block
               /\ at.k \in DOMAIN Code /\ IsInstruction(Instruction)
               /\ IsState(t) /\ Operands(Instruction) \subseteq DOMAIN t
               /\ \A r \in Operands(Instruction) : r \in DOMAIN regs /\ ~Phi(function, r)
               /\ TypesAfter(Code, states[at.block])[at.k] = After(t, Instruction)
               /\ Fits(function, t, regs, env)
<1> DEFINE b == at.block
           s == states[b]
           t == TypesAfter(Code, s)[at.k - 1]
<1>1. function \in Function /\ b \in DOMAIN states /\ b \in Block /\ Analysable(function)
  BY DEF Execution, Inv, ATypeOK, AllAnalysable
<1>2. /\ Len(Code) \in Nat /\ DOMAIN Code = 1..Len(Code)
      /\ \A k \in 1..Len(Code) : IsInstruction(Code[k])
  BY <1>1, CodeIs DEF Code
<1>3. at.k \in 1..Len(Code) /\ at.k - 1 \in 0..Len(Code)
  BY <1>2 DEF Execution
<1>4. Arrives(function, b, s)
  BY <1>1 DEF Arrivals
<1>5. Knows(function, b, s, at.k - 1, t)
  BY <1>1, <1>3, <1>4, BlockKnows DEF Code
<1>6. Operands(Instruction) \subseteq DOMAIN t
  BY <1>1, <1>2, <1>3, <1>4, <1>5, OperandsKnown DEF Code, Instruction
<1>7. IsInstruction(Instruction)
  BY <1>2, <1>3 DEF Instruction
<1>8. ASSUME NEW r \in Operands(Instruction) PROVE r \in DOMAIN regs /\ ~Phi(function, r)
  <2>1. r \in Register
    BY <1>7, InstructionFields DEF Operands
  <2>2. ~Phi(function, r)
    BY <1>1, <1>2, <1>3 DEF Analysable, PhisUnread, Instruction, Code
  <2>3. \/ \E j \in 1..(at.k - 1) : Assigns(Code[j], r)
        \/ \E d \in Block : Dominates(function, d, b) /\ BlockAssigns(function, d, r)
    BY <1>1, <1>2, <1>3 DEF Analysable, Verified, Instruction, Code
  <2> QED BY <2>1, <2>2, <2>3 DEF Execution, RegistersSet, Dominates
<1>9. TypesAfter(Code, s)[at.k] = After(t, Instruction)
  BY <1>2, <1>3, AfterIs DEF Instruction
<1>10. Fits(function, t, regs, env) /\ IsState(t)
  BY <1>5 DEF Execution, Knows, Definite
<1> QED BY <1>1, <1>2, <1>3, <1>6, <1>7, <1>8, <1>9, <1>10

LEMMA ExecuteExecution ==
    ASSUME TypeAnalysis, AllAnalysable, Inv, Arrivals, Execution, Execute
    PROVE  Execution'
<1> DEFINE i == Instruction
           t == TypesAfter(Code, states[at.block])[at.k - 1]
           u == TypesAfter(Code, states[at.block])[at.k]
<1>1. Running /\ at.k <= Len(Code) /\ UNCHANGED <<avars, from>>
  BY DEF Execute
<1>2. /\ function \in Function /\ at.block \in Block
      /\ at.k \in DOMAIN Code /\ IsInstruction(i)
      /\ IsState(t) /\ Operands(i) \subseteq DOMAIN t
      /\ \A r \in Operands(i) : r \in DOMAIN regs /\ ~Phi(function, r)
      /\ u = After(t, i) /\ Fits(function, t, regs, env)
  BY <1>1, Standing
<1>3. Len(Code) \in Nat /\ DOMAIN Code = 1..Len(Code) /\ at.k \in 1..Len(Code)
  BY <1>2, CodeIs DEF Code
<1>4. DOMAIN regs \subseteq Register /\ DOMAIN env = Var /\ RegistersSet
  BY <1>1 DEF Execution, RegistersSet
<1> HIDE DEF i, t, u
\* The registers and variables fit the types after the instruction, ...
<1> DEFINE Done == /\ Fits(function, u, regs', env') /\ at' = [at EXCEPT !.k = @ + 1]
                   /\ DOMAIN env' = Var
                   /\ DOMAIN regs' = DOMAIN regs \cup (IF i.op = "set" THEN {} ELSE {i.to})
                   /\ DOMAIN regs' \subseteq Register
<1>5. Done
  <2>1. \A class : DOMAIN Assign(regs, i.to, class) = DOMAIN regs \cup {i.to}
    BY DEF Assign
  <2>2. CASE i.op = "const"
    <3>1. regs' = Assign(regs, i.to, i.class) /\ env' = env /\ at' = [at EXCEPT !.k = @ + 1]
      BY <2>2 DEF Execute, Compute, i, Arithmetic
    <3>2. i.to \in Register /\ i.class \in Class /\ u = Assign(t, i.to, TypeOf(i.class))
      BY <1>2, <2>2, InstructionFields, AfterKinds
    <3>3. Sound(TypeOf(i.class), i.class)
      BY <3>2, SoundConstants
    <3>4. Fits(function, u, regs', env')
      BY <1>2, <3>1, <3>2, <3>3, FitsRegister
    <3> QED BY <1>4, <2>1, <2>2, <3>1, <3>2, <3>4
  <2>3. CASE i.op = "get"
    <3>1. regs' = Assign(regs, i.to, env[i.var]) /\ env' = env /\ at' = [at EXCEPT !.k = @ + 1]
      BY <2>3 DEF Execute, Compute, i, Arithmetic
    <3> DEFINE v == IF i.var \in DOMAIN t THEN t[i.var] ELSE AnyType
    <3>2. i.to \in Register /\ i.var \in Var /\ u = Assign(t, i.to, v)
      BY <1>2, <2>3, InstructionFields, AfterKinds
    <3>3. Sound(v, env[i.var])
      <4>1. Sound(AnyType, env[i.var])
        BY ConstantTypes DEF Sound
      <4> QED BY <1>2, <3>2, <4>1 DEF Fits
    <3> HIDE DEF v
    <3>4. Fits(function, u, regs', env')
      BY <1>2, <3>1, <3>2, <3>3, FitsRegister
    <3> QED BY <1>4, <2>1, <2>3, <3>1, <3>2, <3>4
  <2>4. CASE i.op = "phi"
    <3>1. /\ regs' = Assign(regs, i.to, regs[i.values[from]]) /\ env' = env
          /\ at' = [at EXCEPT !.k = @ + 1]
      BY <2>4 DEF Execute, Compute, i, Arithmetic
    <3>2. i.to \in Register /\ u = t
      BY <1>2, <2>4, InstructionFields, AfterKinds
    <3>3. Phi(function, i.to)
      BY <1>2, <2>4 DEF Phi, i, Instruction, Code
    <3>4. Fits(function, u, regs', env')
      BY <1>2, <3>1, <3>2, <3>3, FitsPhi
    <3> QED BY <1>4, <2>1, <2>4, <3>1, <3>2, <3>4
  <2>5. CASE i.op = "set"
    <3>1. /\ env' = [env EXCEPT ![i.var] = regs[i.from]] /\ regs' = regs
          /\ at' = [at EXCEPT !.k = @ + 1]
      BY <2>5 DEF Execute, i, Arithmetic
    <3>2. i.from \in Operands(i) /\ i.var \in Var
      BY <1>2, <2>5, InstructionFields DEF Operands, Arithmetic
    <3>3. i.from \in DOMAIN t /\ i.from \in DOMAIN regs /\ ~Phi(function, i.from)
      BY <1>2, <3>2
    <3>4. u = Assign(t, i.var, t[i.from])
      BY <1>2, <2>5, <3>3, AfterKinds
    <3>5. Fits(function, Assign(t, i.var, t[i.from]), regs, [env EXCEPT ![i.var] = regs[i.from]])
      <4> DEFINE x == i.var
                 r == i.from
      <4>1. x \in Var /\ r \in DOMAIN regs /\ ~Phi(function, r)
        BY <3>2, <3>3
      <4> HIDE DEF x, r
      <4>2. Fits(function, Assign(t, x, t[r]), regs, [env EXCEPT ![x] = regs[r]])
        BY <1>2, <1>4, <4>1, FitsVariable
      <4> QED BY <4>2 DEF x, r
    <3>6. Fits(function, u, regs', env')
      BY <3>1, <3>4, <3>5
    <3> QED BY <1>4, <2>5, <3>1, <3>6
  <2>6. CASE i.op \in Arithmetic
    <3>1. i.op = "add"
      BY <1>2, <2>6 DEF AllAnalysable, Analysable, Undivided, Arithmetic, i, Instruction, Code
    <3>2. PICK class \in Results("add", regs[i.lhs], regs[i.rhs]) :
             regs' = Assign(regs, i.to, class) /\ env' = env /\ at' = [at EXCEPT !.k = @ + 1]
      BY <3>1 DEF Execute, Compute, i, Arithmetic
    <3>3. /\ i.lhs \in Operands(i) /\ i.rhs \in Operands(i) /\ i.to \in Register
      BY <1>2, <2>6, InstructionFields DEF Operands, Arithmetic
    <3>4. /\ t[i.lhs] \in TypeInfo /\ t[i.rhs] \in TypeInfo
          /\ Sound(t[i.lhs], regs[i.lhs]) /\ Sound(t[i.rhs], regs[i.rhs])
      BY <1>2, <3>3 DEF Fits, IsState, TypeAnalysis
    <3>5. u = Assign(t, i.to, MergeTypes(t[i.lhs], t[i.rhs]))
      BY <1>2, <2>6, <3>3, AfterArithmetic
    <3>6. Sound(MergeTypes(t[i.lhs], t[i.rhs]), class)
      BY <3>4, SoundResults
    <3>7. Fits(function, u, regs', env')
      BY <1>2, <3>2, <3>3, <3>5, <3>6, FitsRegister
    <3> QED BY <1>4, <2>1, <3>1, <3>2, <3>3, <3>7
  <2>7. CASE i.op = "call"
    <3>1. PICK class \in Class :
             /\ regs' = Assign(regs, i.to, class) /\ env' \in [Var -> Class]
             /\ at' = [at EXCEPT !.k = @ + 1]
      BY <2>7 DEF Execute, Compute, i, Arithmetic
    <3>2. i.to \in Register /\ u = Assign(Forget(t), i.to, AnyType)
      BY <1>2, <2>7, InstructionFields, AfterKinds DEF Forget
    <3>3. Sound(AnyType, class)
      BY ConstantTypes DEF Sound
    <3>4. Fits(function, Forget(t), regs, env')
      BY <1>2, <1>4, FitsForget
    <3>5. Fits(function, u, regs', env')
      BY <3>1, <3>2, <3>3, <3>4, FitsRegister
    <3> QED BY <1>4, <2>1, <2>7, <3>1, <3>2, <3>5
  <2> QED BY <1>2, <2>2, <2>3, <2>4, <2>5, <2>6, <2>7, InstructionKinds DEF Arithmetic
\* ... and so it is with the next instruction.
<1> HIDE DEF Done
<1>6. /\ at \in [block : Block \cup {None}, k : Nat] /\ at.block \in DOMAIN states /\ Analysed
  BY <1>1 DEF Execution
<1>7. at'.block = at.block /\ at'.k = at.k + 1 /\ at'.k - 1 = at.k
      /\ at' \in [block : Block \cup {None}, k : Nat] /\ at'.k \in 1..(Len(Code) + 1)
  BY <1>3, <1>5, <1>6 DEF Done
<1>8. Code' = Code /\ Running' /\ Analysed' /\ function' = function /\ states' = states
  BY <1>1, <1>6, <1>7 DEF Code, avars, Running, Analysed
<1>9. RegistersSet'
  <2>1. DOMAIN regs \subseteq DOMAIN regs' /\ DOMAIN regs' \subseteq Register
    BY <1>5 DEF Done
  <2>2. ASSUME NEW j \in 1..at.k, NEW r \in Register, Assigns(Code[j], r) PROVE r \in DOMAIN regs'
    <3>1. CASE j = at.k
      <4>1. Assigns(i, r)
        BY <2>2, <3>1 DEF i, Instruction
      <4>2. i.op # "set"
        BY <1>2, <4>1, InstructionFields DEF Assigns, Register
      <4> QED BY <1>5, <4>1, <4>2 DEF Done, Assigns
    <3>2. CASE j # at.k
      <4>1. j \in 1..(at.k - 1)
        BY <1>3, <3>2
      <4> QED BY <1>4, <2>1, <2>2, <4>1 DEF RegistersSet
    <3> QED BY <3>1, <3>2
  <2>3. \A d \in Block, S \in SUBSET Block : Around(function, d, S) /\ at.block \notin S =>
           \A r \in Register : BlockAssigns(function, d, r) => r \in DOMAIN regs'
    BY <1>4, <2>1 DEF RegistersSet
  <2> QED BY <1>7, <1>8, <2>1, <2>2, <2>3 DEF RegistersSet
<1>10. Fits(function, u, regs', env') /\ DOMAIN env' = Var
  BY <1>5 DEF Done
<1> QED BY <1>6, <1>7, <1>8, <1>9, <1>10 DEF Execution, u

LEMMA JumpExecution ==
    ASSUME TypeAnalysis, AllAnalysable, Inv, Arrivals, Execution, Jump
    PROVE  Execution'
<1> DEFINE b == at.block
           s == states[b]
           o == Out(b)
<1>1. PICK n \in DOMAIN function.succ[b] : at' = [block |-> function.succ[b][n], k |-> 1]
  BY DEF Jump
<1> DEFINE c == function.succ[b][n]
<1>2. Running /\ at.k > Len(Code) /\ UNCHANGED <<avars, regs, env>>
  BY DEF Jump
<1>3. /\ function \in Function /\ b \in DOMAIN states /\ b \in Block /\ b \in DOMAIN ran
      /\ Analysable(function) /\ queue = <<>>
  BY <1>2 DEF Execution, Inv, ATypeOK, AllAnalysable, Analysed
<1>4. /\ Len(Code) \in Nat /\ DOMAIN Code = 1..Len(Code) /\ at.k = Len(Code) + 1
      /\ at.k - 1 = Len(Code)
  <2>1. Len(Code) \in Nat /\ DOMAIN Code = 1..Len(Code)
    BY <1>3, CodeIs DEF Code
  <2>2. at.k \in 1..(Len(Code) + 1)
    BY <1>2 DEF Execution
  <2> QED BY <1>2, <2>1, <2>2
<1>5. c \in Block
  BY <1>3, FunctionAssumption
<1>6. Arrives(function, b, s) /\ s = ran[b]
  BY <1>3 DEF Arrivals
<1>7. o = TypesAfter(Code, s)[Len(Code)] /\ o = Transfer(function.code[b], s)
  BY <1>3, <1>6 DEF Out, TypeAnalysis, TypeTransfer, Code
<1>8. Arrives(function, c, o)
  BY <1>3, <1>6, <1>7, OutArrives
<1>9. c \in DOMAIN states /\ Absorbs(states[c], o)
  BY <1>3 DEF Inv, Propagated
<1>10. Arrives(function, c, states[c])
  BY <1>9 DEF Arrivals
<1>11. c # Entry
  BY <1>3 DEF Analysable, Verified
<1>12. Fits(function, o, regs, env)
  BY <1>2, <1>4, <1>7 DEF Execution
<1>13. at'.block = c /\ at'.k = 1 /\ at'.k - 1 = 0
  BY <1>1
<1> HIDE DEF c, o
<1>14. \A m \in DOMAIN o : \A class : Sound(o[m], class) => m \in DOMAIN states[c] /\ Sound(states[c][m], class)
  <2> SUFFICES ASSUME NEW m \in DOMAIN o, NEW class, Sound(o[m], class)
               PROVE  m \in DOMAIN states[c] /\ Sound(states[c][m], class)
    OBVIOUS
  <2>1. m \in DOMAIN states[c] /\ MergeValues(states[c][m], o[m]) = states[c][m]
    BY <1>9 DEF Absorbs
  <2>2. o[m] \in TypeInfo /\ states[c][m] \in TypeInfo
    BY <1>8, <1>10, <2>1 DEF Arrives, Definite, IsState, TypeAnalysis
  <2> QED BY <2>1, <2>2, SoundMerged
<1>15. Fits(function, states[c], regs, env)
  <2>1. \A r \in DOMAIN regs : ~Phi(function, r) => r \in DOMAIN states[c] /\ Sound(states[c][r], regs[r])
    BY <1>12, <1>14 DEF Fits
  <2>2. ASSUME NEW x \in Var \cap DOMAIN states[c] PROVE Sound(states[c][x], env[x])
    <3>1. x \in DOMAIN o
      BY <1>8, <1>10, <1>11 DEF Arrives, Definite
    <3> QED BY <1>12, <1>14, <3>1 DEF Fits
  <2> QED BY <2>1, <2>2 DEF Fits
<1>16. TypesAfter(function.code[c], states[c])[0] = states[c] /\ Len(function.code[c]) \in Nat
  BY <1>3, <1>5, CodeIs, AfterIs
<1>17. Code' = function.code[c] /\ Running' /\ Analysed' /\ UNCHANGED <<function, states, regs, env>>
  BY <1>2, <1>3, <1>5, <1>13, NameAssumption DEF Code, avars, Running, Analysed
<1>18. RegistersSet'
  <2>1. DOMAIN regs \subseteq Register /\ RegistersSet
    BY <1>2 DEF Execution, RegistersSet
  <2>2. ASSUME NEW d \in Block, NEW S \in SUBSET Block, Around(function, d, S), c \notin S,
               NEW r \in Register, BlockAssigns(function, d, r)
        PROVE  r \in DOMAIN regs
    <3>1. CASE b \notin S
      BY <2>1, <2>2, <3>1 DEF RegistersSet
    <3>2. CASE b \in S
      <4>1. b = d
        BY <2>2, <3>2 DEF Around, c
      <4>2. PICK j \in DOMAIN Code : Assigns(Code[j], r)
        BY <2>2, <4>1 DEF BlockAssigns, Code
      <4> QED BY <1>4, <2>1, <4>2 DEF RegistersSet
    <3> QED BY <3>1, <3>2
  <2>3. 1..(at'.k - 1) = {}
    BY <1>13
  <2> QED BY <1>13, <1>17, <2>1, <2>2, <2>3 DEF RegistersSet
<1>19. at' \in [block : Block \cup {None}, k : Nat] /\ at'.k \in 1..(Len(Code') + 1)
  BY <1>1, <1>5, <1>13, <1>16, <1>17 DEF c
<1>20. DOMAIN env' = Var /\ at'.block \in DOMAIN states'
  BY <1>2, <1>9, <1>13, <1>17 DEF Execution
<1>21. Fits(function', TypesAfter(Code', states'[at'.block])[at'.k - 1], regs', env')
  BY <1>13, <1>15, <1>16, <1>17
<1> QED BY <1>17, <1>18, <1>19, <1>20, <1>21 DEF Execution

----------------------------------------------------------------------------
(* Theorems                                                                *)

LEMMA TypesInit == TInit => TypesInv
<1> SUFFICES ASSUME TInit PROVE TypesInv
  OBVIOUS
<1>1. Inv /\ Arrivals
  BY InvInit, ArrivalsInit DEF TInit
<1>2. Execution
  BY BlockAssumption DEF TInit, Execution, Running, Unknown
<1> QED BY <1>1, <1>2 DEF TypesInv

LEMMA TypesNext == ASSUME TypeAnalysis, AllAnalysable PROVE TypesInv /\ [TNext]_tvars => TypesInv'
<1> SUFFICES ASSUME Inv, Arrivals, Execution, [TNext]_tvars PROVE Inv' /\ Arrivals' /\ Execution'
  BY DEF TypesInv
<1>1. CASE Analyse
  <2>1. Inv'
    BY <1>1, TypesTyped, InvNext DEF Analyse
  <2>2. Arrivals'
    BY <1>1, ArrivalsNext DEF Analyse
  <2> QED BY <1>1, <2>1, <2>2, AnalyseExecution
<1>2. ASSUME UNCHANGED avars PROVE Inv' /\ Arrivals'
  BY <1>2 DEF avars, Inv, ATypeOK, QueueTyped, UpToDate, Propagated, Out, Arrivals
<1>3. CASE Enter
  BY <1>2, <1>3, EnterExecution DEF Enter
<1>4. CASE Execute
  BY <1>2, <1>4, ExecuteExecution DEF Execute
<1>5. CASE Jump
  BY <1>2, <1>5, JumpExecution DEF Jump
<1>6. CASE UNCHANGED tvars
  BY <1>2, <1>6 DEF tvars, avars, Execution, Running, Code, Analysed, RegistersSet
<1> QED BY <1>1, <1>3, <1>4, <1>5, <1>6 DEF TNext

\* The states of the analysis cover the kinds of all values, in all executions of functions
\* in which reads of variables change none: the inductive invariant that relates them.
THEOREM TypesSimulate == ASSUME TypeAnalysis, AllAnalysable PROVE TSpec => []TypesInv
<1>1. TypesInv /\ [TNext]_tvars => TypesInv'
  BY TypesNext
<1> QED BY <1>1, TypesInit, PTL DEF TSpec

LEMMA RewritesWhere ==
    ASSUME TypeAnalysis, AllAnalysable, TypesInv
    PROVE  RewritesRight
<1> DEFINE i == Instruction
           t == TypesAfter(Code, states[at.block])[at.k - 1]
           u == TypesAt(at.block, at.k)
           kind == Replacement(u, i)
<1> SUFFICES ASSUME Running
             PROVE  /\ at.block \in DOMAIN states
                    /\ at.k <= Len(Code) /\ i.op \in Arithmetic /\ kind # "generic" =>
                          /\ regs[i.lhs] = kind /\ regs[i.rhs] = kind
                          /\ Results(i.op, kind, kind) = {kind}
  BY DEF RewritesRight
<1>1. at.block \in DOMAIN states
  BY DEF TypesInv, Execution
<1>2. SUFFICES ASSUME at.k <= Len(Code), i.op \in Arithmetic, kind # "generic"
               PROVE  /\ regs[i.lhs] = kind /\ regs[i.rhs] = kind
                      /\ Results(i.op, kind, kind) = {kind}
  BY <1>1
<1>3. /\ function \in Function /\ at.block \in Block
      /\ at.k \in DOMAIN Code /\ IsInstruction(i)
      /\ IsState(t) /\ Operands(i) \subseteq DOMAIN t
      /\ \A r \in Operands(i) : r \in DOMAIN regs /\ ~Phi(function, r)
      /\ TypesAfter(Code, states[at.block])[at.k] = After(t, i) /\ Fits(function, t, regs, env)
  BY <1>2, Standing DEF TypesInv
<1>4. i.op = "add"
  BY <1>2, <1>3 DEF AllAnalysable, Analysable, Undivided, Arithmetic, Instruction, Code
<1>5. i.lhs \in Operands(i) /\ i.rhs \in Operands(i)
  BY <1>2 DEF Operands, Arithmetic
<1>6. /\ t[i.lhs] \in TypeInfo /\ t[i.rhs] \in TypeInfo
      /\ Sound(t[i.lhs], regs[i.lhs]) /\ Sound(t[i.rhs], regs[i.rhs])
  BY <1>3, <1>5 DEF Fits, IsState, TypeAnalysis
<1>7. u = Assign(t, i.to, MergeTypes(t[i.lhs], t[i.rhs]))
  <2>1. u = After(t, i)
    BY <1>3 DEF TypesAt, Code
  <2> QED BY <1>2, <1>3, <1>5, <2>1, AfterArithmetic
<1> HIDE DEF u, t, i
<1>8. t[i.lhs].types \subseteq u[i.lhs].types /\ t[i.rhs].types \subseteq u[i.rhs].types
  BY <1>3, <1>5, <1>6, <1>7, TypesMerge DEF Assign
<1>9. CASE Only(u[i.lhs], "Float") /\ Only(u[i.rhs], "Float")
  <2>1. kind = "dbl"
    BY <1>9 DEF Replacement, Only
  <2>2. regs[i.lhs] = "dbl" /\ regs[i.rhs] = "dbl"
    BY <1>6, <1>8, <1>9 DEF Only, Sound
  <2> QED BY <1>4, <2>1, <2>2 DEF Results
<1>10. CASE ~(Only(u[i.lhs], "Float") /\ Only(u[i.rhs], "Float"))
  <2>1. kind = "int" /\ Only(u[i.lhs], "Integer") /\ Only(u[i.rhs], "Integer")
    BY <1>2, <1>10 DEF Replacement
  <2>2. regs[i.lhs] = "int" /\ regs[i.rhs] = "int"
    BY <1>6, <1>8, <2>1 DEF Only, Sound
  <2> QED BY <1>4, <2>1, <2>2 DEF Results
<1> QED BY <1>9, <1>10

\* Arithmetic that ScalarsPass rewrites has operands of the kind of the scalar operation,
\* and R's result is of that kind, in all executions of all analysable functions in which
\* reads of variables change none.
THEOREM ScalarsRight == ASSUME TypeAnalysis, AllAnalysable PROVE TSpec => []RewritesRight
<1>1. TypesInv => RewritesRight
  BY RewritesWhere
<1> QED BY <1>1, TypesSimulate, PTL

\* The invariant of the driver holds before and after the analysis, too.
LEMMA DriverInv == ASSUME TypeAnalysis PROVE TSpec => []Inv
<1>1. TInit => Inv
  BY InvInit DEF TInit
<1>2. Inv /\ [TNext]_tvars => Inv'
  <2>1. ASSUME Inv, UNCHANGED avars PROVE Inv'
    BY <2>1 DEF avars, Inv, ATypeOK, QueueTyped, UpToDate, Propagated, Out
  <2>2. ASSUME Inv, Analyse PROVE Inv'
    BY <2>2, TypesTyped, InvNext DEF Analyse
  <2> QED BY <2>1, <2>2 DEF TNext, Enter, Execute, Jump, tvars, avars
<1> QED BY <1>1, <1>2, PTL DEF TSpec

\* The type analysis does not lose a change on its way to a successor, whatever the
\* function, and stored states are the ones that blocks were analysed from.
THEOREM TypesSettled == ASSUME TypeAnalysis PROVE TSpec => [](Propagated /\ UpToDate)
<1>1. Inv => Propagated /\ UpToDate
  BY DEF Inv
<1> QED BY <1>1, DriverInv, PTL

\* A change that mergeWith of TypeInfo reports is one: types are added or the size
\* becomes larger, and the analysis gets on with each step.
THEOREM TypesProgress == ASSUME TypeAnalysis PROVE TSpec => Progresses
<1>1. ChangesMove
  <2> SUFFICES ASSUME NEW a \in TypeInfo, NEW b \in TypeInfo, TypesChange(a, b)
               PROVE  MergeTypes(a, b) # a
    BY DEF ChangesMove, TypeAnalysis
  <2>1. CASE b.types \cup a.types # a.types
    BY <2>1, TypesMerge
  <2>2. CASE b.size > a.size
    <3>1. a.size \in Nat /\ b.size \in Nat /\ MergeTypes(a, b).size = b.size
      BY <2>2 DEF MergeTypes, TypeInfo, Sizes
    <3> QED BY <2>2, <3>1
  <2> QED BY <2>1, <2>2 DEF TypesChange
<1>2. Inv /\ [TNext]_tvars => [Progress]_avars
  BY <1>1, StepProgresses DEF TNext, Analyse, Enter, Execute, Jump, tvars, avars
<1> QED BY <1>2, DriverInv, PTL DEF TSpec, Progresses, Progress
=============================================================================
