------------------------- MODULE ExpressionCompiler -------------------------
(* The expression compiler (Compiler.cpp): how an expression of R becomes    *)
(* basic blocks, and what these do when they run.  A function, each promise  *)
(* and each function defined inside are compiled into blocks of one module;  *)
(* break, next and return are jumps where the compiler knows their target.   *)
(*                                                                           *)
(* The first part is the compiler, the second the machine that runs its      *)
(* blocks; R's meaning of an expression, to which the run is compared, is in *)
(* ExpressionMeaning.  Whatever depends on data (which way a condition goes, *)
(* which arguments a callee forces, how long a sequence is, which case is    *)
(* meant) is a choice of the environment, the same for the machine and for R.*)
EXTENDS Naturals, Sequences, SequencesExt, FiniteSets

CONSTANTS Expression,  \* expressions, with all their parts
          Depth,       \* of expressions: parts have a smaller one
          Programs,    \* bodies of functions
          MaxChoices,  \* bound: choices of the environment in a run
          MaxLength    \* bound: length of the sequence of a for loop

\* Expressions have an operator and parts; literals have a value, and cases of
\* a switch are named or not.  "missing" is the empty case of a switch.
Literal(n) == [op |-> "literal", n |-> n, parts |-> <<>>]
Expr(op, parts) == [op |-> op, parts |-> parts]
Switch(parts, named) == [op |-> "switch", parts |-> parts, named |-> named]

\* The cases of a switch that have no name.
Defaults(e) == {i \in 1..Len(e.named) : ~e.named[i]}

\* How many parts an expression has.
HasItsParts(e) ==
    /\ e.op = "literal" => e.n \in Nat
    /\ e.op \in {"literal", "missing", "read", "break", "next"} => e.parts = <<>>
    /\ e.op \in {"assign", "paren", "apply", "repeat"} => Len(e.parts) = 1
    /\ e.op \in {"update", "while", "for"} => Len(e.parts) = 2
    /\ e.op = "if" => Len(e.parts) \in {2, 3}
    /\ e.op = "switch" => e.named \in Seq(BOOLEAN) /\ Len(e.parts) = Len(e.named) + 1

ASSUME ExpressionAssumption ==
    \A e \in Expression :
        /\ e.op \in {"literal", "missing", "read", "assign", "update", "arith", "get", "paren", "block",
                     "if", "repeat", "while", "for", "break", "next", "return", "switch", "call", "apply"}
        /\ e.parts \in Seq(Expression)
        /\ Depth[e] \in Nat /\ \A i \in 1..Len(e.parts) : Depth[e.parts[i]] < Depth[e]
        /\ HasItsParts(e)

\* Whether every break and next in e is in a loop, if e itself is in one or
\* not: in its body, not in its condition or in the sequence it runs through.
PartInLoop(e, i, inLoop) ==
    CASE e.op = "apply" -> FALSE
      [] e.op \in {"repeat", "while", "for"} -> i = Len(e.parts)
      [] OTHER -> inLoop
JumpsInLoops[e \in Expression] ==
    [inLoop \in BOOLEAN |->
        /\ e.op \in {"break", "next"} => inLoop
        /\ \A i \in 1..Len(e.parts) : JumpsInLoops[e.parts[i]][PartInLoop(e, i, inLoop)]]

ASSUME ProgramsAssumption == \A p \in Programs : p \in Expression /\ JumpsInLoops[p][FALSE]
ASSUME BoundsAssumption == MaxChoices \in Nat /\ MaxLength \in Nat

\* Values.  R_NilValue, the first value of the variable x, and what calls,
\* primitives and updates of an element yield; literals are other numbers.
Nil == 0
Initial == 1
FromCall == 2
FromPrimitive == 3
Updated == 4

\* Operands of instructions: a constant or the register of an instruction.
Operand == {"const", "reg"} \X Nat
Const(v) == <<"const", v>>
Reg(n) == <<"reg", n>>

\* breakTarget and nextTarget of a context that is in no loop.  The compiler
\* leaves them uninitialized; 0 is the label of no block.
Unset == 0

\* Instructions: the register of the result, operands, and the blocks an
\* instruction leads to.  A phi has the operand to take from each block, a switch
\* the blocks for names, the last one for names that no case has, and a return
\* whether it marks the result as invisible.
Instr == [op : {"branch", "test", "less", "switch", "return", "returnJump", "phi", "read", "assign",
                "update", "arith", "get", "startFor", "element", "increment", "call", "apply"},
          dst : Nat, vs : Seq(Operand), to : Seq(Nat), from : SUBSET (Nat \X Operand),
          names : Seq(Nat), silent : BOOLEAN]
Ins(op, vs, to) == [op |-> op, dst |-> 0, vs |-> vs, to |-> to, from |-> {}, names |-> <<>>,
                    silent |-> FALSE]
PhiOf(from) == [Ins("phi", <<>>, <<>>) EXCEPT !.from = from]

-----------------------------------------------------------------------------
(* The compiler.  Its state b has the blocks of the module, the number of    *)
(* registers, and the fields of the current context: its block, the targets  *)
(* of break and next, and the flags for visibility and returns by jumps.     *)

Builder == [code : Seq(Seq(Instr)), cur : Nat, brk : Nat, nxt : Nat, visible : BOOLEAN,
            jump : BOOLEAN, regs : Nat]

AppendTo(blocks, label, instruction) == [blocks EXCEPT ![label] = Append(@, instruction)]
Emit(b, instruction) == [b EXCEPT !.code = AppendTo(@, b.cur, instruction)]
AddBlocks(b, n) == [b EXCEPT !.code = @ \o [i \in 1..n |-> <<>>]]
At(b, label) == [b EXCEPT !.cur = label]
AddRegs(b, n) == [b EXCEPT !.regs = @ + n]
Visible(b, visible) == [b EXCEPT !.visible = visible]
Br(label) == Ins("branch", <<>>, <<label>>)
Compiled(b, v) == [b |-> b, v |-> v]

\* Appends an instruction with a result: its register is the next one.
EmitValue(b, instruction) ==
    LET r == b.regs + 1
    IN  Compiled(Emit(AddRegs(b, 1), [instruction EXCEPT !.dst = r]), Reg(r))

\* Compiles the 1st, ..., n-th of some things after each other, by f; what has
\* been compiled before the first is NULL.
Sequenced(f, b, n) ==
    LET done[k \in 0..n] ==
            IF k = 0 THEN <<Compiled(b, Const(Nil))>>
            ELSE LET r == done[k - 1] IN Append(r, f[k][r[k].b])
    IN  done[n]

\* Builder::openFunction and openPromise push the current context and start one
\* in a block of its own; closing it gets the old one back.
Opened(b, isPromise) ==
    [AddBlocks(b, 1) EXCEPT !.cur = Len(b.code) + 1, !.brk = Unset, !.nxt = Unset,
                            !.visible = TRUE, !.jump = isPromise]
Closed(inner, outer) == [outer EXCEPT !.code = inner.code, !.regs = inner.regs]

\* A loop's context is a copy of the current one with its own targets; when it
\* closes, the old context goes on in the block that the loop has reached.
OpenLoop(b) == [AddBlocks(b, 2) EXCEPT !.brk = Len(b.code) + 1, !.nxt = Len(b.code) + 2]
\* Faulty variant: the targets of the inner loop stay.
CloseLoopKeepingTargets(inner, outer) == [inner EXCEPT !.visible = outer.visible]
CloseLoop(inner, outer) == [Closed(inner, outer) EXCEPT !.cur = inner.cur]

\* compileReturn: a return, or in a promise a jump to the end of the function, with a
\* mark before it if the flag says so.
EmitReturn(b, v) ==
    Emit(b, [Ins(IF b.jump THEN "returnJump" ELSE "return", <<v>>, <<>>) EXCEPT !.silent = ~b.visible])

\* canSkipLoopContext: every break and next of a loop's body is in the code
\* of the loop, not in what may become a promise.
Skips[e \in Expression] ==
    [breakOK \in BOOLEAN |->
        CASE e.op \in {"break", "next"} -> breakOK
          [] e.op \in {"apply", "for", "while", "repeat"} -> TRUE
          [] e.op \in {"paren", "block", "if"} -> \A i \in 1..Len(e.parts) : Skips[e.parts[i]][breakOK]
          [] OTHER -> \A i \in 1..Len(e.parts) : Skips[e.parts[i]][FALSE]]

\* Faulty variant: all loops are compiled in place.
CanSkipAll(e, breakOK) == TRUE
CanSkip(e, breakOK) == Skips[e][breakOK]

\* The compilation of an expression, by the compilation C of its parts.

\* compileFunction and compilePromise: the code of e in a context of its own,
\* with the implicit return that even a promise ends with.
CompileBody(e, b, isPromise, C) ==
    LET r == C[e][Opened(b, isPromise)]
    IN  Closed(EmitReturn([r.b EXCEPT !.jump = FALSE], r.v), b)

\* The operands of a primitive, from left to right, and their values.
CompileParts(parts, b, C) ==
    Sequenced([k \in 1..Len(parts) |-> [s \in Builder |-> C[parts[k]][s]]], b, Len(parts))
ValuesOfParts(rs) == [k \in 1..(Len(rs) - 1) |-> rs[k + 1].v]

\* Arguments are compiled to promises, but for literals and empty ones, which are values.
CompileCall(e, b, C) ==
    LET n == Len(e.parts)
        args == Sequenced([k \in 1..n |-> [s \in Builder |->
                    IF e.parts[k].op \in {"literal", "missing"} THEN Compiled(s, Const(Unset))
                    ELSE Compiled(CompileBody(e.parts[k], s, TRUE, C), Const(Len(s.code) + 1))]], b, n)
    IN  EmitValue(args[n + 1].b, Ins("call", <<>>, [k \in 1..n |-> args[k + 1].v[2]]))

CompileRead(b) == EmitValue(b, Ins("read", <<>>, <<>>))

CompileParen(e, b, C) ==
    LET r == C[e.parts[1]][b] IN Compiled(Visible(r.b, TRUE), r.v)

\* A call of a function that is defined in place.
CompileApply(e, b, C) ==
    EmitValue(CompileBody(e.parts[1], b, FALSE, C), Ins("apply", <<>>, <<Len(b.code) + 1>>))

\* Arithmetic (arith) and reading an element of a vector or matrix (get).
CompilePrimitive(e, b, C) ==
    LET rs == CompileParts(e.parts, b, C)
        v == EmitValue(Last(rs).b, Ins(e.op, ValuesOfParts(rs), <<>>))
    IN  IF e.op = "get" THEN Compiled(Visible(v.b, TRUE), v.v) ELSE v

\* Faulty variant: the flag for visibility stays as the value has left it.
CompileAssignVisibly(e, b, C) ==
    LET r == C[e.parts[1]][b]
    IN  Compiled(Emit(r.b, Ins("assign", <<r.v>>, <<>>)), r.v)
CompileAssign(e, b, C) ==
    LET r == C[e.parts[1]][b]
    IN  Compiled(Visible(Emit(r.b, Ins("assign", <<r.v>>, <<>>)), FALSE), r.v)

\* x[index] <- value reads x, then evaluates the value, then the index.
CompileUpdate(e, b, C) ==
    LET r == CompileRead(b)
        value == C[e.parts[2]][r.b]
        index == C[e.parts[1]][value.b]
        update == Ins("update", <<r.v, value.v, index.v>>, <<>>)
    IN  Compiled(Visible(Emit(index.b, update), FALSE), value.v)

CompileBlock(e, b, C) == Last(CompileParts(e.parts, b, C))

\* What follows a return goes into a block that nothing reaches; since
\* compileReturn yields no value, the return is compiled there as a call too.
CompileReturn(e, b, C) ==
    LET r == IF e.parts = <<>> THEN Compiled(b, Const(Nil)) ELSE C[e.parts[1]][b]
    IN  CompileCall(e, At(AddBlocks(EmitReturn(r.b, r.v), 1), Len(r.b.code) + 1), C)

CompileJump(b, target) ==
    Compiled(At(AddBlocks(Emit(b, Br(target)), 1), Len(b.code) + 1), Const(Nil))

\* The value of a condition is that of the branch that ran; without an else
\* branch it is an invisible NULL.
CompileIf(e, b, C) ==
    LET c == C[e.parts[1]][b]
        true == Len(c.b.code) + 1
        false == true + 1
        next == true + 2
        test == Emit(AddBlocks(c.b, 3), Ins("test", <<c.v>>, <<true, false>>))
        t == C[e.parts[2]][At(test, true)]
        rest == At(Emit(t.b, Br(next)), false)
        f == IF Len(e.parts) = 2 THEN Compiled(Visible(rest, FALSE), Const(Nil))
             ELSE C[e.parts[3]][rest]
    IN  EmitValue(At(Emit(f.b, Br(next)), next), PhiOf({<<t.b.cur, t.v>>, <<f.b.cur, f.v>>}))

CompileRepeat(e, b, C) ==
    LET o == OpenLoop(b)
        body == C[e.parts[1]][At(Emit(o, Br(o.nxt)), o.nxt)].b
    IN  CloseLoop(At(Emit(body, Br(o.nxt)), o.brk), b)

CompileWhile(e, b, C) ==
    LET o == OpenLoop(b)
        c == C[e.parts[1]][At(Emit(o, Br(o.nxt)), o.nxt)]
        start == Len(c.b.code) + 1
        test == Emit(AddBlocks(c.b, 1), Ins("test", <<c.v>>, <<start, o.brk>>))
        body == C[e.parts[2]][At(test, start)].b
    IN  CloseLoop(At(Emit(body, Br(o.nxt)), o.brk), b)

\* The counter of a for loop is a phi of the block that compares it to the
\* length; next goes to the block that increments it.
CompileFor(e, b, C) ==
    LET o == AddBlocks(OpenLoop(b), 2)
        cond == Len(o.code) - 1
        start == Len(o.code)
        s == C[e.parts[1]][o]
        length == s.b.regs + 1
        counter == length + 1
        incremented == length + 2
        init == Emit(AddRegs(s.b, 3), [Ins("startFor", <<s.v>>, <<>>) EXCEPT !.dst = length])
        phi == Emit(At(Emit(init, Br(cond)), cond),
                    [PhiOf({<<s.b.cur, Const(0)>>, <<o.nxt, Reg(incremented)>>}) EXCEPT !.dst = counter])
        less == Emit(phi, Ins("less", <<Reg(counter), Reg(length)>>, <<start, o.brk>>))
        element == Emit(At(less, start), Ins("element", <<Reg(counter)>>, <<>>))
        body == C[e.parts[2]][element].b
        step == Emit(At(Emit(body, Br(o.nxt)), o.nxt),
                     [Ins("increment", <<Reg(counter)>>, <<>>) EXCEPT !.dst = incremented])
    IN  CloseLoop(At(Emit(step, Br(cond)), o.brk), b)

\* A loop whose context cannot be skipped is compiled as a call of R's loop.
CompileLoop(e, b, C) ==
    IF ~CanSkip(Last(e.parts), TRUE) THEN CompileCall(e, b, C)
    ELSE LET loop == CASE e.op = "repeat" -> CompileRepeat(e, b, C)
                       [] e.op = "while" -> CompileWhile(e, b, C)
                       [] e.op = "for" -> CompileFor(e, b, C)
         IN  Compiled(Visible(loop, FALSE), Const(Nil))

\* The cases of a switch that have names are numbered without the default.
Named(e) == Len(e.named) - Cardinality(Defaults(e))
NamedCase(e, k) == IF \E d \in Defaults(e) : d <= k THEN k + 1 ELSE k

\* The case for names that no case has; without a default it is the last.
OtherCase(e) == IF Defaults(e) = {} THEN Len(e.named) ELSE CHOOSE d \in Defaults(e) : TRUE
CaseOfName(e, k) == IF k <= Named(e) THEN NamedCase(e, k) ELSE OtherCase(e)

\* A switch with several defaults has no vector of names.
Several(e) == \E i, j \in Defaults(e) : i # j

\* One case: its block, entered also from an empty case before it.
CompileCase(e, k, b, next, C) ==
    LET label == Len(b.code) + 1
        added == AddBlocks(b, 1)
        falls == k > 1 /\ e.parts[k].op = "missing"
        entered == At(IF falls THEN Emit(added, Br(label)) ELSE added, label)
        c == C[e.parts[k + 1]][entered]
    IN  IF e.parts[k + 1].op = "missing" THEN Compiled(entered, Const(Nil))
        ELSE Compiled(Emit(c.b, Br(next)), c.v)

\* What follows the control c, if there are cases.  The result is that of the case that
\* ran, or NULL after an empty last one.
CompileCases(e, c, C) ==
    LET n == Len(e.named)
        next == Len(c.b.code) + 1
        cases == Sequenced([k \in 1..n |-> [s \in Builder |-> CompileCase(e, k, s, next, C)]],
                           AddBlocks(c.b, 1), n)
        label == [k \in 1..n |-> Len(cases[k].b.code) + 1]
        names == IF Several(e) THEN <<>>
                 ELSE [k \in 1..(Named(e) + 1) |-> label[CaseOfName(e, k)]]
        end == cases[n + 1].b
        ended == IF e.parts[n + 1].op = "missing" THEN Emit(end, Br(next)) ELSE end
        switch == [Ins("switch", <<c.v>>, label) EXCEPT !.names = names]
        from == {<<cases[k + 1].b.cur, cases[k + 1].v>> :
                    k \in {k \in 1..n : k = n \/ e.parts[k + 1].op # "missing"}}
    IN  EmitValue(At(Emit(At(ended, c.b.cur), switch), next), PhiOf(from))

\* A switch on NULL is compiled as a call, and one without cases yields NULL.
NullControl(e) == e.op = "switch" /\ e.parts[1] = Literal(Nil)
CompileSwitch(e, b, C) ==
    LET c == C[e.parts[1]][b]
    IN  CASE NullControl(e) -> CompileCall(e, b, C)
          [] ~NullControl(e) /\ e.named = <<>> -> Compiled(Visible(c.b, TRUE), Const(Nil))
          [] OTHER -> CompileCases(e, c, C)

\* compileExpression, and compileIntrinsic for calls of known functions.  The
\* result of an expression is visible unless its compilation says otherwise.
CompileExpression(e, b0, C) ==
    LET b == Visible(b0, TRUE)
    IN  CASE e.op = "literal" -> Compiled(b, Const(e.n))
          [] e.op = "missing" -> Compiled(b, Const(Nil))
          [] e.op = "read" -> CompileRead(b)
          [] e.op = "assign" -> CompileAssign(e, b, C)
          [] e.op = "update" -> CompileUpdate(e, b, C)
          [] e.op \in {"arith", "get"} -> CompilePrimitive(e, b, C)
          [] e.op = "paren" -> CompileParen(e, b, C)
          [] e.op = "block" -> CompileBlock(e, b, C)
          [] e.op = "if" -> CompileIf(e, b, C)
          [] e.op \in {"repeat", "while", "for"} -> CompileLoop(e, b, C)
          [] e.op = "break" -> CompileJump(b, b.brk)
          [] e.op = "next" -> CompileJump(b, b.nxt)
          [] e.op = "return" -> CompileReturn(e, b, C)
          [] e.op = "switch" -> CompileSwitch(e, b, C)
          [] e.op = "call" -> CompileCall(e, b, C)
          [] e.op = "apply" -> CompileApply(e, b, C)

\* The compilation of expressions of a depth below d, by that of smaller depths.
Compile(d) ==
    LET compile[n \in 0..d] ==
            [e \in Expression |-> [b \in Builder |->
                IF n = 0 THEN Compiled(b, Const(Nil)) ELSE CompileExpression(e, b, compile[n - 1])]]
    IN  compile[d]

\* The blocks of a function: it is entered at the first.
CodeOf(e) ==
    CompileBody(e, [code |-> <<>>, cur |-> Unset, brk |-> Unset, nxt |-> Unset, visible |-> TRUE,
                    jump |-> FALSE, regs |-> 0], FALSE, Compile(Depth[e] + 1)).code

-----------------------------------------------------------------------------
(* The machine.  Activations of functions and promises, and between them     *)
(* those of the callees that force promises, the innermost one first.        *)

VARIABLES
    program,  \* the body of the function that runs
    code,     \* its blocks
    frames,   \* activations
    choices,  \* choices of the environment so far
    out,      \* what can be observed: the primitives, with their operands
    x,        \* the value of the variable x
    result    \* what the function has returned, if it has

vars == <<program, code, frames, choices, out, x, result>>

NoResult == [v |-> Nil, silent |-> FALSE, given |-> FALSE]

Activation(kind, block, at, from, regs) ==
    [kind |-> kind, block |-> block, at |-> at, from |-> from, regs |-> regs]
Frame(kind, entry) == Activation(kind, entry, 1, Unset, <<>>)
Callee(todo) == [kind |-> "callee", todo |-> todo]

\* Programs all of whose loops and switches are compiled in place.
CompiledInPlace[e \in Expression] ==
    /\ e.op \in {"repeat", "while", "for"} => CanSkip(Last(e.parts), TRUE)
    /\ ~NullControl(e)
    /\ \A i \in 1..Len(e.parts) : CompiledInPlace[e.parts[i]]

Init ==
    /\ program \in {p \in Programs : CompiledInPlace[p]}
    /\ code = CodeOf(program)
    /\ frames = <<Frame("function", 1)>>
    /\ choices = <<>> /\ out = <<>> /\ x = Initial /\ result = NoResult

Top == Head(frames)
Running == frames # <<>> /\ Top.kind # "callee" /\ Top.block # Unset
Instruction == code[Top.block][Top.at]
On(op) == Running /\ Instruction.op = op

ValueOf(operand) == IF operand[1] = "const" THEN operand[2] ELSE Top.regs[operand[2]]
Values == [i \in 1..Len(Instruction.vs) |-> ValueOf(Instruction.vs[i])]

\* The activations after the instruction of the innermost one, which goes on in
\* another block, or with the next instruction, or with that and a result.
Goto(label) == <<Activation(Top.kind, label, 1, Top.block, Top.regs)>> \o Tail(frames)
Continue == <<Activation(Top.kind, Top.block, Top.at + 1, Top.from, Top.regs)>> \o Tail(frames)
Bind(regs, r, v) == [q \in DOMAIN regs \cup {r} |-> IF q = r THEN v ELSE regs[q]]
WithValue(fs, v) ==
    LET f == Head(fs)
    IN  <<Activation(f.kind, f.block, f.at + 1, f.from, Bind(f.regs, code[f.block][f.at].dst, v))>>
            \o Tail(fs)

Observe(event) == out' = Append(out, event)
Choose(c) == Len(choices) < MaxChoices /\ choices' = Append(choices, c)

Branch ==
    /\ On("branch")
    /\ frames' = Goto(Instruction.to[1])
    /\ UNCHANGED <<program, code, choices, out, x, result>>

Test ==
    /\ On("test")
    /\ \E c \in {0, 1} :
          Choose(c) /\ frames' = Goto(Instruction.to[IF c = 1 THEN 1 ELSE 2])
    /\ Observe(<<"test", Values[1]>>)
    /\ UNCHANGED <<program, code, x, result>>

Phi ==
    /\ On("phi")
    /\ \E incoming \in Instruction.from :
          incoming[1] = Top.from /\ frames' = WithValue(frames, ValueOf(incoming[2]))
    /\ UNCHANGED <<program, code, choices, out, x, result>>

Read ==
    /\ On("read")
    /\ frames' = WithValue(frames, x)
    /\ UNCHANGED <<program, code, choices, out, x, result>>

Assign ==
    /\ On("assign")
    /\ x' = Values[1]
    /\ frames' = Continue
    /\ Observe(<<"assign", x'>>)
    /\ UNCHANGED <<program, code, choices, result>>

Update ==
    /\ On("update")
    /\ x' = Updated
    /\ frames' = Continue
    /\ Observe(<<"update">> \o Values)
    /\ UNCHANGED <<program, code, choices, result>>

Primitive ==
    /\ \E op \in {"arith", "get"} : On(op) /\ Observe(<<op>> \o Values)
    /\ frames' = WithValue(frames, FromPrimitive)
    /\ UNCHANGED <<program, code, choices, x, result>>

\* The parts of a for loop: the length of the sequence, the comparison, the
\* assignment of an element to the variable of the loop, and the increment.
StartFor ==
    /\ On("startFor")
    /\ \E n \in 0..MaxLength : Choose(n) /\ frames' = WithValue(frames, n)
    /\ Observe(<<"for", Values[1]>>)
    /\ UNCHANGED <<program, code, x, result>>

Less ==
    /\ On("less")
    /\ frames' = Goto(Instruction.to[IF Values[1] < Values[2] THEN 1 ELSE 2])
    /\ UNCHANGED <<program, code, choices, out, x, result>>

Element ==
    /\ On("element")
    /\ frames' = Continue
    /\ Observe(<<"element", Values[1]>>)
    /\ UNCHANGED <<program, code, choices, x, result>>

Increment ==
    /\ On("increment")
    /\ frames' = WithValue(frames, Values[1] + 1)
    /\ UNCHANGED <<program, code, choices, out, x, result>>

\* The control of a switch is the number of a case or one too large, or the name of a
\* case or, after these, another name; where there is no vector of names, a name is an
\* error, which ends the run.
IsNumber(c) == <<"number", c>>
IsName(c) == <<"name", c>>
Controls(to, names) == {IsNumber(i) : i \in 1..(Len(to) + 1)} \cup {IsName(k) : k \in 1..Len(names)}

\* A number that is too large leads to the last case.
SmallerOf(i, n) == IF i < n THEN i ELSE n

RunSwitch ==
    /\ On("switch")
    /\ \E c \in Controls(Instruction.to, Instruction.names) :
          /\ Choose(c)
          /\ frames' = Goto(CASE c[1] = "number" -> Instruction.to[SmallerOf(c[2], Len(Instruction.to))]
                              [] c[1] = "name" -> Instruction.names[c[2]])
    /\ Observe(<<"switch", Values[1]>>)
    /\ UNCHANGED <<program, code, x, result>>

\* A callee uses some of its arguments, in order, and returns.  It forces those
\* that are promises; the others are values already.
Call ==
    /\ On("call")
    /\ \E k \in 0..Len(Instruction.to) :
          Choose(k) /\ frames' = <<Callee(SubSeq(Instruction.to, 1, k))>> \o frames
    /\ Observe(<<"call">>)
    /\ UNCHANGED <<program, code, x, result>>

ForceNext ==
    /\ frames # <<>> /\ Top.kind = "callee" /\ Top.todo # <<>>
    /\ frames' = IF Head(Top.todo) = Unset THEN <<Callee(Tail(Top.todo))>> \o Tail(frames)
                 ELSE <<Frame("promise", Head(Top.todo))>> \o frames
    /\ UNCHANGED <<program, code, choices, out, x, result>>

CalleeReturns ==
    /\ frames # <<>> /\ Top.kind = "callee" /\ Top.todo = <<>>
    /\ frames' = WithValue(Tail(frames), FromCall)
    /\ UNCHANGED <<program, code, choices, out, x, result>>

Apply ==
    /\ On("apply")
    /\ frames' = <<Frame("function", Instruction.to[1])>> \o frames
    /\ UNCHANGED <<program, code, choices, out, x, result>>

\* The end of a promise hands its value to the callee that has forced it.
ForceEnds ==
    /\ On("return") /\ Top.kind = "promise"
    /\ frames' = <<Callee(Tail(frames[2].todo))>> \o Tail(Tail(frames))
    /\ Observe(<<"forced", Values[1]>>)
    /\ UNCHANGED <<program, code, choices, x, result>>

\* The end of the function whose activation is the d-th: the outermost one has
\* the result, another one was called in place.
ReturnFrom(d) ==
    /\ IF d = Len(frames)
       THEN /\ frames' = <<>>
            /\ result' = [v |-> Values[1], silent |-> Instruction.silent, given |-> TRUE]
       ELSE /\ frames' = WithValue(SubSeq(frames, d + 1, Len(frames)), Values[1])
            /\ UNCHANGED result
    /\ UNCHANGED <<program, code, choices, out, x>>

Return == On("return") /\ Top.kind = "function" /\ ReturnFrom(1)

\* returnJump unwinds the activations up to that of the promise's function.
ReturnJump ==
    /\ On("returnJump")
    /\ ReturnFrom(CHOOSE d \in 1..Len(frames) :
           frames[d].kind = "function" /\ \A c \in 1..(d - 1) : frames[c].kind # "function")

\* A run ends with the result, or at the bound for choices.
Chooses == Running /\ Instruction.op \in {"test", "startFor", "switch", "call"}
Stop ==
    /\ frames = <<>> \/ (Chooses /\ Len(choices) = MaxChoices)
    /\ UNCHANGED vars

Next ==
    \/ Branch \/ Test \/ Phi \/ Read \/ Assign \/ Update \/ Primitive
    \/ StartFor \/ Less \/ Element \/ Increment \/ RunSwitch
    \/ Call \/ ForceNext \/ CalleeReturns \/ Apply \/ ForceEnds \/ Return \/ ReturnJump \/ Stop

Spec == Init /\ [][Next]_vars

-----------------------------------------------------------------------------
(* Properties *)

FrameOK(f) ==
    IF f.kind = "callee" THEN Range(f.todo) \subseteq {Unset} \cup 1..Len(code)
    ELSE /\ f.kind \in {"function", "promise"}
         /\ f.block \in 1..Len(code) /\ f.at \in 1..Len(code[f.block])

\* Every activation is at an instruction of a block that exists (Compiler.cpp
\* ends each block that can be reached with a branch or a return).
ETypeOK ==
    /\ program \in Programs
    /\ \A d \in 1..Len(frames) : FrameOK(frames[d])
    /\ frames # <<>> => Last(frames).kind = "function"
    /\ Len(choices) <= MaxChoices /\ result.given \in BOOLEAN
    /\ frames = <<>> <=> result.given
=============================================================================
