---------------------------- MODULE TypeAndShape ----------------------------
(***************************************************************************)
(* The type analysis of the optimizer (analysis::TypeAndShapePass) and the *)
(* rewriting of generic arithmetic to scalar arithmetic that trusts it     *)
(* (optimization::ScalarsPass), against what executions of the function    *)
(* compute.  Only the kinds of values are kept: a scalar integer, double   *)
(* or logical, or anything else.                                           *)
(***************************************************************************)
EXTENDS ForwardAnalysis

CONSTANTS
    Var,  \* R variables; all other names are registers
    None  \* no block: the analysed function does not run yet

\* TypeInfo without attributes, which neither the analysis nor the rewriting reads, and
\* without Vector, which they treat like String.
Types == {"Integer", "Float", "String", "Bool", "Any"}
Sizes == <<"Unknown", "Scalar", "Any">>
TypeInfo == [types : SUBSET Types, size : 1..Len(Sizes)]
Scalar == 2
NoType == [types |-> {}, size |-> 1]
AnyType == [types |-> {"Any"}, size |-> 3]

\* TypeInfo::mergeWith.
MergeTypes(a, b) ==
    [types |-> a.types \cup b.types, size |-> IF b.size > a.size THEN b.size ELSE a.size]
\* Faulty variant: a size that stays as it is counts as a change.
TypesChangeLoose(a, b) == b.types \cup a.types # a.types \/ b.size >= a.size
TypesChange(a, b) == b.types \cup a.types # a.types \/ b.size > a.size

\* Kinds of R values, and TypeInfo(SEXP) of a constant of each kind: an "other" one
\* stands for all that arithmetic on scalars is not rewritten for.
Class == {"int", "dbl", "lgl", "other"}
TypeOf(class) ==
    [types |-> CASE class = "int" -> {"Integer"} [] class = "dbl" -> {"Float"}
                 [] class = "lgl" -> {"Bool"}    [] OTHER -> {"String"},
     size  |-> Scalar]

----------------------------------------------------------------------------
(* Instructions.                                                           *)

Register == Name \ Var
Arithmetic == {"add", "div"}
IsInstruction(i) ==
    \/ i.op = "const" /\ i.to \in Register /\ i.class \in Class
    \/ i.op = "get" /\ i.to \in Register /\ i.var \in Var
    \/ i.op = "set" /\ i.from \in Register /\ i.var \in Var
    \/ i.op \in Arithmetic /\ {i.to, i.lhs, i.rhs} \subseteq Register
    \/ i.op \in {"call", "phi"} /\ i.to \in Register

ASSUME NameAssumption == Var \subseteq Name /\ None \notin Block
ASSUME CodeAssumption ==
    \A f \in Function, b \in Block :
       /\ Len(f.code[b]) \in Nat /\ DOMAIN f.code[b] = 1..Len(f.code[b])
       /\ \A k \in DOMAIN f.code[b] : IsInstruction(f.code[b][k])

----------------------------------------------------------------------------
(* The analysis of one instruction, and of a block's code.                 *)

Assign(s, n, v) == [m \in DOMAIN s \cup {n} |-> IF m = n THEN v ELSE s[m]]

\* Faulty variant: a call leaves the variables' types alone.
AfterKeeping(s, i) ==
    CASE i.op = "const" -> Assign(s, i.to, TypeOf(i.class))
      [] i.op = "get"   -> Assign(s, i.to, IF i.var \in DOMAIN s THEN s[i.var] ELSE AnyType)
      [] i.op = "set"   -> IF i.from \in DOMAIN s THEN Assign(s, i.var, s[i.from]) ELSE s
      [] i.op \in Arithmetic -> Assign(s, i.to, MergeTypes(Get(s, i.lhs), Get(s, i.rhs)))
      [] i.op = "call"  -> Assign(s, i.to, AnyType)
      [] i.op = "phi"   -> s

\* Constants, reads and writes of variables and binary operators have their own
\* rules; a call makes the variables that the state knows Any; a phi is no pattern
\* and is not seen.  Operands that the state does not know become Bottom in it.
After(s, i) ==
    CASE i.op = "const" -> Assign(s, i.to, TypeOf(i.class))
      [] i.op = "get"   -> Assign(s, i.to, IF i.var \in DOMAIN s THEN s[i.var] ELSE AnyType)
      [] i.op = "set"   -> IF i.from \in DOMAIN s THEN Assign(s, i.var, s[i.from]) ELSE s
      [] i.op \in Arithmetic ->
            Assign(Assign(Assign(s, i.lhs, Get(s, i.lhs)), i.rhs, Get(s, i.rhs)),
                   i.to, MergeTypes(Get(s, i.lhs), Get(s, i.rhs)))
      [] i.op = "call"  ->
            Assign([n \in DOMAIN s |-> IF n \in Var THEN AnyType ELSE s[n]], i.to, AnyType)
      [] i.op = "phi"   -> s

\* The states after each instruction of a block's code, from the state s.
TypesAfter(code, s) ==
    LET after[k \in 0..Len(code)] == IF k = 0 THEN s ELSE After(after[k - 1], code[k])
    IN  after
TypeTransfer(code, s) == TypesAfter(code, s)[Len(code)]

\* Types at the k-th instruction of b, as the optimization sees them.
TypesAt(b, k) == TypesAfter(function.code[b], states[b])[k]

\* ScalarsPass::replaceWithScalar: the kind of the scalar operation that replaces
\* an arithmetic instruction, if both operands have only one and the same type.
Only(v, type) == v.size = Scalar /\ v.types = {type}
Replacement(s, i) ==
    CASE Only(s[i.lhs], "Float") /\ Only(s[i.rhs], "Float")     -> "dbl"
      [] Only(s[i.lhs], "Integer") /\ Only(s[i.rhs], "Integer") -> "int"
      [] OTHER -> "generic"

----------------------------------------------------------------------------
(* The functions that the analysis is right for.                           *)

Operands(i) ==
    CASE i.op \in Arithmetic -> {i.lhs, i.rhs} [] i.op = "set" -> {i.from} [] OTHER -> {}
Assigns(i, n) == IF i.op = "set" THEN i.var = n ELSE i.to = n
BlockAssigns(f, b, n) == \E k \in DOMAIN f.code[b] : Assigns(f.code[b][k], n)

\* The blocks S are all that can be reached without passing d, and more.
Around(f, d, S) ==
    Entry \in S /\ \A b \in S \ {d} : \A n \in DOMAIN f.succ[b] : f.succ[b][n] \in S
Dominates(f, d, b) == \E S \in SUBSET Block : Around(f, d, S) /\ b \notin S

\* What LLVM's verifier checks: nothing jumps to the entry, and registers are assigned
\* before they are read, in the same block or one that dominates it.
Verified(f) ==
    /\ \A b \in Block : \A n \in DOMAIN f.succ[b] : f.succ[b][n] # Entry
    /\ \A b \in Block : \A k \in DOMAIN f.code[b] : \A r \in Operands(f.code[b][k]) :
          \/ \E j \in 1..(k - 1) : Assigns(f.code[b][j], r)
          \/ \E d \in Block : Dominates(f, d, b) /\ BlockAssigns(f, d, r)

\* The entry assigns all variables that the function does, which a merge would take
\* for Bottom on the paths where they are not assigned.
AssignsFirst(f) ==
    \A b \in Block, x \in Var : BlockAssigns(f, b, x) => BlockAssigns(f, Entry, x)

\* Phis, which the analysis does not see, are not read by what it does see.
Phi(f, r) ==
    \E b \in Block : \E k \in DOMAIN f.code[b] : f.code[b][k].op = "phi" /\ f.code[b][k].to = r
PhisUnread(f) ==
    \A b \in Block : \A k \in DOMAIN f.code[b] : \A r \in Operands(f.code[b][k]) : ~Phi(f, r)

\* Nothing is divided: R divides two integers to a double.
Undivided(f) == \A b \in Block : \A k \in DOMAIN f.code[b] : f.code[b][k].op # "div"

Analysable(f) == Verified(f) /\ AssignsFirst(f) /\ PhisUnread(f) /\ Undivided(f)

----------------------------------------------------------------------------
(* Executions of the analysed function, by the rules of R.                 *)

VARIABLES
    at,     \* the next instruction: [block, k], or [block |-> None] before the start
    from,   \* the block before that
    regs,   \* registers that have a value, with its kind
    env     \* env[x]: the kind of the value of variable x, once the function runs

evars == <<at, from, regs, env>>
tvars == <<function, queue, states, ran, at, from, regs, env>>

Running == at.block # None
Code == function.code[at.block]
Instruction == Code[at.k]

\* What arithmetic on two values can result in.
Results(op, a, b) ==
    IF "other" \in {a, b} THEN Class
    ELSE IF "dbl" \in {a, b} \/ op = "div" THEN {"dbl"} ELSE {"int"}

TInit ==
    /\ AInit
    /\ at = [block |-> None, k |-> 0]
    /\ from = None
    /\ regs = Unknown
    /\ env = Unknown

Analyse == ANext /\ UNCHANGED evars

\* The analysed function is called, in any environment.
Enter ==
    /\ Analysed /\ ~Running
    /\ at' = [block |-> Entry, k |-> 1]
    /\ env' \in [Var -> Class]
    /\ UNCHANGED <<avars, from, regs>>

Compute(r, class) ==
    /\ regs' = Assign(regs, r, class)
    /\ at' = [at EXCEPT !.k = @ + 1]

\* An instruction is executed.  The code that a call runs may assign variables.  A read
\* changes none: it may force a promise, but promises that assign are left out.
Execute ==
    /\ Running /\ at.k <= Len(Code)
    /\ LET i == Instruction
       IN  \/ i.op = "const" /\ Compute(i.to, i.class) /\ UNCHANGED env
           \/ i.op = "get" /\ Compute(i.to, env[i.var]) /\ UNCHANGED env
           \/ i.op = "phi" /\ Compute(i.to, regs[i.values[from]]) /\ UNCHANGED env
           \/ /\ i.op = "set"
              /\ env' = [env EXCEPT ![i.var] = regs[i.from]]
              /\ at' = [at EXCEPT !.k = @ + 1]
              /\ UNCHANGED regs
           \/ /\ i.op \in Arithmetic
              /\ \E class \in Results(i.op, regs[i.lhs], regs[i.rhs]) : Compute(i.to, class)
              /\ UNCHANGED env
           \/ /\ i.op = "call"
              /\ \E class \in Class : Compute(i.to, class)
              /\ env' \in [Var -> Class]
    /\ UNCHANGED <<avars, from>>

Jump ==
    /\ Running /\ at.k > Len(Code)
    /\ \E n \in DOMAIN function.succ[at.block] :
          at' = [block |-> function.succ[at.block][n], k |-> 1]
    /\ from' = at.block
    /\ UNCHANGED <<avars, regs, env>>

TNext == Analyse \/ Enter \/ Execute \/ Jump
TSpec == TInit /\ [][TNext]_tvars
FairTSpec == TSpec /\ WF_avars(ANext)

----------------------------------------------------------------------------
(* Properties *)

\* Arithmetic that the optimizer rewrites to a scalar operation has operands of that
\* kind, and R's result would be of that kind too; code that runs has been analysed.
RewritesRight ==
    Running =>
       /\ at.block \in DOMAIN states
       /\ at.k <= Len(Code) /\ Instruction.op \in Arithmetic =>
             LET i == Instruction
                 kind == Replacement(TypesAt(at.block, at.k), i)
             IN  kind # "generic" => /\ regs[i.lhs] = kind /\ regs[i.rhs] = kind
                                     /\ Results(i.op, kind, kind) = {kind}
=============================================================================
