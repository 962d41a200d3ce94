---------------------------- MODULE InlineCache ----------------------------
(***************************************************************************)
(* The inline caches of rjit's call sites.  Every call in native code is a *)
(* patchpoint: a call instruction whose target starts as the stub for the  *)
(* number of arguments and is overwritten, each time the stub runs, by an  *)
(* inline cache (IC) compiled for the function that was just called.  The  *)
(* module follows one R process: a stack of activations of call sites, the *)
(* functions (their body is the CDR of the closure and moves to native     *)
(* code), the memory cells of bodies (which the collector frees and the    *)
(* allocator reuses), the targets of the sites, and the special ICs the    *)
(* code cache holds.  That a stub has an address by the time a site is     *)
(* linked to it is CompileSession's concern.                               *)
(***************************************************************************)
EXTENDS Naturals, FiniteSets

CONSTANTS
    Site,       \* call sites (patchpoint ids) of native code
    Fun,        \* function objects (CLOSXP, BUILTINSXP, SPECIALSXP)
    Lit,        \* what a function is made from: formals and body, or a primitive
    Addr,       \* memory cells that hold bodies (LANGSXP, BCODESXP, NATIVESXP)
    Orders,     \* the ways the arguments of a call map to the formals
    Nil,        \* R_NilValue: the body of primitives and of closures without one
    None,       \* absent: an unlinked site, a free cell, an undefined function
    NoOrder,    \* compileIc finds no static order of the arguments
    Size,       \* Size[s]: number of arguments of the call at site s
    Kind,       \* Kind[l]: "closure", "builtin" or "special"
    BodyType,   \* BodyType[l]: type of a fresh body, "nil" where it is Nil
    Order,      \* Order[s][l]: the static order for a function made from l
    MaxDepth,   \* bound: the activations on the stack
    EnableJit,  \* R_ENABLE_JIT
    Hot,        \* the flag recompileHot
    Collects    \* the collector frees cells, and so their addresses are reused

NativeTypes == {"native", "optimized"}
PlainTypes == {"lang", "bcode", "other"}
Kinds == {"closure", "builtin", "special"}

ASSUME OrderAssumption ==
    /\ NoOrder \notin Orders
    /\ Order \in [Site -> [Lit -> Orders \cup {NoOrder}]]
ASSUME KindAssumption ==
    /\ Kind \in [Lit -> Kinds]
    /\ BodyType \in [Lit -> PlainTypes \cup {"nil"}]
    /\ \A l \in Lit : Kind[l] # "closure" => BodyType[l] = "nil"
ASSUME SizeAssumption == Size \in [Site -> Nat]
ASSUME BoundAssumption == MaxDepth \in Nat /\ EnableJit \in Nat
ASSUME FlagAssumption == Hot \in BOOLEAN /\ Collects \in BOOLEAN

(***************************************************************************)
(* Native code a call site can jump to.  A static IC inlines the call of a *)
(* native closure with the arguments in a fixed order; the generic ICs     *)
(* build the argument list and leave the matching to R.                    *)
(***************************************************************************)
Code == [kind : {"stub", "special", "static", "builtin", "closure"},
         body : Addr \cup {Nil}, order : Orders \cup {NoOrder}]

IC(kind, b, o) == [kind |-> kind, body |-> b, order |-> o]
Stub == IC("stub", Nil, NoOrder)
SpecialIC == IC("special", Nil, NoOrder)

Cell == [type : PlainTypes \cup NativeTypes, lit : Lit, src : Addr \cup {Nil}]

\* What an activation ended up executing: which code, how its arguments were
\* ordered, and through which of R's calling conventions.
Run == [how : Kinds, lit : Lit, order : Orders \cup {NoOrder}]

Dispatching == {"enter", "compile", "build", "patch"}

Activation == [site : Site, fun : Fun, code : Code, misses : Nat,
               pc : Dispatching \cup {"args", "begin", "run"},
               ran : Run \cup {None}]

ASSUME DistinctAssumption ==
    /\ Nil \notin Addr /\ None \notin Lit
    /\ None \notin Cell /\ None \notin Code
    /\ None \notin Run /\ None \notin Activation

VARIABLES
    rjitCompile,  \* RJIT_COMPILE
    lit,          \* lit[f]: the literal f is made from, None if f is undefined
    body,         \* body[f]: CDR(f)
    heap,         \* heap[a]: the cell at a, None if the address is free
    target,       \* target[s]: where the call instruction of s jumps
    specials,     \* numbers of arguments for which the cache has a special IC
    depth,        \* number of activations on the stack
    stack         \* stack[d], for d \in 1..depth, is an activation

vars == <<rjitCompile, lit, body, heap, target, specials, depth, stack>>

Top == stack[depth]

\* R code runs at top level, in the body of the last call, or in the arguments
\* of a builtin.
RCodeRuns == depth > 0 => Top.pc \in {"args", "run"}

Active(f) == \E d \in 1..depth : stack[d].fun = f
Free == {a \in Addr : heap[a] = None}
TypeOf(b) == IF b = Nil THEN "nil" ELSE heap[b].type
KindOf(f) == Kind[lit[f]]

\* What running the body b for f computes: the ghost field lit of its cell.
LitAt(a) == IF heap[a] = None THEN None ELSE heap[a].lit
MeaningOf(b, f) == IF b = Nil THEN lit[f] ELSE LitAt(b)
Meaning(f) == MeaningOf(body[f], f)

Init ==
    /\ rjitCompile \in BOOLEAN
    /\ lit = [f \in Fun |-> None]
    /\ body = [f \in Fun |-> Nil]
    /\ heap = [a \in Addr |-> None]
    /\ target = [s \in Site |-> None]
    /\ specials = {}
    /\ depth = 0
    /\ stack = [d \in 1..MaxDepth |-> None]

----------------------------------------------------------------------------
(* R code around the caches: it defines functions, lets the collector run, *)
(* switches compilation on and off and compiles functions explicitly.      *)

\* A function is (re)defined from a literal; its body is allocated.
Define(f, l) ==
    /\ RCodeRuns /\ ~Active(f)
    /\ lit' = [lit EXCEPT ![f] = l]
    /\ \/ /\ BodyType[l] = "nil"
          /\ body' = [body EXCEPT ![f] = Nil]
          /\ UNCHANGED heap
       \/ /\ BodyType[l] # "nil"
          /\ \E a \in Free :
                /\ body' = [body EXCEPT ![f] = a]
                /\ heap' = [heap EXCEPT ![a] =
                      [type |-> BodyType[l], lit |-> l, src |-> Nil]]
    /\ UNCHANGED <<rjitCompile, target, specials, depth, stack>>

\* g becomes another closure over the body f has at this moment.
Share(f, g) ==
    /\ RCodeRuns /\ ~Active(g) /\ lit[f] # None
    /\ lit' = [lit EXCEPT ![g] = lit[f]]
    /\ body' = [body EXCEPT ![g] = body[f]]
    /\ UNCHANGED <<rjitCompile, heap, target, specials, depth, stack>>

\* Faulty variant: the AST in the constants of native code is not a reference.
CollectForgetsSources(a) ==
    /\ Collects /\ heap[a] # None
    /\ \A f \in Fun : body[f] # a
    /\ depth > 0 => Top.pc \notin {"enter", "patch"}
    /\ heap' = [heap EXCEPT ![a] = None]
    /\ UNCHANGED <<rjitCompile, lit, body, target, specials, depth, stack>>

\* The collector frees a cell that no function and no native code refers to.
\* An address embedded in an IC is not a reference the collector knows.
Collect(a) ==
    /\ Collects /\ heap[a] # None
    /\ \A f \in Fun : body[f] # a
    /\ \A b \in Addr : heap[b] # None => heap[b].src # a
    /\ depth > 0 => Top.pc \notin {"enter", "patch"}
    /\ heap' = [heap EXCEPT ![a] = None]
    /\ UNCHANGED <<rjitCompile, lit, body, target, specials, depth, stack>>

Switch ==
    /\ RCodeRuns
    /\ rjitCompile' = ~rjitCompile
    /\ UNCHANGED <<lit, body, heap, target, specials, depth, stack>>

\* A module is finalized: its sites S, which are new, point to the stubs for their
\* numbers of arguments.
Finalize(S) ==
    /\ \A s \in S : target[s] = None
    /\ target' = [s \in Site |-> IF s \in S THEN Stub ELSE target[s]]

\* The AST that native code compiled from a body keeps in its constant pool.
Source(b) ==
    IF TypeOf(b) \in NativeTypes THEN heap[b].src
    ELSE IF TypeOf(b) = "bcode" THEN Nil ELSE b

\* What the compiler reads: the AST found in that cell, where there is one.
SourceMeaning(f) ==
    IF Source(body[f]) = Nil THEN Meaning(f) ELSE LitAt(Source(body[f]))

\* The body of f is compiled into the free cell a, in a module whose call
\* sites are S, and becomes the body of g.
CompileInto(f, g, a, type, S) ==
    /\ heap' = [heap EXCEPT ![a] =
          [type |-> type, lit |-> SourceMeaning(f), src |-> Source(body[f])]]
    /\ body' = [body EXCEPT ![g] = a]
    /\ Finalize(S)

\* jit.compile, jit.compileInPlace and jit.compileFunctions (for f = g).
CompileExplicitly(f, g) ==
    /\ RCodeRuns /\ lit[f] # None /\ KindOf(f) = "closure"
    /\ g = f \/ ~Active(g)
    /\ \E a \in Free, S \in SUBSET Site : CompileInto(f, g, a, "native", S)
    /\ lit' = [lit EXCEPT ![g] = lit[f]]
    /\ UNCHANGED <<rjitCompile, specials, depth, stack>>

----------------------------------------------------------------------------
(* A call: the site's instruction jumps to whatever it was patched to.     *)

Push(act) ==
    /\ depth' = depth + 1
    /\ stack' = [stack EXCEPT ![depth + 1] = act]

\* Native code evaluates the call at site s and finds the function f.  A cell
\* must be left for the body the call may have to compile (a bound on memory).
Call(s, f) ==
    /\ RCodeRuns /\ depth < MaxDepth
    /\ target[s] # None /\ lit[f] # None /\ Free # {}
    /\ Push([site |-> s, fun |-> f, code |-> target[s], misses |-> 0,
             pc |-> "enter", ran |-> None])
    /\ UNCHANGED <<rjitCompile, lit, body, heap, target, specials>>

\* Faulty variants: the guard of a static IC accepts every native closure, the
\* guard of a special IC accepts everything.
AcceptsAnyNative(c, f) ==
    \/ c.kind = "special" /\ KindOf(f) = "special"
    \/ c.kind = "static" /\ TypeOf(body[f]) \in NativeTypes
    \/ c.kind \in {"builtin", "closure"} /\ body[f] = c.body
AcceptsInSpecial(c, f) ==
    \/ c.kind = "special"
    \/ c.kind \in {"static", "builtin", "closure"} /\ body[f] = c.body

\* The guard at the head of an IC.
Accepts(c, f) ==
    \/ c.kind = "special" /\ KindOf(f) = "special"
    \/ c.kind \in {"static", "builtin", "closure"} /\ body[f] = c.body

Step(act) ==
    /\ stack' = [stack EXCEPT ![depth] = act]
    /\ UNCHANGED depth

Entered == depth > 0 /\ Top.pc = "enter"

EnterStub ==
    /\ Entered /\ Top.code.kind = "stub"
    /\ Step([Top EXCEPT !.pc = "compile"])
    /\ UNCHANGED <<rjitCompile, lit, body, heap, target, specials>>

\* The guard fails and the IC calls the stub with the same arguments.
Miss ==
    /\ Entered /\ Top.code.kind # "stub" /\ ~Accepts(Top.code, Top.fun)
    /\ Step([Top EXCEPT !.pc = "compile", !.misses = @ + 1])
    /\ UNCHANGED <<rjitCompile, lit, body, heap, target, specials>>

Hit(kind) == Entered /\ Top.code.kind = kind /\ Accepts(Top.code, Top.fun)

RunAs(how, b, o) == [how |-> how, lit |-> MeaningOf(b, Top.fun), order |-> o]

\* R's own matching: the order the callee's formals ask for.
Matched == Order[Top.site][lit[Top.fun]]

\* The IC runs the body it was compiled for, which the guard found to be CDR(fun).
HitStatic ==
    /\ Hit("static")
    /\ Step([Top EXCEPT !.pc = "begin",
                        !.ran = RunAs("closure", Top.code.body, Top.code.order)])
    /\ UNCHANGED <<rjitCompile, lit, body, heap, target, specials>>

HitClosure ==
    /\ Hit("closure")
    /\ Step([Top EXCEPT !.pc = "begin", !.ran = RunAs("closure", body[Top.fun], Matched)])
    /\ UNCHANGED <<rjitCompile, lit, body, heap, target, specials>>

HitSpecial ==
    /\ Hit("special")
    /\ Step([Top EXCEPT !.pc = "run", !.ran = RunAs("special", body[Top.fun], Matched)])
    /\ UNCHANGED <<rjitCompile, lit, body, heap, target, specials>>

\* The arguments of a builtin are evaluated before the call: R code runs.
HitBuiltin ==
    /\ Hit("builtin")
    /\ Step([Top EXCEPT !.pc = "args"])
    /\ UNCHANGED <<rjitCompile, lit, body, heap, target, specials>>

CallBuiltin ==
    /\ depth > 0 /\ Top.pc = "args"
    /\ Step([Top EXCEPT !.pc = "run", !.ran = RunAs("builtin", body[Top.fun], Matched)])
    /\ UNCHANGED <<rjitCompile, lit, body, heap, target, specials>>

----------------------------------------------------------------------------
(* The stub: compileIC, patchIC and the jump to the new IC.                *)

\* compileIC compiles the callee first?
ShouldCompile(f) ==
    \/ rjitCompile /\ TypeOf(body[f]) \in {"lang", "bcode"}
    \/ TypeOf(body[f]) = "lang" /\ EnableJit > 3
    \/ TypeOf(body[f]) = "bcode" /\ (EnableJit = 3 \/ EnableJit > 4)

CompileCallee ==
    /\ depth > 0 /\ Top.pc = "compile" /\ ShouldCompile(Top.fun)
    /\ \E a \in Free, S \in SUBSET Site :
          CompileInto(Top.fun, Top.fun, a, "native", S)
    /\ Step([Top EXCEPT !.pc = "build"])
    /\ UNCHANGED <<rjitCompile, lit, specials>>

KeepCallee ==
    /\ depth > 0 /\ Top.pc = "compile" /\ ~ShouldCompile(Top.fun)
    /\ Step([Top EXCEPT !.pc = "build"])
    /\ UNCHANGED <<rjitCompile, lit, body, heap, target, specials>>

\* Faulty variants: the IC embeds the body from before the callee was compiled, or
\* calls every function as a closure.
NewICOfOldBody(s, f) == IC(KindOf(f), Source(body[f]), NoOrder)
NewICForClosures(s, f) == IC("closure", body[f], NoOrder)

\* The IC for calling f at s: static where f is native and the arguments have a
\* static order, else generic, by the type of f.
NewIC(s, f) ==
    IF KindOf(f) = "closure" /\ TypeOf(body[f]) \in NativeTypes
       /\ Order[s][lit[f]] # NoOrder
    THEN IC("static", body[f], Order[s][lit[f]])
    ELSE IC(KindOf(f), body[f], NoOrder)

BuildSpecialIC ==
    /\ depth > 0 /\ Top.pc = "build" /\ KindOf(Top.fun) = "special"
    /\ specials' = specials \cup {Size[Top.site]}
    /\ Step([Top EXCEPT !.pc = "patch", !.code = SpecialIC])
    /\ UNCHANGED <<rjitCompile, lit, body, heap, target>>

BuildIC ==
    /\ depth > 0 /\ Top.pc = "build" /\ KindOf(Top.fun) # "special"
    /\ Step([Top EXCEPT !.pc = "patch", !.code = NewIC(Top.site, Top.fun)])
    /\ UNCHANGED <<rjitCompile, lit, body, heap, target, specials>>

\* Faulty variant: the stub jumps to its own entry in place of the new IC.
PatchICAndRetry ==
    /\ depth > 0 /\ Top.pc = "patch"
    /\ target' = [target EXCEPT ![Top.site] = Top.code]
    /\ Step([Top EXCEPT !.pc = "enter", !.code = Stub])
    /\ UNCHANGED <<rjitCompile, lit, body, heap, specials>>

\* patchIC rewrites the call instruction of the site, and the stub enters the IC.
PatchIC ==
    /\ depth > 0 /\ Top.pc = "patch"
    /\ target' = [target EXCEPT ![Top.site] = Top.code]
    /\ Step([Top EXCEPT !.pc = "enter"])
    /\ UNCHANGED <<rjitCompile, lit, body, heap, specials>>

----------------------------------------------------------------------------
(* The callee runs, possibly after recompiling itself, and returns.        *)

Begin ==
    /\ depth > 0 /\ Top.pc = "begin"
    /\ Step([Top EXCEPT !.pc = "run"])
    /\ UNCHANGED <<rjitCompile, lit, body, heap, target, specials>>

\* The invocation counter of native code that was not optimized yet is over the
\* limit: the closure is recompiled and the new code runs in its place.
RecompileHot ==
    /\ depth > 0 /\ Top.pc = "begin"
    /\ Hot /\ TypeOf(body[Top.fun]) = "native"
    /\ \E a \in Free, S \in SUBSET Site :
          CompileInto(Top.fun, Top.fun, a, "optimized", S)
    /\ Step([Top EXCEPT !.pc = "run", !.ran.lit = SourceMeaning(Top.fun)])
    /\ UNCHANGED <<rjitCompile, lit, specials>>

Return ==
    /\ depth > 0 /\ Top.pc = "run"
    /\ depth' = depth - 1
    /\ stack' = [stack EXCEPT ![depth] = None]
    /\ UNCHANGED <<rjitCompile, lit, body, heap, target, specials>>

\* Faulty variant: one activation too many stays on the stack.
UnwindOneShort(d) ==
    /\ depth > 0 /\ RCodeRuns
    /\ depth' = d
    /\ stack' = [e \in 1..MaxDepth |-> IF e > d + 1 THEN None ELSE stack[e]]
    /\ UNCHANGED <<rjitCompile, lit, body, heap, target, specials>>

\* An R error, or a non-local return, drops every activation above d.
Unwind(d) ==
    /\ depth > 0 /\ RCodeRuns
    /\ depth' = d
    /\ stack' = [e \in 1..MaxDepth |-> IF e > d THEN None ELSE stack[e]]
    /\ UNCHANGED <<rjitCompile, lit, body, heap, target, specials>>

----------------------------------------------------------------------------

Dispatch ==
    \/ EnterStub \/ Miss \/ HitStatic \/ HitClosure \/ HitSpecial \/ HitBuiltin
    \/ CompileCallee \/ KeepCallee \/ BuildSpecialIC \/ BuildIC \/ PatchIC

Environment ==
    \/ \E f \in Fun, l \in Lit : Define(f, l)
    \/ \E f, g \in Fun : Share(f, g) \/ CompileExplicitly(f, g)
    \/ \E a \in Addr : Collect(a)
    \/ Switch

Next ==
    \/ Dispatch \/ Environment
    \/ \E s \in Site, f \in Fun : Call(s, f)
    \/ CallBuiltin \/ Begin \/ RecompileHot \/ Return
    \/ \E d \in 0..(depth - 1) : Unwind(d)

\* The process has one thread: once a call is being dispatched, nothing but the
\* dispatch itself (and the collector it triggers) can run.
Fairness == WF_vars(Dispatch)

Spec == Init /\ [][Next]_vars
FairSpec == Spec /\ Fairness

----------------------------------------------------------------------------
(* Properties *)

StoreTypeOK ==
    /\ rjitCompile \in BOOLEAN
    /\ lit \in [Fun -> Lit \cup {None}]
    /\ body \in [Fun -> Addr \cup {Nil}]
    /\ heap \in [Addr -> Cell \cup {None}]
    /\ target \in [Site -> Code \cup {None}]
    /\ specials \in SUBSET Nat

StackTypeOK ==
    /\ depth \in 0..MaxDepth
    /\ stack \in [1..MaxDepth -> Activation \cup {None}]
    /\ \A d \in 1..MaxDepth : stack[d] # None <=> d <= depth

\* Every variable has its type (api.cpp, Runtime.cpp and ICCompiler.cpp keep
\* this state in R objects, patched machine code and the code cache).
TypeOK == StoreTypeOK /\ StackTypeOK

\* The IC the stub has just compiled accepts the function it was compiled for,
\* even though compileIC replaced the body on the way: a call goes through the
\* stub at most once, it never loops between guard and stub.
AtMostOneMiss ==
    \A d \in 1..depth :
       /\ stack[d].misses <= 1
       /\ stack[d].pc = "patch" => Accepts(stack[d].code, stack[d].fun)

\* Whatever is cached, patched, recompiled or collected in between, a call runs
\* the code of the function it was made on.
RightCode ==
    \A d \in 1..depth : stack[d].ran # None => stack[d].ran.lit = lit[stack[d].fun]

\* A call uses the calling convention of the kind of function it was made on.
\* The generic guard compares bodies only, and primitives all have the body Nil.
RightKind ==
    \A d \in 1..depth : stack[d].ran # None => stack[d].ran.how = KindOf(stack[d].fun)

\* A static IC binds the arguments in the order the callee's formals ask for.
RightOrder ==
    \A d \in 1..depth :
       stack[d].ran # None => stack[d].ran.order = Order[stack[d].site][lit[stack[d].fun]]

\* Cells in use hold what they should: the body of a function computes what the
\* function was made from, native code keeps an AST that does the same.
BodiesAgree ==
    \A f \in Fun :
       IF lit[f] = None \/ body[f] = Nil THEN body[f] = Nil
       ELSE heap[body[f]] # None /\ heap[body[f]].lit = lit[f]

SourcesAgree ==
    \A a \in Addr : heap[a] # None /\ heap[a].src # Nil =>
       heap[heap[a].src] # None /\ heap[heap[a].src].lit = heap[a].lit

\* Why a call misses at most once.  Only the last activation is being dispatched,
\* so no body changes under a fresh IC except by the dispatch itself.
OnlyTopDispatches ==
    \A d \in 1..depth : d < depth => stack[d].pc \in {"args", "run"}
RanOnceBegun ==
    \A d \in 1..depth : stack[d].ran # None <=> stack[d].pc \in {"begin", "run"}
ActiveDefined == \A d \in 1..depth : lit[stack[d].fun] # None
FreshAccepts ==
    \A d \in 1..depth :
       /\ stack[d].misses <= 1
       /\ \/ stack[d].pc = "patch"
          \/ stack[d].pc = "enter" /\ stack[d].misses = 1
          => Accepts(stack[d].code, stack[d].fun)

\* The inductive invariants: of the store, and of the stack on top of it.
StoreInv == StoreTypeOK /\ BodiesAgree /\ SourcesAgree
StackInv ==
    /\ StackTypeOK /\ OnlyTopDispatches /\ RanOnceBegun /\ ActiveDefined
    /\ FreshAccepts /\ RightCode

CacheInv == StoreInv /\ StackInv

\* Why the calling convention is right where all bodiless functions have the same
\* kind, so that the guard's comparison of bodies tells kinds apart.
BodilessHaveOneKind ==
    \A l, m \in Lit : BodyType[l] = "nil" /\ BodyType[m] = "nil" => Kind[l] = Kind[m]

BodyFitsKind(f) ==
    lit[f] # None => IF body[f] = Nil THEN BodyType[lit[f]] = "nil" ELSE KindOf(f) = "closure"
CodeFitsKind(c) ==
    /\ c.kind \in {"static", "closure"} /\ c.body = Nil =>
          \E l \in Lit : BodyType[l] = "nil" /\ Kind[l] = "closure"
    /\ c.kind = "builtin" =>
          c.body = Nil /\ \E l \in Lit : BodyType[l] = "nil" /\ Kind[l] = "builtin"
KindInv ==
    /\ \A f \in Fun : BodyFitsKind(f)
    /\ \A s \in Site : target[s] # None => CodeFitsKind(target[s])
    /\ \A d \in 1..depth :
          /\ CodeFitsKind(stack[d].code)
          /\ stack[d].pc = "args" => KindOf(stack[d].fun) = "builtin"
    /\ RightKind

\* Why the order is right where no cell is freed: the body embedded in a static IC
\* is still the native code whose formals gave the IC its order.
OrderedFor(c, s) ==
    c.kind = "static" => /\ c.body \in Addr /\ heap[c.body] # None
                         /\ c.order = Order[s][heap[c.body].lit]
OrderInv ==
    /\ \A s \in Site : target[s] # None => OrderedFor(target[s], s)
    /\ \A d \in 1..depth : OrderedFor(stack[d].code, stack[d].site)
    /\ RightOrder

\* Every call that starts gets to its callee (or to evaluating its arguments):
\* stub, compiler, patch and guard always come to an end.
Served ==
    \A d \in 1..MaxDepth :
       (depth = d /\ Top.pc \in Dispatching)
          ~> (depth = d /\ Top.pc \in {"args", "begin", "run"})

\* What the calls of FunctionCalls are in this module.
AbstractCalls == [d \in 1..MaxDepth |->
    IF d > depth THEN None
    ELSE [site |-> stack[d].site, fun |-> stack[d].fun, ran |-> stack[d].ran]]
Calls == INSTANCE FunctionCalls WITH calls <- AbstractCalls

\* Calling through stubs, inline caches and native code implements plain function
\* calls: every step is a step of FunctionCalls or leaves its state alone.
RefinesCalls == Calls!Spec
============================================================================
