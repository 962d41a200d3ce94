# rjit in TLA+

rjit is a just-in-time compiler for R: it turns closures of a (modified) GNU-R into native code
with LLVM 3.7. It is single-threaded C++ loaded into the R process; its asserts are compiled in.
This directory models the parts of `src/rjit/src` whose correctness depends on more than one
function call: code that patches itself, compilation that shares the process with a garbage
collector, what the collector is told about the code's registers, the memory that code lives in,
arguments that are bound ahead of time, control flow that is compiled away, and analyses that run
to a fixpoint. Paths below are relative to `src/rjit/src`.

## Inventory

R code runs in native functions, which call each other through inline caches; a cache that misses
calls back into the compiler; everything the compiler allocates may run the collector, which calls
back into the compiler once more for its roots. Native functions are optimized by passes that trust
abstract interpretations of the code.

| Component | State | Operations | Hard behaviour | Correct when |
|---|---|---|---|---|
| Inline caches (`ICCompiler`, `Runtime`) | call target of every patchpoint; bodies (CDR) of closures | stub, guard, miss, compile callee and IC, patch, recompile hot code | self-modifying code; the guard compares addresses the collector does not know | a call runs its callee's code, by its convention, with its argument order, after at most one miss |
| Static argument matching (`ICCompiler::compileIc`, `compileGenericIc`) | the lists of one compilation | scan, match names, match positions, or build a list | any order of the map of names, duplicates, dots, giving up half-way | each argument is bound once and the callee gets what R would give it |
| Compiler sessions (`Compiler`, `ir/Builder`, `JITModule`) | live compilers, stack of contexts with constant pools, relocations | open and close functions, promises, loops; record constants; finalize; forward roots | collection at every allocation, nesting, R errors that unwind the C++ stack | what code under construction refers to stays alive; slot numbers stay right; no R code meets a function without code |
| Code cache (`CodeCache`) | name -> address | declare, set, look up | an entry without address survives an abandoned session | a name is linked only when it has an address |
| Expression compiler (`Compiler.cpp`) | block, break and next targets, visibility | one `compile*` per construct | break and next across promises and loops, layout of switches | generated control flow is R's |
| Forward analyses (`ir/State`, `ir/Pass`, `ir/PassDriver`) | queue of blocks with states, state per block | merge, transfer, enqueue | order of arrival, termination | the queue runs dry and the states are a fixpoint |
| Type analysis and scalar arithmetic (`Analysis/TypeAndShape`, `Optimization/Scalars`, `TypeInfo`) | abstract value per register and variable | transfer, rewrite | calls and joins invalidate facts | rewritten arithmetic meets scalars of the assumed kind |
| Scalars tracking, boxing and dead allocation removal | register that holds a vector's scalar | transfer, replace, erase | joins, dominance | the replacement register holds the scalar; analysis and erasing end |
| Variable analysis, constant loads | counters of one pass | count, erase | none | unused loads only are dropped |
| Type feedback (`Instrumentation`, `TypeInfo`) | a word per variable, a counter per closure | record, merge, read, attach | counter shared by activations | recorded types include all values seen |
| Compile layer (`JITCompileLayer`, `StackMap`, `StackScan`, `PlaceSafepoints`) | identifiers of patchpoints and safepoints, stack maps | number, record, patch stubs, walk the stack | two kinds of identifiers in one map, frames without frame pointer | every call's frame is found and its roots forwarded; call sites get the stub of their size |
| Statepoint rewriting (`RewriteStatepointsForGC`) | live registers per block, a worklist | seed, propagate, add operands to safepoints | backward fixpoint, phi nodes | no activation uses an object that the scan of its frame does not report |
| Symbol resolution (`JITSymbolResolver`, `Symbols`) | none | name to address | prefix comparison, shared name space | a name means one thing |
| Memory manager (`JITMemoryManager`) | blocks and free regions per section group, the place of the stack map | allocate, protect, leak | alignment and page arithmetic; code and stack maps outlive the manager | sections are disjoint, aligned, have the rights they need, and stay |
| IR (`ir/Ir`, `primitive_calls`, `Pass.cpp`) | patterns of LLVM instructions | create and mark, match, erase | a call that is not marked; erasing a pattern that is used | all calls that collect are marked; erasing ends and leaves no uses |
| R interface (`api.cpp`, `Flags`, `R/rjit.R`) | flags | compile an AST, functions, in place | partial failure, warnings | a failed call leaves R usable |

Interactions: call sites call `compileIC` (Runtime), which creates a session for the callee and
another builder for the IC; sessions share the static code cache and the static list of live
compilers; `Compiler::gcCallback` is called by GNU-R's collector during any allocation and reads the
sessions' contexts; optimizations run inside `JITCompileLayer::finalize`, which fills in addresses
of native functions and stubs and patches the call sites. On the way the safepoint passes run over
the module; what they find goes into the tables of `StackMap`, by which `StackScan` reads the frames
of compiled code in every later collection. Code and stack maps lie in memory of a
`JITMemoryManager` that is deleted with its engine as soon as the module is finalized.

`PROJECT.json` lists the components with their status, and under "hazards" each point where the code
can go wrong in a way that a test would hardly reach, with the properties that watch it.

## Modules

| Module | Models | Used by |
|---|---|---|
| `FunctionCalls` | abstract specification: what a call is, without caches | `InlineCache` |
| `InlineCache` | call sites, stubs, ICs, bodies, collector | `MCInlineCache`, `InlineCacheProofs` |
| `CompileSession` | sessions, contexts, pools, relocations, code cache, collector | `MCCompileSession`, `CompileSessionProofs` |
| `ExpressionCompiler` | compilation of expressions to blocks, execution of the blocks | `ExpressionMeaning`, `ExpressionCompilerProofs` |
| `ExpressionMeaning` | R's meaning of expressions, to which the execution is compared | `MCExpressionCompiler` |
| `ForwardAnalysis` | the worklist of forward analyses, for any values and transfer function | `TypeAndShape`, `ScalarsTracking`, `ForwardAnalysisProofs` |
| `TypeAndShape` | type analysis, rewriting to scalars, execution of the analysed function | `MCTypeAndShape`, `TypeAndShapeProofs` |
| `ScalarsTracking` | the analysis of registers that hold scalars | `MCScalarsTracking` |
| `Primitives` | operands, result and mark of every call into the runtime | `Safepoints` |
| `GCLiveness` | the analysis of live pointers, for one function | `Safepoints`, `SafepointsProofs` |
| `Safepoints` | the safepoint passes over modules, the tables, activations, collections | `MCSafepoints`, `SafepointsProofs` |
| `ArgumentMatch` | how arguments get from a call to its callee, and R's matching | `MCArgumentMatch`, `ArgumentMatchProofs` |
| `MemoryManager` | sections, their rights, the table of statepoints, deleted managers | `MCMemoryManager`, `MemoryManagerProofs` |

Definitions marked "Faulty variant" are plausible mistakes. No action uses them; they show that
each property can fail, by taking the place of the definition below them.

### InlineCache and FunctionCalls

One R process with a stack of activations. `lit` and `body` are functions (what they are made from,
and their CDR), `heap` the cells of bodies, `target` the operand of the call instruction at each
patchpoint, `specials` the special ICs that the code cache holds, `stack` one activation per call that
is dispatched or runs. That a linked site has its stub is not a matter of this module: whether the cache has an
address for it is `NamesKnown` of `CompileSession`. Each step of a dispatch is an action: `EnterStub` (jump to the stub),
`Hit*` and `Miss` (the guards of `compileIc`, `compileGenericIc`, `compileSpecialIC`),
`CompileCallee`/`KeepCallee` and `BuildIC`/`BuildSpecialIC` (`compileIC`), `PatchIC` (`patchIC` and
the retry), `CallBuiltin`, `Begin`, `RecompileHot` (`recompileFunction`), `Return`, and `Unwind` for
errors. In the bodies of closures, at top level and in the arguments of builtins arbitrary R code
runs (`Environment`): it defines functions, shares bodies, compiles explicitly (`jitAst`,
`jitFunctions`, `jitSwapForNative`), switches the JIT, and collects. A freed cell can be allocated
again; a static IC keeps the address of its callee's body as the integer the code has.

The property `RightOrder` compares the order in which a static IC binds arguments with the one that
the callee asks for (`Order`, a parameter: how it is computed is `ArgumentMatch`).
`FunctionCalls` knows no caches: a call is made, executes its callee with the right order and
convention, returns or is unwound. `RefinesCalls` says that `InlineCache` implements it, with the
activations' caches and dispatch steps hidden.

### CompileSession

`running` is the stack of sessions (a session that warns has R code running inside, which can start
another), `instances` the static `Compiler::_instances`, `ctxs` the builder's contexts with their
pools, `held` what `closeFunction` has allocated so far, `relocs` the native SEXPs a module will
patch, `cache`, `defines` and `links` the code cache and who compiles and who declares a stub. Actions are
the operations of `Builder` and `Compiler`: `Open`, `OpenLoop`, `CloseLoop`, `UseConstant`,
`CompileSwitch`, `CallSite`, `AllocSlot`, `ClosePromise`, `CloseFunction`, `Start`, `Finalize`, `Warn`,
`Resume`, `Abort`. When a warning of `jitFunctions` becomes an error, `longjmp` leaves the `Compiler`, which is a local
variable (`api.cpp:74`), without running its destructor: `_instances` keeps a pointer into a dead frame
(`Compiler.cpp:1255`), which every later collection follows. In the model (`Abort`) its roots hold until the frame is
overwritten (`Overwrite`, at any time from then on), and none afterwards; the process may also crash there, which ends a
behaviour. A later session may get the same address (`Start`). Natives that nobody will ever give code to are
marked as `"orphaned"`, a mark that the code does not have, and which no action reads. `OneWillPatch` says that all others
still get their code: nesting, abandoned sessions and dangling pointers do not take a native from the session that will
patch it, and that session never writes to a cell that was freed. An allocation is one action; `Collect` may run between any two, and frees all that
`Root` (what `gcCallback` forwards) does not reach. `Root` leaves out the current context's pool,
as the code does. The fields `used` record which slot each instruction reads and which
constant it means, so that slots and liveness can be compared with what the code will do.

### ExpressionCompiler and ExpressionMeaning

`CodeOf` compiles the body of a function as `Compiler.cpp` does, one operator per `compile*` method,
threading the compiler's state `b`: the blocks of the module, the number of registers, and what the
current context has: its block, the targets of break and next, whether a return has to jump, and the
visibility of the last result. Promises and functions defined in place get contexts of their own
(`Opened`, `Closed`), loops a copy (`OpenLoop`, `CloseLoop`). The actions execute the blocks, one
instruction at a time, with activations of functions and promises and of the callees that force
them. `Eval`, in a module of its own, is R's meaning of the same expression.

Expressions are a parameter: a set that has the parts of its elements, with a `Depth` that is smaller for
parts, which is what makes expressions finite. The compilation is by recursion over that depth (`Compile`), and each
`compile*` operator takes the compilation of the parts as an argument.

Data is abstract: the outcome of a condition, the number of arguments a callee forces, the length of
a sequence and the selected case are choices, recorded in `choices`; primitives record their
operands in `out`. `RunsRight` replays the choices through `Eval` and compares what was observed and
the value returned, at each choice and at the end; a block that takes a break without target has
`Unset` as its successor. `VisibleRight` compares visibility where the compiler can know it.

A switch has any set of cases without a name: with several, there is no vector of names, and a string is an error,
which ends the run (`Controls`); without cases it yields `NULL`. `EmitReturn` marks a result as invisible
or leaves the flag alone, as the code does, and `VisibleRight` compares that mark.

Programs are restricted to those all of whose loops, and switches (one on `NULL` is not), are compiled in place
(`CompiledInPlace`) and whose breaks and nexts are in bodies of loops (`JumpsInLoops`), and values of updates to those that do not change the variable. Outside of that the code does not follow R:

* A loop whose body has break or next in an operand, an assignment, a switch or an argument is turned
  down by `canSkipLoopContext` and becomes a call of R's loop, whose body is a promise; break in
  there reads a target that is never set (`Compiler.cpp:917`, although the comment above it says that
  it only sees loops whose context was skipped).
* `canSkipLoopContext` does not look at the condition of a while loop or the sequence of a for
  loop; a break in a sequence leaves the new loop, not the one around it.
* Visibility follows the branch that is compiled last: `if (x) 1` is invisible, as is
  `1 + {y <- 3}`; calls of the compiled function that does so are affected as well.
* An update of an element reads the vector before it evaluates the value (`Compiler.cpp:543`).

In one point `Eval` follows rjit and not R: a switch that selects no case and has no default runs its
last case (`Compiler.cpp:1243`), as `rjit/tests/stackless.R` expects.

### ForwardAnalysis, TypeAndShape, ScalarsTracking

`ForwardAnalysis` is `ForwardDriver::runOnFunction` with `Fixpoint::setState` and `AState::mergeWith`:
`Visit` (a block without state), `Revisit` (the merge reports a change), `Settle` (it does not, and
the names that the merge added stay). Values, `MergeValues`, `Changes` (the two results of
`mergeWith`) and `Transfer` (dispatch over a block) are parameters; `ran` is a ghost variable, the
state a block was last analysed from. Blocks are queued as the code does, the first successor last.

`TypeAndShape` gives it `TypeInfo` and the transfer functions of `TypeAndShapePass`, takes the
rewriting of `ScalarsPass` (`Replacement`), and then executes the analysed function by R's rules, where
a call may assign any variable. `RewritesRight` relates the two: where arithmetic has
been rewritten, the operands are scalars of that kind and the result is one. Values are known by their kind only: integer,
double or logical scalar, or anything else. A read of a variable changes none: promises that assign variables of the
function they are forced in (default arguments can) are left out, and the analysis is wrong about them.
`ScalarsTracking` gives the framework the values and accesses of `ScalarsTrackingPass`.

### Primitives, GCLiveness, Safepoints

`Primitives` lists, for each class of `primitive_calls.h` and `IrScalars.h`, how many of its operands
are objects and whether its result is one, and which of them `Builder::markSafepoint` marks: all but
the trampoline that runs a closure from an inline cache (`primitive_calls.h:146`).

`GCLiveness` is the backward analysis of `RewriteStatepointsForGC.cpp` on a function in static single
assignment form: `Start` computes each block's own data (`Seed` is what the phi nodes of its successors
want), `Visit` takes any block from the worklist, `Drop` ends. `Safepoints` composes it with the rest of
`JITCompileLayer::finalize`: `Begin`, `Place` (unreachable blocks go, calls get identifiers), `Rewrite`,
`Skip` and `Analyse` (phi nodes with one predecessor are folded), `Propagate`, `InsertParsePoints` (live
registers become operands) and `Emit` (the tables `statepoint` and `patchpoint`, patching of call
sites). Then the code runs: `Enter`, `Execute`, `Call`, `Resume`, `Jump`, `Return`, `Unwind`. While an
activation waits for a call, the runtime may enter other functions, compile the next module, unwind, or
`Collect`: what the scan of the frames (`Scanned`) does not report is freed. An object is held by
registers only, so that each one that the scan misses is lost. `freed` remembers which
registers dangle, and `UsesAlive` says that none of them is ever used.

All registers of the model are objects. `isGCManaged` also asks for the type `t::SEXP` (`JITGCStrategy.cpp:48`), so
that the pointers into vectors of `IrScalars.h:97-105` are not managed in the code; they do not occur here.

Three assumptions are about code elsewhere. LLVM's simplifier, which runs before, leaves no phi node that
merges a single value (`WellFormed`); `JITGCStrategy.cpp:45` would not count it as a pointer. Definitions
dominate their uses (`BasicSSA`), as LLVM's verifier has it; that what is live is then dominated by its
definition, which `checkBasicSSA` asserts of the result, is a lemma (`LiveAvailable`). And after a call that is not tagged (the trampoline, and `CallToAddress` in an inline cache's miss) nothing is used
but its result, as `ICCompiler.cpp` emits them (`CallsAssumption`); nothing checks that.

While reading the operands we met accessors of `AssignMatrixValue`, `AssignMatrixValue2`,
`SuperAssignMatrix` and `SuperAssignMatrix2` (from `primitive_calls.h:798` on) that disagree with the
order in which the operands are pushed. No pass uses them.

### ArgumentMatch

A call site passes literals and the special symbols as they are and compiles everything else
(`Passed`). For a closure `compileIc` tries to bind statically: `Scan` collects named and positional
arguments or gives up on dots and empty arguments, `ScanEnds` compares the lengths, `MatchNamed` takes the
named arguments in any order (the code iterates over an unordered map), `Advance` and `MatchPositional`
fill the other formals, `BindStatic` emits the call if the callee is native. Each `GiveUp` ends in
`compileGenericIc`, whose list (`AddArgument`, `CallGeneric`) is what R matches; so do builtins. `Meaning` is
what R does: `Supplied` (`promiseArgs`, `evalArgs`) and `Matched` (`matchArgs`: exact names, partial names,
positions, dots). Values remember what they stem from, so that `BindsAsR` compares not only
positions but also that code becomes a promise and a literal does not.

Where code and R differ, and what `BindsAsR` therefore excepts:

* A name that is given twice (`f(x = 1, x = 2)`) overwrites its entry in `argOrder` and leaves another
  one at -1, which the code then uses as an index (`ICCompiler.cpp:192-201` and 210-234), where R raises an error. The
  comment above the loop calls it a static version of `match.c`.
* Empty arguments of builtins are passed as `R_MissingArg`, where R raises an error.

A literal `NULL` becomes a promise of `NULL` in a static cache, since `compileIc`'s switch does not list it; its
value is the same (`CreatePromise`). `AddEllipsisArgumentHead` and `AddEllipsisArgumentTail` are runtime functions
outside of `src/`; they are taken to leave a list with a head also when the caller's `...` is empty.

### MemoryManager

One address stands for a byte, one `Manager` for each module. `Reuse` and `Map` are the two ways through
`allocateSection`, `Fail` is the third; `FinalizeMemory` gives pages their rights, with an error
after any of them; `RecordStackmaps` enters return addresses by `emplace`; `Delete` is the end of the engine.
`Released` is what the destructor gives back: nothing. The system may map
a block anywhere free. Addresses do not wrap around.

What the code relies on: MCJIT ignores the answer of `finalizeMemory` (so that `failed` modules go
on), RuntimeDyld stops on a null address, LLVM asks for at least one byte, and no section is asked for after
`finalizeMemory`, because an engine has one module. `FreeSize` is an `unsigned`: a larger rest is
cut, which wastes memory only. Engines are deleted right after each module in a release build
(`Compiler.cpp:104-107`, `ICCompiler.cpp:108-109`) and kept in a debug build. That the destructor leaks is what makes
`emplace` right: given back, memory would come with a later module, whose statepoints would
find the records of the earlier one (`StatepointsOwn`).

## Runs

| Run | Instance | Shows |
|---|---|---|
| `ICCore` | 2 sites with different numbers of arguments, one function that is AST, bytecode or special in turn, recompilation, R_ENABLE_JIT = 3, 3 cells, depth 2, collector | `TypeOK` `AtMostOneMiss` `RightCode` `RightKind`: a call misses at most once, also when its arguments patch its own site, and runs its callee's code, also when bodies are shared, recompiled and reused |
| `ICRefine` | fair, 1 site, closures with opposite orders, a builtin, depth 2, no collection | `RightOrder`, `RightKind`, `RefinesCalls`, `Served`: caches implement plain calls and every call reaches its callee |
| `ICOrderReuse` | as above with collection | violation of `RightOrder` |
| `CSNested` | successive sessions, 6 cells, one stub, depth 2 | `NamesKnown` `NoHollowCode` `ConstantsAlive` without warnings and switches |
| `CSWarns` | 2 sessions that nest or are abandoned, whose frames are overwritten and used again, switches, 4 cells, depth 3, 2 constants per pool | `TypeOK` `OneWillPatch` `SlotsMatch` in all of that: each native is patched once, alive |
| `CSWarnLink` | warnings | violation of `NamesKnown` |
| `ECRuns` | 481 functions: loops in loops, jumps at all places, promises, functions in place, switches with any empty and unnamed cases; up to 4 choices | `ETypeOK` `RunsRight` `VisibleRight` |
| `TSAssigned` | 96 functions: a branch or a loop of 4 blocks, bodies that assign, add, call or do nothing; 2 variables assigned first; fair | `ATypeOK` `Propagated` `UpToDate` `RewritesRight` `Progresses` `Terminates` |
| `STLoop` | a loop of one block that unboxes a scalar | violation of `ChangesReal` |
| `SPRuns` | 92 functions (each primitive; branches, loops, unreached blocks, an inline cache) with two others in two modules, depth 2, 9 objects; fair | `SPTypeOK` `Settled` `UsesAlive` `RootsAssigned` `PatchesRight` `Advances` `CompileEnds`: the scan finds what is used later and reads no register that was never set; every site calls its stub |
| `AMCalls` | calls of up to 3 arguments with all mixtures of names and kinds, all orders of up to 3 formals, two of which start alike, with and without dots, builtins | `AMTypeOK` `ArgOrderRight` `BindsAsR` |
| `MMSections` | 2 modules of up to 3 sections, pages of 8 bytes, sections that are smaller than a page, fill it, or are aligned to more than one | `MMTypeOK` `SectionsApart` `RightsMatch` `StatepointsOwn` |

Bounds, and why they are enough. The inline caches' hazards need one site, one function that changes
and one cell that is reused; two activations are needed for a call inside the arguments or
the body of another through the same site (`MaxDepth`), and two sites for calls with different numbers of arguments.
The fault in `ICOrderReuse` needs fewer. `CompileSession` needs a function
that holds a promise or a function that itself holds a constant: three objects, and a loop inside a
promise inside a function: depth 3 (`MaxDepth`); `MaxPool` bounds the constants put into a pool in
excess of its reserved slots. In `ECRuns` four choices (`MaxChoices`) run
two rounds of a loop in a loop, or a promise in a promise and what follows it; sequences have up to two elements
(`MaxLength`); a run that reaches the bound stutters. For joins and back edges four blocks are enough; a merge of three
different kinds is reached by the loop.

In `SPRuns` the first module has the function under test and a fixed one, the second a loop with a call
site, so that identifiers and patchpoints of one module meet those of another; a
second activation (`MaxDepth`) is what collects, unwinds, or uses the tables below the first; nine objects are
more than two activations can hold. In `AMCalls` three formals are the least for which a named, a skipped
and a positional argument interact; two names with a common start reach partial matching.
`MMSections` has two modules, the least for which one can meet the other's memory and records, and
three sections (`MaxSections`) of a module: a new block, its rest, and what is left of that. Sizes are scaled
down (`PageSize`, `DefaultAlignment`, `Spare`, `UnsignedLimit`); the theorems are for all of them.

Addresses, functions, objects, sessions and
arities are only compared, so the invariant runs permute them (`Symmetric`); the runs
with temporal properties use no symmetry.

Deadlock checking is off only for the `TS` and `ST` runs, where an analysis, and an execution, end, and
for `MMSections`, where every module ends. In `ECRuns` it is on: until it returns, compiled code always
has a next instruction; in `SPRuns`, where calls can always resume, and in `AMCalls`, where there always is another call.

### Violations

Each is a disagreement between the code and what it says of itself, quoted in `PROJECT.json`
under "findings".

* `ICOrderReuse`: define a closure, call it (its IC is compiled), redefine it with formals in another
  order, collect, let the new native body take the freed cell. The guard passes.
* `CSWarnLink`: `jitFunctions` warns in the middle of a session. A handler that compiles declares
  stubs whose addresses are not known, as does any session after an error abandoned the first.
  `NoHollowCode` fails there as well: functions already stored have no code yet.
* `STLoop`: `TrackingValue::mergeWith` says "changed" when null stays null, so `repeat { x <- 1 + 2 }`
  is analysed for ever. Loops of two or more blocks settle.

More divergences that the runs and theorems leave out by their conditions, which say where the code
is right:

* `RightKind` holds where functions without a body are of one kind. The guard of a generic IC
  (`ICCompiler.cpp:309`) cannot tell a builtin from a special, or either from a closure whose body
  is NULL; all have `R_NilValue` as CDR.
* `ConstantsAlive` holds without switches on strings. `compileSwitch` keeps the vector of case names in the
  current context's pool only, which the collector's callback does not visit, while the cases are
  compiled (`Compiler.cpp:1197`).
* `RewritesRight` holds for functions that assign their variables before they branch (`AssignsFirst`). In
  `function(x) { y <- 1; if (c) x <- 2; x + y }`, `x` counts as a scalar double at the join, since `AState`
  merges a missing variable as bottom (`ir/State.h:68`; the comment in `TypeAndShape.h` says top). Two
  more ways to violate it: an assignment of a value of an `if` (a phi, which the analysis does not see) keeps
  the variable's earlier type (`PhisUnread`), and the quotient of two integers is typed and computed as an integer
  (`Undivided`).
* `BindsAsR` holds where no name is given twice (above).
* `VisibleRight` holds where no branch that is compiled later, and no operand, leaves the compiler's flag wrong (above).
* `NamesKnown` and `NoHollowCode` hold in `CSNested` and in the theorems without warnings, with which `CSWarnLink` shows the
  opposite.
* An abandoned session leaves a dangling pointer in `_instances` that the collector follows (`Compiler.cpp:1257`). What it
  reads there is outside of any model; `OneWillPatch` is about the other sessions.
* `UsesAlive` holds where nothing but the result is used after an untagged call (`CallsAssumption`).

Each of these conditions takes a hazard out of the property: `PROJECT.json` lists those hazards without a property
that holds, unless a violated one shows them.

## Fairness

`InlineCache`: weak fairness of `Dispatch`. The process has one thread, so that once a call is being
dispatched nothing but the dispatch itself (and the collector) runs; each of its steps is
straight-line code. No fairness is assumed of R code: bodies may run for ever.
`TypeAndShape`: weak fairness of the driver's loop (`ANext`), which nothing else interrupts.
`Safepoints`: weak fairness of `Compile`, the steps of `JITCompileLayer::finalize`: it is straight-line code
of one thread, and neither R code nor a collection runs in it. What starts a module (`Begin`) and
what code does have no fairness.
`CompileSession`, `ExpressionCompiler`, `ArgumentMatch` and `MemoryManager` are checked for safety only.

## Proofs

TLAPS checks each theorem for every value of the constants that satisfies the modules' assumptions;
TLC evaluates those assumptions in the runs.

| Module | Theorem | Says |
|---|---|---|
| `ExpressionCompilerProofs` | `EveryBlockEnds` | all blocks of a compiled function end, and lead to blocks that exist |
| | `StackAlwaysOK` | the inductive invariant `MachineOK`: activations stand on the call, promise or apply that has started them |
| | `ActivationsAtInstructions` | `ETypeOK`, for all programs |
| `InlineCacheProofs` | `CacheSafe` | the inductive invariant `CacheInv` |
| | `TypeCorrect`, `MissesOnce`, `RunsItsCallee` | `TypeOK`, `AtMostOneMiss`, `RightCode` |
| | `ConventionsRight` | `RightKind`, where all functions without body are of one kind |
| | `OrdersRight` | `RightOrder`, where no cell is freed |
| | `ImplementsCalls` | `RefinesCalls`, under both conditions |
| `CompileSessionProofs` | `SessionTypes`, `EachPatchedOnce` | `TypeOK`, `OneWillPatch` |
| | `ConstantsSurvive` | `ConstantsAlive`, without switches on strings |
| | `SlotsRight` | `SlotsMatch`, for contexts nested in any way |
| | `LinksResolve`, `NothingHollow` | `NamesKnown`, `NoHollowCode`, without warnings inside sessions |
| `ForwardAnalysisProofs` | `AnalysisTypes`, `NothingLost`, `StatesUpToDate` | `ATypeOK`, `Propagated`, `UpToDate`, for analyses that make states from states |
| | `AnalysisProgresses` | `Progresses`, for such analyses whose merges report a change only where they make one |
| `TypeAndShapeProofs` | `TypesSettled`, `TypesProgress` | `Propagated`, `UpToDate` and `Progresses` for the type analysis, which meets these conditions |
| | `TypesSimulate` | the invariant that relates the analysis and the execution of a function: the kinds of all values are covered |
| | `ScalarsRight` | `RewritesRight`, for analysable functions (below) of any size, in which reads change no variable |
| `SafepointsProofs` | `LivenessSettled` | `Settled`: with an empty worklist all blocks agree with their successors |
| | `LivenessLeast` | no more registers are live than in any solution |
| | `LivenessAdvances` | `Advances`: live sets only grow, and each visit adds to them or shortens the worklist |
| | `SafepointsType`, `SafepointsSettled` | `SPTypeOK`, `Settled` |
| | `SafepointsAnalyse`, `SafepointsAdvance` | what the passes do to the data of liveness implements `LivenessSpec`; hence `Advances` |
| | `SafepointsUsesAlive`, `SafepointsRoots`, `SafepointsPatches` | `UsesAlive`, `RootsAssigned`, `PatchesRight` |
| `ArgumentMatchProofs` | `ArgumentTypes`, `ArgumentOrder` | `AMTypeOK`, `ArgOrderRight`, for calls of any length |
| | `BindsLikeR` | `BindsAsR`, for all calls, lists of formals and dots of the caller |
| `MemoryManagerProofs` | `MemoryType`, `MemoryApart` | `MMTypeOK`, `SectionsApart`, for all sizes, alignments and pages |
| | `MemoryRights`, `MemoryStatepoints` | `RightsMatch`, `StatepointsOwn` |

The conditions are exactly those that the violations show to be needed.

*Inline caches.* `AtMostOneMiss` is not inductive: a fresh IC accepts its function only as long as
the body that `compileIC` has just installed stays in place. `CacheInv` adds that only the last
activation is being dispatched (`OnlyTopDispatches`), that an IC fresh from the stub accepts
(`FreshAccepts`), and that cells hold what functions were made from (`BodiesAgree`, `SourcesAgree`). It splits into a store part and a stack part, so that each action is
treated against the part that it disturbs. `KindInv` and `OrderInv` are two more invariants on top:
every IC fits the kind, and the order, of the body that it embeds. The refinement maps an
activation that is dispatched to a call that has not run, a dispatch step to a stutter.

*Sessions.* `SessionInv` adds to the types that the sessions on the stack are registered and at different
addresses (`SessionsOK`), that a missing native is among the relocations of one of them (`MissingRelocated`), that these
relocations exist and are missing (`RelocsMissing`) and those of two sessions apart (`RelocsApart`), and that what the
code under construction reads is a relocation of the innermost (`ReadsRelocated`). `OneWillPatch` follows. Nothing is
said of the relocations found through dangling pointers, so that they may be overwritten.
`LoneInv` adds that without warnings only one session exists at a time (`Alone`), so that none is abandoned
(`NoOrphans`) and the stubs it declares and links follow (`StubsKnown`). For `SlotsMatch`, `SlotsInv` says of each open context whose pool no
loop has borrowed that its instructions read from its pool (`Fits`), above the slots that
closing will overwrite if it builds a part of a function (`Low`); loops inherit that bound, which is what makes
`CloseLoop` give back a pool that fits.

*Expressions.* The code that runs is what `CodeOf` computes, so that the invariant of the machine rests on a
theorem about the compiler. It is proved by induction over the parts of an expression (`PartsInduction`). `Shape` says of the
compiler's state how many blocks it has, at which one it is, which blocks are open (have no terminator yet) and what the targets
are. Compiling an expression (`CompiledOK`) may add blocks and end at another one, but of the blocks that were open
before it closes only the current one, and leaves open only the one at which it ends. A
break or next needs a target: `Placed` relates where these may stand (`JumpsInLoops`) to what `canSkipLoopContext` has
accepted (`Skips`), so that none gets into the context of a promise, where there is no target. Each `compile*` method has a lemma
(`IfCompiled`, `ForCompiled`, `SwitchCompiled`, ...); closing the context of a function or promise leaves no block
open. `MachineOK` adds what is on the stack: a callee stands above its call, a promise above the callee
that has it to force, a function that was called above its apply, and the outermost activation is a function's. So
`ReturnJump` always finds a function to return from, and what a return goes on with has a next instruction.
The recursive functions (`Skips`, `JumpsInLoops`, `CompiledInPlace`, `Compile`) are shown to be what their definitions say by
constructing the solution below each depth (`SolutionExists`, `CompileExists`).

*Analyses.* `Inv` has the typed queue, `UpToDate` and `Propagated`. The step lemma is shared by `Visit`
and `Revisit`: the state that a block is analysed from absorbs what arrived and all that the stored
state had absorbed (`Takes`), by the laws of merging in `MergeAssumption`. With an empty queue `Propagated`
says that the states are a fixpoint. The theorems ask of an analysis that it makes states from states
(`TransferTyped`), and `AnalysisProgresses` that a merge which reports a change makes one (`ChangesMove`): the
first is proved of the type analysis by induction over the instructions of a block (`AfterIs`,
`AfterInduction`), the second from `TypeInfo::mergeWith`. The scalars of `ScalarsTracking` do not meet
the second, which is what `STLoop` shows.

`RewritesRight` needs more than a fixpoint. `TypesInv` has `Arrives`: each state on its way to a block, or stored
there, has no name with empty types (`Definite`), knows all variables that the function assigns, and the
registers that are assigned in a dominating block; so the analysis never takes a missing
operand for bottom. While code runs, the state that the analysis computes for the next instruction
fits the registers and the environment (`Fits`): each value is among the types of its name. A jump
keeps that because the successor's state absorbs what the block passes on. That the types after an
arithmetic instruction are still those of its operands before it, which is where `ScalarsPass` reads them,
comes last. The theorem is about functions that are `Analysable`: what LLVM's verifier checks (`Verified`: nothing
jumps to the entry, registers are assigned in the same block before or in a dominating one), and the three
conditions listed under *Violations* (`AssignsFirst`, `PhisUnread`, `Undivided`), without each of which the code is wrong.
`MCTypeAndShape` has an assumption that the functions of `TSAssigned` are analysable.

*Live pointers.* `LivenessInv` says that a block's `liveIn` always follows from its `liveOut`, that
`liveOut` has what phi nodes want, and that a successor which is not accounted for keeps the block on the
worklist. `LivenessLeast` adds that everything stays below any solution, by monotonicity of the
transfer. `LivenessAdvances` is the measure that a proof of termination would use: a block whose `liveOut` stays has
its `liveIn` already, so that nobody enters the worklist in its place. `SafepointsAnalyse` composes: each step
of the passes is a step of the analysis on the folded code, or leaves its data alone. `SafepointsInv` relates the code in each stage of the passes to the program it was made
from (`CodeInvOf`: which functions are pruned, numbered, folded, have operands, are in the tables) and each
activation to its code (`FrameInv`: a register that points to a freed object is not live where the
activation stands). The step for `Collect` needs that what is live across a call is what its
record has; the step for `Jump` that the analysis has settled; the step for `Call` of an
untagged call the assumption above. An activation has also set whatever is live where it stands
(`InCode`): registers that are available by dominance solve the equations of liveness, the analysis is
below every solution, and at the entry nothing but the parameter is left. Since the records hold what
is live and no more (`Least`), the scan reads only what has been set.

*Arguments.* `AMInv` says that `namedArg` and `positionalArg` hold each scanned argument once and in order
(`Sorted`, `Collected`) and that what has been bound and what waits are apart (`Placed`). That a formal is
free for the last positional argument is the pigeonhole principle: fewer arguments than formals have
been bound. For `BindsAsR`, `BindInv` says in addition what the list that goes to R holds so far: the arguments before the current
one, each as its kind of value and with the dots expanded (`FlattenNext`, by induction over the call). A call that is
bound statically has neither dots nor empty arguments nor names given twice, and as many arguments as
formals; then `MatchedPlain` computes R's result: every name is the exact name of one formal (`Exact` is the order of the
named arguments), which leaves none for partial matching; the positional arguments take the
remaining formals by rank (`RankPlain`, `RankUnique`), a bijection because the numbers agree; and nothing is left
over. Each step is a part of `Matched` with a name of its own (`Exact`, `ByName`, `Rank`, `ByPosition`, `Left`, `InOrder`).

*Memory.* `Layout` in `MMInv` says that blocks are disjoint, sections and free regions lie in blocks of
their own manager and group, no section meets another or a free region, and free regions of an
unfinished module are apart; the arithmetic of `RequiredSize` and `AlignedAddr` is stated as lemmas for all
sizes. `Rights`, `Maps` and `Points` follow the life of a manager; return addresses are inside
sections, so that disjoint sections have disjoint addresses, and an entry of `statepoint` is always its own.

Only model-checked: liveness under fairness (`Served`, `Terminates`, `CompileEnds`), which is out of TLAPS's
reach, as is ENABLED; for the last two, `Progresses` and `Advances` are the proved part of the argument: what is missing is
that states over finitely many names and types rise only finitely often, and the fairness of the steps. `RunsRight`
and `VisibleRight`: they compare a run with `Eval`, a RECURSIVE operator, about which TLAPS cannot reason, and
a loop that makes no choice has no value that a recursive function could give it; and `ChangesReal` for
the scalars, which is violated. Induction over data is not stated with the library's
theorems, which take an operator as a parameter, but over sets of numbers (`Induction`, in several modules, from the
well-foundedness of `<`) or of expressions.

## Not modelled

* What GNU-R does beyond collecting, reusing cells, evaluating arbitrary code and unwinding;
  LLVM; the x86 encoding of a patched call; the binary format of stack maps (`StackMapParser.h`, LLVM's
  code); the walk along frame pointers, which ends at the first frame without one (`StackScan.cpp:34`).
* Symbols: names are compared by prefix (`JITSymbolResolver.cpp:31`), which is character data. The one
  state behind them, the code cache, is in `CompileSession`.
* `VariableAnalysis` and `ConstantLoad`: one linear pass each that counts accesses, no state outlives it.
* Replacement of boxes and removal of dead allocations, which rest on `ScalarsTracking`; matching and
  erasing of patterns (`ir/Pass.cpp`).
* Printing a function without its session (`api.cpp:112`), flags, and the R package.
* Type feedback (off by default): the vectors that `closeFunction` allocates are slots only;
  `ir/Builder.cpp:137-142` leaves the first unprotected until the second is there, and so does `AllocSlot`, but
  nothing that code reads depends on it.
* Attributes in `TypeInfo`, integer overflow to NA, promises that assign variables of the function
  that they are forced in (a read of a variable may force one).
* Benchmarks, demos and tools.
* Finalizers that run R code inside a collection (`JITModule.cpp:37`): sessions nest through warnings only.

## Plan

Done in order of importance: calls through caches, sessions and their roots, compiled control flow,
analyses, the safepoints that the collector relies on, argument matching, code memory. What is left:

1. `BoxingRemoval` and `DeadAllocationRemoval` on top of `ScalarsTracking`, with execution as in
   `TypeAndShape`; erasing of patterns as an algorithm over use graphs; a run of `ScalarsTracking` on loops
   of several blocks that ends.
2. `ExpressionCompiler`: nested assignments, dots and missing arguments, intrinsics by name; runs for
   the two comments that the code contradicts (break without target, visibility).
3. `HotRecompile`: counter, recursion, `checkType`, with type feedback in `CompileSession`.
4. `ArgumentMatch` as the source of `Order` in `InlineCache`, as a refinement of a parameter.
5. Proofs: R's meaning of expressions as a relation between an expression, choices and outcomes, so that
   `RunsRight` can be proved from a simulation by the blocks; `EveryBlockEnds` and `MachineOK` are its first half.
