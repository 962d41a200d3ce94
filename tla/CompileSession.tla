--------------------------- MODULE CompileSession ---------------------------
(***************************************************************************)
(* Compilation sessions.  A session is a Compiler object and the module it *)
(* builds: functions, promises and loops open contexts, each with the      *)
(* constant pool of the code under construction; closing a function or a   *)
(* promise allocates its native SEXP, which has no machine code until the  *)
(* session is finalized.  Every allocation may run the collector, whose    *)
(* roots among these objects are what Compiler::gcCallback forwards.  The  *)
(* code cache tells sessions which call stubs exist already.               *)
(***************************************************************************)
EXTENDS Naturals, Sequences, FiniteSets, SequencesExt

CONSTANTS
    Session,   \* addresses of Compiler objects, which live on the C stack
    Obj,       \* memory cells for objects that the compiler allocates
    Arity,     \* numbers of arguments of calls: the names of stubs
    Ast,       \* a constant that the code being compiled keeps alive
    Nil,       \* R_NilValue
    None,      \* a free cell
    Warns,     \* jitFunctions warns: R handlers run, and may throw an error
    Switches,  \* the code has switch statements on strings
    MaxDepth,  \* bound: open contexts
    MaxPool    \* bound: constants in a pool beyond its reserved slots

\* Slots a function's pool gets on closing: the type feedback, and the names of its
\* variables together with the invocation counter (both protected at once).
Placeholders == 2

Constant == {Ast, Nil} \cup Obj
Pool == Seq(Constant)

\* The pool slots that instructions read, each with the constant it is for.
Reads == SUBSET (Nat \X Constant)

\* An object: plain data, or a native SEXP with its machine code ready, or missing (a null
\* pointer).  What is missing and will never be filled in, because an error has ended its
\* session, is marked as orphaned; the code has no such mark.
\* The field used of natives and contexts is what the IR reads.
Object == [pool : Pool, used : Reads, code : {"data", "missing", "orphaned", "ready"}]
Data == [pool |-> <<>>, used |-> {}, code |-> "data"]

Kinds == {"function", "promise", "loop"}
Context == [kind : Kinds, pool : Pool, used : Reads]

\* A session on the C stack: does it compile many functions (jitFunctions), is
\* R code running inside it, and which function has it closed last.
Activity == [session : Session, many : BOOLEAN, waits : BOOLEAN, made : Obj \cup {Nil}]

ASSUME DistinctAssumption ==
    Ast \notin Obj /\ Nil \notin Obj /\ Ast # Nil /\ None \notin Object
ASSUME FlagAssumption == Warns \in BOOLEAN /\ Switches \in BOOLEAN
ASSUME BoundAssumption == MaxDepth \in Nat /\ MaxPool \in Nat

VARIABLES
    heap,       \* heap[o]: the object in cell o
    bodies,     \* native SEXPs that are the body of a closure
    instances,  \* Compiler::_instances, with what errors have left in it
    running,    \* the sessions on the C stack, the innermost last
    ctxs,       \* the builder's contextStack_ and, last, its current context c_
    held,       \* the vectors closeFunction has allocated so far
    relocs,     \* relocs[s]: native SEXPs to be patched when s is finalized
    defines,    \* defines[s]: stubs compiled in the module of s
    links,      \* links[s]: stubs declared in it and compiled elsewhere
    cache       \* cache[n]: "none", "declared" (no address yet) or "ready"

vars == <<heap, bodies, instances, running, ctxs, held, relocs, defines, links, cache>>

Top == running[Len(running)]
Current == ctxs[Len(ctxs)]

\* The Compiler objects that exist; a pointer to any other one is dangling.
Live == {running[i].session : i \in DOMAIN running}

RCodeRuns == running # <<>> => Top.waits
Compiling == running # <<>> /\ ~Top.waits
Building == Compiling /\ ctxs # <<>> /\ held = <<>>

Used(o) == heap[o] # None
Free == {o \in Obj : heap[o] = None}
In(c, pool) == \E i \in DOMAIN pool : pool[i] = c

\* What Builder::doGcCallback and closeFunction keep alive: the closed functions
\* and promises, the pools of suspended contexts - but not that of the current
\* one - and what closeFunction has protected.
Suspended(o) == \E i \in 1..(Len(ctxs) - 1) : In(o, ctxs[i].pool)
Protected(o) == Len(held) > 1 /\ In(o, held)
\* Faulty variant: only the pools of open contexts are forwarded.
RootWithoutModule(o) == o \in bodies \/ Suspended(o) \/ Protected(o)
Root(o) ==
    \/ o \in bodies
    \/ \E s \in instances : o \in relocs[s]
    \/ Suspended(o)
    \/ Protected(o)

Init ==
    /\ heap = [o \in Obj |-> None]
    /\ bodies = {}
    /\ instances = {}
    /\ running = <<>>
    /\ ctxs = <<>>
    /\ held = <<>>
    /\ relocs = [s \in Session |-> {}]
    /\ defines = [s \in Session |-> {}]
    /\ links = [s \in Session |-> {}]
    /\ cache = [n \in Arity |-> "none"]

----------------------------------------------------------------------------
(* The collector.                                                          *)

\* Sets of objects that are no roots and that no object outside the set refers to.
Unrooted == {o \in Obj : Used(o) /\ ~Root(o)}
Unreachable(G) == \A p \in Obj \ G : Used(p) => \A o \in G : ~In(o, heap[p].pool)
Garbage == UNION {G \in SUBSET Unrooted : Unreachable(G)}

\* A collection may run in every state: the next step of the compiler may allocate.
Collect ==
    /\ LET dead == Garbage
       IN  dead # {} /\ heap' = [o \in Obj |-> IF o \in dead THEN None ELSE heap[o]]
    /\ UNCHANGED <<bodies, instances, running, ctxs, held, relocs, defines, links, cache>>

\* R code does something else.
Idle == RCodeRuns /\ UNCHANGED vars

\* R code drops a closure.
Forget(o) ==
    /\ RCodeRuns /\ o \in bodies
    /\ bodies' = bodies \ {o}
    /\ UNCHANGED <<heap, instances, running, ctxs, held, relocs, defines, links, cache>>

----------------------------------------------------------------------------
(* Contexts and constants.                                                 *)

Push(ctx) == ctxs' = Append(ctxs, ctx)
SetCurrent(ctx) == ctxs' = [ctxs EXCEPT ![Len(ctxs)] = ctx]

Reserved(kind) == IF kind = "function" THEN 1 + Placeholders ELSE 1

\* What the last of the contexts builds a part of: a function or a promise.
Owner(contexts) ==
    contexts[SelectLastInSeq(contexts, LAMBDA c : c.kind # "loop")].kind

\* Builder::constantPoolIndex: a slot that has the constant, in a pool that grows
\* if the constant is not there beyond the reserved slots.
SlotOf(c, pool, reserved) ==
    IF \E i \in (reserved + 1)..Len(pool) : pool[i] = c
    THEN CHOOSE i \in (reserved + 1)..Len(pool) : pool[i] = c
    ELSE Len(pool) + 1
With(c, pool, slot) == IF slot > Len(pool) THEN Append(pool, c) ELSE pool

\* An instruction that reads the constant c is added to the last of the contexts.
ReadingIn(c, ctx, contexts) ==
    LET slot == SlotOf(c, ctx.pool, Reserved(Owner(contexts)))
    IN  [ctx EXCEPT !.pool = With(c, @, slot), !.used = @ \cup {<<slot, c>>}]
Reading(c, ctx) == ReadingIn(c, ctx, ctxs)

\* The bounds: constants beyond the reserved slots, and memory cells, of which
\* enough must be left to close the contexts that are open.
Room == Len(Current.pool) < Reserved(Owner(ctxs)) + MaxPool
Cost(kind) ==
    CASE kind = "function" -> Placeholders + 1 [] kind = "promise" -> 1 [] OTHER -> 0
Spare == {o \in Free \cup Garbage :
             ~In(o, held) /\ \A i \in DOMAIN ctxs : ~In(o, ctxs[i].pool)}
Affordable(n) ==
    n + FoldLeft(LAMBDA sum, c : sum + Cost(c.kind), 0, ctxs) <= Cardinality(Spare)

UseConstant ==
    /\ Building /\ Room
    /\ SetCurrent(Reading(Ast, Current))
    /\ UNCHANGED <<heap, bodies, instances, running, held, relocs, defines, links, cache>>

\* A string switch allocates the vector of its case names and adds it to the pool.
CompileSwitch ==
    /\ Switches /\ Building /\ Room /\ Affordable(1)
    /\ \E o \in Free :
          /\ heap' = [heap EXCEPT ![o] = Data]
          /\ SetCurrent(Reading(o, [Current EXCEPT !.pool = Append(@, o)]))
    /\ UNCHANGED <<bodies, instances, running, held, relocs, defines, links, cache>>

\* openFunction and openPromise.
Open(kind) ==
    /\ Compiling /\ held = <<>> /\ Len(ctxs) < MaxDepth /\ Affordable(Cost(kind))
    /\ ctxs # <<>> => Room
    /\ ctxs = <<>> => kind = "function" /\ (Top.many \/ Top.made = Nil)
    /\ Push([kind |-> kind, used |-> {},
             pool |-> IF kind = "function" THEN <<Ast, Nil, Nil>> ELSE <<Ast>>])
    /\ UNCHANGED <<heap, bodies, instances, running, held, relocs, defines, links, cache>>

\* openLoop clones the current context and moves its pool to the clone.
OpenLoop ==
    /\ Building /\ Len(ctxs) < MaxDepth
    /\ ctxs' = Append([ctxs EXCEPT ![Len(ctxs)].pool = <<>>],
                      [Current EXCEPT !.kind = "loop"])
    /\ UNCHANGED <<heap, bodies, instances, running, held, relocs, defines, links, cache>>

\* Faulty variant: the pool of the loop stays in the context that is dropped.
CloseLoopKeepingPool ==
    /\ Building /\ Current.kind = "loop"
    /\ ctxs' = [Front(ctxs) EXCEPT ![Len(ctxs) - 1].used = Current.used]
    /\ UNCHANGED <<heap, bodies, instances, running, held, relocs, defines, links, cache>>

CloseLoop ==
    /\ Building /\ Current.kind = "loop"
    /\ ctxs' = [Front(ctxs) EXCEPT ![Len(ctxs) - 1].pool = Current.pool,
                                   ![Len(ctxs) - 1].used = Current.used]
    /\ UNCHANGED <<heap, bodies, instances, running, held, relocs, defines, links, cache>>

\* compileICCallStub: a call needs the stub for its number of arguments, which
\* this module defines, or is known to define, or another one has compiled.
CallSite(n) ==
    /\ Building
    /\ n \notin defines[Top.session] \cup links[Top.session]
    /\ \/ /\ cache[n] = "none"
          /\ cache' = [cache EXCEPT ![n] = "declared"]
          /\ defines' = [defines EXCEPT ![Top.session] = @ \cup {n}]
          /\ UNCHANGED links
       \/ /\ cache[n] # "none"
          /\ links' = [links EXCEPT ![Top.session] = @ \cup {n}]
          /\ UNCHANGED <<cache, defines>>
    /\ UNCHANGED <<heap, bodies, instances, running, ctxs, held, relocs>>

----------------------------------------------------------------------------
(* Closing a function or promise.                                          *)

\* closeFunction allocates the type feedback and then the rest, and protects the
\* one only when it has the other.
AllocSlot ==
    /\ Compiling /\ ctxs # <<>> /\ Current.kind = "function"
    /\ Len(held) < Placeholders
    /\ \E o \in Free :
          /\ heap' = [heap EXCEPT ![o] = Data]
          /\ held' = Append(held, o)
          /\ IF held = <<>> THEN UNCHANGED ctxs
             ELSE SetCurrent([Current EXCEPT !.pool[2] = held[1], !.pool[3] = o])
    /\ UNCHANGED <<bodies, instances, running, relocs, defines, links, cache>>

SetTop(act) == running' = [running EXCEPT ![Len(running)] = act]

\* The native SEXP o of the current context is allocated, without code, and the
\* enclosing context, if there is one, gets an instruction that reads it.
CloseInto(o) ==
    /\ heap' = [heap EXCEPT ![o] = [pool |-> Current.pool, used |-> Current.used,
                                   code |-> "missing"]]
    /\ relocs' = [relocs EXCEPT ![Top.session] = @ \cup {o}]
    /\ IF Len(ctxs) > 1
       THEN ctxs' = [Front(ctxs) EXCEPT ![Len(ctxs) - 1] = ReadingIn(o, @, Front(ctxs))]
       ELSE ctxs' = <<>>

ClosePromise ==
    /\ Building /\ Current.kind = "promise"
    /\ \E o \in Free : CloseInto(o)
    /\ UNCHANGED <<bodies, instances, running, held, defines, links, cache>>

\* A function nested in another becomes a constant of it.  One at top level is
\* the session's result; jitFunctions makes it the closure's body at once.
CloseFunction ==
    /\ Compiling /\ ctxs # <<>> /\ Len(held) = Placeholders
    /\ held' = <<>>
    /\ \E o \in Free :
          /\ CloseInto(o)
          /\ IF Len(ctxs) > 1 THEN UNCHANGED <<running, bodies>>
             ELSE /\ SetTop([Top EXCEPT !.made = o])
                  /\ bodies' = IF Top.many THEN bodies \cup {o} ELSE bodies
    /\ UNCHANGED <<instances, defines, links, cache>>

----------------------------------------------------------------------------
(* Sessions.                                                               *)

\* The Compiler at address s has a module without functions and stubs.
Emptied(s) ==
    /\ relocs' = [relocs EXCEPT ![s] = {}]
    /\ defines' = [defines EXCEPT ![s] = {}]
    /\ links' = [links EXCEPT ![s] = {}]

\* A new Compiler registers.  Its address may be one that an error has left registered.
Start(s, many) ==
    /\ RCodeRuns /\ s \notin Live /\ Affordable(Cost("function"))
    /\ instances' = instances \cup {s}
    /\ running' = Append(running, [session |-> s, many |-> many, waits |-> FALSE, made |-> Nil])
    /\ Emptied(s)
    /\ UNCHANGED <<heap, bodies, ctxs, held, cache>>

\* Faulty variant: the first Compiler that is destroyed clears the registry.
EndAllSessions ==
    /\ instances' = {}
    /\ Emptied(Top.session)
    /\ bodies' = IF Top.many THEN bodies ELSE bodies \cup {Top.made}
    /\ running' = Front(running)

\* The Compiler object is destroyed and its function, unless it is installed
\* already, becomes the body of a closure.
EndSession ==
    /\ instances' = instances \ {Top.session}
    /\ Emptied(Top.session)
    /\ bodies' = IF Top.many THEN bodies ELSE bodies \cup {Top.made}
    /\ running' = Front(running)

\* Faulty variants: nothing has been compiled; the cache is not told the addresses of
\* the module's stubs; only the last function is patched.
FinalizeTooEarly ==
    /\ Compiling /\ ctxs = <<>>
    /\ heap' = [o \in Obj |-> IF o \in relocs[Top.session]
                              THEN [heap[o] EXCEPT !.code = "ready"] ELSE heap[o]]
    /\ EndSession
    /\ UNCHANGED <<ctxs, held, cache>>
FinalizeForgettingStubs ==
    /\ Compiling /\ ctxs = <<>> /\ (Top.many \/ Top.made # Nil)
    /\ heap' = [o \in Obj |-> IF o \in relocs[Top.session]
                              THEN [heap[o] EXCEPT !.code = "ready"] ELSE heap[o]]
    /\ EndSession
    /\ UNCHANGED <<ctxs, held, cache>>
FinalizeLastOnly ==
    /\ Compiling /\ ctxs = <<>> /\ (Top.many \/ Top.made # Nil)
    /\ heap' = [heap EXCEPT ![Top.made].code = "ready"]
    /\ cache' = [n \in Arity |-> IF n \in defines[Top.session] THEN "ready" ELSE cache[n]]
    /\ EndSession
    /\ UNCHANGED <<ctxs, held>>

\* The module is compiled and linked: every native SEXP gets its code, every stub
\* its address, and the Compiler object is destroyed.
Finalize ==
    /\ Compiling /\ ctxs = <<>> /\ (Top.many \/ Top.made # Nil)
    /\ heap' = [o \in Obj |-> IF o \in relocs[Top.session]
                              THEN [heap[o] EXCEPT !.code = "ready"] ELSE heap[o]]
    /\ cache' = [n \in Arity |-> IF n \in defines[Top.session] THEN "ready" ELSE cache[n]]
    /\ EndSession
    /\ UNCHANGED <<ctxs, held>>

\* jitFunctions warns of a function that is native already: R handlers run.
Warn ==
    /\ Warns /\ Compiling /\ ctxs = <<>> /\ Top.many
    /\ SetTop([Top EXCEPT !.waits = TRUE])
    /\ UNCHANGED <<heap, bodies, instances, ctxs, held, relocs, defines, links, cache>>

Resume ==
    /\ running # <<>> /\ Top.waits
    /\ SetTop([Top EXCEPT !.waits = FALSE])
    /\ UNCHANGED <<heap, bodies, instances, ctxs, held, relocs, defines, links, cache>>

\* The warning becomes an error: longjmp leaves the session without running the
\* destructor of its Compiler, and _instances keeps a pointer to the dead frame.
Abort ==
    /\ running # <<>> /\ Top.waits
    /\ running' = Front(running)
    /\ heap' = [o \in Obj |-> IF o \in relocs[Top.session]
                              THEN [heap[o] EXCEPT !.code = "orphaned"] ELSE heap[o]]
    /\ UNCHANGED <<bodies, instances, ctxs, held, relocs, defines, links, cache>>

\* Later calls overwrite the frame.  The collector still follows the pointer: what it
\* finds there is no module of a session any more, and nothing is kept alive by it (or
\* it crashes, which ends the process).
Overwrite(s) ==
    /\ s \in instances \ Live
    /\ Emptied(s)
    /\ UNCHANGED <<heap, bodies, instances, running, ctxs, held, cache>>

----------------------------------------------------------------------------

Next ==
    \/ Collect \/ Idle
    \/ \E o \in Obj : Forget(o)
    \/ \E s \in Session, many \in BOOLEAN : Start(s, many)
    \/ \E kind \in {"function", "promise"} : Open(kind)
    \/ OpenLoop \/ CloseLoop \/ UseConstant \/ CompileSwitch
    \/ \E n \in Arity : CallSite(n)
    \/ AllocSlot \/ ClosePromise \/ CloseFunction
    \/ Finalize \/ Warn \/ Resume \/ Abort
    \/ \E s \in Session : Overwrite(s)

Spec == Init /\ [][Next]_vars

----------------------------------------------------------------------------
(* Properties *)

\* Every variable has its type.
TypeOK ==
    /\ heap \in [Obj -> Object \cup {None}]
    /\ bodies \in SUBSET Obj /\ instances \in SUBSET Session
    /\ running \in Seq(Activity) /\ ctxs \in Seq(Context) /\ held \in Seq(Obj)
    /\ relocs \in [Session -> SUBSET Obj]
    /\ defines \in [Session -> SUBSET Arity] /\ links \in [Session -> SUBSET Arity]
    /\ cache \in [Arity -> {"none", "declared", "ready"}]

\* Each native SEXP without machine code, unless an error has ended its session, is going
\* to get it from exactly one session on the stack, and that will find it there: what
\* JITModule::finalizeNativeSEXPs writes to is such a native SEXP, not a cell that was
\* freed or used again, however sessions are nested, abandoned and put at the addresses
\* of abandoned ones, and whatever the collector finds through dangling pointers.
OneWillPatch ==
    /\ \A o \in Obj : Used(o) /\ heap[o].code = "missing" =>
          \E i \in DOMAIN running : o \in relocs[running[i].session]
    /\ \A i \in DOMAIN running : \A o \in relocs[running[i].session] :
          /\ Used(o) /\ heap[o].code = "missing"
          /\ \A j \in DOMAIN running : o \in relocs[running[j].session] => i = j

\* The slot numbers built into instructions stay right while loops move the pool
\* between contexts, nested code is compiled and closing fills the placeholders.
SlotsMatch ==
    /\ \A o \in Obj : Used(o) =>
          \A r \in heap[o].used : r[1] <= Len(heap[o].pool) /\ heap[o].pool[r[1]] = r[2]
    /\ ctxs # <<>> =>
          \A r \in Current.used : r[1] <= Len(Current.pool) /\ Current.pool[r[1]] = r[2]

\* A stub that a module links to has an address by then (CodeCache::getAddress).
NamesKnown == \A s \in Live : \A n \in links[s] : cache[n] = "ready"

\* R code never finds a closure, or a promise or function inside one, whose
\* native SEXP has no machine code.
NoHollowCode ==
    RCodeRuns => \A o \in bodies : \A p \in Obj :
       Used(p) /\ (p = o \/ In(p, heap[o].pool)) => heap[p].code \notin {"missing", "orphaned"}

\* The constants that code under construction reads are alive.
ConstantsAlive ==
    \A i \in DOMAIN ctxs : \A r \in ctxs[i].used : r[2] \in Obj => Used(r[2])
=============================================================================
