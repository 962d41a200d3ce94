----------------------------- MODULE Safepoints -----------------------------
(* How compiled code tells the garbage collector where its pointers are: the *)
(* passes that place and rewrite safepoints (PlaceSafepoints.cpp,            *)
(* RewriteStatepointsForGC.cpp), the tables that JITCompileLayer::finalize   *)
(* fills (StackMap.cpp), the activations of the code, and the scan of the    *)
(* stack during a collection (StackScan.cpp).                                *)
(*                                                                           *)
(* R code runs between the passes' modules and below each other: a call of   *)
(* the runtime may enter other compiled functions, have a module compiled,   *)
(* and collect, any number of times.  An object is held only by registers    *)
(* of activations, so that a register that the scan misses loses it.         *)
EXTENDS GCLiveness, Primitives, FiniteSetsExt, SequencesExt

CONSTANTS
    Name,      \* names of functions
    Modules,   \* the modules that are compiled, in order: sequences of names
    Programs,  \* code of the functions, before the passes
    Obj,       \* objects
    MaxDepth   \* bound: activations

VARIABLES
    code,         \* the functions, as the passes have left them
    finalized,    \* how many of the modules are
    pass,         \* what finalize does: "none", "place", "rewrite"
    queue,        \* functions that the pass has still to visit
    nextId,       \* JITCompileLayer::nextStackmapId
    ids,          \* the identifiers in the code: of each call, its safepoint
    safepoints,   \* JITCompileLayer::safepoints: identifiers by function
    patchpoints,  \* JITCompileLayer::patchpoints: sizes of stubs by identifier
    live,         \* operands of the safepoints: the registers that are live
    statepoint,   \* StackMap::statepoint, by return address
    patchpoint,   \* StackMap::patchpoint, by identifier
    target,       \* the stub that a call site has been patched to call
    frames,       \* activations, the innermost one last
    freed         \* objects freed while a register still pointed to them

irVars == <<code, ids, live>>
layerVars == <<finalized, pass, queue, nextId, safepoints, patchpoints>>
tableVars == <<statepoint, patchpoint, target>>
runVars == <<frames, freed>>
vars == <<livenessVars, irVars, layerVars, tableVars, runVars>>

-----------------------------------------------------------------------------
(* Functions and their calls *)

\* Blocks that the entry reaches (removeUnreachableBlocks).
Reached(f) ==
    {b \in f.blocks : \A S \in SUBSET f.blocks :
        f.entry \in S /\ (\A c \in S : f.succ[c] \subseteq S) => b \in S}

Only(f, S) ==
    [f EXCEPT !.blocks = S,
              !.succ = [b \in S |-> f.succ[b]],
              !.body = [b \in S |-> f.body[b]],
              !.phis = [b \in S |-> {[phi EXCEPT !.from = [p \in (DOMAIN @) \cap S |-> @[p]]]
                                     : phi \in f.phis[b]}]]

\* FoldSingleEntryPHINodes for block b: its phi nodes give way to their value.
FoldBlock(f, b) ==
    LET Value(v) == IF \E phi \in f.phis[b] : phi.dst = v
                    THEN CHOOSE w \in Operands(CHOOSE phi \in f.phis[b] : phi.dst = v) : TRUE
                    ELSE v
    IN  [f EXCEPT
            !.phis = [c \in f.blocks |->
                IF c = b THEN {}
                ELSE {[phi EXCEPT !.from = [p \in DOMAIN @ |-> Value(@[p])]] : phi \in f.phis[c]}],
            !.body = [c \in f.blocks |-> [i \in DOMAIN f.body[c] |->
                [f.body[c][i] EXCEPT !.args = {Value(v) : v \in @}]]]]

FoldPhis(f) ==
    FoldSet(LAMBDA b, g : FoldBlock(g, b), f, {b \in f.blocks : Cardinality(Preds(f, b)) = 1})

\* The tag of a call for PlaceSafepoints: that of Builder::markSafepoint, or
\* that of ICStub with the size of its stub.
IsStub(ins) == ins.op = "ICStub"
NeedsStatepoint(ins) == ins.op \in Marked \/ IsStub(ins)

\* Calls of the runtime and of other code, which may collect.
Collects(ins) == IsStub(ins) \/ ins.op = "CallToAddress" \/ ins.op \in DOMAIN Primitive

\* A place in the code; for a call, also its return address.
Site(n, b, i) == [name |-> n, block |-> b, at |-> i]
Sites(n, f) == {Site(n, b, i) : b \in f.blocks, i \in UNION {DOMAIN f.body[b] : b \in f.blocks}}
Ins(f, s) == f.body[s.block][s.at]
Safepoint(n, f) ==
    {s \in Sites(n, f) : s.at \in DOMAIN f.body[s.block] /\ NeedsStatepoint(Ins(f, s))}

\* inst_range: by block and position.
Before(s, t) == s.block < t.block \/ (s.block = t.block /\ s.at < t.at)

\* The code that a function ends up with: pruned by the first pass, and folded
\* by the second one if it has safepoints.
Pruned(f) == Only(f, Reached(f))
Prepared(n, f) == IF Safepoint(n, Pruned(f)) = {} THEN Pruned(f) ELSE FoldPhis(Pruned(f))

\* A function has one name, in one module.
ASSUME ModulesAssumption ==
    /\ Modules \in Seq(Seq(Name))
    /\ \A m, n \in DOMAIN Modules : \A i \in DOMAIN Modules[m], j \in DOMAIN Modules[n] :
          Modules[m][i] = Modules[n][j] => m = n /\ i = j

\* Functions are finite, well formed when the passes are done with them, and
\* keep their calls.
ASSUME ProgramsAssumption ==
    \A p \in Programs : DOMAIN p = Name /\ \A n \in Name :
        /\ Prepared(n, p[n]) \in Function
        /\ IsFiniteSet(Safepoint(n, Pruned(p[n])))
        /\ Safepoint(n, Prepared(n, p[n])) = Safepoint(n, Pruned(p[n]))
        /\ \A s \in Safepoint(n, Pruned(p[n])) :
              LET before == Ins(Pruned(p[n]), s)
                  after == Ins(Prepared(n, p[n]), s)
              IN  IsStub(before) = IsStub(after) /\ (IsStub(after) => before.size = after.size)

\* No call ends a block, and nothing but its result is live after a call that
\* may collect and is not tagged.  (The compiler does not check the latter; it
\* emits such calls where a function is about to return.)
ASSUME CallsAssumption ==
    \A f \in Function : \A b \in f.blocks :
        /\ ~Collects(f.body[b][Len(f.body[b])])
        /\ \A i \in DOMAIN f.body[b] :
              Collects(f.body[b][i]) /\ ~NeedsStatepoint(f.body[b][i])
                  => LiveAt(f, b, i + 1, MustLive(f, b)) \subseteq {f.body[b][i].dst}

\* The passes get valid code.
ASSUME SSAAssumption == \A f \in Function : BasicSSA(f)

ASSUME ObjAssumption == Obj \cap {None, Const} = {} /\ None # Const

-----------------------------------------------------------------------------
(* JITCompileLayer::finalize *)

\* Entries that a map has stay (emplace).
Emplace(map, entries) ==
    [x \in DOMAIN map \cup DOMAIN entries |-> IF x \in DOMAIN map THEN map[x] ELSE entries[x]]

\* A module is finalized while no code runs, or below a call of the runtime.
InRuntime == frames # <<>> => Last(frames).busy

Begin ==
    /\ InRuntime /\ pass = "none" /\ finalized < Len(Modules)
    /\ pass' = "place"
    /\ queue' = Modules[finalized + 1]
    /\ UNCHANGED <<livenessVars, irVars, finalized, nextId, safepoints, patchpoints, tableVars, runVars>>

\* getSafepointId counts up before it answers.
Numbered(sites, last) ==
    [s \in sites |-> last + 1 + Cardinality({t \in sites : Before(t, s)})]

\* PlaceSafepoints::runOnFunction: the tagged calls become safepoints, with new
\* identifiers (getSafepointId); those of call sites are patchpoints.
\* Faulty variant: identifiers start again with each module.
FirstIdOfModule == 2
FirstId == nextId
Place ==
    /\ pass = "place" /\ queue # <<>>
    /\ \E n \in {Head(queue)} : \E f \in {Pruned(code[n])} :
       \E id \in {Numbered(Safepoint(n, f), FirstId)} :
          /\ code' = [code EXCEPT ![n] = f]
          /\ ids' = Emplace(ids, id)
          /\ nextId' = FirstId + Cardinality(DOMAIN id)
          /\ safepoints' = Emplace(safepoints, [m \in {n} |-> Range(id)])
          /\ patchpoints' = Emplace(patchpoints,
                [k \in {id[s] : s \in {t \in DOMAIN id : IsStub(Ins(f, t))}} |->
                    Ins(f, CHOOSE s \in DOMAIN id : id[s] = k).size])
    /\ queue' = Tail(queue)
    /\ UNCHANGED <<livenessVars, live, finalized, pass, tableVars, runVars>>

Rewrite ==
    /\ pass = "place" /\ queue = <<>>
    /\ pass' = "rewrite"
    /\ queue' = Modules[finalized + 1]
    /\ UNCHANGED <<livenessVars, irVars, finalized, nextId, safepoints, patchpoints, tableVars, runVars>>

\* RewriteStatepointsForGC::runOnFunction: nothing to do without safepoints.
Skip ==
    /\ pass = "rewrite" /\ queue # <<>> /\ fn = None
    /\ Safepoint(Head(queue), code[Head(queue)]) = {}
    /\ queue' = Tail(queue)
    /\ UNCHANGED <<livenessVars, irVars, finalized, pass, nextId, safepoints, patchpoints, tableVars, runVars>>

Analyse ==
    /\ pass = "rewrite" /\ queue # <<>> /\ fn = None
    /\ Safepoint(Head(queue), code[Head(queue)]) # {}
    /\ code' = [code EXCEPT ![Head(queue)] = FoldPhis(@)]
    /\ Start(code'[Head(queue)])
    /\ UNCHANGED <<ids, live, layerVars, tableVars, runVars>>

Propagate ==
    /\ \E b \in worklist : Visit(b)
    /\ UNCHANGED <<irVars, layerVars, tableVars, runVars>>

\* makeStatepointExplicit: the safepoints get what is live as operands.
InsertParsePoints ==
    /\ fn # None /\ worklist = {}
    /\ live' = Emplace(live, [s \in Safepoint(Head(queue), fn) |->
                                  LiveAcross(fn, s.block, s.at, liveOut[s.block])])
    /\ Drop
    /\ queue' = Tail(queue)
    /\ UNCHANGED <<code, ids, finalized, pass, nextId, safepoints, patchpoints, tableVars, runVars>>

\* The code gets its addresses; the stack map is recorded by identifier
\* (emplace keeps what is there), the sites are patched to call their stubs.
Emit ==
    /\ pass = "rewrite" /\ queue = <<>>
    /\ LET module == {Modules[finalized + 1][k] : k \in DOMAIN Modules[finalized + 1]}
           records == {s \in DOMAIN live : s.name \in module}
           Function_(k) == CHOOSE n \in DOMAIN safepoints : k \in safepoints[n]
           Address(s) == [s EXCEPT !.name = Function_(ids[s])]
           stubs == {s \in records : ids[s] \in DOMAIN patchpoints}
           recorded == Emplace(patchpoint, [k \in {ids[s] : s \in stubs} |->
                                                Address(CHOOSE s \in stubs : ids[s] = k)])
           sites == {recorded[k] : k \in DOMAIN patchpoints}
       IN  /\ statepoint' = Emplace(statepoint,
                 [a \in {Address(s) : s \in records} |-> live[CHOOSE s \in records : Address(s) = a]])
           /\ patchpoint' = recorded
           /\ target' = Emplace([a \in sites |->
                 patchpoints[CHOOSE k \in DOMAIN patchpoints : recorded[k] = a]], target)
    /\ pass' = "none"
    /\ finalized' = finalized + 1
    /\ safepoints' = <<>> /\ patchpoints' = <<>>
    /\ UNCHANGED <<livenessVars, irVars, queue, nextId, runVars>>

Compile == Place \/ Rewrite \/ Skip \/ Analyse \/ Propagate \/ InsertParsePoints \/ Emit

-----------------------------------------------------------------------------
(* Activations and collections *)

Compiled == UNION {{Modules[m][k] : k \in DOMAIN Modules[m]} : m \in 1..finalized}

Where(frame) == Site(frame.name, frame.block, frame.at)
Next_(frame) == Ins(code[frame.name], Where(frame))
Top == Last(frames)
Runs == frames # <<>> /\ ~Top.busy /\ pass = "none"
InCall == frames # <<>> /\ Top.busy /\ pass = "none"

HeldBy(fs) == UNION {{fs[k].env[r] : r \in Reg} \cap Obj : k \in DOMAIN fs}

\* An object that nothing points to.
New == CHOOSE o \in Obj : o \notin HeldBy(frames) \cup freed
CanAllocate == ~(Obj \subseteq HeldBy(frames) \cup freed)

Activate(fs) == frames' = fs /\ freed' = freed \cap HeldBy(fs)

\* The instruction is done, and its register points to a new object.
After(frame) ==
    LET r == Next_(frame).dst
    IN  [frame EXCEPT !.at = @ + 1, !.busy = FALSE, !.env = [q \in Reg |-> IF q = r THEN New ELSE @[q]]]

CodeStays == UNCHANGED <<livenessVars, irVars, layerVars, tableVars>>

\* The runtime calls a compiled function, with a new environment for it.
Enter(n) ==
    /\ InRuntime /\ pass = "none" /\ n \in Compiled
    /\ Len(frames) < MaxDepth /\ CanAllocate
    /\ Activate(Append(frames,
          [name |-> n, block |-> code[n].entry, at |-> 1, busy |-> FALSE,
           env |-> [r \in Reg |-> IF r = code[n].param THEN New ELSE None]]))
    /\ CodeStays

\* Instructions that cannot collect.
Execute ==
    /\ Runs /\ CanAllocate
    /\ Top.at < Len(code[Top.name].body[Top.block])
    /\ ~Collects(Next_(Top))
    /\ Activate(Append(Front(frames), After(Top)))
    /\ CodeStays

Call ==
    /\ Runs /\ Collects(Next_(Top))
    /\ Activate(Append(Front(frames), [Top EXCEPT !.busy = TRUE]))
    /\ CodeStays

Resume ==
    /\ InCall /\ CanAllocate
    /\ Activate(Append(Front(frames), After(Top)))
    /\ CodeStays

\* The end of a block: the phi nodes of the next one take their values at once.
Value(frame, v) == IF v \in Reg THEN frame.env[v] ELSE v
AtBlock(frame, b) ==
    LET phis == code[frame.name].phis[b]
        Phi(r) == CHOOSE phi \in phis : phi.dst = r
    IN  [frame EXCEPT !.block = b, !.at = 1,
            !.env = [r \in Reg |-> IF r \in {phi.dst : phi \in phis}
                                   THEN Value(frame, Phi(r).from[frame.block]) ELSE @[r]]]
Jump ==
    /\ Runs
    /\ Top.at = Len(code[Top.name].body[Top.block])
    /\ \E b \in code[Top.name].succ[Top.block] :
          Activate(Append(Front(frames), AtBlock(Top, b)))
    /\ CodeStays

Return ==
    /\ Runs
    /\ Top.at = Len(code[Top.name].body[Top.block])
    /\ code[Top.name].succ[Top.block] = {}
    /\ Activate(Front(frames))
    /\ CodeStays

\* stackScanner: of each activation whose return address has a statepoint, the
\* recorded locations.
Scanned ==
    UNION {{frames[k].env[r] : r \in statepoint[Where(frames[k])]}
           : k \in {j \in DOMAIN frames : Where(frames[j]) \in DOMAIN statepoint}}

\* A collection below a call frees what the scan does not find.
Collect ==
    /\ InCall
    /\ freed' = HeldBy(frames) \ (Scanned \ freed)
    /\ UNCHANGED frames
    /\ CodeStays

\* R unwinds the stack (an error, or a return out of a promise): the runtime of
\* an outer activation goes on.
Unwind ==
    /\ InCall
    /\ \E k \in 0..(Len(frames) - 1) : Activate(SubSeq(frames, 1, k))
    /\ CodeStays

Run == (\E n \in Name : Enter(n)) \/ Execute \/ Call \/ Resume \/ Jump \/ Return \/ Unwind \/ Collect

-----------------------------------------------------------------------------

Init ==
    /\ LivenessInit
    /\ code \in Programs
    /\ finalized = 0 /\ pass = "none" /\ queue = <<>> /\ nextId = 2
    /\ ids = <<>> /\ safepoints = <<>> /\ patchpoints = <<>> /\ live = <<>>
    /\ statepoint = <<>> /\ patchpoint = <<>> /\ target = <<>>
    /\ frames = <<>> /\ freed = {}

Next == Begin \/ Compile \/ Run

Spec == Init /\ [][Next]_vars

\* finalize runs to its end, once it has begun.
FairSpec == Spec /\ WF_vars(Compile)

-----------------------------------------------------------------------------
(* Properties *)

\* The tables hold registers, by places in the code; the calls of finalized
\* code are safepoints, and no others (StackMap.cpp, registerStatepoint).
SPTypeOK ==
    /\ pass \in {"none", "place", "rewrite"} /\ (fn # None => pass = "rewrite")
    /\ DOMAIN statepoint = UNION {Safepoint(n, code[n]) : n \in Compiled}
    /\ \A s \in DOMAIN statepoint : statepoint[s] \subseteq Reg
    /\ freed \subseteq HeldBy(frames)

\* The registers that an activation is about to use or that the call it waits
\* for uses, unless that call is not tagged: then it has them itself.
Uses(frame) ==
    LET f == code[frame.name]
        last == frame.at = Len(f.body[frame.block])
    IN  (IF frame.busy /\ ~NeedsStatepoint(Next_(frame)) THEN {} ELSE Next_(frame).args \cap Reg)
        \cup IF last THEN Seed(f, frame.block) ELSE {}

\* No activation ever uses an object that a collection has freed
\* (RewriteStatepointsForGC.cpp, analyzeParsePointLiveness; StackScan.cpp,
\* stackScanner).
UsesAlive ==
    \A k \in DOMAIN frames : \A r \in Uses(frames[k]) : frames[k].env[r] \notin freed

\* The scan reads only registers that the activation has set
\* (StackScan.cpp, stackScanner, which reads whatever the slot holds).
RootsAssigned ==
    \A k \in DOMAIN frames :
        Where(frames[k]) \in DOMAIN statepoint =>
            \A r \in statepoint[Where(frames[k])] : frames[k].env[r] # None

\* Every call site calls the stub of its own size, and the table from
\* identifiers to sites agrees with the code, whatever was compiled in between
\* (JITCompileLayer.cpp, recordStackmaps; StackMap.cpp, registerPatchpoint).
PatchesRight ==
    \A n \in Compiled : \A s \in Safepoint(n, code[n]) :
        IsStub(Ins(code[n], s)) =>
            /\ s \in DOMAIN target /\ target[s] = Ins(code[n], s).size
            /\ patchpoint[ids[s]] = s

\* Every module that is begun is finished (JITCompileLayer.cpp, finalize).
CompileEnds == pass # "none" ~> pass = "none"
=============================================================================
