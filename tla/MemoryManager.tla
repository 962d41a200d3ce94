--------------------------- MODULE MemoryManager ---------------------------
(* The memory of compiled code: JITMemoryManager hands out sections for a    *)
(* module that LLVM loads, and gives pages their rights; then the layer      *)
(* enters the module's stack map into the tables of StackMap, which keep     *)
(* pointing into that memory; then the engine is deleted, and the manager    *)
(* with it, whose destructor leaks the memory.                               *)
(*                                                                           *)
(* One address stands for a byte.  The pages of a block have equal rights.   *)
EXTENDS Integers, Sequences, FiniteSets

CONSTANTS
    Manager,           \* a manager for each module that is compiled
    Requests,          \* sections: [group, size, alignment, map]
    Base,              \* addresses where the system may map memory
    PageSize,
    DefaultAlignment,  \* 16
    Spare,             \* 16: less than that of a new block is not kept
    UnsignedLimit,     \* 2^32
    MaxSections        \* bound: sections of a module

Group == {"code", "ro", "rw"}

ASSUME NumbersAssumption ==
    /\ PageSize \in Nat \ {0} /\ DefaultAlignment \in Nat \ {0}
    /\ Spare \in Nat /\ UnsignedLimit \in Nat \ {0} /\ MaxSections \in Nat
    /\ Base \subseteq Nat \ {0}

\* Code is no stack map, and LLVM asks for at least one byte.
ASSUME RequestsAssumption ==
    \A r \in Requests :
        /\ r.group \in Group /\ r.size \in Nat \ {0} /\ r.alignment \in Nat
        /\ r.map \in BOOLEAN /\ (r.group = "code" => ~r.map)

VARIABLES
    status,      \* of each manager: "none", "open", "finalized", "recorded", "deleted", "stopped"
    failed,      \* managers whose finalizeMemory has returned an error
    rights,      \* of each block that is mapped: "read", "write", "exec"
    free,        \* FreeMem, by manager and group
    sections,    \* the sections that have ever been handed out
    stackmap,    \* stackmapAddr_ and stackmapSize_ of each manager
    statepoint   \* StackMap::statepoint

vars == <<status, failed, rights, free, sections, stackmap, statepoint>>

Region(base, size) == [base |-> base, size |-> size]
NullMap == Region(0, 0)
NoFree == [g \in Group |-> <<>>]

Apart(r, s) == r.base + r.size <= s.base \/ s.base + s.size <= r.base
Within(r, s) == s.base <= r.base /\ r.base + r.size <= s.base + s.size

Of(m) == {s \in sections : s.mgr = m}
\* AllocatedMem.
Blocks(m, g) == {b \in DOMAIN rights : b.mgr = m /\ b.group = g}

Init ==
    /\ status = [m \in Manager |-> "none"] /\ failed = {}
    /\ rights = <<>> /\ sections = {} /\ statepoint = <<>>
    /\ free = [m \in Manager |-> NoFree]
    /\ stackmap = [m \in Manager |-> NullMap]

\* JITCompileLayer::finalize makes a manager; a module is compiled at a time.
Create(m) ==
    /\ status[m] = "none" /\ \A n \in Manager : status[n] \in {"none", "recorded", "deleted"}
    /\ status' = [status EXCEPT ![m] = "open"]
    /\ UNCHANGED <<failed, rights, free, sections, stackmap, statepoint>>

-----------------------------------------------------------------------------
(* allocateSection *)

Alignment(r) == IF r.alignment = 0 THEN DefaultAlignment ELSE r.alignment

\* Faulty variant: no room for the aligning.
TightSize(size, alignment) == alignment * ((size + alignment - 1) \div alignment)
RequiredSize(size, alignment) == alignment * ((size + alignment - 1) \div alignment + 1)

\* The next multiple of the alignment, a power of two.
AlignedAddr(addr, alignment) == ((addr + alignment - 1) \div alignment) * alignment

\* Faulty variant: data that can be written goes with the other data.
OneDataGroup(r) == IF r.group = "code" THEN "code" ELSE "ro"
GroupOf(r) == r.group

\* The regions of FreeMem that are large enough.
Fits(m, r) ==
    {i \in DOMAIN free[m][GroupOf(r)] :
        free[m][GroupOf(r)][i].size >= RequiredSize(r.size, Alignment(r))}

\* What stays free of memory up to end after a section of that size at addr.
Rest(addr, size, end) == Region(addr + size, end - addr - size)

\* LLVM loads the sections of a module one after the other.
Loads(m, r) ==
    /\ status[m] = "open" /\ Cardinality(Of(m)) < MaxSections
    /\ r.map => \A s \in Of(m) : ~s.map

\* allocateDataSection remembers the stack map.
Answer(m, r, addr) ==
    /\ sections' = sections \cup
          {[mgr |-> m, group |-> r.group, base |-> addr, size |-> r.size,
            align |-> Alignment(r), map |-> r.map]}
    /\ stackmap' = IF r.map THEN [stackmap EXCEPT ![m] = Region(addr, r.size)] ELSE stackmap
    /\ UNCHANGED <<status, failed, statepoint>>

\* The first region that is large enough.
Reuse(m, r) ==
    /\ Loads(m, r)
    /\ \E i \in Fits(m, r) :
          /\ \A j \in Fits(m, r) : i <= j
          /\ LET region == free[m][GroupOf(r)][i]
                 addr == AlignedAddr(region.base, Alignment(r))
             IN  /\ free' = [free EXCEPT ![m][GroupOf(r)][i] =
                                Rest(addr, r.size, region.base + region.size)]
                 /\ Answer(m, r, addr)
    /\ UNCHANGED rights

\* A new block, wherever the system has room for its pages (Near is a hint).
\* FreeSize is an unsigned.
Map(m, r) ==
    /\ Loads(m, r) /\ Fits(m, r) = {}
    /\ \E base \in Base :
       LET pages == (RequiredSize(r.size, Alignment(r)) + PageSize - 1) \div PageSize
           block == [base |-> base, size |-> pages * PageSize, mgr |-> m, group |-> GroupOf(r)]
           addr == AlignedAddr(base, Alignment(r))
           rest == Rest(addr, r.size, base + block.size)
           kept == Region(rest.base, rest.size % UnsignedLimit)
       IN  /\ \A b \in DOMAIN rights : Apart(block, b)
           /\ rights' = [b \in DOMAIN rights \cup {block} |->
                            IF b = block THEN {"read", "write"} ELSE rights[b]]
           /\ free' = IF kept.size > Spare
                      THEN [free EXCEPT ![m][GroupOf(r)] = Append(@, kept)] ELSE free
           /\ Answer(m, r, addr)

\* The system has no memory: nullptr, and LLVM gives up.
Fail(m, r) ==
    /\ Loads(m, r) /\ Fits(m, r) = {}
    /\ stackmap' = IF r.map THEN [stackmap EXCEPT ![m] = NullMap] ELSE stackmap
    /\ status' = [status EXCEPT ![m] = "stopped"]
    /\ UNCHANGED <<failed, rights, free, sections, statepoint>>

-----------------------------------------------------------------------------
(* finalizeMemory, recordStackmaps, and the end of the engine *)

CodeRights == {"read", "write", "exec"}
DataRights == {"read", "exec"}

\* The blocks get their rights one after the other, the code first; an error
\* leaves the others as they are, and the free read-only data if code fails.
\* MCJIT does not look at the answer.
FinalizeMemory(m) ==
    /\ status[m] = "open"
    /\ \E code \in SUBSET Blocks(m, "code"), data \in SUBSET Blocks(m, "ro") :
          LET codeDone == code = Blocks(m, "code")
              dataDone == data = Blocks(m, "ro")
          IN  /\ ~codeDone => data = {}
              /\ rights' = [b \in DOMAIN rights |->
                    IF b \in code THEN CodeRights ELSE IF b \in data THEN DataRights ELSE rights[b]]
              /\ free' = [free EXCEPT ![m] =
                    [g \in Group |-> IF g = "code" \/ (g = "ro" /\ codeDone) THEN <<>> ELSE @[g]]]
              /\ failed' = IF codeDone /\ dataDone THEN failed ELSE failed \cup {m}
    /\ status' = [status EXCEPT ![m] = "finalized"]
    /\ UNCHANGED <<sections, stackmap, statepoint>>

\* A function of the module, and the addresses that its calls return to.
Returns(s) == (s.base + 1)..(s.base + s.size - 1)
Record_(m, s) == [fun |-> s.base, map |-> stackmap[m]]

\* Faulty variant: without a look at the address.
AlwaysMap(m) == TRUE
HasMap(m) == stackmap[m] # NullMap

\* The statepoints of the module, if it has a stack map; emplace keeps entries.
RecordStackmaps(m) ==
    /\ status[m] = "finalized"
    /\ LET code == {s \in Of(m) : HasMap(m) /\ s.group = "code"}
           pcs == UNION {Returns(s) : s \in code}
       IN  statepoint' = [pc \in DOMAIN statepoint \cup pcs |->
              IF pc \in DOMAIN statepoint THEN statepoint[pc]
              ELSE Record_(m, CHOOSE s \in code : pc \in Returns(s))]
    /\ status' = [status EXCEPT ![m] = "recorded"]
    /\ UNCHANGED <<failed, rights, free, sections, stackmap>>

\* Memory that the destructor gives back to the system.
\* Faulty variant: that of its sections.
AllBlocks(m) == {b \in DOMAIN rights : b.mgr = m}
Released(m) == {}

\* Compiler::finalize, ICCompiler::finalize: delete engine.  (Engines stay in a
\* debug build.)
Delete(m) ==
    /\ status[m] = "recorded"
    /\ rights' = [b \in DOMAIN rights \ Released(m) |-> rights[b]]
    /\ free' = [free EXCEPT ![m] = NoFree]
    /\ stackmap' = [stackmap EXCEPT ![m] = NullMap]
    /\ status' = [status EXCEPT ![m] = "deleted"]
    /\ UNCHANGED <<failed, sections, statepoint>>

Next ==
    \E m \in Manager :
        \/ Create(m)
        \/ \E r \in Requests : Reuse(m, r) \/ Map(m, r) \/ Fail(m, r)
        \/ FinalizeMemory(m) \/ RecordStackmaps(m) \/ Delete(m)

Spec == Init /\ [][Next]_vars

-----------------------------------------------------------------------------
(* Properties *)

\* Sizes stay positive and entries complete.
MMTypeOK ==
    /\ status \in [Manager -> {"none", "open", "finalized", "recorded", "deleted", "stopped"}]
    /\ failed \subseteq Manager
    /\ \A b \in DOMAIN rights : /\ b.base \in Nat \ {0} /\ b.size \in Nat \ {0}
                                /\ b.mgr \in Manager /\ b.group \in Group
                                /\ rights[b] \subseteq CodeRights
    /\ \A m \in Manager, g \in Group :
          \A i \in DOMAIN free[m][g] : free[m][g][i].base \in Nat /\ free[m][g][i].size \in Nat
    /\ \A s \in sections : /\ s.mgr \in Manager /\ s.group \in Group /\ s.map \in BOOLEAN
                           /\ s.base \in Nat \ {0} /\ s.size \in Nat \ {0} /\ s.align \in Nat \ {0}
    /\ \A pc \in DOMAIN statepoint : pc \in Nat \ {0} /\ statepoint[pc].map # NullMap

\* No byte is handed out twice, in all the time that the program runs, nor is
\* it handed out and free; every section lies in memory that is mapped, and at
\* a multiple of its alignment (JITMemoryManager.h:66, the manager may be
\* deleted because the memory is leaked).
SectionsApart ==
    /\ \A s, t \in sections : s = t \/ Apart(s, t)
    /\ \A s \in sections : s.base % s.align = 0 /\ \E b \in DOMAIN rights : Within(s, b)
    /\ \A s \in sections : \A g \in Group : \A i \in DOMAIN free[s.mgr][g] : Apart(s, free[s.mgr][g][i])

\* LLVM can write sections while it loads them; from then on calls can be
\* patched and code can run, data that is read-only is, and the rest can
\* still be written, whatever shares the pages.
RightsMatch ==
    \A s \in sections : \E b \in DOMAIN rights :
        /\ Within(s, b) /\ "read" \in rights[b]
        /\ s.group = "rw" \/ status[s.mgr] \in {"open", "stopped"} => "write" \in rights[b]
        /\ status[s.mgr] \in {"finalized", "recorded", "deleted"} /\ s.mgr \notin failed =>
              /\ s.group = "code" => {"write", "exec"} \subseteq rights[b]
              /\ s.group = "ro" => "write" \notin rights[b]

\* The scan finds, for each address that code returns to, the record of that
\* code in the stack map of its own module, which is still there, also when the
\* manager is gone and other modules have been compiled (StackMap.cpp:18).
StatepointsOwn ==
    \A s, t \in sections :
        /\ s.group = "code" /\ t.map /\ s.mgr = t.mgr /\ status[s.mgr] \in {"recorded", "deleted"}
        => /\ \A pc \in Returns(s) :
                 /\ pc \in DOMAIN statepoint
                 /\ statepoint[pc] = [fun |-> s.base, map |-> Region(t.base, t.size)]
           /\ \E b \in DOMAIN rights : Within(t, b) /\ "read" \in rights[b]
=============================================================================
