-------------------------- MODULE MCMemoryManager --------------------------
(* Two or three modules, one after the other, whose sections are smaller than *)
(* a page, fill it exactly, or are aligned to more than a page.              *)
EXTENDS MemoryManager, TLC

CONSTANTS m1, m2

MCManager == {m1, m2}
Symmetry == Permutations(Manager)

Request(group, size, alignment, map) ==
    [group |-> group, size |-> size, alignment |-> alignment, map |-> map]

MCRequests ==
    {Request("code", 3, 2, FALSE), Request("code", 5, 0, FALSE),
     Request("ro", 3, 0, TRUE), Request("ro", 1, 2, FALSE),
     Request("rw", 9, 16, FALSE)}

MCBase == {8, 16, 32, 40}
=============================================================================
