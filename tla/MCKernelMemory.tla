---------------------------- MODULE MCKernelMemory ----------------------------
(* Instances of KernelMemory for TLC: tables of 4 entries, so that the     *)
(* four levels hold 256 pages, and about 30 pages of memory: of 31 pages,  *)
(* the bitmap has no bit that stands for no memory.                        *)
EXTENDS KernelMemory, Sequences

Desc(type, physAddr, numPages) ==
  [type |-> type, physAddr |-> physAddr, numPages |-> numPages]

\* 31 pages and a hole: page 31 is conventional memory behind the sum.
HoleMap == <<Desc("conventional", 0, 8), Desc("conventional", 11, 11),
             Desc("reserved", 22, 5), Desc("conventional", 27, 7)>>

\* 29 pages: the bits 30 and 31 stand for no memory.
SpareMap == <<Desc("conventional", 0, 20), Desc("reserved", 20, 9)>>

HoleMaps == {HoleMap}

\* One with room to spare behind the kernel, one where memory runs out in the
\* middle of a call of MapMemory, one that is too small to boot, and the two
\* that have pages behind the sum.
Maps == { <<Desc("conventional", 0, 6), Desc("reserved", 6, 1),
            Desc("conventional", 7, 24)>>,
          <<Desc("conventional", 0, 3), Desc("acpi", 3, 1),
            Desc("conventional", 4, 20), Desc("reserved", 24, 3),
            Desc("conventional", 27, 4)>>,
          <<Desc("reserved", 0, 17), Desc("conventional", 17, 14)>>,
          HoleMap, SpareMap }
=============================================================================
