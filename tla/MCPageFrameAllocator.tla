------------------------- MODULE MCPageFrameAllocator -------------------------
(* Small instances of PageFrameAllocator for TLC.  A page holds 2 bytes of *)
(* bitmap, so the bitmap spans 2 pages, the second because of its + 1.     *)
EXTENDS PageFrameAllocator, Sequences

Desc(type, physAddr, numPages) ==
  [type |-> type, physAddr |-> physAddr, numPages |-> numPages]

\* 15 pages without a hole: the bitmap has exactly one bit for each page and
\* one for the page that follows.
FullMap == <<Desc("conventional", 0, 3), Desc("reserved", 3, 2),
             Desc("conventional", 5, 8), Desc("acpi", 13, 2)>>

\* 10 pages without a hole: bits 11..15 stand for no memory.
SpareMap == <<Desc("conventional", 0, 2), Desc("reserved", 2, 1),
              Desc("conventional", 3, 6), Desc("reserved", 9, 1)>>

\* 15 pages with holes: conventional memory reaches the stray bit 16, and
\* page 20 is behind the bitmap.
HoleMap == <<Desc("conventional", 0, 2), Desc("conventional", 4, 6),
             Desc("reserved", 11, 3), Desc("conventional", 14, 3),
             Desc("conventional", 20, 1)>>

Maps == {FullMap, SpareMap, HoleMap}
=============================================================================
