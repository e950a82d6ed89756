-------------------------- MODULE PageFrameAllocator --------------------------
(***************************************************************************)
(* The page frame allocator in the life of the kernel: kernel/src/kernel.c *)
(* reads the memory map of the firmware (line 69), locks its own image     *)
(* (73), requests the page tables, locks the framebuffer (85), and from    *)
(* then on requests and frees pages.                                       *)
(*                                                                         *)
(* Every operation is called from the kernel's only thread and no          *)
(* interrupt handler calls one, so a call is one step.                     *)
(***************************************************************************)
EXTENDS PageFrames

CONSTANTS
  MemoryMaps,        \* the memory maps the firmware may hand over
  KernelPages,       \* the pages from _KernelStart to _KernelEnd
  FramebufferPages,  \* the pages of the framebuffer, and the overshoot
  NoAnswer           \* RequestPage was not called yet

ASSUME PageFrameAllocatorAssumption ==
  /\ \A m \in MemoryMaps : GetMemorySize(m) \in Nat \ {0}
  /\ \A m \in MemoryMaps : LargestFreeMemSeg(m) \in Nat
  /\ \A m \in MemoryMaps : ConventionalPages(m) \subseteq Nat
  /\ KernelPages \subseteq Nat
  /\ FramebufferPages \subseteq Nat
  /\ NoAnswer \notin Nat

VARIABLES
  mMap,      \* the map the firmware left
  stale,     \* the bits the bitmap's memory held behind its last byte
  stage,     \* how far _start came: "uefi", "mapped", "locked", "running"
  pfa,       \* the allocator
  client,    \* the pages RequestPage returned and nobody freed
  answer     \* the last result of RequestPage

vars == <<mMap, stale, stage, pfa, client, answer>>

Size(m) == GetMemorySize(m) \div 8 + 1

Init == /\ mMap \in MemoryMaps
        /\ stale \in SUBSET {Size(mMap) * 8}
        /\ stage = "uefi"
        /\ pfa = UninitialisedAllocator
        /\ client = {}
        /\ answer = NoAnswer

\* kernel.c:69.  It runs once: Initialized makes a second call return.
ReadMap == /\ stage = "uefi"
           /\ stage' = "mapped"
           /\ pfa' = ReadEFIMemoryMap(pfa, mMap, stale)
           /\ UNCHANGED <<mMap, stale, client, answer>>

\* kernel.c:71-73.
LockKernel == /\ stage = "mapped"
              /\ stage' = "locked"
              /\ pfa' = LockPages(pfa, KernelPages)
              /\ UNCHANGED <<mMap, stale, client, answer>>

\* kernel.c:83-85: after the page tables were requested.
LockFramebuffer == /\ stage = "locked"
                   /\ stage' = "running"
                   /\ pfa' = LockPages(pfa, FramebufferPages)
                   /\ UNCHANGED <<mMap, stale, client, answer>>

\* A caller asks for a page: kernel.c for the PML4 and the IDT, MapMemory for
\* page tables, the heap and the AHCI driver for memory.
Request == /\ stage \in {"locked", "running"}
           /\ pfa' = RequestPage(pfa)
           /\ answer' = RequestedPage(pfa)
           /\ client' = client \cup ({answer'} \ {NULL})
           /\ UNCHANGED <<mMap, stale, stage>>

\* A caller gives back a range of pages it requested: FreePages, and FreePage
\* when the range is one page.
Free == \E first, last \in client :
          /\ first .. last \subseteq client
          /\ first <= last
          /\ pfa' = FreePages(pfa, first .. last)
          /\ client' = client \ (first .. last)
          /\ UNCHANGED <<mMap, stale, stage, answer>>

Next == ReadMap \/ LockKernel \/ LockFramebuffer \/ Request \/ Free

Spec == Init /\ [][Next]_vars

-----------------------------------------------------------------------------
Indices == 0 .. Size(mMap) * 8

\* The pages RequestPage can still return.
Requestable == {i \in 0 .. (pfa.Size * 8 - 1) : i \notin pfa.bits}

\* Pages nobody may be given: BIOS memory, the bitmap itself, the kernel.
Protected == Pages(0, BiosPages) \cup BitmapPages(pfa) \cup KernelPages

\* The allocator's types: the bits stay inside the bitmap and its one stray
\* bit, the cursor never leaves the bitmap.
TypeOK ==
  /\ mMap \in MemoryMaps
  /\ stale \subseteq {Size(mMap) * 8}
  /\ stage \in {"uefi", "mapped", "locked", "running"}
  /\ pfa \in [Size : {0, Size(mMap)}, Buffer : Nat, bits : SUBSET Indices,
              freeMemory : Int, usedMemory : Int, reservedMemory : Int,
              pageBitmapIndex : Indices]
  /\ client \subseteq Indices
  /\ answer \in Indices \cup {NoAnswer}

\* RequestPage never looks below pageBitmapIndex, so every page below it must
\* be taken: the functions that clear a bit move the cursor down
\* (PageFrameAllocator.c:74 and 113).
NothingFreeBelowCursor ==
  \A i \in Indices : i < pfa.pageBitmapIndex => i \in pfa.bits

\* A page somebody holds is marked, so it is not handed out twice, and it is
\* neither BIOS memory nor part of the bitmap (whose stray byte counts) nor of
\* the kernel image: PageFrameAllocator.c:46 and 48 and kernel.c:73 come
\* before the first request, and no free or unreserve undoes them.
HandedOutPagesAreSafe ==
  /\ client \subseteq pfa.bits
  /\ client \cap Protected = {}

\* The counters of GetFreeRAM, GetUsedRAM and GetReservedRAM agree with the
\* bitmap after any mix of overlapping calls: what is used or reserved is
\* exactly what was marked, and usedMemory covers every page handed out, so
\* that FreePage never makes it wrap around.
CountersMatchBitmap ==
  stage # "uefi" =>
    /\ pfa.freeMemory + pfa.usedMemory + pfa.reservedMemory = GetMemorySize(mMap)
    /\ Cardinality(pfa.bits) =
         pfa.usedMemory + pfa.reservedMemory + Cardinality(stale)
    /\ pfa.usedMemory >= Cardinality(client)

\* The allocator is a frame pool: it hands out only free frames, and NULL
\* (RequestPage's result at line 61) means that no frame is free at all.
Pool == INSTANCE FramePool WITH
          Frames <- Nat \ {NULL}, free <- Requestable, held <- client

ImplementsFramePool == Pool!Spec

\* "look all memory", then "unreserve the efiConventionalMemory pages"
\* (PageFrameAllocator.c:35 and 37): a page that is handed out is conventional
\* memory.
HandedOutPagesAreConventional == client \subseteq ConventionalPages(mMap)
=============================================================================
