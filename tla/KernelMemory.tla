----------------------------- MODULE KernelMemory -----------------------------
(***************************************************************************)
(* How kernel/src/kernel.c builds the kernel's address space (lines 64 to  *)
(* 100) out of the frame allocator and MapMemory, and how the heap, the    *)
(* IDT and the drivers extend it afterwards.                               *)
(*                                                                         *)
(* All of it happens in the kernel's only thread.  MapMemory and every     *)
(* memset use the number RequestPage returned as an address, so that a     *)
(* frame can only be used while it is mapped to itself: through the        *)
(* firmware's tables until cr3 is loaded, through the kernel's own after.  *)
(*                                                                         *)
(* When RequestPage returns NULL the kernel goes on with page 0.  The      *)
(* model ends there, at the stage "wrecked".                               *)
(*                                                                         *)
(* A frame that is not mapped to itself cannot be cleared or followed: the *)
(* kernel faults.  The model goes on, so that it claims of such a kernel   *)
(* more than the kernel does.                                              *)
(***************************************************************************)
EXTENDS PageTables

CONSTANTS
  MemoryMaps,     \* the memory maps the firmware may hand over
  KernelPages,    \* the pages from _KernelStart to _KernelEnd
  FbBases,        \* where the framebuffer may begin
  FbPages,        \* its pages, BufferSize / 4096
  HeapStart,      \* the page of 0x0000100000000000
  InitialPages,   \* 0x10 in the code
  DevicePages     \* configuration space and registers of devices

ASSUME KernelMemoryAssumption ==
  /\ \A m \in MemoryMaps : /\ GetMemorySize(m) \in 1 .. HeapStart
                           /\ LargestFreeMemSeg(m) \in Nat
                           /\ ConventionalPages(m) \subseteq Nat
  /\ KernelPages \subseteq Nat
  /\ FbPages \in Nat /\ InitialPages \in Nat \ {0}
  /\ FbBases \subseteq Nat
  /\ \A b \in FbBases : Pages(b, FbPages + 1) \subseteq VirtualPages
  /\ Pages(HeapStart, InitialPages) \subseteq VirtualPages
  /\ HeapStart \in Nat
  /\ DevicePages \subseteq VirtualPages

\* No device lies where the heap can grow to, 16 TiB up, with all the pages
\* there are; and the framebuffer is no memory RequestPage could hand out.
ASSUME DevicesAreApart ==
  \A m \in MemoryMaps, b \in FbBases :
    /\ (Pages(b, FbPages + 1) \cup DevicePages)
         \cap (HeapStart .. HeapStart + GetMemorySize(m) + 7) = {}
    /\ Pages(b, FbPages)
         \cap (ConventionalPages(m) \cup
                 (GetMemorySize(m) + 1 .. GetMemorySize(m) + 7)) = {}

VARIABLES
  mMap,       \* the map the firmware left
  fbBase,     \* framebuffer->BaseAddress
  stage,      \* what _start does next
  t,          \* its loop variable
  mem,        \* allocator and page tables
  heapEnd,    \* the virtual page behind the heap
  data,       \* frames requested for the IDT and for drivers
  itself      \* the pages that were to be mapped to themselves

vars == <<mMap, fbBase, stage, t, mem, heapEnd, data, itself>>

Stages == {"memory", "PML4", "identity", "framebuffer", "heap", "running",
           "wrecked"}

Init == /\ mMap \in MemoryMaps
        /\ fbBase \in FbBases
        /\ stage = "memory"
        /\ t = 0
        /\ mem = [pfa |-> UninitialisedAllocator, PML4 |-> NULL,
                  tables |-> [f \in {} |-> NULL]]
        /\ heapEnd = HeapStart
        /\ data = {}
        /\ itself = {}

\* The stage after a step that requested frames.
StageAfter(next, m) ==
  stage' = IF NULL \in DOMAIN m.tables THEN "wrecked" ELSE next

-----------------------------------------------------------------------------
(* Mutants: what the definitions of the same names, less the part behind   *)
(* the underscore, would be with a bug in the kernel.                      *)

\* The identity map ends one page early.
MemoryEnd_Short == GetMemorySize(mMap) - 1

\* The heap does not move its end.
HeapEndAfter_Same == heapEnd

-----------------------------------------------------------------------------
\* kernel.c:67-73.  GetMemorySize is called with the same map everywhere, so
\* that its static copy is what it computes; stale bits do not matter here.
ReadMap == /\ stage = "memory"
           /\ mem' = [mem EXCEPT !.pfa =
                        LockPages(ReadEFIMemoryMap(@, mMap, {}), KernelPages)]
           /\ stage' = "PML4"
           /\ UNCHANGED <<mMap, fbBase, t, heapEnd, data, itself>>

\* kernel.c:75-77, and PageTableManagerConst.
MakePML4 == /\ stage = "PML4"
            /\ LET frame == RequestedPage(mem.pfa)
               IN  mem' = ClearedTable([mem EXCEPT !.pfa = RequestPage(@),
                                                   !.PML4 = frame], frame)
            /\ StageAfter("identity", mem')
            /\ t' = 0
            /\ UNCHANGED <<mMap, fbBase, heapEnd, data, itself>>

MemoryEnd == GetMemorySize(mMap)

\* kernel.c:79-81, one page at a time.
MapIdentity == /\ stage = "identity" /\ t < MemoryEnd
               /\ mem' = MapMemory(mem, t, t)
               /\ itself' = itself \cup {t}
               /\ StageAfter("identity", mem')
               /\ t' = t + 1
               /\ UNCHANGED <<mMap, fbBase, heapEnd, data>>

\* kernel.c:83-85.  fbSize is a page more than the buffer, and one more page
\* than that is locked.
LockFramebuffer ==
  /\ stage = "identity" /\ t >= MemoryEnd
  /\ mem' = [mem EXCEPT !.pfa = LockPages(@, Pages(fbBase, FbPages + 2))]
  /\ stage' = "framebuffer"
  /\ t' = fbBase
  /\ UNCHANGED <<mMap, fbBase, heapEnd, data, itself>>

\* kernel.c:86-88.
MapFramebuffer == /\ stage = "framebuffer" /\ t < fbBase + FbPages + 1
                  /\ mem' = MapMemory(mem, t, t)
                  /\ itself' = itself \cup {t}
                  /\ StageAfter("framebuffer", mem')
                  /\ t' = t + 1
                  /\ UNCHANGED <<mMap, fbBase, heapEnd, data>>

\* kernel.c:90.
LoadCR3 == /\ stage = "framebuffer" /\ t >= fbBase + FbPages + 1
           /\ stage' = "heap"
           /\ UNCHANGED <<mMap, fbBase, t, mem, heapEnd, data, itself>>

HeapEndAfter == heapEnd + 1

\* A page more for the heap, as InitializeHeap (heap.c:9-12) and ExpandHeap
\* (heap.c:90-93) map it: the frame is requested before the tables are.
MapHeapPage ==
  /\ LET frame == RequestedPage(mem.pfa)
     IN  /\ mem' = MapMemory([mem EXCEPT !.pfa = RequestPage(@)], heapEnd, frame)
         /\ stage' = IF frame = NULL \/ NULL \in DOMAIN mem'.tables THEN "wrecked"
                     ELSE IF HeapEndAfter < HeapStart + InitialPages THEN "heap"
                     ELSE "running"
  /\ heapEnd' = HeapEndAfter
  /\ UNCHANGED <<mMap, fbBase, t, data, itself>>

InitializeHeap == stage = "heap" /\ MapHeapPage

ExpandHeap == stage = "running" /\ heapEnd \in VirtualPages /\ MapHeapPage

\* A frame that is used by its address: the IDT (kernel.c:100) and the
\* command lists and buffers of the AHCI driver (ahci.c:25, 31, 41 and 66).
RequestData ==
  /\ stage = "running"
  /\ LET frame == RequestedPage(mem.pfa)
     IN  /\ data' = data \cup {frame}
         /\ stage' = IF frame = NULL THEN "wrecked" ELSE "running"
  /\ mem' = [mem EXCEPT !.pfa = RequestPage(@)]
  /\ UNCHANGED <<mMap, fbBase, t, heapEnd, itself>>

\* Device memory is mapped to itself (pci.c:9, 44 and 60, ahci.c:59), some of
\* it again and again.
MapDevice == \E d \in DevicePages :
  /\ stage = "running"
  /\ mem' = MapMemory(mem, d, d)
  /\ itself' = itself \cup {d}
  /\ StageAfter("running", mem')
  /\ UNCHANGED <<mMap, fbBase, t, heapEnd, data>>

Next == \/ ReadMap \/ MakePML4 \/ MapIdentity \/ LockFramebuffer
        \/ MapFramebuffer \/ LoadCR3 \/ InitializeHeap \/ ExpandHeap
        \/ RequestData \/ MapDevice

Spec == Init /\ [][Next]_vars

-----------------------------------------------------------------------------
Tables == DOMAIN mem.tables

HeapPages == HeapStart .. heapEnd - 1

\* The address space as the processor sees it with the kernel's tables.
Space == [v \in VirtualPages |-> IF Tables = {} THEN NotPresent ELSE Translate(mem, v)]

HeapFrames == {Space[v] : v \in HeapPages}

AllocatorBits == 0 .. mem.pfa.Size * 8

\* The types of the kernel's memory, a part of TablesFormATree.
TypeOK ==
  /\ stage \in Stages
  /\ mem.pfa.bits \subseteq AllocatorBits
  /\ mem.pfa.pageBitmapIndex \in AllocatorBits
  /\ mem.PML4 \in Tables \cup {NULL}
  /\ mem.tables \in [Tables -> [0 .. Entries - 1 -> Int]]
  /\ Tables \subseteq AllocatorBits
  /\ heapEnd \in HeapStart .. HeapStart + Cardinality(VirtualPages)
  /\ data \subseteq AllocatorBits
  /\ itself \subseteq VirtualPages

\* The tables form a tree under the PML4: every other table is the target of
\* exactly one entry, on one level, and none is lost.  MapMemory relies on
\* it to change no other translation than the one it is asked for.
TablesFormATree ==
  /\ TypeOK
  /\ stage \notin {"memory", "PML4", "wrecked"} =>
       LET inner == {mem.PML4} \cup PDPs(mem) \cup PDs(mem)
           entries == {x \in inner \X (0 .. Entries - 1) :
                         Present(mem.tables[x[1]][x[2]])}
       IN  /\ Tables = inner \cup PTs(mem)
           /\ Cardinality(Tables) = Cardinality(entries) + 1

\* A frame has one use: a frame of the heap is mapped there once, and is no
\* table, no frame of the IDT or of a driver, and no page of the BIOS, the
\* bitmap, the kernel or the framebuffer.
FramesHaveOneUse ==
  stage # "wrecked" =>
    /\ Cardinality(HeapFrames) = heapEnd - HeapStart
    /\ HeapFrames \cap Tables = {} /\ HeapFrames \cap data = {}
    /\ data \cap Tables = {}
    /\ (HeapFrames \cup Tables \cup data) \cap
         (Pages(0, BiosPages) \cup BitmapPages(mem.pfa) \cup KernelPages
            \cup Pages(fbBase, FbPages)) = {}

\* kernel.c:79 maps pages to themselves up to the sum of the descriptors'
\* sizes, but the bits of the bitmap go on to a multiple of 8 (see
\* HandedOutPagesAreConventional).  These are the pages behind the sum that
\* RequestPage may return: spare bits, and, if the map has a hole, the memory
\* that lies behind the sum for it.
BehindTheSum(m) ==
  LET sum == GetMemorySize(m)
  IN  {f \in sum .. (sum \div 8 + 1) * 8 - 1 : f = sum => f \in ConventionalPages(m)}

\* Once cr3 is loaded every table is mapped to itself, as MapMemory requires
\* when it follows an address it read from a table, and so is every frame
\* that is used by its address, except for a frame behind the sum.
UsedFramesAreMappedToThemselves ==
  stage \in {"heap", "running"} =>
    \A f \in (Tables \cup data) \ BehindTheSum(mMap) : Space[f] = f

\* PageFrameAllocator.c:35 says of the pages up to the sum "look all memory".
\* If they were, no used frame would be behind them, whatever holes the map
\* has.
HolesDoNotMatter ==
  stage \in {"heap", "running"} => \A f \in Tables \cup data : Space[f] = f

\* MapMemory never invalidates the translation the processor may have cached
\* (there is no invlpg in PageTableManager.c:13-62), so after cr3 is loaded
\* no translation is ever replaced by a different one.
NoTranslationIsReplaced ==
  [][(stage \in {"heap", "running"} /\ stage' # "wrecked") =>
       \A v \in VirtualPages : Space[v] \in {NotPresent, Space'[v]}]_vars

\* Seen through the processor's walk, the tables are an address space: one
\* page at a time is mapped and no other translation changes, whatever
\* tables have to be added for it.  (With page 0 as a table they are not.)
Address == INSTANCE AddressSpace WITH
             Virtual <- VirtualPages, Frames <- Nat, Unmapped <- NotPresent,
             space <- Space

ImplementsAddressSpace ==
  Address!Init /\ [][stage' # "wrecked" => Address!Next \/ UNCHANGED Space]_vars
=============================================================================
