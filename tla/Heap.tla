--------------------------------- MODULE Heap ---------------------------------
(***************************************************************************)
(* The kernel heap of kernel/src/memory/heap.c: a doubly linked list of    *)
(* segments in address order, each with a header in front of its memory.   *)
(*                                                                         *)
(* heap is the memory the functions share:                                 *)
(*   hdr       the live headers, by address                                *)
(*   LastHdr   the header of the last segment                              *)
(*   heapEnd   the address behind the last page                            *)
(*   nullHit   whether a store went to the field "last" of a header at     *)
(*             address NULL, in physical page 0 (kernel.c maps every page  *)
(*             of memory to itself, so such a store does not fault)        *)
(*                                                                         *)
(* Only the kernel's thread calls malloc and free.  malloc walks the list  *)
(* one segment a step, so that its termination can be asked about; the     *)
(* other functions are part of the step that calls them.                   *)
(*                                                                         *)
(* frames counts the pages RequestPage will still grant to the heap (page  *)
(* tables that MapMemory needs come out of them first).  When it has none  *)
(* left RequestPage returns NULL, and ExpandHeap maps that, page 0, into   *)
(* the heap.  Pages that share page 0 share their headers too; the model   *)
(* ends there.                                                             *)
(***************************************************************************)
EXTENDS Integers, FiniteSets

CONSTANTS
  HeapStart,     \* 0x0000100000000000 in the code
  InitialPages,  \* 0x10 in the code
  PageSize,      \* 0x1000 in the code
  HdrSize,       \* sizeof(HeapSegHdr), 0x20
  Align,         \* 0x10: the granularity of sizes and the least split
  Requests,      \* the sizes malloc is called with
  MaxFrames      \* the pages the heap can have in all

ASSUME HeapAssumption ==
  /\ {HeapStart, InitialPages, PageSize, HdrSize, Align} \subseteq Nat \ {0}
  /\ HeapStart % Align = 0 /\ PageSize % Align = 0 /\ HdrSize % Align = 0
  /\ PageSize > HdrSize + Align
  /\ Requests \subseteq Nat
  /\ MaxFrames \in Nat /\ MaxFrames >= InitialPages

NULL == 0

VARIABLES
  heap,        \* the list in memory, see above
  frames,      \* pages RequestPage still grants
  pageZero,    \* heap pages that ExpandHeap mapped to page 0
  pc,          \* "idle", malloc's "walk" and "expand", or "aliased"
  currentSeg,  \* malloc's cursor
  request,     \* the bytes the running malloc was asked for, 0 between calls
  size,        \* the same, rounded
  expansions,  \* ExpandHeap calls of the running malloc
  given        \* blocks malloc returned and nobody freed: address to bytes asked for

vars == <<heap, frames, pageZero, pc, currentSeg, request, size, expansions, given>>

-----------------------------------------------------------------------------
(* Mutants: what the definitions of the same names, less the part behind   *)
(* the underscore, would be with a bug in the heap.                        *)

\* A merge forgets the header between the two segments.
Merged_WithoutHdr(front, back) ==
  [front EXCEPT !.length = @ + back.length, !.next = back.next]

\* Neither free nor ExpandHeap merges with the segment in front.
CombineBackward_Never(h, a) == h

\* malloc takes the first free segment, however short.
Fits_FreeOnly == heap.hdr[currentSeg].free

-----------------------------------------------------------------------------
(* The functions of heap.c on the list.                                    *)

\* malloc and ExpandHeap round a size up to their granularity.
RoundUp(n, unit) == IF n % unit > 0 THEN n - (n % unit) + unit ELSE n

\* Store value in the field last of the header at a, which may be NULL.
SetLast(h, a, value) ==
  IF a = NULL THEN [h EXCEPT !.nullHit = TRUE]
  ELSE [h EXCEPT !.hdr[a].last = value]

\* The header of two segments in one.
Merged(front, back) ==
  [front EXCEPT !.length = @ + back.length + HdrSize, !.next = back.next]

CombineForward(h, a) ==
  LET b == h.hdr[a].next
      c == h.hdr[b].next
      linked == IF c = NULL THEN h ELSE SetLast(h, c, a)
      merged == Merged(linked.hdr[a], h.hdr[b])
  IN  IF b = NULL THEN h
      ELSE IF ~h.hdr[b].free THEN h
      ELSE [linked EXCEPT
              !.LastHdr = IF b = @ THEN a ELSE @,
              !.hdr = [x \in DOMAIN linked.hdr \ {b} |->
                         IF x = a THEN merged ELSE linked.hdr[x]]]

CombineBackward(h, a) ==
  LET b == h.hdr[a].last
  IN  IF b = NULL THEN h ELSE IF h.hdr[b].free THEN CombineForward(h, b) ELSE h

\* The back of a split segment is as free as the whole was.
BackFree(front) == front.free

\* Split does not test heapSegHdr->next for NULL before it stores into it.
Split(h, a, splitLength) ==
  LET splitSegLength == h.hdr[a].length - splitLength - HdrSize
      new    == a + splitLength + HdrSize
      linked == SetLast(h, h.hdr[a].next, new)
      front  == [linked.hdr[a] EXCEPT !.next = new, !.length = splitLength]
      back   == [length |-> splitSegLength, next |-> h.hdr[a].next, last |-> a,
                 free |-> BackFree(h.hdr[a])]
  IN  IF splitLength < Align \/ splitSegLength < Align THEN h
      ELSE [linked EXCEPT
              !.LastHdr = IF @ = a THEN new ELSE @,
              !.hdr = [x \in DOMAIN linked.hdr \cup {new} |->
                         IF x = new THEN back
                         ELSE IF x = a THEN front ELSE linked.hdr[x]]]

\* The pages from heapEnd on that hold length bytes.
ExpandHeap(h, length) ==
  LET bytes == RoundUp(length, PageSize)
      new   == h.heapEnd
      hdr   == [length |-> bytes - HdrSize, next |-> NULL, last |-> h.LastHdr,
                free |-> TRUE]
  IN  CombineBackward(
        [h EXCEPT !.heapEnd = @ + bytes,
                  !.LastHdr = new,
                  !.hdr = [x \in DOMAIN h.hdr \cup {new} |->
                             IF x = new THEN hdr
                             ELSE IF x = h.LastHdr THEN [h.hdr[x] EXCEPT !.next = new]
                             ELSE h.hdr[x]]],
        new)

-----------------------------------------------------------------------------
\* InitializeHeap: one free segment of all the pages.
InitializeHeap ==
  [hdr |-> [a \in {HeapStart} |->
              [length |-> InitialPages * PageSize - HdrSize, next |-> NULL,
               last |-> NULL, free |-> TRUE]],
   LastHdr |-> HeapStart,
   heapEnd |-> HeapStart + InitialPages * PageSize,
   nullHit |-> FALSE]

Init == /\ heap = InitializeHeap
        /\ frames = MaxFrames - InitialPages
        /\ pageZero = {}
        /\ pc = "idle"
        /\ currentSeg = NULL /\ request = 0 /\ size = 0 /\ expansions = 0
        /\ given = [a \in {} |-> 0]

\* malloc is called.  A size that rounds to 0 returns NULL at once.
CallMalloc == \E n \in Requests :
  /\ pc = "idle"
  /\ RoundUp(n, Align) # 0
  /\ pc' = "walk"
  /\ request' = n /\ size' = RoundUp(n, Align)
  /\ currentSeg' = HeapStart
  /\ expansions' = 0
  /\ UNCHANGED <<heap, frames, pageZero, given>>

Fits == heap.hdr[currentSeg].free /\ heap.hdr[currentSeg].length >= size

\* A free segment is long enough: malloc cuts it, if it is longer, and
\* returns it.
Take ==
  /\ pc = "walk" /\ Fits
  /\ LET cut == IF heap.hdr[currentSeg].length > size
                THEN Split(heap, currentSeg, size) ELSE heap
     IN  heap' = [cut EXCEPT !.hdr[currentSeg].free = FALSE]
  /\ given' = [a \in DOMAIN given \cup {currentSeg + HdrSize} |->
                 IF a = currentSeg + HdrSize THEN request ELSE given[a]]
  /\ pc' = "idle"
  /\ currentSeg' = NULL /\ request' = 0 /\ size' = 0 /\ expansions' = 0
  /\ UNCHANGED <<frames, pageZero>>

\* It is not: on to the next one, or out of the loop.
Walk ==
  /\ pc = "walk" /\ ~Fits
  /\ IF heap.hdr[currentSeg].next = NULL
     THEN pc' = "expand" /\ UNCHANGED currentSeg
     ELSE currentSeg' = heap.hdr[currentSeg].next /\ UNCHANGED pc
  /\ UNCHANGED <<heap, frames, pageZero, request, size, expansions, given>>

PagesFor(n) == RoundUp(n, PageSize) \div PageSize

\* ExpandHeap with pages enough, then malloc calls itself.
Expand ==
  /\ pc = "expand"
  /\ PagesFor(size) <= frames
  /\ heap' = ExpandHeap(heap, size)
  /\ frames' = frames - PagesFor(size)
  /\ expansions' = expansions + 1
  /\ currentSeg' = HeapStart
  /\ pc' = "walk"
  /\ UNCHANGED <<pageZero, request, size, given>>

\* ExpandHeap when RequestPage runs out: its result, NULL, is mapped.
ExpandWithoutFrames ==
  /\ pc = "expand"
  /\ PagesFor(size) > frames
  /\ pageZero' = {heap.heapEnd + i * PageSize : i \in frames .. (PagesFor(size) - 1)}
  /\ frames' = 0
  /\ pc' = "aliased"
  /\ UNCHANGED <<heap, currentSeg, request, size, expansions, given>>

\* free is called with a block that malloc returned.
Free == \E a \in DOMAIN given :
  LET seg == a - HdrSize
  IN  /\ pc = "idle"
      /\ heap' = CombineBackward(
                   CombineForward([heap EXCEPT !.hdr[seg].free = TRUE], seg), seg)
      /\ given' = [b \in DOMAIN given \ {a} |-> given[b]]
      /\ UNCHANGED <<frames, pageZero, pc, currentSeg, request, size, expansions>>

Next == CallMalloc \/ Take \/ Walk \/ Expand \/ ExpandWithoutFrames \/ Free

Spec == Init /\ [][Next]_vars

-----------------------------------------------------------------------------
Segs == DOMAIN heap.hdr
Addresses == {NULL} \cup (HeapStart .. heap.heapEnd)

\* The end of a segment: where the next one's header begins.
EndOf(a) == a + HdrSize + heap.hdr[a].length

\* The types of the heap's state, a part of SegmentsTileTheHeap.
TypeOK ==
  /\ heap.hdr \in [Segs -> [length : Nat, next : Segs \cup {NULL},
                            last : Segs \cup {NULL}, free : BOOLEAN]]
  /\ Segs \subseteq Addresses \ {NULL}
  /\ heap.LastHdr \in Segs
  /\ frames \in 0 .. MaxFrames
  /\ pc \in {"idle", "walk", "expand", "aliased"}
  /\ currentSeg \in Segs \cup {NULL}
  /\ DOMAIN given \subseteq Addresses

\* Every pointer is NULL or a live header, and the segments tile the heap: each one ends where the next one's header is,
\* the two point at each other, and the last one, LastHdr, ends at heapEnd.
\* Split, CombineForward and ExpandHeap each update up to six fields for it.
SegmentsTileTheHeap ==
  /\ TypeOK
  /\ \A a \in Segs :
       /\ IF heap.hdr[a].next = NULL
          THEN a = heap.LastHdr /\ EndOf(a) = heap.heapEnd
          ELSE heap.hdr[a].next = EndOf(a) /\ heap.hdr[EndOf(a)].last = a
       /\ heap.hdr[a].last = NULL => a = HeapStart

\* free merges with both neighbours and ExpandHeap with the tail, so that no
\* two free segments ever lie next to each other: free memory is found by
\* malloc as one piece.
FreeSegmentsAreMerged ==
  \A a \in Segs : heap.hdr[a].free /\ heap.hdr[a].next # NULL =>
                    ~heap.hdr[heap.hdr[a].next].free

\* malloc ends: it calls itself at most twice.  One ExpandHeap may be too
\* short, because its header comes out of the pages it adds (heap.c:100); the
\* second one merges with the first (heap.c:60).
TwoExpansionsAreEnough == expansions <= 2

\* The blocks that are in use, whole segments, are what BlockStore describes:
\* each has the bytes its malloc was asked for, before they were rounded.
Store == INSTANCE BlockStore WITH
           blocks <- [b \in DOMAIN given |-> heap.hdr[b - HdrSize].length],
           wanted <- request

ImplementsBlockStore == Store!Spec
=============================================================================
