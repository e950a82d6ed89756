------------------------------ MODULE PageFrames ------------------------------
(***************************************************************************)
(* The data of the physical page frame allocator of                        *)
(* kernel/src/paging/PageFrameAllocator.c with the bitmap of               *)
(* kernel/src/Bitmap.c: one operator per C function, from an allocator     *)
(* record to an allocator record.  PageFrameAllocator and the modules that *)
(* compose the allocator with its callers build their actions from them.   *)
(*                                                                         *)
(* Addresses are page numbers (address / 4096) and the three counters      *)
(* count pages instead of bytes.  The counters are integers: uint64_t      *)
(* arithmetic is the same modulo 2^64, and -1 page here is                 *)
(* 2^64 - 4096 bytes there.                                                *)
(*                                                                         *)
(* An allocator record has the fields                                      *)
(*   Size             bytes of the bitmap (Bitmap.Size)                    *)
(*   Buffer           the page the bitmap's memory starts at               *)
(*   bits             the indices whose bit is 1                           *)
(*   freeMemory, usedMemory, reservedMemory, pageBitmapIndex               *)
(***************************************************************************)
EXTENDS Integers, FiniteSets, FiniteSetsExt

CONSTANTS
  PageBytes,     \* bytes of bitmap that fit in one page (4096 in the code)
  BiosPages      \* pages kept for the BIOS (0x100 in the code)

ASSUME PageFramesAssumption ==
  /\ PageBytes \in Nat \ {0}
  /\ BiosPages \in Nat \ {0}

\* What RequestPage returns when there is no page: the address 0.
NULL == 0

\* The pages of a C range (address, pageCount).
Pages(first, count) == first .. (first + count - 1)

-----------------------------------------------------------------------------
(* Mutants: what the definitions of the same names, less the part behind   *)
(* the underscore, would be with a bug in the allocator.                   *)

\* GetBitmap and SetBitmap accept every index.
InBitmap_Unchecked(pfa, index) == TRUE

\* LockPage and ReservePage count a page that is taken already.
ToSet_Twice(pfa, P) == {i \in P : i <= pfa.Size * 8}

\* The functions that clear a bit leave the cursor alone.
LowerCursor_Forgotten(pfa, P) == pfa.pageBitmapIndex

\* They move it to the page, wherever it is.
LowerCursor_Raises(pfa, P) == IF P = {} THEN pfa.pageBitmapIndex ELSE Min(P)

-----------------------------------------------------------------------------
(* Bitmap.c.  The bound of GetBitmap and SetBitmap is "index > Size * 8",  *)
(* so the bit one past the last one, in Buffer[Size], is accepted too.     *)

InBitmap(pfa, index) == index <= pfa.Size * 8

GetBitmap(pfa, index) == InBitmap(pfa, index) /\ index \in pfa.bits

\* The pages of P whose bit a call that sets, or clears, bits changes.
ToSet(pfa, P)   == {i \in P : InBitmap(pfa, i) /\ ~GetBitmap(pfa, i)}
ToClear(pfa, P) == {i \in P : GetBitmap(pfa, i)}

\* pageBitmapIndex after the bits of P were cleared: it only moves down.
LowerCursor(pfa, P) ==
  IF \E i \in P : i < pfa.pageBitmapIndex THEN Min(P) ELSE pfa.pageBitmapIndex

-----------------------------------------------------------------------------
(* PageFrameAllocator.c.  A function on a range of pages is its function   *)
(* on each page in turn; the calls on different pages commute.             *)

LockPages(pfa, P) ==
  LET n == Cardinality(ToSet(pfa, P))
  IN  [pfa EXCEPT !.bits = @ \cup ToSet(pfa, P),
                  !.freeMemory = @ - n,
                  !.usedMemory = @ + n]

FreePages(pfa, P) ==
  LET n == Cardinality(ToClear(pfa, P))
  IN  [pfa EXCEPT !.bits = @ \ ToClear(pfa, P),
                  !.freeMemory = @ + n,
                  !.usedMemory = @ - n,
                  !.pageBitmapIndex = LowerCursor(pfa, ToClear(pfa, P))]

ReservePages(pfa, P) ==
  LET n == Cardinality(ToSet(pfa, P))
  IN  [pfa EXCEPT !.bits = @ \cup ToSet(pfa, P),
                  !.freeMemory = @ - n,
                  !.reservedMemory = @ + n]

UnreservePages(pfa, P) ==
  LET n == Cardinality(ToClear(pfa, P))
  IN  [pfa EXCEPT !.bits = @ \ ToClear(pfa, P),
                  !.freeMemory = @ + n,
                  !.reservedMemory = @ - n,
                  !.pageBitmapIndex = LowerCursor(pfa, ToClear(pfa, P))]

\* The pages RequestPage finds clear as its cursor moves up from where it is.
Candidates(pfa) ==
  {i \in pfa.pageBitmapIndex .. (pfa.Size * 8 - 1) : ~GetBitmap(pfa, i)}

\* RequestPage's result, and the allocator it leaves.  The cursor stops on the
\* page it found, or behind the last one when there is none.
RequestedPage(pfa) == IF Candidates(pfa) = {} THEN NULL ELSE Min(Candidates(pfa))

RequestPage(pfa) ==
  IF Candidates(pfa) = {}
  THEN [pfa EXCEPT !.pageBitmapIndex = IF @ < pfa.Size * 8 THEN pfa.Size * 8 ELSE @]
  ELSE [LockPages(pfa, {RequestedPage(pfa)})
          EXCEPT !.pageBitmapIndex = RequestedPage(pfa)]

\* The allocator before ReadEFIMemoryMap: kernel.c's bitmap {0, NULL} and the
\* zeroed globals.
UninitialisedAllocator ==
  [Size |-> 0, Buffer |-> NULL, bits |-> {}, freeMemory |-> 0, usedMemory |-> 0,
   reservedMemory |-> 0, pageBitmapIndex |-> 0]

\* InitBitmap clears Size bytes at the buffer; stale holds the bits past them
\* that the memory happened to have: only index Size * 8 can be reached.
InitBitmap(pfa, size, buffer, stale) ==
  [pfa EXCEPT !.Size = size, !.Buffer = buffer, !.bits = stale]

BitmapPages(pfa) == Pages(pfa.Buffer, pfa.Size \div PageBytes + 1)

-----------------------------------------------------------------------------
(* The memory map of the firmware: a sequence of descriptors               *)
(* [type, physAddr, numPages].                                             *)

\* memory.c: the sum of the sizes, not the end of the last descriptor.
GetMemorySize(mMap) == MapThenSumSet(LAMBDA k : mMap[k].numPages, DOMAIN mMap)

Conventional(mMap) == {k \in DOMAIN mMap : mMap[k].type = "conventional"}

ConventionalPages(mMap) ==
  UNION {Pages(mMap[k].physAddr, mMap[k].numPages) : k \in Conventional(mMap)}

\* The first of the largest conventional descriptors; its address is the
\* bitmap's.
LargestFreeMemSeg(mMap) ==
  LET sized == {k \in Conventional(mMap) : mMap[k].numPages > 0}
  IN  IF sized = {} THEN NULL
      ELSE mMap[CHOOSE k \in sized : \A j \in sized :
                  \/ mMap[j].numPages < mMap[k].numPages
                  \/ mMap[j].numPages = mMap[k].numPages /\ k <= j].physAddr

\* The mutant that locks the bitmap before it unreserves conventional memory.
ReadEFIMemoryMap_LockFirst(pfa, mMap, stale) ==
  LET memorySize == GetMemorySize(mMap)
      init       == InitBitmap([pfa EXCEPT !.freeMemory = memorySize],
                               memorySize \div 8 + 1, LargestFreeMemSeg(mMap), stale)
      looked     == ReservePages(init, Pages(0, memorySize + 1))
      locked     == LockPages(looked, BitmapPages(looked))
      unreserved == UnreservePages(locked, ConventionalPages(mMap))
  IN  ReservePages(unreserved, Pages(0, BiosPages))

\* ReadEFIMemoryMap, in the order of its calls.
ReadEFIMemoryMap(pfa, mMap, stale) ==
  LET memorySize == GetMemorySize(mMap)
      init       == InitBitmap([pfa EXCEPT !.freeMemory = memorySize],
                               memorySize \div 8 + 1, LargestFreeMemSeg(mMap), stale)
      looked     == ReservePages(init, Pages(0, memorySize + 1))
      unreserved == UnreservePages(looked, ConventionalPages(mMap))
      biosSafe   == ReservePages(unreserved, Pages(0, BiosPages))
  IN  LockPages(biosSafe, BitmapPages(biosSafe))
=============================================================================
