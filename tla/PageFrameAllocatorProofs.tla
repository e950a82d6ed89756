----------------------- MODULE PageFrameAllocatorProofs -----------------------
(***************************************************************************)
(* The invariants of PageFrameAllocator, and its refinement of FramePool,  *)
(* for every memory map, page size, kernel image and framebuffer.          *)
(*                                                                         *)
(* TypeOK and the three safety invariants are proved together: a page is   *)
(* safe to hand out because the bits of the protected pages are set before *)
(* the first request and FreePages clears only pages its caller holds, and *)
(* that needs the types, the cursor and the stage of the boot at once.     *)
(***************************************************************************)
EXTENDS PageFrameAllocator, FiniteSetTheorems, TLAPS

-----------------------------------------------------------------------------
(* What the operators of PageFrames return and preserve, for every bitmap  *)
(* size and every set of pages.                                            *)

\* The indices the functions of Bitmap.c accept, the stray one included.
Index(size) == 0 .. size * 8

\* Every allocator record whose bitmap has size bytes.
Allocator(size) ==
  [Size : {size}, Buffer : Nat, bits : SUBSET Index(size),
   freeMemory : Int, usedMemory : Int, reservedMemory : Int,
   pageBitmapIndex : Index(size)]

\* Two quantities no call changes: the memory the counters add up to, and the
\* marked bits the counters do not account for.
Total(a)       == a.freeMemory + a.usedMemory + a.reservedMemory
Unaccounted(a) == Cardinality(a.bits) - a.usedMemory - a.reservedMemory

\* Nothing is clear below the cursor.
CursorOK(a) ==
  \A i \in Index(a.Size) : i < a.pageBitmapIndex => i \in a.bits

-----------------------------------------------------------------------------
\* A non-empty set of naturals has a least element: Min, which RequestPage and
\* the lowering of pageBitmapIndex use, is well defined.
LEMMA MinIsLeast ==
  ASSUME NEW S \in SUBSET Nat, S # {}
  PROVE  /\ Min(S) \in S
         /\ \A x \in S : Min(S) <= x
<1>1. PICK x \in S : \A y \in S : ~(<<y, x>> \in OpToRel(<, Nat))
  BY WFMin, NatLessThanWellFounded
<1>2. ASSUME NEW y \in S
      PROVE  x <= y
  <2>1. ~(<<y, x>> \in {ss \in Nat \X Nat : ss[1] < ss[2]})
    BY <1>1, Zenon DEF OpToRel
  <2>2. ~(y < x)
    BY <2>1
  <2>3. QED
    BY <2>2
<1>3. QED
  BY <1>2 DEF Min

\* A bitmap has finitely many bits, so the sets the counters are moved by have
\* a size.
LEMMA IndexFinite ==
  ASSUME NEW size \in Nat, NEW S \in SUBSET Index(size)
  PROVE  IsFiniteSet(S) /\ Cardinality(S) \in Nat
<1>1. IsFiniteSet(Index(size))
  BY FS_Interval DEF Index
<1>2. QED
  BY <1>1, FS_Subset, FS_CardinalityType

\* The size of a set that gains new elements, or loses some of its own.
LEMMA CardinalityMoves ==
  ASSUME NEW size \in Nat, NEW S \in SUBSET Index(size), NEW T \in SUBSET Index(size)
  PROVE  /\ S \cap T = {} => Cardinality(S \cup T) = Cardinality(S) + Cardinality(T)
         /\ T \subseteq S => Cardinality(S \ T) = Cardinality(S) - Cardinality(T)
<1>1. /\ IsFiniteSet(S) /\ Cardinality(S) \in Nat
      /\ IsFiniteSet(T) /\ Cardinality(T) \in Nat
      /\ IsFiniteSet(S \ T) /\ Cardinality(S \ T) \in Nat
  BY IndexFinite
<1>2. Cardinality({}) = 0
  BY FS_EmptySet
<1>3. ASSUME S \cap T = {}
      PROVE  Cardinality(S \cup T) = Cardinality(S) + Cardinality(T)
  <2>1. Cardinality(S \cup T) =
          Cardinality(S) + Cardinality(T) - Cardinality(S \cap T)
    BY <1>1, FS_Union, Zenon
  <2>2. Cardinality(S \cap T) = 0
    BY <1>2, <1>3
  <2>3. QED
    BY <1>1, <2>1, <2>2
<1>4. ASSUME T \subseteq S
      PROVE  Cardinality(S \ T) = Cardinality(S) - Cardinality(T)
  <2>1. (S \ T) \cup T = S /\ (S \ T) \cap T = {}
    BY <1>4
  <2>2. Cardinality((S \ T) \cup T) =
          Cardinality(S \ T) + Cardinality(T) - Cardinality((S \ T) \cap T)
    BY <1>1, FS_Union, Zenon
  <2>3. /\ Cardinality((S \ T) \cup T) = Cardinality(S)
        /\ Cardinality((S \ T) \cap T) = 0
    BY <1>2, <2>1, Zenon
  <2>4. QED
    BY <1>1, <2>2, <2>3
<1>5. QED
  BY <1>3, <1>4

-----------------------------------------------------------------------------
\* The bits LockPages and ReservePages set: those of the pages of P inside the
\* bitmap that were clear.
LEMMA BitsSet ==
  ASSUME NEW size \in Nat, NEW s \in Allocator(size), NEW P \in SUBSET Nat
  PROVE  LET N == (P \cap Index(size)) \ s.bits
         IN  /\ ToSet(s, P) = N
             /\ s.bits \cup N \in SUBSET Index(size)
             /\ s.bits \cup N = s.bits \cup (P \cap Index(size))
             /\ Cardinality(N) \in Nat
             /\ Cardinality(s.bits) \in Nat
             /\ Cardinality(s.bits \cup N) = Cardinality(s.bits) + Cardinality(N)
<1> DEFINE N == (P \cap Index(size)) \ s.bits
<1>1. s.Size = size /\ s.bits \in SUBSET Index(size) /\ N \in SUBSET Index(size)
  BY DEF Allocator
<1>2. ToSet(s, P) = N
  <2>1. \A i \in P : InBitmap(s, i) <=> i \in Index(size)
    BY <1>1 DEF InBitmap, Index
  <2>2. ToSet(s, P) = {i \in P : i \in Index(size) /\ i \notin s.bits}
    BY <2>1 DEF ToSet, GetBitmap
  <2>3. QED
    BY <2>2
<1>3. Cardinality(N) \in Nat /\ Cardinality(s.bits) \in Nat
  BY <1>1, IndexFinite
<1>4. Cardinality(s.bits \cup N) = Cardinality(s.bits) + Cardinality(N)
  <2>1. s.bits \cap N = {}
    OBVIOUS
  <2>2. QED
    BY <1>1, <2>1, CardinalityMoves
<1>5. QED
  BY <1>1, <1>2, <1>3, <1>4

\* Allocator t is s after the pages of P inside the bitmap were marked and the
\* bits that changed were counted as used.
Locked(size, s, P, t) ==
  /\ t \in Allocator(size)
  /\ t.bits = s.bits \cup (P \cap Index(size))
  /\ t.Buffer = s.Buffer
  /\ t.usedMemory = s.usedMemory + Cardinality((P \cap Index(size)) \ s.bits)
  /\ t.usedMemory >= s.usedMemory
  /\ CursorOK(s) => CursorOK(t)
  /\ Total(t) = Total(s)
  /\ Unaccounted(t) = Unaccounted(s)

\* LockPages does this.
LEMMA Locking ==
  ASSUME NEW size \in Nat, NEW s \in Allocator(size), NEW P \in SUBSET Nat
  PROVE  Locked(size, s, P, LockPages(s, P))
<1> DEFINE N == (P \cap Index(size)) \ s.bits
           t == LockPages(s, P)
<1>1. /\ ToSet(s, P) = N
      /\ s.bits \cup N \in SUBSET Index(size)
      /\ s.bits \cup N = s.bits \cup (P \cap Index(size))
      /\ Cardinality(N) \in Nat
      /\ Cardinality(s.bits) \in Nat
      /\ Cardinality(s.bits \cup N) = Cardinality(s.bits) + Cardinality(N)
  BY BitsSet
<1> HIDE DEF N
<1>2. t = [s EXCEPT !.bits = s.bits \cup N,
                    !.freeMemory = s.freeMemory - Cardinality(N),
                    !.usedMemory = s.usedMemory + Cardinality(N)]
  BY <1>1 DEF LockPages
<1> HIDE DEF t
<1>3. /\ s.freeMemory \in Int /\ s.usedMemory \in Int /\ s.reservedMemory \in Int
      /\ s.Size = size
  BY DEF Allocator
<1>4. /\ s.freeMemory - Cardinality(N) \in Int
      /\ s.usedMemory + Cardinality(N) \in Int
  BY <1>1, <1>3
<1>5. t \in Allocator(size)
  BY <1>1, <1>2, <1>4 DEF Allocator
<1>6. /\ t.bits = s.bits \cup N
      /\ t.freeMemory = s.freeMemory - Cardinality(N)
      /\ t.usedMemory = s.usedMemory + Cardinality(N)
      /\ t.reservedMemory = s.reservedMemory
      /\ t.pageBitmapIndex = s.pageBitmapIndex
      /\ t.Buffer = s.Buffer
      /\ t.Size = size
  BY <1>2, <1>3 DEF Allocator
<1>7. Total(t) = Total(s) /\ Unaccounted(t) = Unaccounted(s)
  BY <1>1, <1>3, <1>6 DEF Total, Unaccounted
<1>8. CursorOK(s) => CursorOK(t)
  BY <1>3, <1>6 DEF CursorOK
<1>9. QED
  BY <1>1, <1>3, <1>5, <1>6, <1>7, <1>8 DEF N, t, Locked

\* ReservePages marks the same pages and counts them as reserved.
LEMMA Reserving ==
  ASSUME NEW size \in Nat, NEW s \in Allocator(size), NEW P \in SUBSET Nat
  PROVE  LET t == ReservePages(s, P)
         IN  /\ t \in Allocator(size)
             /\ t.bits = s.bits \cup (P \cap Index(size))
             /\ t.Buffer = s.Buffer
             /\ t.usedMemory = s.usedMemory
             /\ CursorOK(s) => CursorOK(t)
             /\ Total(t) = Total(s)
             /\ Unaccounted(t) = Unaccounted(s)
<1> DEFINE N == (P \cap Index(size)) \ s.bits
           t == ReservePages(s, P)
<1>1. /\ ToSet(s, P) = N
      /\ s.bits \cup N \in SUBSET Index(size)
      /\ s.bits \cup N = s.bits \cup (P \cap Index(size))
      /\ Cardinality(N) \in Nat
      /\ Cardinality(s.bits) \in Nat
      /\ Cardinality(s.bits \cup N) = Cardinality(s.bits) + Cardinality(N)
  BY BitsSet
<1> HIDE DEF N
<1>2. t = [s EXCEPT !.bits = s.bits \cup N,
                    !.freeMemory = s.freeMemory - Cardinality(N),
                    !.reservedMemory = s.reservedMemory + Cardinality(N)]
  BY <1>1 DEF ReservePages
<1> HIDE DEF t
<1>3. /\ s.freeMemory \in Int /\ s.usedMemory \in Int /\ s.reservedMemory \in Int
      /\ s.Size = size
  BY DEF Allocator
<1>4. /\ s.freeMemory - Cardinality(N) \in Int
      /\ s.reservedMemory + Cardinality(N) \in Int
  BY <1>1, <1>3
<1>5. t \in Allocator(size)
  BY <1>1, <1>2, <1>4 DEF Allocator
<1>6. /\ t.bits = s.bits \cup N
      /\ t.freeMemory = s.freeMemory - Cardinality(N)
      /\ t.reservedMemory = s.reservedMemory + Cardinality(N)
      /\ t.usedMemory = s.usedMemory
      /\ t.pageBitmapIndex = s.pageBitmapIndex
      /\ t.Buffer = s.Buffer
      /\ t.Size = size
  BY <1>2, <1>3 DEF Allocator
<1>7. Total(t) = Total(s) /\ Unaccounted(t) = Unaccounted(s)
  BY <1>1, <1>3, <1>6 DEF Total, Unaccounted
<1>8. CursorOK(s) => CursorOK(t)
  BY <1>3, <1>6 DEF CursorOK
<1>9. QED
  BY <1>1, <1>3, <1>5, <1>6, <1>7, <1>8 DEF N, t

\* After bits were cleared the cursor is inside the bitmap, not above where it
\* was, and not above any page that was cleared.
LEMMA LoweredCursor ==
  ASSUME NEW size \in Nat, NEW C \in SUBSET Index(size), NEW s,
         s.pageBitmapIndex \in Index(size)
  PROVE  /\ LowerCursor(s, C) \in Index(size)
         /\ LowerCursor(s, C) <= s.pageBitmapIndex
         /\ \A i \in C : LowerCursor(s, C) <= i
<1>1. C \in SUBSET Nat /\ s.pageBitmapIndex \in Nat /\ size * 8 \in Nat
  BY DEF Index
<1>2. CASE \E i \in C : i < s.pageBitmapIndex
  <2>1. LowerCursor(s, C) = Min(C)
    BY <1>2 DEF LowerCursor
  <2>2. Min(C) \in C /\ \A i \in C : Min(C) <= i
    BY <1>1, <1>2, MinIsLeast
  <2>3. Min(C) <= s.pageBitmapIndex
    <3>1. PICK i \in C : i < s.pageBitmapIndex
      BY <1>2
    <3>2. Min(C) <= i /\ i \in Nat /\ Min(C) \in Nat
      BY <1>1, <2>2
    <3>3. QED
      BY <1>1, <3>1, <3>2
  <2>4. QED
    BY <2>1, <2>2, <2>3
<1>3. CASE ~\E i \in C : i < s.pageBitmapIndex
  <2>1. LowerCursor(s, C) = s.pageBitmapIndex
    BY <1>3 DEF LowerCursor
  <2>2. \A i \in C : s.pageBitmapIndex <= i
    BY <1>1, <1>3
  <2>3. QED
    BY <1>1, <2>1, <2>2
<1>4. QED
  BY <1>2, <1>3

\* The bits FreePages and UnreservePages clear: those of the marked pages of P.
\* The cursor moves below each of them.
LEMMA BitsCleared ==
  ASSUME NEW size \in Nat, NEW s \in Allocator(size), CursorOK(s),
         NEW P \in SUBSET Nat
  PROVE  LET C == P \cap s.bits
             c == LowerCursor(s, C)
         IN  /\ ToClear(s, P) = C
             /\ s.bits \ C \in SUBSET Index(size)
             /\ s.bits \ C = s.bits \ P
             /\ c \in Index(size)
             /\ \A i \in Index(size) : i < c => i \in s.bits \ C
             /\ Cardinality(C) \in Nat
             /\ Cardinality(s.bits) \in Nat
             /\ Cardinality(s.bits \ C) = Cardinality(s.bits) - Cardinality(C)
<1> DEFINE C == P \cap s.bits
           c == LowerCursor(s, C)
<1>1. s.Size = size /\ s.bits \in SUBSET Index(size) /\ s.pageBitmapIndex \in Index(size)
  BY DEF Allocator
<1>2. ToClear(s, P) = C
  <2>1. \A i \in s.bits : InBitmap(s, i)
    BY <1>1 DEF InBitmap, Index
  <2>2. QED
    BY <2>1 DEF ToClear, GetBitmap
<1>3. C \in SUBSET Index(size) /\ C \in SUBSET Nat /\ C \subseteq s.bits
  BY <1>1
<1>4. Cardinality(C) \in Nat /\ Cardinality(s.bits) \in Nat
  BY <1>1, <1>3, IndexFinite
<1>5. Cardinality(s.bits \ C) = Cardinality(s.bits) - Cardinality(C)
  BY <1>1, <1>3, CardinalityMoves
<1>6. s.bits \ C = s.bits \ P
  OBVIOUS
<1>7. /\ c \in Index(size)
      /\ c <= s.pageBitmapIndex
      /\ \A i \in C : c <= i
  BY <1>1, <1>3, LoweredCursor
<1> HIDE DEF C, c
<1>8. \A i \in Index(size) : i < c => i \in s.bits \ C
  <2>1. SUFFICES ASSUME NEW i \in Index(size), i < c
                 PROVE  i \in s.bits \ C
    OBVIOUS
  <2>2. i < s.pageBitmapIndex
    BY <1>1, <1>7, <2>1 DEF Index
  <2>3. i \in s.bits
    BY <1>1, <2>2 DEF CursorOK
  <2>4. i \notin C
    BY <1>7, <2>1 DEF Index
  <2>5. QED
    BY <2>3, <2>4
<1>9. QED
  BY <1>1, <1>2, <1>4, <1>5, <1>6, <1>7, <1>8 DEF C, c

\* FreePages clears exactly the marked pages of P, takes them off the used
\* counter, and keeps the cursor below every clear page.
LEMMA Freeing ==
  ASSUME NEW size \in Nat, NEW s \in Allocator(size), CursorOK(s),
         NEW P \in SUBSET Nat
  PROVE  LET t == FreePages(s, P)
         IN  /\ t \in Allocator(size)
             /\ t.bits = s.bits \ P
             /\ t.Buffer = s.Buffer
             /\ t.usedMemory = s.usedMemory - Cardinality(P \cap s.bits)
             /\ CursorOK(t)
             /\ Total(t) = Total(s)
             /\ Unaccounted(t) = Unaccounted(s)
<1> DEFINE C == P \cap s.bits
           c == LowerCursor(s, C)
           t == FreePages(s, P)
<1>1. /\ ToClear(s, P) = C
      /\ s.bits \ C \in SUBSET Index(size)
      /\ s.bits \ C = s.bits \ P
      /\ c \in Index(size)
      /\ \A i \in Index(size) : i < c => i \in s.bits \ C
      /\ Cardinality(C) \in Nat
      /\ Cardinality(s.bits) \in Nat
      /\ Cardinality(s.bits \ C) = Cardinality(s.bits) - Cardinality(C)
  BY BitsCleared
<1>2. t = [s EXCEPT !.bits = s.bits \ C,
                    !.freeMemory = s.freeMemory + Cardinality(C),
                    !.usedMemory = s.usedMemory - Cardinality(C),
                    !.pageBitmapIndex = c]
  BY <1>1 DEF FreePages
<1> HIDE DEF C, c, t
<1>3. /\ s.freeMemory \in Int /\ s.usedMemory \in Int /\ s.reservedMemory \in Int
      /\ s.Size = size
  BY DEF Allocator
<1>4. /\ s.freeMemory + Cardinality(C) \in Int
      /\ s.usedMemory - Cardinality(C) \in Int
  BY <1>1, <1>3
<1>5. t \in Allocator(size)
  BY <1>1, <1>2, <1>4 DEF Allocator
<1>6. /\ t.bits = s.bits \ C
      /\ t.freeMemory = s.freeMemory + Cardinality(C)
      /\ t.usedMemory = s.usedMemory - Cardinality(C)
      /\ t.reservedMemory = s.reservedMemory
      /\ t.pageBitmapIndex = c
      /\ t.Buffer = s.Buffer
      /\ t.Size = size
  BY <1>2, <1>3 DEF Allocator
<1>7. Total(t) = Total(s) /\ Unaccounted(t) = Unaccounted(s)
  BY <1>1, <1>3, <1>6 DEF Total, Unaccounted
<1>8. CursorOK(t)
  BY <1>1, <1>6 DEF CursorOK
<1>9. QED
  BY <1>1, <1>5, <1>6, <1>7, <1>8 DEF C, t

\* UnreservePages does the same with the reserved counter.
LEMMA Unreserving ==
  ASSUME NEW size \in Nat, NEW s \in Allocator(size), CursorOK(s),
         NEW P \in SUBSET Nat
  PROVE  LET t == UnreservePages(s, P)
         IN  /\ t \in Allocator(size)
             /\ t.bits = s.bits \ P
             /\ t.Buffer = s.Buffer
             /\ t.usedMemory = s.usedMemory
             /\ CursorOK(t)
             /\ Total(t) = Total(s)
             /\ Unaccounted(t) = Unaccounted(s)
<1> DEFINE C == P \cap s.bits
           c == LowerCursor(s, C)
           t == UnreservePages(s, P)
<1>1. /\ ToClear(s, P) = C
      /\ s.bits \ C \in SUBSET Index(size)
      /\ s.bits \ C = s.bits \ P
      /\ c \in Index(size)
      /\ \A i \in Index(size) : i < c => i \in s.bits \ C
      /\ Cardinality(C) \in Nat
      /\ Cardinality(s.bits) \in Nat
      /\ Cardinality(s.bits \ C) = Cardinality(s.bits) - Cardinality(C)
  BY BitsCleared
<1>2. t = [s EXCEPT !.bits = s.bits \ C,
                    !.freeMemory = s.freeMemory + Cardinality(C),
                    !.reservedMemory = s.reservedMemory - Cardinality(C),
                    !.pageBitmapIndex = c]
  BY <1>1 DEF UnreservePages
<1> HIDE DEF C, c, t
<1>3. /\ s.freeMemory \in Int /\ s.usedMemory \in Int /\ s.reservedMemory \in Int
      /\ s.Size = size
  BY DEF Allocator
<1>4. /\ s.freeMemory + Cardinality(C) \in Int
      /\ s.reservedMemory - Cardinality(C) \in Int
  BY <1>1, <1>3
<1>5. t \in Allocator(size)
  BY <1>1, <1>2, <1>4 DEF Allocator
<1>6. /\ t.bits = s.bits \ C
      /\ t.freeMemory = s.freeMemory + Cardinality(C)
      /\ t.reservedMemory = s.reservedMemory - Cardinality(C)
      /\ t.usedMemory = s.usedMemory
      /\ t.pageBitmapIndex = c
      /\ t.Buffer = s.Buffer
      /\ t.Size = size
  BY <1>2, <1>3 DEF Allocator
<1>7. Total(t) = Total(s) /\ Unaccounted(t) = Unaccounted(s)
  BY <1>1, <1>3, <1>6 DEF Total, Unaccounted
<1>8. CursorOK(t)
  BY <1>1, <1>6 DEF CursorOK
<1>9. QED
  BY <1>1, <1>5, <1>6, <1>7, <1>8 DEF C, t

-----------------------------------------------------------------------------
\* When RequestPage finds a page: it is clear, below the stray bit, and the
\* call marks it and nothing else.
LEMMA RequestGrants ==
  ASSUME NEW size \in Nat, NEW s \in Allocator(size), CursorOK(s),
         Candidates(s) # {}
  PROVE  LET p == RequestedPage(s)
             t == RequestPage(s)
         IN  /\ p \in 0 .. (size * 8 - 1)
             /\ p \notin s.bits
             /\ t \in Allocator(size)
             /\ t.bits = s.bits \cup {p}
             /\ t.Buffer = s.Buffer
             /\ t.usedMemory = s.usedMemory + 1
             /\ CursorOK(t)
             /\ Total(t) = Total(s)
             /\ Unaccounted(t) = Unaccounted(s)
<1> DEFINE p == RequestedPage(s)
           l == LockPages(s, {p})
           t == RequestPage(s)
<1>1. s.Size = size /\ s.bits \in SUBSET Index(size) /\ s.pageBitmapIndex \in Index(size)
  BY DEF Allocator
<1>2. Candidates(s) \in SUBSET Nat /\ p = Min(Candidates(s))
  BY <1>1 DEF Candidates, Index, RequestedPage
<1>3. p \in Candidates(s) /\ \A i \in Candidates(s) : p <= i
  BY <1>2, MinIsLeast
<1>4. /\ p \in 0 .. (size * 8 - 1)
      /\ p \notin s.bits
      /\ p \in Index(size)
  BY <1>1, <1>3 DEF Candidates, GetBitmap, InBitmap, Index
<1>5. \A i \in Index(size) : i < p => i \in s.bits
  <2>1. SUFFICES ASSUME NEW i \in Index(size), i < p, i \notin s.bits
                 PROVE  FALSE
    OBVIOUS
  <2>2. ~(i < s.pageBitmapIndex)
    BY <1>1, <2>1 DEF CursorOK
  <2>3. i \in Candidates(s)
    BY <1>1, <1>4, <2>1, <2>2 DEF Candidates, GetBitmap, Index
  <2>4. QED
    BY <1>3, <1>4, <2>1, <2>3 DEF Index
<1>6. {p} \in SUBSET Nat /\ {p} \cap Index(size) = {p} /\ {p} \ s.bits = {p}
  BY <1>4
<1>7. Cardinality({p}) = 1
  BY FS_Singleton
<1> HIDE DEF p
<1>8. /\ l \in Allocator(size)
      /\ l.bits = s.bits \cup {p}
      /\ l.Buffer = s.Buffer
      /\ Total(l) = Total(s)
      /\ Unaccounted(l) = Unaccounted(s)
      /\ l.usedMemory = s.usedMemory + 1
  BY <1>6, <1>7, Locking DEF Locked
<1>9. t = [l EXCEPT !.pageBitmapIndex = p]
  BY DEF RequestPage, p
<1> HIDE DEF l, t
<1>10. t \in Allocator(size)
  BY <1>4, <1>8, <1>9 DEF Allocator
<1>11. /\ t.bits = l.bits /\ t.Buffer = l.Buffer
       /\ t.freeMemory = l.freeMemory
       /\ t.usedMemory = l.usedMemory
       /\ t.reservedMemory = l.reservedMemory
       /\ t.pageBitmapIndex = p
       /\ t.Size = size
  BY <1>8, <1>9 DEF Allocator
<1>12. CursorOK(t)
  BY <1>5, <1>8, <1>11 DEF CursorOK
<1>13. Total(t) = Total(s) /\ Unaccounted(t) = Unaccounted(s)
  BY <1>8, <1>11 DEF Total, Unaccounted
<1>14. QED
  BY <1>4, <1>8, <1>10, <1>11, <1>12, <1>13 DEF p, t

\* When RequestPage returns NULL for want of a page, every bit but the stray
\* one is set, and only the cursor moves.
LEMMA RequestRefuses ==
  ASSUME NEW size \in Nat, NEW s \in Allocator(size), CursorOK(s),
         Candidates(s) = {}
  PROVE  LET t == RequestPage(s)
         IN  /\ RequestedPage(s) = NULL
             /\ 0 .. (size * 8 - 1) \subseteq s.bits
             /\ t \in Allocator(size)
             /\ t = [s EXCEPT !.pageBitmapIndex = t.pageBitmapIndex]
             /\ t.bits = s.bits
             /\ t.Buffer = s.Buffer
             /\ t.usedMemory = s.usedMemory
             /\ CursorOK(t)
             /\ Total(t) = Total(s)
             /\ Unaccounted(t) = Unaccounted(s)
<1> DEFINE t == RequestPage(s)
           c == IF s.pageBitmapIndex < s.Size * 8 THEN s.Size * 8 ELSE s.pageBitmapIndex
<1>1. s.Size = size /\ s.bits \in SUBSET Index(size) /\ s.pageBitmapIndex \in Index(size)
  BY DEF Allocator
<1>2. \A i \in 0 .. (size * 8 - 1) : i \in s.bits
  <2>1. SUFFICES ASSUME NEW i \in 0 .. (size * 8 - 1), i \notin s.bits
                 PROVE  FALSE
    OBVIOUS
  <2>2. i \in Index(size)
    BY DEF Index
  <2>3. ~(i < s.pageBitmapIndex)
    BY <1>1, <2>1, <2>2 DEF CursorOK
  <2>4. i \in Candidates(s)
    BY <1>1, <2>1, <2>3 DEF Candidates, GetBitmap, Index
  <2>5. QED
    BY <2>4
<1>3. t = [s EXCEPT !.pageBitmapIndex = c]
  BY DEF RequestPage
<1>4. c = size * 8 /\ c \in Index(size)
  BY <1>1 DEF Index
<1> HIDE DEF t, c
<1>5. t \in Allocator(size)
  BY <1>3, <1>4 DEF Allocator
<1>6. /\ t.bits = s.bits /\ t.Buffer = s.Buffer /\ t.Size = size
      /\ t.freeMemory = s.freeMemory
      /\ t.usedMemory = s.usedMemory
      /\ t.reservedMemory = s.reservedMemory
      /\ t.pageBitmapIndex = c
  BY <1>1, <1>3 DEF Allocator
<1>7. CursorOK(t)
  BY <1>2, <1>4, <1>6 DEF CursorOK, Index
<1>8. Total(t) = Total(s) /\ Unaccounted(t) = Unaccounted(s)
  BY <1>6 DEF Total, Unaccounted
<1>9. RequestedPage(s) = NULL
  BY DEF RequestedPage
<1>10. QED
  BY <1>2, <1>3, <1>5, <1>6, <1>7, <1>8, <1>9 DEF t

-----------------------------------------------------------------------------
(* The invariant.                                                          *)

\* The state of a bitmap that was read from the memory map.
Mapped ==
  /\ pfa \in Allocator(Size(mMap))
  /\ CursorOK(pfa)
  /\ Total(pfa) = GetMemorySize(mMap)
  /\ Unaccounted(pfa) = Cardinality(stale)
  /\ pfa.usedMemory >= Cardinality(client)
  /\ (Pages(0, BiosPages) \cup BitmapPages(pfa)) \cap Index(Size(mMap)) \subseteq pfa.bits

\* The inductive invariant.
IInv ==
  /\ mMap \in MemoryMaps
  /\ stale \subseteq {Size(mMap) * 8}
  /\ stage \in {"uefi", "mapped", "locked", "running"}
  /\ client \subseteq 0 .. (Size(mMap) * 8 - 1)
  /\ answer \in Indices \cup {NoAnswer}
  /\ HandedOutPagesAreSafe
  /\ stage = "uefi" => pfa = UninitialisedAllocator
  /\ stage # "uefi" => Mapped
  /\ stage \in {"uefi", "mapped"} => client = {}
  /\ stage \in {"locked", "running"} =>
       KernelPages \cap Index(Size(mMap)) \subseteq pfa.bits

-----------------------------------------------------------------------------
\* The bitmap of a map the firmware hands over has at least one byte.
LEMMA SizeType ==
  ASSUME NEW m \in MemoryMaps
  PROVE  /\ Size(m) \in Nat \ {0}
         /\ Size(m) * 8 \in Nat
         /\ GetMemorySize(m) \in Nat
         /\ {Size(m) * 8} \subseteq Index(Size(m))
<1>1. GetMemorySize(m) \in Nat \ {0}
  BY PageFrameAllocatorAssumption
<1>2. Size(m) \in Nat \ {0}
  BY <1>1 DEF Size
<1>3. QED
  BY <1>1, <1>2 DEF Index

\* Ranges of pages lie in Nat.
LEMMA PagesType ==
  ASSUME NEW first \in Nat, NEW n \in Nat
  PROVE  Pages(first, n) \in SUBSET Nat
BY DEF Pages

\* The bitmap's own pages depend on where the bitmap is and how long it is.
LEMMA BitmapPagesType ==
  ASSUME NEW size \in Nat, NEW s \in Allocator(size)
  PROVE  /\ BitmapPages(s) \in SUBSET Nat
         /\ \A t \in Allocator(size) : t.Buffer = s.Buffer => BitmapPages(t) = BitmapPages(s)
<1>1. s.Buffer \in Nat /\ s.Size = size
  BY DEF Allocator
<1>2. size \div PageBytes + 1 \in Nat
  BY PageFramesAssumption
<1>3. BitmapPages(s) \in SUBSET Nat
  BY <1>1, <1>2, PagesType DEF BitmapPages
<1>4. ASSUME NEW t \in Allocator(size), t.Buffer = s.Buffer
      PROVE  BitmapPages(t) = BitmapPages(s)
  BY <1>1, <1>4 DEF BitmapPages, Allocator
<1>5. QED
  BY <1>3, <1>4

\* A set of held pages has a size.
LEMMA HeldFinite ==
  ASSUME NEW m \in MemoryMaps, NEW S \in SUBSET Index(Size(m))
  PROVE  IsFiniteSet(S) /\ Cardinality(S) \in Nat
BY SizeType, IndexFinite

-----------------------------------------------------------------------------
LEMMA InitEstablishes == Init => IInv
<1> SUFFICES ASSUME Init PROVE IInv
  OBVIOUS
<1>1. /\ mMap \in MemoryMaps /\ stale \subseteq {Size(mMap) * 8}
      /\ stage = "uefi" /\ client = {} /\ answer = NoAnswer
      /\ pfa = UninitialisedAllocator
  BY DEF Init
<1>2. HandedOutPagesAreSafe
  BY <1>1 DEF HandedOutPagesAreSafe
<1>3. QED
  BY <1>1, <1>2 DEF IInv

\* ReadEFIMemoryMap, call by call, sets up a bitmap in which BIOS memory and
\* the bitmap's pages are marked and the counters agree with the bits.
LEMMA ReadMapEstablishes ==
  ASSUME IInv, ReadMap
  PROVE  /\ pfa' \in Allocator(Size(mMap))
         /\ CursorOK(pfa')
         /\ Total(pfa') = GetMemorySize(mMap)
         /\ Unaccounted(pfa') = Cardinality(stale)
         /\ pfa'.usedMemory >= 0
         /\ (Pages(0, BiosPages) \cup BitmapPages(pfa')) \cap Index(Size(mMap))
              \subseteq pfa'.bits
<1> DEFINE size == Size(mMap)
           memorySize == GetMemorySize(mMap)
           found == [pfa EXCEPT !.freeMemory = memorySize]
           init == InitBitmap(found, size, LargestFreeMemSeg(mMap), stale)
           looked == ReservePages(init, Pages(0, memorySize + 1))
           unreserved == UnreservePages(looked, ConventionalPages(mMap))
           biosSafe == ReservePages(unreserved, Pages(0, BiosPages))
           done == LockPages(biosSafe, BitmapPages(biosSafe))
<1>1. /\ mMap \in MemoryMaps /\ stale \subseteq {size * 8}
      /\ pfa = UninitialisedAllocator
      /\ pfa' = ReadEFIMemoryMap(pfa, mMap, stale)
  BY DEF IInv, ReadMap
<1>2. pfa' = done
  BY <1>1 DEF ReadEFIMemoryMap, Size
<1>3. /\ size \in Nat /\ memorySize \in Nat
      /\ stale \in SUBSET Index(size)
      /\ LargestFreeMemSeg(mMap) \in Nat
      /\ ConventionalPages(mMap) \in SUBSET Nat
      /\ Pages(0, memorySize + 1) \in SUBSET Nat
      /\ Pages(0, BiosPages) \in SUBSET Nat
  BY <1>1, SizeType, PagesType, PageFrameAllocatorAssumption, PageFramesAssumption
<1>4. init = [Size |-> size, Buffer |-> LargestFreeMemSeg(mMap), bits |-> stale,
              freeMemory |-> memorySize, usedMemory |-> 0,
              reservedMemory |-> 0, pageBitmapIndex |-> 0]
  <2>1. found = [Size |-> 0, Buffer |-> NULL, bits |-> {},
                 freeMemory |-> memorySize, usedMemory |-> 0,
                 reservedMemory |-> 0, pageBitmapIndex |-> 0]
    BY <1>1 DEF UninitialisedAllocator
  <2> HIDE DEF found
  <2>2. init = [found EXCEPT !.Size = size, !.Buffer = LargestFreeMemSeg(mMap),
                             !.bits = stale]
    BY DEF InitBitmap
  <2> HIDE DEF init, size, memorySize
  <2>3. QED
    BY <2>1, <2>2
<1>5. Cardinality(stale) \in Nat
  BY <1>1, <1>3, HeldFinite
<1> HIDE DEF size, memorySize, init
<1>6. /\ init \in Allocator(size)
      /\ CursorOK(init)
      /\ Total(init) = memorySize
      /\ Unaccounted(init) = Cardinality(stale)
      /\ init.usedMemory = 0
  <2>1. 0 \in Index(size)
    BY <1>3 DEF Index
  <2>2. init \in Allocator(size)
    BY <1>3, <1>4, <2>1 DEF Allocator
  <2>3. CursorOK(init)
    BY <1>3, <1>4 DEF CursorOK, Index
  <2>4. QED
    BY <1>3, <1>4, <1>5, <2>2, <2>3 DEF Total, Unaccounted
<1> HIDE DEF looked
<1>7. /\ looked \in Allocator(size)
      /\ CursorOK(looked)
      /\ Total(looked) = memorySize
      /\ Unaccounted(looked) = Cardinality(stale)
      /\ looked.usedMemory = 0
  BY <1>3, <1>6, Reserving DEF looked
<1> HIDE DEF unreserved
<1>8. /\ unreserved \in Allocator(size)
      /\ CursorOK(unreserved)
      /\ Total(unreserved) = memorySize
      /\ Unaccounted(unreserved) = Cardinality(stale)
      /\ unreserved.usedMemory = 0
  BY <1>3, <1>7, Unreserving DEF unreserved
<1> HIDE DEF biosSafe
<1>9. /\ biosSafe \in Allocator(size)
      /\ CursorOK(biosSafe)
      /\ Total(biosSafe) = memorySize
      /\ Unaccounted(biosSafe) = Cardinality(stale)
      /\ biosSafe.usedMemory = 0
      /\ Pages(0, BiosPages) \cap Index(size) \subseteq biosSafe.bits
  BY <1>3, <1>8, Reserving DEF biosSafe
<1>10. BitmapPages(biosSafe) \in SUBSET Nat
  BY <1>3, <1>9, BitmapPagesType
<1> DEFINE B == BitmapPages(biosSafe)
<1> HIDE DEF B, done
<1>0. done = LockPages(biosSafe, B) /\ B \in SUBSET Nat
  BY <1>10 DEF done, B
<1>11. /\ done \in Allocator(size)
       /\ CursorOK(done)
       /\ Total(done) = memorySize
       /\ Unaccounted(done) = Cardinality(stale)
       /\ done.usedMemory >= biosSafe.usedMemory
       /\ done.Buffer = biosSafe.Buffer
       /\ done.bits = biosSafe.bits \cup (B \cap Index(size))
  <2>1. size \in Nat /\ biosSafe \in Allocator(size) /\ B \in SUBSET Nat
    BY <1>0, <1>3, <1>9
  <2>2. /\ done \in Allocator(size)
        /\ CursorOK(biosSafe) => CursorOK(done)
        /\ Total(done) = Total(biosSafe)
        /\ Unaccounted(done) = Unaccounted(biosSafe)
        /\ done.usedMemory >= biosSafe.usedMemory
        /\ done.Buffer = biosSafe.Buffer
        /\ done.bits = biosSafe.bits \cup (B \cap Index(size))
    <3>1. Locked(size, biosSafe, B, done)
      BY <1>0, <2>1, Locking, Zenon
    <3>2. QED
      BY <3>1 DEF Locked
  <2>3. QED
    BY <1>9, <2>2
<1>12. BitmapPages(done) = BitmapPages(biosSafe)
  BY <1>3, <1>9, <1>11, BitmapPagesType
<1>13. (Pages(0, BiosPages) \cup BitmapPages(done)) \cap Index(size) \subseteq done.bits
  BY <1>9, <1>11, <1>12 DEF B
<1>14. QED
  BY <1>2, <1>9, <1>11, <1>13 DEF size, memorySize

-----------------------------------------------------------------------------
\* The allocator after a page range was locked: kernel.c:73 and 86.
LEMMA LockKeepsMapped ==
  ASSUME IInv, stage # "uefi", NEW P \in SUBSET Nat, pfa' = LockPages(pfa, P),
         UNCHANGED <<mMap, stale, client>>
  PROVE  /\ Mapped'
         /\ pfa.bits \subseteq pfa'.bits
         /\ P \cap Index(Size(mMap)) \subseteq pfa'.bits
         /\ HandedOutPagesAreSafe'
<1> DEFINE size == Size(mMap)
<1>1. mMap \in MemoryMaps /\ Mapped /\ HandedOutPagesAreSafe
  BY DEF IInv
<1>2. size \in Nat /\ pfa \in Allocator(size) /\ client \subseteq Index(size)
  BY <1>1, SizeType DEF Mapped, IInv, Index
<1> HIDE DEF size
<1>3. /\ pfa' \in Allocator(size)
      /\ pfa'.bits = pfa.bits \cup (P \cap Index(size))
      /\ pfa'.Buffer = pfa.Buffer
      /\ pfa'.usedMemory >= pfa.usedMemory
      /\ CursorOK(pfa) => CursorOK(pfa')
      /\ Total(pfa') = Total(pfa)
      /\ Unaccounted(pfa') = Unaccounted(pfa)
  <2>1. Locked(size, pfa, P, LockPages(pfa, P))
    BY <1>2, Locking, Zenon
  <2>2. QED
    BY <2>1 DEF Locked
<1>4. BitmapPages(pfa') = BitmapPages(pfa)
  BY <1>2, <1>3, BitmapPagesType
<1>5. Cardinality(client) \in Nat /\ pfa.usedMemory \in Int /\ pfa'.usedMemory \in Int
  BY <1>2, <1>3, IndexFinite DEF Allocator
<1>6. Mapped'
  BY <1>1, <1>3, <1>4, <1>5 DEF Mapped, size
<1>7. HandedOutPagesAreSafe'
  BY <1>1, <1>3, <1>4 DEF HandedOutPagesAreSafe, Protected
<1>8. QED
  BY <1>3, <1>6, <1>7 DEF size

\* The allocator after a request that found a page.
LEMMA GrantKeepsMapped ==
  ASSUME IInv, Request, Candidates(pfa) # {}
  PROVE  /\ answer' \in (0 .. (Size(mMap) * 8 - 1)) \ {NULL}
         /\ answer' \notin pfa.bits
         /\ pfa'.bits = pfa.bits \cup {answer'}
         /\ client' = client \cup {answer'}
         /\ Mapped'
         /\ HandedOutPagesAreSafe'
<1> DEFINE size == Size(mMap)
<1>1. /\ mMap \in MemoryMaps /\ Mapped /\ HandedOutPagesAreSafe
      /\ stage \in {"locked", "running"}
      /\ KernelPages \cap Index(size) \subseteq pfa.bits
      /\ client \subseteq 0 .. (size * 8 - 1)
      /\ pfa' = RequestPage(pfa) /\ answer' = RequestedPage(pfa)
      /\ client' = client \cup ({answer'} \ {NULL})
      /\ UNCHANGED <<mMap, stale, stage>>
  BY DEF IInv, Request
<1>2. size \in Nat /\ pfa \in Allocator(size) /\ CursorOK(pfa)
  BY <1>1, SizeType DEF Mapped
<1> HIDE DEF size
<1>3. /\ answer' \in 0 .. (size * 8 - 1)
      /\ answer' \notin pfa.bits
      /\ pfa' \in Allocator(size)
      /\ pfa'.bits = pfa.bits \cup {answer'}
      /\ pfa'.Buffer = pfa.Buffer
      /\ pfa'.usedMemory = pfa.usedMemory + 1
      /\ CursorOK(pfa')
      /\ Total(pfa') = Total(pfa)
      /\ Unaccounted(pfa') = Unaccounted(pfa)
  BY <1>1, <1>2, RequestGrants, Zenon
<1>4. answer' \in Index(size)
  BY <1>2, <1>3 DEF Index
<1>5. BitmapPages(pfa') = BitmapPages(pfa)
  BY <1>2, <1>3, BitmapPagesType
<1>6. answer' \notin Protected
  BY <1>1, <1>3, <1>4 DEF Mapped, Protected, size
<1>7. answer' # NULL
  BY <1>6, PageFramesAssumption DEF Protected, Pages, NULL
<1>8. client' = client \cup {answer'}
  BY <1>1, <1>7
<1>9. pfa'.usedMemory >= Cardinality(client')
  <2>1. client \subseteq Index(size)
    BY <1>1, <1>2 DEF Index
  <2>2. IsFiniteSet(client) /\ Cardinality(client) \in Nat
    BY <1>2, <2>1, IndexFinite
  <2>3. answer' \notin client
    BY <1>1, <1>3 DEF HandedOutPagesAreSafe
  <2>4. Cardinality(client') = Cardinality(client) + 1
    BY <1>8, <2>2, <2>3, FS_AddElement
  <2>5. pfa.usedMemory \in Int /\ pfa.usedMemory >= Cardinality(client)
    BY <1>1, <1>2 DEF Mapped, Allocator
  <2>6. QED
    BY <1>3, <2>2, <2>4, <2>5
<1>10. Mapped'
  BY <1>1, <1>3, <1>5, <1>9 DEF Mapped, size
<1>11. HandedOutPagesAreSafe'
  BY <1>1, <1>3, <1>5, <1>6, <1>8 DEF HandedOutPagesAreSafe, Protected
<1>12. QED
  BY <1>3, <1>7, <1>8, <1>10, <1>11 DEF size

\* The allocator after a request that found none.
LEMMA RefusalKeepsMapped ==
  ASSUME IInv, Request, Candidates(pfa) = {}
  PROVE  /\ answer' = NULL
         /\ 0 .. (Size(mMap) * 8 - 1) \subseteq pfa.bits
         /\ pfa'.bits = pfa.bits
         /\ client' = client
         /\ Mapped'
         /\ HandedOutPagesAreSafe'
<1> DEFINE size == Size(mMap)
<1>1. /\ mMap \in MemoryMaps /\ Mapped /\ HandedOutPagesAreSafe
      /\ pfa' = RequestPage(pfa) /\ answer' = RequestedPage(pfa)
      /\ client' = client \cup ({answer'} \ {NULL})
      /\ UNCHANGED <<mMap, stale, stage>>
  BY DEF IInv, Request
<1>2. size \in Nat /\ pfa \in Allocator(size) /\ CursorOK(pfa)
  BY <1>1, SizeType DEF Mapped
<1> HIDE DEF size
<1>3. /\ answer' = NULL
      /\ 0 .. (size * 8 - 1) \subseteq pfa.bits
      /\ pfa' \in Allocator(size)
      /\ pfa'.bits = pfa.bits
      /\ pfa'.Buffer = pfa.Buffer
      /\ pfa'.usedMemory = pfa.usedMemory
      /\ CursorOK(pfa')
      /\ Total(pfa') = Total(pfa)
      /\ Unaccounted(pfa') = Unaccounted(pfa)
  BY <1>1, <1>2, RequestRefuses, Zenon
<1>4. client' = client
  BY <1>1, <1>3
<1>5. BitmapPages(pfa') = BitmapPages(pfa)
  BY <1>2, <1>3, BitmapPagesType
<1>6. Mapped'
  BY <1>1, <1>3, <1>4, <1>5 DEF Mapped, size
<1>7. HandedOutPagesAreSafe'
  BY <1>1, <1>3, <1>4, <1>5 DEF HandedOutPagesAreSafe, Protected
<1>8. QED
  BY <1>3, <1>4, <1>6, <1>7 DEF size

\* The allocator after a holder freed some of its pages: a held page is not
\* protected, so no protected bit is cleared.
LEMMA FreeKeepsMapped ==
  ASSUME IInv, NEW R \in SUBSET client, client # {},
         pfa' = FreePages(pfa, R), client' = client \ R,
         UNCHANGED <<mMap, stale, stage>>
  PROVE  /\ Mapped'
         /\ HandedOutPagesAreSafe'
         /\ pfa'.bits = pfa.bits \ R
         /\ KernelPages \cap Index(Size(mMap)) \subseteq pfa'.bits
<1> DEFINE size == Size(mMap)
<1>1. /\ mMap \in MemoryMaps /\ Mapped /\ HandedOutPagesAreSafe
      /\ KernelPages \cap Index(size) \subseteq pfa.bits
      /\ client \subseteq 0 .. (size * 8 - 1)
  BY DEF IInv
<1>2. size \in Nat /\ pfa \in Allocator(size) /\ CursorOK(pfa)
  BY <1>1, SizeType DEF Mapped
<1> HIDE DEF size
<1>3. /\ client \in SUBSET Index(size) /\ R \in SUBSET Index(size)
      /\ R \in SUBSET Nat
      /\ R \cap pfa.bits = R
  <2>1. size * 8 \in Nat
    BY <1>2
  <2>2. client \in SUBSET Index(size)
    BY <1>1, <2>1 DEF Index
  <2>3. R \in SUBSET Index(size)
    BY <2>2
  <2>4. R \in SUBSET Nat
    BY <2>1, <2>3 DEF Index
  <2>5. R \cap pfa.bits = R
    BY <1>1 DEF HandedOutPagesAreSafe
  <2>6. QED
    BY <2>2, <2>3, <2>4, <2>5
<1>4. /\ pfa' \in Allocator(size)
      /\ pfa'.bits = pfa.bits \ R
      /\ pfa'.Buffer = pfa.Buffer
      /\ pfa'.usedMemory = pfa.usedMemory - Cardinality(R \cap pfa.bits)
      /\ CursorOK(pfa')
      /\ Total(pfa') = Total(pfa)
      /\ Unaccounted(pfa') = Unaccounted(pfa)
  <2> DEFINE u == FreePages(pfa, R)
  <2>1. /\ u \in Allocator(size)
        /\ u.bits = pfa.bits \ R
        /\ u.Buffer = pfa.Buffer
        /\ u.usedMemory = pfa.usedMemory - Cardinality(R \cap pfa.bits)
        /\ CursorOK(u)
        /\ Total(u) = Total(pfa)
        /\ Unaccounted(u) = Unaccounted(pfa)
    BY <1>2, <1>3, Freeing
  <2>2. pfa' = u
    OBVIOUS
  <2> HIDE DEF u
  <2>3. QED
    BY <2>1, <2>2, Zenon
<1>5. pfa'.usedMemory >= Cardinality(client')
  <2>1. /\ Cardinality(client) \in Nat /\ Cardinality(R) \in Nat
        /\ Cardinality(client \ R) = Cardinality(client) - Cardinality(R)
    BY <1>2, <1>3, IndexFinite, CardinalityMoves
  <2>2. pfa.usedMemory \in Int /\ pfa.usedMemory >= Cardinality(client)
    BY <1>1, <1>2 DEF Mapped, Allocator
  <2>3. QED
    BY <1>3, <1>4, <2>1, <2>2
<1>6. BitmapPages(pfa') = BitmapPages(pfa)
  BY <1>2, <1>4, BitmapPagesType
<1>7. R \cap Protected = {}
  BY <1>1 DEF HandedOutPagesAreSafe
<1>8. Mapped'
  BY <1>1, <1>4, <1>5, <1>6, <1>7 DEF Mapped, Protected, size
<1>9. HandedOutPagesAreSafe'
  BY <1>1, <1>4, <1>6 DEF HandedOutPagesAreSafe, Protected
<1>10. QED
  BY <1>1, <1>4, <1>7, <1>8, <1>9 DEF Protected, size

-----------------------------------------------------------------------------
\* Every step keeps the inductive invariant.
LEMMA NextPreserves == IInv /\ [Next]_vars => IInv'
<1> SUFFICES ASSUME IInv, [Next]_vars PROVE IInv'
  OBVIOUS
<1>1. /\ mMap \in MemoryMaps /\ stale \subseteq {Size(mMap) * 8}
      /\ client \subseteq 0 .. (Size(mMap) * 8 - 1)
      /\ answer \in Indices \cup {NoAnswer}
      /\ HandedOutPagesAreSafe
  BY DEF IInv
<1>2. Size(mMap) * 8 \in Nat
  BY <1>1, SizeType
<1>3. CASE ReadMap
  <2>1. /\ stage = "uefi" /\ stage' = "mapped" /\ client = {} /\ client' = {}
        /\ mMap' = mMap /\ stale' = stale /\ answer' = answer
    BY <1>3 DEF ReadMap, IInv
  <2>2. Mapped'
    BY <1>3, <2>1, ReadMapEstablishes, FS_EmptySet DEF Mapped
  <2>3. HandedOutPagesAreSafe'
    BY <2>1 DEF HandedOutPagesAreSafe
  <2>4. QED
    BY <1>1, <2>1, <2>2, <2>3 DEF IInv, Indices
<1>4. CASE LockKernel
  <2>1. /\ stage = "mapped" /\ stage' = "locked"
        /\ mMap' = mMap /\ stale' = stale /\ client' = client /\ answer' = answer
        /\ pfa' = LockPages(pfa, KernelPages) /\ KernelPages \in SUBSET Nat
    BY <1>4, PageFrameAllocatorAssumption DEF LockKernel
  <2>2. /\ Mapped' /\ HandedOutPagesAreSafe'
        /\ KernelPages \cap Index(Size(mMap)) \subseteq pfa'.bits
    BY <2>1, LockKeepsMapped
  <2>3. QED
    BY <1>1, <2>1, <2>2 DEF IInv, Indices
<1>5. CASE LockFramebuffer
  <2>1. /\ stage = "locked" /\ stage' = "running"
        /\ mMap' = mMap /\ stale' = stale /\ client' = client /\ answer' = answer
        /\ pfa' = LockPages(pfa, FramebufferPages) /\ FramebufferPages \in SUBSET Nat
        /\ KernelPages \cap Index(Size(mMap)) \subseteq pfa.bits
    BY <1>5, PageFrameAllocatorAssumption DEF LockFramebuffer, IInv
  <2>2. Mapped' /\ HandedOutPagesAreSafe' /\ pfa.bits \subseteq pfa'.bits
    BY <2>1, LockKeepsMapped
  <2>3. KernelPages \cap Index(Size(mMap)) \subseteq pfa'.bits
    BY <2>1, <2>2
  <2>4. QED
    BY <1>1, <2>1, <2>2, <2>3 DEF IInv, Indices
<1>6. CASE Request
  <2>1. /\ stage \in {"locked", "running"} /\ stage' = stage
        /\ mMap' = mMap /\ stale' = stale
        /\ KernelPages \cap Index(Size(mMap)) \subseteq pfa.bits
    BY <1>6 DEF Request, IInv
  <2>2. CASE Candidates(pfa) # {}
    <3>1. /\ Mapped' /\ HandedOutPagesAreSafe'
          /\ answer' \in 0 .. (Size(mMap) * 8 - 1)
          /\ pfa'.bits = pfa.bits \cup {answer'} /\ client' = client \cup {answer'}
      BY <1>6, <2>2, GrantKeepsMapped
    <3>2. client' \subseteq 0 .. (Size(mMap) * 8 - 1)
      BY <1>1, <3>1
    <3>3. answer' \in Indices
      BY <1>2, <3>1 DEF Indices
    <3>4. QED
      BY <1>1, <2>1, <3>1, <3>2, <3>3 DEF IInv, Indices
  <2>3. CASE Candidates(pfa) = {}
    <3>1. /\ Mapped' /\ HandedOutPagesAreSafe' /\ answer' = NULL
          /\ pfa'.bits = pfa.bits /\ client' = client
      BY <1>6, <2>3, RefusalKeepsMapped
    <3>2. answer' \in Indices
      BY <1>2, <3>1 DEF Indices, NULL
    <3>3. QED
      BY <1>1, <2>1, <3>1, <3>2 DEF IInv, Indices
  <2>4. QED
    BY <2>2, <2>3
<1>7. CASE Free
  <2>1. PICK first, last \in client :
             /\ first .. last \subseteq client
             /\ pfa' = FreePages(pfa, first .. last)
             /\ client' = client \ (first .. last)
             /\ UNCHANGED <<mMap, stale, stage, answer>>
    BY <1>7 DEF Free
  <2>2. /\ stage \in {"locked", "running"}
        /\ mMap' = mMap /\ stale' = stale /\ stage' = stage /\ answer' = answer
        /\ client' \subseteq client
    BY <2>1 DEF IInv
  <2>3. /\ Mapped' /\ HandedOutPagesAreSafe'
        /\ KernelPages \cap Index(Size(mMap)) \subseteq pfa'.bits
    BY <2>1, FreeKeepsMapped
  <2>4. QED
    BY <1>1, <2>2, <2>3 DEF IInv, Indices
<1>8. CASE UNCHANGED vars
  <2>1. /\ mMap' = mMap /\ stale' = stale /\ stage' = stage /\ pfa' = pfa
        /\ client' = client /\ answer' = answer
    BY <1>8 DEF vars
  <2>2. Mapped' = Mapped /\ HandedOutPagesAreSafe' = HandedOutPagesAreSafe
        /\ Indices' = Indices
    BY <2>1 DEF Mapped, HandedOutPagesAreSafe, Protected, Indices
  <2>3. QED
    BY <2>1, <2>2 DEF IInv
<1>9. QED
  BY <1>3, <1>4, <1>5, <1>6, <1>7, <1>8 DEF Next

\* IInv is an invariant of the allocator.
LEMMA Invariance == Spec => []IInv
<1>1. QED
  BY InitEstablishes, NextPreserves, PTL DEF Spec

\* The inductive invariant gives each invariant the runs check.
LEMMA InvariantImplies ==
  IInv => TypeOK /\ NothingFreeBelowCursor /\ HandedOutPagesAreSafe /\ CountersMatchBitmap
<1> SUFFICES ASSUME IInv
             PROVE  TypeOK /\ NothingFreeBelowCursor /\ HandedOutPagesAreSafe
                    /\ CountersMatchBitmap
  OBVIOUS
<1>1. /\ mMap \in MemoryMaps /\ stale \subseteq {Size(mMap) * 8}
      /\ stage \in {"uefi", "mapped", "locked", "running"}
      /\ client \subseteq 0 .. (Size(mMap) * 8 - 1)
      /\ answer \in Indices \cup {NoAnswer}
      /\ HandedOutPagesAreSafe
  BY DEF IInv
<1>2. Size(mMap) \in Nat /\ Size(mMap) * 8 \in Nat /\ stale \in SUBSET Index(Size(mMap))
  BY <1>1, SizeType
<1>3. client \subseteq Indices /\ Indices = Index(Size(mMap))
  BY <1>1, <1>2 DEF Indices, Index
<1>4. CASE stage = "uefi"
  <2>1. pfa = [Size |-> 0, Buffer |-> 0, bits |-> {}, freeMemory |-> 0,
               usedMemory |-> 0, reservedMemory |-> 0, pageBitmapIndex |-> 0]
    BY <1>4 DEF IInv, UninitialisedAllocator, NULL
  <2>2. 0 \in Indices
    BY <1>2 DEF Indices
  <2>3. TypeOK
    BY <1>1, <1>3, <2>1, <2>2 DEF TypeOK
  <2>4. NothingFreeBelowCursor
    BY <1>2, <2>1 DEF NothingFreeBelowCursor, Indices
  <2>5. CountersMatchBitmap
    BY <1>4 DEF CountersMatchBitmap
  <2>6. QED
    BY <1>1, <2>3, <2>4, <2>5
<1>5. CASE stage # "uefi"
  <2>1. Mapped /\ pfa \in Allocator(Size(mMap)) /\ pfa.Size = Size(mMap)
    BY <1>5 DEF IInv, Mapped, Allocator
  <2>2. TypeOK
    BY <1>1, <1>3, <2>1 DEF TypeOK, Allocator
  <2>3. NothingFreeBelowCursor
    BY <1>3, <2>1 DEF Mapped, CursorOK, NothingFreeBelowCursor
  <2>4. CountersMatchBitmap
    <3>1. Cardinality(stale) \in Nat
      BY <1>1, <1>2, HeldFinite
    <3>2. Cardinality(pfa.bits) \in Nat
      BY <1>2, <2>1, IndexFinite DEF Allocator
    <3>3. pfa.usedMemory \in Int /\ pfa.reservedMemory \in Int
      BY <2>1 DEF Allocator
    <3>4. /\ pfa.freeMemory + pfa.usedMemory + pfa.reservedMemory = GetMemorySize(mMap)
          /\ Cardinality(pfa.bits) - pfa.usedMemory - pfa.reservedMemory = Cardinality(stale)
          /\ pfa.usedMemory >= Cardinality(client)
      BY <2>1 DEF Mapped, Total, Unaccounted
    <3>5. QED
      BY <3>1, <3>2, <3>3, <3>4 DEF CountersMatchBitmap
  <2>5. QED
    BY <1>1, <2>2, <2>3, <2>4
<1>6. QED
  BY <1>4, <1>5

\* The allocator's state is always well typed: the cursor stays in the bitmap
\* and no bit outside it is ever set.
THEOREM TypeCorrect == Spec => []TypeOK
<1>1. QED
  BY Invariance, InvariantImplies, PTL

\* No page below pageBitmapIndex is ever free, for every sequence of requests
\* and frees.
THEOREM CursorIsSafe == Spec => []NothingFreeBelowCursor
<1>1. QED
  BY Invariance, InvariantImplies, PTL

\* No page is handed out while somebody holds it, and no BIOS, bitmap or
\* kernel page is handed out at all.
THEOREM HandsOutSafePages == Spec => []HandedOutPagesAreSafe
<1>1. QED
  BY Invariance, InvariantImplies, PTL

\* The three memory counters agree with the bitmap, and usedMemory never
\* wraps around.
THEOREM CountersAreExact == Spec => []CountersMatchBitmap
<1>1. QED
  BY Invariance, InvariantImplies, PTL

-----------------------------------------------------------------------------
\* What can be requested, in a mapped bitmap.
LEMMA RequestableIs ==
  ASSUME NEW m \in MemoryMaps, pfa \in Allocator(Size(m))
  PROVE  Requestable = (0 .. (Size(m) * 8 - 1)) \ pfa.bits
BY DEF Requestable, Allocator

\* Every step of the allocator is a step of the frame pool or changes nothing
\* there.
LEMMA StepRefines == IInv /\ IInv' /\ [Next]_vars => [Pool!Next]_(Pool!vars)
<1> SUFFICES ASSUME IInv, IInv', [Next]_vars PROVE [Pool!Next]_(Pool!vars)
  OBVIOUS
<1> USE DEF Pool!Next, Pool!vars
<1>1. mMap \in MemoryMaps /\ HandedOutPagesAreSafe /\ Size(mMap) * 8 \in Nat
  BY SizeType DEF IInv
<1>2. stage # "uefi" => Requestable = (0 .. (Size(mMap) * 8 - 1)) \ pfa.bits
  BY RequestableIs DEF IInv, Mapped
<1>3. stage' # "uefi" =>
        /\ Requestable' = (0 .. (Size(mMap') * 8 - 1)) \ pfa'.bits
        /\ (Pages(0, BiosPages) \cup BitmapPages(pfa')) \cap Index(Size(mMap')) \subseteq pfa'.bits
  <2>1. ASSUME stage' # "uefi"
        PROVE  pfa' \in Allocator(Size(mMap')) /\ mMap' \in MemoryMaps
               /\ (Pages(0, BiosPages) \cup BitmapPages(pfa')) \cap Index(Size(mMap')) \subseteq pfa'.bits
    BY <2>1 DEF IInv, Mapped
  <2>2. ASSUME stage' # "uefi"
        PROVE  Requestable' = (0 .. (Size(mMap') * 8 - 1)) \ pfa'.bits
    BY <2>1, <2>2 DEF Requestable, Allocator
  <2>3. QED
    BY <2>1, <2>2
<1>4. CASE ReadMap
  <2>1. stage' = "mapped" /\ mMap' = mMap /\ client = {} /\ client' = client /\ answer' = answer
    BY <1>4 DEF ReadMap, IInv
  <2>2. 0 \in Pages(0, BiosPages) /\ 0 \in Index(Size(mMap))
    BY <1>1, PageFramesAssumption DEF Pages, Index
  <2>3. Requestable' \in SUBSET (Nat \ {NULL})
    BY <1>1, <1>3, <2>1, <2>2 DEF NULL
  <2>4. Pool!Supply
    BY <2>1, <2>3 DEF Pool!Supply
  <2>5. QED
    BY <2>4
<1>5. CASE LockKernel \/ LockFramebuffer
  <2>1. PICK P \in SUBSET Nat : pfa' = LockPages(pfa, P)
    BY <1>5, PageFrameAllocatorAssumption DEF LockKernel, LockFramebuffer
  <2>2. /\ stage # "uefi" /\ stage' # "uefi" /\ UNCHANGED <<mMap, stale, client, answer>>
    BY <1>5 DEF LockKernel, LockFramebuffer
  <2>3. pfa.bits \subseteq pfa'.bits
    BY <2>1, <2>2, LockKeepsMapped
  <2>4. Pool!Withdraw
    BY <1>2, <1>3, <2>2, <2>3 DEF Pool!Withdraw
  <2>5. QED
    BY <2>4
<1>6. CASE Request
  <2>1. stage # "uefi" /\ stage' = stage /\ mMap' = mMap
    BY <1>6 DEF Request
  <2>2. CASE Candidates(pfa) # {}
    <3>1. /\ answer' \in (0 .. (Size(mMap) * 8 - 1)) \ {NULL}
          /\ answer' \notin pfa.bits
          /\ pfa'.bits = pfa.bits \cup {answer'} /\ client' = client \cup {answer'}
      BY <1>6, <2>2, GrantKeepsMapped
    <3>2. answer' \in Requestable /\ Requestable' = Requestable \ {answer'}
      BY <1>2, <1>3, <2>1, <3>1
    <3>3. Pool!Request
      BY <3>1, <3>2 DEF Pool!Request
    <3>4. QED
      BY <3>3
  <2>3. CASE Candidates(pfa) = {}
    <3>1. /\ answer' = NULL /\ client' = client
          /\ 0 .. (Size(mMap) * 8 - 1) \subseteq pfa.bits /\ pfa'.bits = pfa.bits
      BY <1>6, <2>3, RefusalKeepsMapped
    <3>2. Requestable = {} /\ Requestable' = {}
      BY <1>2, <1>3, <2>1, <3>1
    <3>3. Pool!Refuse
      BY <3>1, <3>2 DEF Pool!Refuse
    <3>4. QED
      BY <3>3
  <2>4. QED
    BY <2>2, <2>3
<1>7. CASE Free
  <2>1. PICK first, last \in client :
             /\ first .. last \subseteq client
             /\ pfa' = FreePages(pfa, first .. last)
             /\ client' = client \ (first .. last)
             /\ UNCHANGED <<mMap, stale, stage, answer>>
    BY <1>7 DEF Free
  <2>2. stage # "uefi" /\ stage' # "uefi" /\ client \subseteq 0 .. (Size(mMap) * 8 - 1)
    BY <2>1 DEF IInv
  <2>3. pfa'.bits = pfa.bits \ (first .. last)
    BY <2>1, FreeKeepsMapped
  <2>4. client' \in SUBSET client /\ client \ client' = first .. last
    BY <2>1
  <2>5. Requestable' = Requestable \cup (first .. last)
    BY <1>2, <1>3, <2>1, <2>2, <2>3
  <2>6. Pool!Release
    BY <2>1, <2>4, <2>5 DEF Pool!Release
  <2>7. QED
    BY <2>6
<1>8. CASE UNCHANGED vars
  BY <1>8 DEF vars, Requestable
<1>9. QED
  BY <1>4, <1>5, <1>6, <1>7, <1>8 DEF Next

\* The allocator implements the frame pool: RequestPage hands out a frame that
\* is free and nobody's, and returns NULL only when no frame is free.
THEOREM Refinement == Spec => ImplementsFramePool
<1>1. Init => Pool!Init
  <2>1. SUFFICES ASSUME Init PROVE Pool!Init
    OBVIOUS
  <2>2. pfa.Size = 0 /\ pfa.bits = {} /\ client = {} /\ answer = NoAnswer
    BY <2>1 DEF Init, UninitialisedAllocator
  <2>3. Requestable = {}
    BY <2>2 DEF Requestable
  <2>4. QED
    BY <2>2, <2>3 DEF Pool!Init
<1>2. QED
  BY <1>1, Invariance, StepRefines, PTL DEF Spec, ImplementsFramePool, Pool!Spec
=============================================================================
