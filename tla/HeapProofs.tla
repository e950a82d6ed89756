------------------------------ MODULE HeapProofs ------------------------------
(***************************************************************************)
(* The heap's list, for every place and size of the heap, every size of    *)
(* pages and headers, and all requests.                                    *)
(*                                                                         *)
(* SegmentsTileTheHeap is not inductive: nothing in it keeps a new header  *)
(* from landing inside another segment, and nothing says that a header's   *)
(* last is right.  List says both, of any state of the memory, so that the *)
(* functions of heap.c can be taken one at a time: each leads from a list  *)
(* to a list.                                                              *)
(***************************************************************************)
EXTENDS Heap, TLAPS

Header(addresses) ==
  [length : Nat, next : addresses \cup {NULL}, last : addresses \cup {NULL}, free : BOOLEAN]

\* Where a segment of h ends.
SegEnd(h, a) == a + HdrSize + h.hdr[a].length

\* The header at a and those it points at.
Linked(h, a) ==
  /\ HeapStart <= a /\ SegEnd(h, a) <= h.heapEnd
  /\ h.hdr[a].next = NULL => a = h.LastHdr /\ SegEnd(h, a) = h.heapEnd
  /\ h.hdr[a].next # NULL => h.hdr[a].next = SegEnd(h, a) /\ h.hdr[h.hdr[a].next].last = a
  /\ h.hdr[a].last = NULL => a = HeapStart
  /\ h.hdr[a].last # NULL => h.hdr[h.hdr[a].last].next = a

\* A well-formed heap.
List(h) ==
  /\ h \in [hdr : {h.hdr}, LastHdr : {h.LastHdr}, heapEnd : {h.heapEnd}, nullHit : BOOLEAN]
  /\ h.hdr \in [DOMAIN h.hdr -> Header(DOMAIN h.hdr)]
  /\ DOMAIN h.hdr \subseteq Nat /\ h.heapEnd \in Nat
  /\ HeapStart \in DOMAIN h.hdr /\ h.LastHdr \in DOMAIN h.hdr
  /\ h.hdr[h.LastHdr].next = NULL
  /\ \A a \in DOMAIN h.hdr : Linked(h, a)
  /\ \A a, b \in DOMAIN h.hdr : a < b => SegEnd(h, a) <= b

\* Two free segments do not follow each other at a.
Apart(h, a) ==
  h.hdr[a].free /\ h.hdr[a].next # NULL => ~h.hdr[h.hdr[a].next].free

-----------------------------------------------------------------------------
(* Numbers.                                                                *)

\* The sizes the heap is made of.
LEMMA Sizes ==
  /\ HeapStart \in Nat /\ HeapStart > 0 /\ InitialPages \in Nat /\ InitialPages > 0
  /\ PageSize \in Nat /\ HdrSize \in Nat /\ HdrSize > 0 /\ Align \in Nat /\ Align > 0
  /\ PageSize > HdrSize + Align /\ MaxFrames \in Nat /\ MaxFrames >= InitialPages
  /\ NULL = 0
BY HeapAssumption DEF NULL

\* Remainders.
LEMMA Remainder ==
  ASSUME NEW unit \in Nat \ {0}, NEW n \in Nat
  PROVE  n % unit \in Nat /\ n % unit < unit /\ n % unit <= n /\ (n < unit => n % unit = n)
<1>1. n % unit \in 0 .. unit - 1 /\ (n < unit => n % unit = n)
  BY SMT
<1>2. QED
  BY <1>1

\* What malloc and ExpandHeap round up to.
LEMMA Rounding ==
  ASSUME NEW unit \in Nat \ {0}, NEW n \in Nat
  PROVE  /\ RoundUp(n, unit) \in Nat /\ RoundUp(n, unit) >= n
         /\ n > 0 => RoundUp(n, unit) >= unit
<1> DEFINE rest == n % unit
<1>1. rest \in Nat /\ rest < unit /\ rest <= n /\ (n < unit => rest = n)
  BY Remainder
<1>2. RoundUp(n, unit) = IF rest > 0 THEN n - rest + unit ELSE n
  BY DEF RoundUp
<1> HIDE DEF rest
<1>3. QED
  BY <1>1, <1>2

\* What is known of one header and its neighbours.
LEMMA HeaderFacts ==
  ASSUME NEW h, List(h), NEW a \in DOMAIN h.hdr
  PROVE  /\ a \in Nat /\ a > 0 /\ a # NULL /\ h.hdr[a] \in Header(DOMAIN h.hdr)
         /\ h.hdr[a].length \in Nat /\ h.hdr[a].free \in BOOLEAN
         /\ SegEnd(h, a) \in Nat /\ SegEnd(h, a) > a
         /\ h.hdr[a].next \in DOMAIN h.hdr \/ h.hdr[a].next = NULL
         /\ h.hdr[a].last \in DOMAIN h.hdr \/ h.hdr[a].last = NULL
         /\ h.hdr[a].next # NULL => h.hdr[a].next > a
         /\ Linked(h, a)
         /\ \A b \in DOMAIN h.hdr : a < b => SegEnd(h, a) <= b
<1>1. a \in Nat /\ h.hdr[a] \in Header(DOMAIN h.hdr) /\ Linked(h, a)
  BY DEF List
<1>2. a > 0 /\ a # NULL
  BY <1>1, Sizes DEF Linked
<1>3. /\ h.hdr[a].length \in Nat /\ h.hdr[a].free \in BOOLEAN
      /\ h.hdr[a].next \in DOMAIN h.hdr \cup {NULL}
      /\ h.hdr[a].last \in DOMAIN h.hdr \cup {NULL}
  BY <1>1 DEF Header
<1>4. SegEnd(h, a) \in Nat /\ SegEnd(h, a) > a
  BY <1>1, <1>3, Sizes DEF SegEnd
<1>5. h.hdr[a].next # NULL => h.hdr[a].next > a
  BY <1>1, <1>4 DEF Linked
<1>6. QED
  BY <1>1, <1>2, <1>3, <1>4, <1>5 DEF List

\* Replacing the headers and LastHdr.
LEMMA Replaced ==
  ASSUME NEW h, NEW f, NEW l, NEW g, g = [h EXCEPT !.LastHdr = l, !.hdr = f],
         h \in [hdr : {h.hdr}, LastHdr : {h.LastHdr}, heapEnd : {h.heapEnd}, nullHit : BOOLEAN]
  PROVE  /\ g \in [hdr : {g.hdr}, LastHdr : {g.LastHdr}, heapEnd : {g.heapEnd}, nullHit : BOOLEAN]
         /\ g.heapEnd = h.heapEnd /\ g.LastHdr = l /\ g.hdr = f
OBVIOUS

\* What has to be shown of a heap whose headers are at D.
LEMMA IsList ==
  ASSUME NEW g, NEW D, DOMAIN g.hdr = D,
         g \in [hdr : {g.hdr}, LastHdr : {g.LastHdr}, heapEnd : {g.heapEnd}, nullHit : BOOLEAN],
         g.hdr \in [D -> Header(D)],
         D \subseteq Nat, g.heapEnd \in Nat,
         HeapStart \in D, g.LastHdr \in D, g.hdr[g.LastHdr].next = NULL,
         \A x \in D : Linked(g, x),
         \A x, y \in D : x < y => SegEnd(g, x) <= y
  PROVE  List(g)
BY DEF List

-----------------------------------------------------------------------------
(* The functions of heap.c.                                                *)

\* The headers of g but for the mark at a.
OnlyMarked(h, g, a) ==
  /\ DOMAIN g.hdr = DOMAIN h.hdr
  /\ \A x \in DOMAIN h.hdr :
       /\ g.hdr[x].length = h.hdr[x].length /\ g.hdr[x].next = h.hdr[x].next
       /\ g.hdr[x].last = h.hdr[x].last
       /\ x # a => g.hdr[x].free = h.hdr[x].free

\* Marking a segment.
LEMMA MarkKeepsList ==
  ASSUME NEW h, List(h), NEW a \in DOMAIN h.hdr, NEW v \in BOOLEAN,
         NEW g, g = [h EXCEPT !.hdr[a].free = v]
  PROVE  /\ List(g) /\ OnlyMarked(h, g, a)
         /\ g.hdr[a].free = v
<1>1. /\ g \in [hdr : {g.hdr}, LastHdr : {g.LastHdr}, heapEnd : {g.heapEnd}, nullHit : BOOLEAN]
      /\ g.heapEnd = h.heapEnd /\ g.LastHdr = h.LastHdr
      /\ g.hdr = [h.hdr EXCEPT ![a] = [@ EXCEPT !.free = v]]
  BY DEF List
<1>2. DOMAIN g.hdr = DOMAIN h.hdr
  BY <1>1
<1>3. ASSUME NEW x \in DOMAIN h.hdr
      PROVE  /\ g.hdr[x].length = h.hdr[x].length /\ g.hdr[x].next = h.hdr[x].next
             /\ g.hdr[x].last = h.hdr[x].last
             /\ x # a => g.hdr[x].free = h.hdr[x].free
             /\ x = a => g.hdr[x].free = v
             /\ g.hdr[x] \in Header(DOMAIN h.hdr)
  <2>1. h.hdr[x] \in Header(DOMAIN h.hdr)
    BY HeaderFacts
  <2>2. g.hdr[x] = IF x = a THEN [h.hdr[x] EXCEPT !.free = v] ELSE h.hdr[x]
    BY <1>1
  <2>3. QED
    BY <2>1, <2>2 DEF Header
<1>4. g.hdr \in [DOMAIN g.hdr -> Header(DOMAIN g.hdr)]
  BY <1>1, <1>2, <1>3
<1>5. \A x \in DOMAIN h.hdr : SegEnd(g, x) = SegEnd(h, x)
  BY <1>3 DEF SegEnd
<1>6. ASSUME NEW x \in DOMAIN h.hdr PROVE Linked(g, x)
  <2>1. /\ Linked(h, x)
        /\ h.hdr[x].next \in DOMAIN h.hdr \/ h.hdr[x].next = NULL
        /\ h.hdr[x].last \in DOMAIN h.hdr \/ h.hdr[x].last = NULL
    BY HeaderFacts
  <2>2. /\ g.hdr[x].next = h.hdr[x].next /\ g.hdr[x].last = h.hdr[x].last
        /\ SegEnd(g, x) = SegEnd(h, x)
    BY <1>3, <1>5
  <2>3. h.hdr[x].next # NULL => g.hdr[h.hdr[x].next].last = h.hdr[h.hdr[x].next].last
    BY <1>3, <2>1
  <2>4. h.hdr[x].last # NULL => g.hdr[h.hdr[x].last].next = h.hdr[h.hdr[x].last].next
    BY <1>3, <2>1
  <2>5. QED
    BY <1>1, <2>1, <2>2, <2>3, <2>4 DEF Linked
<1>7. List(g)
  <2> DEFINE D == DOMAIN h.hdr
  <2>1. /\ D \subseteq Nat /\ h.heapEnd \in Nat /\ HeapStart \in D /\ h.LastHdr \in D
        /\ h.hdr[h.LastHdr].next = NULL
        /\ \A x, y \in D : x < y => SegEnd(h, x) <= y
    BY DEF List
  <2>2. g.hdr[g.LastHdr].next = NULL
    BY <1>1, <1>3, <2>1
  <2>3. \A x, y \in D : x < y => SegEnd(g, x) <= y
    BY <1>5, <2>1
  <2>4. g.hdr \in [D -> Header(D)] /\ DOMAIN g.hdr = D
    BY <1>2, <1>4
  <2>5. g.heapEnd \in Nat /\ g.LastHdr \in D
    BY <1>1, <2>1
  <2> HIDE DEF D
  <2>6. \A x \in D : Linked(g, x)
    BY <1>6 DEF D
  <2>7. QED
    BY <1>1, <2>1, <2>2, <2>3, <2>4, <2>5, <2>6, IsList
<1>8. QED
  BY <1>1, <1>2, <1>3, <1>7 DEF OnlyMarked

\* CombineForward, when the next segment is free: one header less.
LEMMA MergeKeepsList ==
  ASSUME NEW h, List(h), NEW a \in DOMAIN h.hdr, h.hdr[a].next # NULL,
         h.hdr[h.hdr[a].next].free
  PROVE  LET g == CombineForward(h, a)
             b == h.hdr[a].next
         IN  /\ List(g) /\ DOMAIN g.hdr = DOMAIN h.hdr \ {b}
             /\ g.heapEnd = h.heapEnd
             /\ g.LastHdr = IF b = h.LastHdr THEN a ELSE h.LastHdr
             /\ \A x \in DOMAIN g.hdr :
                  /\ g.hdr[x].length = IF x = a THEN h.hdr[a].length + h.hdr[b].length + HdrSize
                                                ELSE h.hdr[x].length
                  /\ g.hdr[x].next = IF x = a THEN h.hdr[b].next ELSE h.hdr[x].next
                  /\ g.hdr[x].last = IF x = h.hdr[b].next THEN a ELSE h.hdr[x].last
                  /\ g.hdr[x].free = h.hdr[x].free
<1> DEFINE g == CombineForward(h, a)
           b == h.hdr[a].next
           c == h.hdr[b].next
           linked == IF c = NULL THEN h ELSE SetLast(h, c, a)
           D == DOMAIN h.hdr
           Fields(x) ==
             /\ g.hdr[x].length = IF x = a THEN h.hdr[a].length + h.hdr[b].length + HdrSize
                                           ELSE h.hdr[x].length
             /\ g.hdr[x].next = IF x = a THEN c ELSE h.hdr[x].next
             /\ g.hdr[x].last = IF x = c THEN a ELSE h.hdr[x].last
             /\ g.hdr[x].free = h.hdr[x].free
<1>1. /\ b \in D /\ b > a /\ a > 0 /\ b = SegEnd(h, a) /\ h.hdr[b].last = a
      /\ a \in Nat /\ b \in Nat /\ a # NULL
  BY HeaderFacts DEF Linked
<1>2. /\ c \in D \/ c = NULL
      /\ c # NULL => c > b /\ c \in Nat /\ c = SegEnd(h, b) /\ h.hdr[c].last = b
      /\ c = NULL => b = h.LastHdr /\ SegEnd(h, b) = h.heapEnd
  <2>1. /\ Linked(h, b) /\ (c \in D \/ c = NULL) /\ (c # NULL => c > b)
        /\ D \subseteq Nat
    BY <1>1, HeaderFacts
  <2>2. QED
    BY <2>1 DEF Linked
<1>3. /\ linked \in [hdr : {linked.hdr}, LastHdr : {h.LastHdr}, heapEnd : {h.heapEnd}, nullHit : BOOLEAN]
      /\ DOMAIN linked.hdr = D
      /\ \A x \in D : linked.hdr[x] = IF x = c THEN [h.hdr[x] EXCEPT !.last = a] ELSE h.hdr[x]
  <2>1. CASE c = NULL
    <3>1. NULL \notin D
      BY HeaderFacts
    <3>2. QED
      BY <2>1, <3>1 DEF List
  <2>2. CASE c # NULL
    BY <1>2, <2>2 DEF SetLast, List
  <2>3. QED
    BY <2>1, <2>2
<1>4. /\ g = [linked EXCEPT
               !.LastHdr = IF b = @ THEN a ELSE @,
               !.hdr = [x \in DOMAIN linked.hdr \ {b} |->
                          IF x = a THEN Merged(linked.hdr[a], h.hdr[b]) ELSE linked.hdr[x]]]
  BY <1>1 DEF CombineForward
<1> HIDE DEF linked
<1>5. /\ g \in [hdr : {g.hdr}, LastHdr : {g.LastHdr}, heapEnd : {g.heapEnd}, nullHit : BOOLEAN]
      /\ g.heapEnd = h.heapEnd /\ g.LastHdr = IF b = h.LastHdr THEN a ELSE h.LastHdr
      /\ g.hdr = [x \in D \ {b} |->
                    IF x = a THEN Merged(linked.hdr[a], h.hdr[b]) ELSE linked.hdr[x]]
  <2> DEFINE f == [x \in D \ {b} |->
                     IF x = a THEN Merged(linked.hdr[a], h.hdr[b]) ELSE linked.hdr[x]]
             l == IF b = h.LastHdr THEN a ELSE h.LastHdr
  <2>1. linked.LastHdr = h.LastHdr /\ linked.heapEnd = h.heapEnd /\ DOMAIN linked.hdr = D
    BY <1>3
  <2>2. g = [linked EXCEPT !.LastHdr = l, !.hdr = f]
    BY <1>4, <2>1
  <2> HIDE DEF f, l, g
  <2>3. linked \in [hdr : {linked.hdr}, LastHdr : {linked.LastHdr}, heapEnd : {linked.heapEnd},
                    nullHit : BOOLEAN]
    BY <1>3, <2>1
  <2>4. /\ g \in [hdr : {g.hdr}, LastHdr : {g.LastHdr}, heapEnd : {g.heapEnd}, nullHit : BOOLEAN]
        /\ g.heapEnd = linked.heapEnd /\ g.LastHdr = l /\ g.hdr = f
    BY <2>2, <2>3, Replaced
  <2>5. QED
    BY <2>1, <2>4 DEF f, l
<1> HIDE DEF g
<1>6. DOMAIN g.hdr = D \ {b} /\ a \in D \ {b} /\ a # c
  <2>1. a # b
    BY <1>1
  <2>2. a # c
    BY <1>1, <1>2
  <2>3. DOMAIN g.hdr = D \ {b}
    BY <1>5
  <2>4. QED
    BY <2>1, <2>2, <2>3
<1>7. ASSUME NEW x \in D \ {b}
      PROVE  Fields(x) /\ g.hdr[x] \in Header(D \ {b})
  <2>1. h.hdr[x] \in Header(D) /\ h.hdr[b] \in Header(D)
    BY <1>1, HeaderFacts
  <2>2. g.hdr[x] = IF x = a THEN Merged(h.hdr[a], h.hdr[b])
                   ELSE IF x = c THEN [h.hdr[x] EXCEPT !.last = a] ELSE h.hdr[x]
    BY <1>3, <1>5, <1>6
  <2>3. Fields(x) /\ g.hdr[x] \in Header(D)
    <3>1. CASE x = a
      <4>1. /\ h.hdr[a].length + h.hdr[b].length + HdrSize \in Nat
            /\ h.hdr[b].next \in D \cup {NULL}
        BY <2>1, <3>1, Sizes DEF Header
      <4>2. g.hdr[x] = [h.hdr[a] EXCEPT !.length = h.hdr[a].length + h.hdr[b].length + HdrSize,
                                        !.next = h.hdr[b].next]
        BY <2>2, <3>1 DEF Merged
      <4>3. QED
        BY <1>6, <2>1, <3>1, <4>1, <4>2 DEF Header
    <3>2. CASE x # a
      BY <2>1, <2>2, <3>2 DEF Header
    <3>3. QED
      BY <3>1, <3>2
  <2>4. g.hdr[x].next # b
    <3>1. CASE x = a
      BY <1>1, <1>2, <2>3, <3>1, HeaderFacts
    <3>2. CASE x # a
      <4>1. h.hdr[x].next # b
        BY <1>1, <3>2, HeaderFacts DEF Linked
      <4>2. QED
        BY <2>3, <3>2, <4>1
    <3>3. QED
      BY <3>1, <3>2
  <2>5. g.hdr[x].last # b
    <3>1. h.hdr[x].last = b => x = c
      BY <1>1, HeaderFacts DEF Linked
    <3>2. QED
      BY <1>1, <2>3, <3>1
  <2>6. QED
    BY <2>3, <2>4, <2>5 DEF Header
<1>8. g.hdr \in [DOMAIN g.hdr -> Header(DOMAIN g.hdr)]
  BY <1>5, <1>6, <1>7
<1>9. /\ \A x \in D \ {b} : SegEnd(g, x) = IF x = a THEN SegEnd(h, b) ELSE SegEnd(h, x)
      /\ SegEnd(h, b) \in Nat
  <2>1. h.hdr[a].length \in Nat /\ h.hdr[b].length \in Nat /\ SegEnd(h, b) \in Nat
    BY <1>1, HeaderFacts
  <2>2. QED
    BY <1>1, <1>7, <2>1, Sizes DEF SegEnd
<1>10. ASSUME NEW x \in D \ {b} PROVE Linked(g, x)
  <2>1. Linked(h, x) /\ Linked(h, b)
    BY <1>1, HeaderFacts
  <2>2. HeapStart <= x /\ SegEnd(g, x) <= g.heapEnd
    BY <1>5, <1>9, <2>1 DEF Linked
  <2>3. g.hdr[x].next = NULL => x = g.LastHdr /\ SegEnd(g, x) = g.heapEnd
    BY <1>1, <1>2, <1>5, <1>7, <1>9, <2>1 DEF Linked
  <2>4. ASSUME g.hdr[x].next # NULL
        PROVE  g.hdr[x].next = SegEnd(g, x) /\ g.hdr[g.hdr[x].next].last = x
    <3>1. CASE x = a
      <4>1. g.hdr[x].next = c /\ c # NULL /\ c \in D \ {b}
        BY <1>1, <1>2, <1>7, <2>4, <3>1
      <4>2. QED
        BY <1>2, <1>7, <1>9, <3>1, <4>1
    <3>2. CASE x # a
      <4>1. /\ g.hdr[x].next = h.hdr[x].next /\ h.hdr[x].next = SegEnd(h, x)
            /\ h.hdr[h.hdr[x].next].last = x
        BY <1>7, <2>1, <2>4, <3>2 DEF Linked
      <4>2. h.hdr[x].next \in D \ {b} /\ h.hdr[x].next # c
        <5>1. h.hdr[x].next \in D
          BY <2>4, <4>1, HeaderFacts
        <5>2. h.hdr[x].next # b
          BY <1>1, <3>2, <4>1
        <5>3. h.hdr[x].next # c
          BY <1>2, <2>4, <4>1
        <5>4. QED
          BY <5>1, <5>2, <5>3
      <4>3. QED
        BY <1>7, <1>9, <3>2, <4>1, <4>2
    <3>3. QED
      BY <3>1, <3>2
  <2>5. g.hdr[x].last = NULL => x = HeapStart
    <3>1. g.hdr[x].last = a \/ g.hdr[x].last = h.hdr[x].last
      <4>1. Fields(x)
        BY <1>7
      <4>2. QED
        BY <4>1
    <3>2. h.hdr[x].last = NULL => x = HeapStart
      BY <2>1 DEF Linked
    <3>3. QED
      BY <1>1, <3>1, <3>2
  <2>6. ASSUME g.hdr[x].last # NULL PROVE g.hdr[g.hdr[x].last].next = x
    <3>1. CASE x = c
      BY <1>6, <1>7, <3>1
    <3>2. CASE x # c
      <4>1. g.hdr[x].last = h.hdr[x].last /\ h.hdr[h.hdr[x].last].next = x
        BY <1>7, <2>1, <2>6, <3>2 DEF Linked
      <4>2. h.hdr[x].last \in D \ {b} /\ h.hdr[x].last # a
        <5>1. h.hdr[x].last \in D
          BY <2>6, <4>1, HeaderFacts
        <5>2. h.hdr[x].last # b /\ h.hdr[x].last # a
          BY <3>2, <4>1
        <5>3. QED
          BY <5>1, <5>2
      <4>3. QED
        BY <1>7, <4>1, <4>2
    <3>3. QED
      BY <3>1, <3>2
  <2>7. QED
    BY <2>2, <2>3, <2>4, <2>5, <2>6 DEF Linked
<1>11. ASSUME NEW x \in D \ {b}, NEW y \in D \ {b}, x < y PROVE SegEnd(g, x) <= y
  <2>1. SegEnd(h, x) <= y
    BY <1>11, HeaderFacts
  <2>2. x = a => SegEnd(h, b) <= y
    <3>1. SUFFICES ASSUME x = a PROVE SegEnd(h, b) <= y
      OBVIOUS
    <3>2. b < y
      <4>1. b <= y /\ y \in Nat
        BY <1>1, <2>1, <3>1, HeaderFacts
      <4>2. QED
        BY <1>1, <4>1
    <3>3. QED
      BY <1>1, <3>2, HeaderFacts
  <2>3. QED
    BY <1>9, <2>1, <2>2
<1>12. /\ HeapStart \in D \ {b} /\ g.LastHdr \in D \ {b} /\ g.hdr[g.LastHdr].next = NULL
       /\ D \subseteq Nat /\ h.heapEnd \in Nat
  <2>1. HeapStart \in D /\ h.LastHdr \in D /\ h.hdr[h.LastHdr].next = NULL
        /\ D \subseteq Nat /\ h.heapEnd \in Nat
    BY DEF List
  <2>2. HeapStart # b
    BY <1>1, HeaderFacts DEF Linked
  <2>3. CASE b = h.LastHdr
    BY <1>5, <1>6, <1>7, <2>1, <2>2, <2>3
  <2>4. CASE b # h.LastHdr
    <3>1. h.LastHdr # a
      BY <1>1, <2>1
    <3>2. QED
      BY <1>5, <1>7, <2>1, <2>2, <2>4, <3>1
  <2>5. QED
    BY <2>3, <2>4
<1>13. List(g)
  BY <1>5, <1>6, <1>8, <1>10, <1>11, <1>12 DEF List
<1>14. QED
  BY <1>5, <1>6, <1>7, <1>13 DEF g

\* The headers of g when the segment at a was split at new.
OnlySplit(h, g, a, new, front, back) ==
  /\ DOMAIN g.hdr = DOMAIN h.hdr \cup {new}
  /\ \A x \in DOMAIN g.hdr :
       /\ g.hdr[x].length = IF x = new THEN back ELSE IF x = a THEN front ELSE h.hdr[x].length
       /\ g.hdr[x].next = IF x = new THEN h.hdr[a].next ELSE IF x = a THEN new ELSE h.hdr[x].next
       /\ x # new => g.hdr[x].free = h.hdr[x].free

\* Split, when both parts are long enough: one header more.
LEMMA SplitKeepsList ==
  ASSUME NEW h, List(h), NEW a \in DOMAIN h.hdr, NEW s \in Nat, s > 0,
         NEW rest \in Nat, h.hdr[a].length = s + HdrSize + rest, s >= Align, rest >= Align,
         NEW g, g = Split(h, a, s), NEW new, new = a + s + HdrSize
  PROVE  /\ List(g) /\ new \notin DOMAIN h.hdr
         /\ OnlySplit(h, g, a, new, s, rest)
         /\ g.hdr[new].free = h.hdr[a].free
<1> DEFINE c == h.hdr[a].next
           linked == SetLast(h, c, new)
           D == DOMAIN h.hdr
           back == [length |-> rest, next |-> c, last |-> a, free |-> h.hdr[a].free]
           front == [h.hdr[a] EXCEPT !.next = new, !.length = s]
           Fields(x) ==
             /\ g.hdr[x].length = IF x = new THEN rest ELSE IF x = a THEN s ELSE h.hdr[x].length
             /\ g.hdr[x].next = IF x = new THEN c ELSE IF x = a THEN new ELSE h.hdr[x].next
             /\ g.hdr[x].last = IF x = new THEN a ELSE IF x = c THEN new ELSE h.hdr[x].last
             /\ x # new => g.hdr[x].free = h.hdr[x].free
             /\ x = new => g.hdr[x].free = h.hdr[a].free
<1>1. /\ a \in Nat /\ a # NULL /\ h.hdr[a] \in Header(D) /\ Linked(h, a)
      /\ c \in D \/ c = NULL
      /\ c # NULL => c > a /\ c \in Nat /\ c = SegEnd(h, a) /\ h.hdr[c].last = a
  BY HeaderFacts DEF Linked
<1>2. /\ new \in Nat /\ new > a /\ new # NULL /\ new < SegEnd(h, a)
      /\ SegEnd(h, a) = new + HdrSize + rest /\ SegEnd(h, a) \in Nat
  BY <1>1, Sizes DEF SegEnd
<1>3. new \notin D
  <2>1. SUFFICES ASSUME new \in D PROVE FALSE
    OBVIOUS
  <2>2. SegEnd(h, a) <= new
    BY <1>2, <2>1, HeaderFacts
  <2>3. QED
    BY <1>2, <2>2
<1>4. /\ linked \in [hdr : {linked.hdr}, LastHdr : {h.LastHdr}, heapEnd : {h.heapEnd}, nullHit : BOOLEAN]
      /\ DOMAIN linked.hdr = D
      /\ \A x \in D : linked.hdr[x] = IF x = c THEN [h.hdr[x] EXCEPT !.last = new] ELSE h.hdr[x]
  <2>1. CASE c = NULL
    <3>1. \A x \in D : x # c
      BY <2>1, HeaderFacts
    <3>2. QED
      BY <2>1, <3>1 DEF SetLast, List
  <2>2. CASE c # NULL
    BY <1>1, <2>2 DEF SetLast, List
  <2>3. QED
    BY <2>1, <2>2
<1>5. a # c
  BY <1>1
<1>6. h.hdr[a].length - s - HdrSize = rest
  BY Sizes
<1>7. linked.hdr[a] = h.hdr[a]
  BY <1>4, <1>5
<1>8. g = [linked EXCEPT
             !.LastHdr = IF @ = a THEN new ELSE @,
             !.hdr = [x \in DOMAIN linked.hdr \cup {new} |->
                        IF x = new THEN back
                        ELSE IF x = a THEN front ELSE linked.hdr[x]]]
  <2>1. ~(s < Align \/ rest < Align)
    BY Sizes
  <2> HIDE DEF linked
  <2>2. QED
    BY <1>6, <1>7, <2>1 DEF Split, BackFree, linked
<1> HIDE DEF linked
<1>9. /\ g \in [hdr : {g.hdr}, LastHdr : {g.LastHdr}, heapEnd : {g.heapEnd}, nullHit : BOOLEAN]
      /\ g.heapEnd = h.heapEnd /\ g.LastHdr = IF h.LastHdr = a THEN new ELSE h.LastHdr
      /\ g.hdr = [x \in D \cup {new} |->
                    IF x = new THEN back ELSE IF x = a THEN front ELSE linked.hdr[x]]
  <2> DEFINE f == [x \in D \cup {new} |->
                     IF x = new THEN back ELSE IF x = a THEN front ELSE linked.hdr[x]]
             l == IF h.LastHdr = a THEN new ELSE h.LastHdr
  <2>1. linked.LastHdr = h.LastHdr /\ linked.heapEnd = h.heapEnd /\ DOMAIN linked.hdr = D
    BY <1>4
  <2>2. g = [linked EXCEPT !.LastHdr = l, !.hdr = f]
    BY <1>8, <2>1
  <2> HIDE DEF f, l
  <2>3. linked \in [hdr : {linked.hdr}, LastHdr : {linked.LastHdr}, heapEnd : {linked.heapEnd},
                    nullHit : BOOLEAN]
    BY <1>4, <2>1
  <2>4. /\ g \in [hdr : {g.hdr}, LastHdr : {g.LastHdr}, heapEnd : {g.heapEnd}, nullHit : BOOLEAN]
        /\ g.heapEnd = linked.heapEnd /\ g.LastHdr = l /\ g.hdr = f
    BY <2>2, <2>3, Replaced
  <2>5. QED
    BY <2>1, <2>4 DEF f, l
<1>10. DOMAIN g.hdr = D \cup {new}
  BY <1>9
<1>11. ASSUME NEW x \in D \cup {new}
       PROVE  Fields(x) /\ g.hdr[x] \in Header(D \cup {new})
  <2>1. CASE x = new
    <3>1. g.hdr[x] = back
      BY <1>9, <2>1
    <3>2. QED
      BY <1>1, <2>1, <3>1 DEF Header
  <2>2. CASE x = a
    <3>1. g.hdr[x] = front /\ a # new
      BY <1>3, <1>9, <2>2
    <3>2. QED
      BY <1>1, <1>5, <2>2, <3>1 DEF Header
  <2>3. CASE x # a /\ x # new
    <3>1. x \in D /\ h.hdr[x] \in Header(D)
      BY <2>3, HeaderFacts
    <3>2. g.hdr[x] = IF x = c THEN [h.hdr[x] EXCEPT !.last = new] ELSE h.hdr[x]
      BY <1>4, <1>9, <2>3, <3>1
    <3>3. QED
      BY <2>3, <3>1, <3>2 DEF Header
  <2>4. QED
    BY <2>1, <2>2, <2>3
<1>12. g.hdr \in [DOMAIN g.hdr -> Header(DOMAIN g.hdr)]
  BY <1>9, <1>10, <1>11
<1>13. /\ SegEnd(g, a) = new /\ SegEnd(g, new) = SegEnd(h, a)
       /\ \A x \in D : x # a => SegEnd(g, x) = SegEnd(h, x)
  <2>1. a # new
    BY <1>3
  <2>2. g.hdr[a].length = s /\ g.hdr[new].length = rest
    BY <1>11, <2>1
  <2>3. SegEnd(g, a) = new
    BY <1>1, <2>2, Sizes DEF SegEnd
  <2>4. SegEnd(g, new) = SegEnd(h, a)
    BY <1>2, <2>2 DEF SegEnd
  <2>5. \A x \in D : x # a => SegEnd(g, x) = SegEnd(h, x)
    BY <1>3, <1>11 DEF SegEnd
  <2>6. QED
    BY <2>3, <2>4, <2>5
<1>14. Linked(g, new)
  <2>1. HeapStart <= new /\ SegEnd(g, new) <= g.heapEnd
    BY <1>1, <1>2, <1>9, <1>13, Sizes DEF Linked
  <2>2. g.hdr[new].next = NULL => new = g.LastHdr /\ SegEnd(g, new) = g.heapEnd
    BY <1>1, <1>9, <1>11, <1>13 DEF Linked
  <2>3. ASSUME g.hdr[new].next # NULL
        PROVE  g.hdr[new].next = SegEnd(g, new) /\ g.hdr[g.hdr[new].next].last = new
    <3>1. g.hdr[new].next = c /\ c # new /\ c \in D /\ c = SegEnd(h, a)
      BY <1>1, <1>3, <1>11, <2>3
    <3>2. g.hdr[c].last = new
      BY <1>11, <3>1
    <3>3. QED
      BY <1>13, <3>1, <3>2
  <2>4. g.hdr[new].last = a /\ g.hdr[a].next = new
    BY <1>3, <1>11
  <2>5. QED
    BY <1>1, <2>1, <2>2, <2>3, <2>4 DEF Linked
<1>15. ASSUME NEW x \in D PROVE Linked(g, x)
  <2>1. Linked(h, x) /\ x # new
    BY <1>3, HeaderFacts
  <2>2. HeapStart <= x /\ SegEnd(g, x) <= g.heapEnd
    <3>1. h.heapEnd \in Nat /\ SegEnd(h, a) <= h.heapEnd
      BY <1>1 DEF List, Linked
    <3>2. new <= h.heapEnd
      BY <1>2, <3>1
    <3>3. QED
      BY <1>9, <1>13, <2>1, <3>2 DEF Linked
  <2>3. ASSUME g.hdr[x].next = NULL PROVE x = g.LastHdr /\ SegEnd(g, x) = g.heapEnd
    <3>1. x # a /\ h.hdr[x].next = NULL
      BY <1>2, <1>11, <2>1, <2>3
    <3>2. QED
      BY <1>9, <1>13, <2>1, <3>1 DEF Linked
  <2>4. ASSUME g.hdr[x].next # NULL
        PROVE  g.hdr[x].next = SegEnd(g, x) /\ g.hdr[g.hdr[x].next].last = x
    <3>1. CASE x = a
      BY <1>11, <1>13, <2>1, <3>1
    <3>2. CASE x # a
      <4>1. /\ g.hdr[x].next = h.hdr[x].next /\ h.hdr[x].next = SegEnd(h, x)
            /\ h.hdr[h.hdr[x].next].last = x /\ h.hdr[x].next \in D
        BY <1>11, <2>1, <2>4, <3>2, HeaderFacts DEF Linked
      <4>2. h.hdr[x].next # c /\ h.hdr[x].next # new
        BY <1>1, <1>3, <2>4, <3>2, <4>1
      <4>3. QED
        BY <1>11, <1>13, <3>2, <4>1, <4>2
    <3>3. QED
      BY <3>1, <3>2
  <2>5. g.hdr[x].last = NULL => x = HeapStart
    <3>1. g.hdr[x].last = h.hdr[x].last \/ g.hdr[x].last = new
      BY <1>11, <2>1
    <3>2. QED
      BY <1>2, <2>1, <3>1 DEF Linked
  <2>6. ASSUME g.hdr[x].last # NULL PROVE g.hdr[g.hdr[x].last].next = x
    <3>1. CASE x = c
      <4>1. g.hdr[x].last = new /\ g.hdr[new].next = c
        BY <1>11, <2>1, <3>1
      <4>2. QED
        BY <3>1, <4>1
    <3>2. CASE x # c
      <4>1. /\ g.hdr[x].last = h.hdr[x].last /\ h.hdr[h.hdr[x].last].next = x
            /\ h.hdr[x].last \in D
        BY <1>11, <2>1, <2>6, <3>2, HeaderFacts DEF Linked
      <4>2. h.hdr[x].last # a /\ h.hdr[x].last # new
        BY <1>3, <3>2, <4>1
      <4>3. QED
        BY <1>11, <4>1, <4>2
    <3>3. QED
      BY <3>1, <3>2
  <2>7. QED
    BY <2>2, <2>3, <2>4, <2>5, <2>6 DEF Linked
<1>16. ASSUME NEW x \in D \cup {new}, NEW y \in D \cup {new}, x < y
       PROVE  SegEnd(g, x) <= y
  <2>1. x \in Nat /\ y \in Nat
    BY <1>2, HeaderFacts
  <2>2. CASE x = new
    <3>1. y \in D /\ a < y
      BY <1>1, <1>2, <1>16, <2>1, <2>2
    <3>2. QED
      BY <1>13, <2>2, <3>1, HeaderFacts
  <2>3. CASE x = a
    <3>1. CASE y = new
      BY <1>13, <2>1, <2>3, <3>1
    <3>2. CASE y # new
      <4>1. SegEnd(h, a) <= y
        BY <1>16, <2>3, <3>2, HeaderFacts
      <4>2. QED
        BY <1>2, <1>13, <2>1, <2>3, <4>1
    <3>3. QED
      BY <3>1, <3>2
  <2>4. CASE x # a /\ x # new
    <3>1. x \in D /\ SegEnd(g, x) = SegEnd(h, x) /\ SegEnd(h, x) \in Nat
      BY <1>13, <2>4, HeaderFacts
    <3>2. CASE y \in D
      BY <1>16, <3>1, <3>2, HeaderFacts
    <3>3. CASE y = new
      <4>1. x < a
        <5>1. SUFFICES ASSUME a < x PROVE FALSE
          BY <1>1, <2>1, <2>4
        <5>2. SegEnd(h, a) <= x
          BY <3>1, <5>1, HeaderFacts
        <5>3. QED
          BY <1>2, <1>16, <2>1, <3>3, <5>2
      <4>2. SegEnd(h, x) <= a
        BY <3>1, <4>1, HeaderFacts
      <4>3. QED
        BY <1>1, <1>2, <3>1, <3>3, <4>2
    <3>4. QED
      BY <3>2, <3>3
  <2>5. QED
    BY <2>2, <2>3, <2>4
<1>17. /\ HeapStart \in D \cup {new} /\ g.LastHdr \in D \cup {new} /\ g.hdr[g.LastHdr].next = NULL
       /\ D \cup {new} \subseteq Nat /\ h.heapEnd \in Nat
  <2>1. /\ HeapStart \in D /\ h.LastHdr \in D /\ h.hdr[h.LastHdr].next = NULL
        /\ D \subseteq Nat /\ h.heapEnd \in Nat
    BY DEF List
  <2>2. CASE h.LastHdr = a
    BY <1>2, <1>9, <1>11, <2>1, <2>2
  <2>3. CASE h.LastHdr # a
    <3>1. h.LastHdr # new /\ h.LastHdr \in D \cup {new}
      BY <1>3, <2>1
    <3>2. g.LastHdr = h.LastHdr
      BY <1>9, <2>3
    <3>3. g.hdr[h.LastHdr].next = h.hdr[h.LastHdr].next
      BY <1>11, <2>3, <3>1
    <3>4. D \cup {new} \subseteq Nat
      BY <1>2, <2>1
    <3>5. QED
      BY <2>1, <3>1, <3>2, <3>3, <3>4
  <2>4. QED
    BY <2>2, <2>3
<1>18. List(g)
  <2> DEFINE N == D \cup {new}
  <2>1. /\ DOMAIN g.hdr = N /\ N \subseteq Nat
        /\ HeapStart \in N /\ g.LastHdr \in N /\ g.hdr[g.LastHdr].next = NULL
    BY <1>10, <1>17
  <2>2. /\ g \in [hdr : {g.hdr}, LastHdr : {g.LastHdr}, heapEnd : {g.heapEnd}, nullHit : BOOLEAN]
        /\ g.heapEnd \in Nat
    BY <1>9, <1>17
  <2>3. g.hdr \in [N -> Header(N)]
    BY <1>10, <1>12
  <2>4. \A x \in N : Linked(g, x)
    BY <1>14, <1>15
  <2>5. \A x, y \in N : x < y => SegEnd(g, x) <= y
    BY <1>16
  <2> HIDE DEF N
  <2>6. QED
    BY <2>1, <2>2, <2>3, <2>4, <2>5, IsList
<1>19. QED
  BY <1>3, <1>9, <1>10, <1>11, <1>18 DEF OnlySplit

\* The segment ExpandHeap makes of new pages.
Appended(h, bytes) ==
  [h EXCEPT !.heapEnd = @ + bytes,
            !.LastHdr = h.heapEnd,
            !.hdr = [x \in DOMAIN h.hdr \cup {h.heapEnd} |->
                       IF x = h.heapEnd
                       THEN [length |-> bytes - HdrSize, next |-> NULL, last |-> h.LastHdr,
                             free |-> TRUE]
                       ELSE IF x = h.LastHdr THEN [h.hdr[x] EXCEPT !.next = h.heapEnd]
                       ELSE h.hdr[x]]]

\* ExpandHeap before it merges: one header more, at the old end.
LEMMA AppendKeepsList ==
  ASSUME NEW h, List(h), NEW bytes \in Nat, bytes >= HdrSize
  PROVE  LET g == Appended(h, bytes)
             new == h.heapEnd
         IN  /\ List(g) /\ DOMAIN g.hdr = DOMAIN h.hdr \cup {new} /\ new \notin DOMAIN h.hdr
             /\ g.LastHdr = new
             /\ \A x \in DOMAIN g.hdr :
                  /\ g.hdr[x].length = IF x = new THEN bytes - HdrSize ELSE h.hdr[x].length
                  /\ g.hdr[x].next = IF x = new THEN NULL
                                     ELSE IF x = h.LastHdr THEN new ELSE h.hdr[x].next
                  /\ g.hdr[x].last = IF x = new THEN h.LastHdr ELSE h.hdr[x].last
                  /\ x # new => g.hdr[x].free = h.hdr[x].free
             /\ g.hdr[new].free
<1> DEFINE g == Appended(h, bytes)
           new == h.heapEnd
           l == h.LastHdr
           D == DOMAIN h.hdr
           back == [length |-> bytes - HdrSize, next |-> NULL, last |-> l, free |-> TRUE]
           Fields(x) ==
             /\ g.hdr[x].length = IF x = new THEN bytes - HdrSize ELSE h.hdr[x].length
             /\ g.hdr[x].next = IF x = new THEN NULL ELSE IF x = l THEN new ELSE h.hdr[x].next
             /\ g.hdr[x].last = IF x = new THEN l ELSE h.hdr[x].last
             /\ x # new => g.hdr[x].free = h.hdr[x].free
             /\ x = new => g.hdr[x].free
<1>1. /\ new \in Nat /\ l \in D /\ h.hdr[l].next = NULL /\ D \subseteq Nat
      /\ bytes - HdrSize \in Nat /\ HeapStart \in D
  BY Sizes DEF List
<1>2. /\ \A x \in D : x \in Nat /\ x < new /\ SegEnd(h, x) \in Nat /\ SegEnd(h, x) <= new
      /\ SegEnd(h, l) = new /\ new # NULL /\ HeapStart <= new
  <2>1. \A x \in D : /\ x \in Nat /\ SegEnd(h, x) \in Nat /\ SegEnd(h, x) > x
                     /\ SegEnd(h, x) <= new
    BY HeaderFacts DEF Linked
  <2>2. SegEnd(h, l) = new
    BY <1>1, HeaderFacts DEF Linked
  <2>3. HeapStart < new
    BY <1>1, <2>1
  <2>4. QED
    BY <1>1, <2>1, <2>2, <2>3, Sizes
<1>3. new \notin D
  BY <1>1, <1>2
<1>4. /\ g \in [hdr : {g.hdr}, LastHdr : {g.LastHdr}, heapEnd : {g.heapEnd}, nullHit : BOOLEAN]
      /\ g.heapEnd = new + bytes /\ g.LastHdr = new
      /\ g.hdr = [x \in D \cup {new} |->
                    IF x = new THEN back
                    ELSE IF x = l THEN [h.hdr[x] EXCEPT !.next = new] ELSE h.hdr[x]]
  BY DEF Appended, List
<1> HIDE DEF g
<1>5. DOMAIN g.hdr = D \cup {new}
  BY <1>4
<1>6. ASSUME NEW x \in D \cup {new}
      PROVE  Fields(x) /\ g.hdr[x] \in Header(D \cup {new})
  <2>1. CASE x = new
    <3>1. g.hdr[x] = back
      BY <1>4, <2>1
    <3>2. QED
      BY <1>1, <2>1, <3>1 DEF Header
  <2>2. CASE x # new
    <3>1. x \in D /\ h.hdr[x] \in Header(D)
      BY <2>2, HeaderFacts
    <3>2. g.hdr[x] = IF x = l THEN [h.hdr[x] EXCEPT !.next = new] ELSE h.hdr[x]
      BY <1>4, <2>2, <3>1
    <3>3. QED
      BY <2>2, <3>1, <3>2 DEF Header
  <2>3. QED
    BY <2>1, <2>2
<1>7. g.hdr \in [DOMAIN g.hdr -> Header(DOMAIN g.hdr)]
  BY <1>4, <1>5, <1>6
<1>8. SegEnd(g, new) = new + bytes /\ \A x \in D : SegEnd(g, x) = SegEnd(h, x)
  <2>1. g.hdr[new].length = bytes - HdrSize
    BY <1>6
  <2>2. \A x \in D : g.hdr[x].length = h.hdr[x].length
    BY <1>3, <1>6
  <2>3. QED
    BY <1>1, <2>1, <2>2, Sizes DEF SegEnd
<1> HIDE DEF new
<1>9. Linked(g, new)
  <2>1. g.hdr[new].last = l /\ g.hdr[l].next = new /\ l # NULL
    BY <1>1, <1>3, <1>6, HeaderFacts
  <2>2. g.hdr[new].next = NULL
    BY <1>6
  <2>3. HeapStart <= new /\ SegEnd(g, new) <= g.heapEnd /\ SegEnd(g, new) = g.heapEnd
    BY <1>1, <1>2, <1>4, <1>8
  <2>4. QED
    BY <1>4, <2>1, <2>2, <2>3 DEF Linked
<1>10. ASSUME NEW x \in D PROVE Linked(g, x)
  <2>1. Linked(h, x) /\ x # new
    BY <1>3, HeaderFacts
  <2>2. HeapStart <= x /\ SegEnd(g, x) <= g.heapEnd
    BY <1>1, <1>2, <1>4, <1>8, <2>1 DEF Linked
  <2>3. g.hdr[x].next # NULL
    BY <1>2, <1>6, <2>1 DEF Linked
  <2>4. g.hdr[x].next = SegEnd(g, x) /\ g.hdr[g.hdr[x].next].last = x
    <3>1. CASE x = l
      BY <1>2, <1>6, <1>8, <2>1, <3>1
    <3>2. CASE x # l
      <4>1. /\ g.hdr[x].next = h.hdr[x].next /\ h.hdr[x].next = SegEnd(h, x)
            /\ h.hdr[h.hdr[x].next].last = x /\ h.hdr[x].next \in D
        BY <1>6, <2>1, <2>3, <3>2, HeaderFacts DEF Linked
      <4>2. h.hdr[x].next # new
        BY <1>3, <4>1
      <4>3. g.hdr[h.hdr[x].next].last = h.hdr[h.hdr[x].next].last
        BY <1>6, <4>1, <4>2
      <4>4. QED
        BY <1>8, <4>1, <4>3
    <3>3. QED
      BY <3>1, <3>2
  <2>5. g.hdr[x].last = NULL => x = HeapStart
    BY <1>6, <2>1 DEF Linked
  <2>6. ASSUME g.hdr[x].last # NULL PROVE g.hdr[g.hdr[x].last].next = x
    <3>1. /\ g.hdr[x].last = h.hdr[x].last /\ h.hdr[h.hdr[x].last].next = x
          /\ h.hdr[x].last \in D
      <4>1. g.hdr[x].last = h.hdr[x].last
        BY <1>6, <2>1
      <4>2. h.hdr[x].last \in D
        BY <2>6, <4>1, HeaderFacts
      <4>3. QED
        BY <2>1, <2>6, <4>1, <4>2 DEF Linked
    <3>2. h.hdr[x].last # l /\ h.hdr[x].last # new
      BY <1>1, <1>3, <3>1, HeaderFacts
    <3>3. QED
      BY <1>6, <3>1, <3>2
  <2>7. QED
    BY <2>2, <2>3, <2>4, <2>5, <2>6 DEF Linked
<1>11. ASSUME NEW x \in D \cup {new}, NEW y \in D \cup {new}, x < y
       PROVE  SegEnd(g, x) <= y
  <2>1. CASE x = new
    <3>1. y = new \/ y < new
      BY <1>2
    <3>2. QED
      BY <1>1, <1>2, <1>11, <2>1, <3>1
  <2>2. CASE x # new
    <3>1. x \in D /\ SegEnd(g, x) = SegEnd(h, x)
      BY <1>8, <2>2
    <3>2. QED
      BY <1>2, <1>11, <3>1, HeaderFacts
  <2>3. QED
    BY <2>1, <2>2
<1>12. g.hdr[new].next = NULL /\ D \cup {new} \subseteq Nat /\ g.heapEnd \in Nat
  BY <1>1, <1>4, <1>6
<1>13. List(g)
  BY <1>1, <1>4, <1>5, <1>7, <1>9, <1>10, <1>11, <1>12 DEF List
<1>14. QED
  BY <1>3, <1>4, <1>5, <1>6, <1>13 DEF g, new

-----------------------------------------------------------------------------
(* What they do to the segments in use, and that free ones are merged.     *)

\* Every segment of h that is in use is one of g, as long as it was.
Kept(h, g) ==
  \A x \in DOMAIN h.hdr :
    ~h.hdr[x].free => /\ x \in DOMAIN g.hdr /\ ~g.hdr[x].free
                      /\ g.hdr[x].length = h.hdr[x].length

\* CombineForward merges what follows a; what is in front of it, at e, may be
\* left to merge.
LEMMA ForwardEffect ==
  ASSUME NEW h, List(h), NEW a \in DOMAIN h.hdr, h.hdr[a].free,
         NEW e \in Nat, e < a,
         \A x \in DOMAIN h.hdr : x # e /\ x # a => Apart(h, x)
  PROVE  LET g == CombineForward(h, a)
         IN  /\ List(g) /\ a \in DOMAIN g.hdr /\ g.hdr[a].free
             /\ g.hdr[a].last = h.hdr[a].last
             /\ Kept(h, g)
             /\ \A x \in DOMAIN g.hdr : x # e => Apart(g, x)
<1> DEFINE g == CombineForward(h, a)
           b == h.hdr[a].next
           c == h.hdr[b].next
<1>1. CASE b = NULL \/ ~h.hdr[b].free
  <2>1. g = h
    BY <1>1 DEF CombineForward
  <2>2. Apart(h, a)
    BY <1>1 DEF Apart
  <2>3. QED
    BY <2>1, <2>2 DEF Kept
<1>2. CASE b # NULL /\ h.hdr[b].free
  <2>1. /\ List(g) /\ DOMAIN g.hdr = DOMAIN h.hdr \ {b}
        /\ \A x \in DOMAIN g.hdr :
             /\ x # a => g.hdr[x].length = h.hdr[x].length
             /\ g.hdr[x].next = IF x = a THEN c ELSE h.hdr[x].next
             /\ g.hdr[x].last = IF x = c THEN a ELSE h.hdr[x].last
             /\ g.hdr[x].free = h.hdr[x].free
    BY <1>2, MergeKeepsList
  <2> HIDE DEF g
  <2>2. b \in DOMAIN h.hdr /\ b > a /\ h.hdr[b].last = a /\ a \in Nat /\ b \in Nat
    BY <1>2, HeaderFacts DEF Linked
  <2>3. c \in DOMAIN h.hdr \/ c = NULL
    BY <2>2, HeaderFacts
  <2>4. c # NULL => c > b /\ c \in Nat
    BY <2>2, <2>3, HeaderFacts
  <2>5. a \in DOMAIN g.hdr /\ a # c /\ a # NULL
    BY <2>1, <2>2, <2>3, <2>4, HeaderFacts
  <2>6. Kept(h, g)
    BY <1>2, <2>1 DEF Kept
  <2>7. ASSUME NEW x \in DOMAIN g.hdr, x # e PROVE Apart(g, x)
    <3>1. CASE x = a
      <4>1. Apart(h, b)
        BY <2>2
      <4>2. c # NULL => ~h.hdr[c].free /\ c \in DOMAIN g.hdr
        BY <1>2, <2>1, <2>2, <2>3, <2>4, <4>1 DEF Apart
      <4>3. QED
        BY <2>1, <3>1, <4>2 DEF Apart
    <3>2. CASE x # a
      <4>1. x \in DOMAIN h.hdr /\ Apart(h, x)
        BY <2>1, <2>7, <3>2
      <4>2. h.hdr[x].next # b
        BY <1>2, <2>2, <3>2, <4>1, HeaderFacts DEF Linked
      <4>3. h.hdr[x].next # NULL => h.hdr[x].next \in DOMAIN g.hdr
        BY <2>1, <4>1, <4>2, HeaderFacts
      <4>4. QED
        BY <2>1, <3>2, <4>1, <4>3 DEF Apart
    <3>3. QED
      BY <3>1, <3>2
  <2>8. QED
    BY <2>1, <2>5, <2>6, <2>7 DEF g
<1>3. QED
  BY <1>1, <1>2

\* CombineBackward merges with what is in front.
LEMMA BackwardEffect ==
  ASSUME NEW h, List(h), NEW a \in DOMAIN h.hdr, h.hdr[a].free,
         \A x \in DOMAIN h.hdr : x # h.hdr[a].last => Apart(h, x)
  PROVE  LET g == CombineBackward(h, a)
         IN  List(g) /\ Kept(h, g) /\ \A x \in DOMAIN g.hdr : Apart(g, x)
<1> DEFINE g == CombineBackward(h, a)
           p == h.hdr[a].last
<1>1. p \in DOMAIN h.hdr \/ p = NULL
  BY HeaderFacts
<1>2. CASE p # NULL /\ h.hdr[p].free
  <2>1. g = CombineForward(h, p)
    BY <1>2 DEF CombineBackward
  <2>2. p \in DOMAIN h.hdr /\ \A x \in DOMAIN h.hdr : x # NULL /\ x # p => Apart(h, x)
    BY <1>1, <1>2
  <2>3. NULL \in Nat /\ NULL < p
    BY <1>2, <2>2, HeaderFacts, Sizes
  <2> HIDE DEF p
  <2>4. List(g) /\ Kept(h, g) /\ \A x \in DOMAIN g.hdr : x # NULL => Apart(g, x)
    BY <1>2, <2>1, <2>2, <2>3, ForwardEffect
  <2> HIDE DEF g
  <2>5. \A x \in DOMAIN g.hdr : x # NULL
    BY <2>4, HeaderFacts
  <2>6. QED
    BY <2>4, <2>5 DEF g
<1>3. CASE ~(p # NULL /\ h.hdr[p].free)
  <2>1. g = h
    BY <1>3 DEF CombineBackward
  <2>2. p # NULL => Apart(h, p)
    BY <1>3 DEF Apart
  <2>3. \A x \in DOMAIN h.hdr : x # NULL
    BY HeaderFacts
  <2>4. QED
    BY <2>1, <2>2, <2>3 DEF Kept
<1>4. QED
  BY <1>2, <1>3

\* free.
LEMMA FreeEffect ==
  ASSUME NEW h, List(h), \A x \in DOMAIN h.hdr : Apart(h, x), NEW a \in DOMAIN h.hdr
  PROVE  LET g == CombineBackward(CombineForward([h EXCEPT !.hdr[a].free = TRUE], a), a)
         IN  /\ List(g) /\ \A x \in DOMAIN g.hdr : Apart(g, x)
             /\ \A x \in DOMAIN h.hdr :
                  x # a /\ ~h.hdr[x].free => /\ x \in DOMAIN g.hdr /\ ~g.hdr[x].free
                                             /\ g.hdr[x].length = h.hdr[x].length
<1> DEFINE m == [h EXCEPT !.hdr[a].free = TRUE]
           f == CombineForward(m, a)
           g == CombineBackward(f, a)
           p == h.hdr[a].last
<1>1. /\ List(m) /\ DOMAIN m.hdr = DOMAIN h.hdr
      /\ \A x \in DOMAIN h.hdr :
           /\ m.hdr[x].length = h.hdr[x].length /\ m.hdr[x].next = h.hdr[x].next
           /\ m.hdr[x].last = h.hdr[x].last
           /\ x # a => m.hdr[x].free = h.hdr[x].free
      /\ m.hdr[a].free
  <2>1. TRUE \in BOOLEAN /\ m = [h EXCEPT !.hdr[a].free = TRUE]
    OBVIOUS
  <2> HIDE DEF m
  <2>2. /\ List(m) /\ OnlyMarked(h, m, a)
        /\ m.hdr[a].free = TRUE
    BY <2>1, MarkKeepsList
  <2>3. QED
    BY <2>2 DEF OnlyMarked
<1> HIDE DEF m
<1>2. p \in Nat /\ p < a
  <2>1. a \in Nat /\ a > 0 /\ (p \in DOMAIN h.hdr \/ p = NULL)
    BY HeaderFacts
  <2>2. p # NULL => h.hdr[p].next = a
    BY HeaderFacts DEF Linked
  <2>3. p # NULL => a > p /\ p \in Nat
    BY <2>1, <2>2, HeaderFacts
  <2>4. QED
    BY <2>1, <2>3, Sizes
<1>3. ASSUME NEW x \in DOMAIN m.hdr, x # p, x # a PROVE Apart(m, x)
  <2>1. Apart(h, x) /\ x \in DOMAIN h.hdr
    BY <1>1
  <2>2. h.hdr[x].next # a
    BY <1>3, <2>1, HeaderFacts DEF Linked
  <2>3. h.hdr[x].next # NULL => h.hdr[x].next \in DOMAIN h.hdr
    BY <2>1, HeaderFacts
  <2>4. QED
    BY <1>1, <1>3, <2>1, <2>2, <2>3 DEF Apart
<1>4. /\ List(f) /\ a \in DOMAIN f.hdr /\ f.hdr[a].free /\ f.hdr[a].last = p
      /\ Kept(m, f)
      /\ \A x \in DOMAIN f.hdr : x # p => Apart(f, x)
  <2>1. a \in DOMAIN m.hdr /\ m.hdr[a].free /\ m.hdr[a].last = p
    BY <1>1
  <2> HIDE DEF p
  <2>2. QED
    BY <1>1, <1>2, <1>3, <2>1, ForwardEffect
<1> HIDE DEF f
<1>5. List(g) /\ Kept(f, g) /\ \A x \in DOMAIN g.hdr : Apart(g, x)
  BY <1>4, BackwardEffect
<1> HIDE DEF g
<1>6. ASSUME NEW x \in DOMAIN h.hdr, x # a, ~h.hdr[x].free
      PROVE  /\ x \in DOMAIN g.hdr /\ ~g.hdr[x].free /\ g.hdr[x].length = h.hdr[x].length
  <2>1. x \in DOMAIN f.hdr /\ ~f.hdr[x].free /\ f.hdr[x].length = h.hdr[x].length
    BY <1>1, <1>4, <1>6 DEF Kept
  <2>2. QED
    BY <1>5, <2>1 DEF Kept
<1>7. QED
  BY <1>5, <1>6 DEF g, f, m

\* ExpandHeap: the last segment is free, and as long as the pages it got, but
\* for a header if it is a new one.
LEMMA ExpandEffect ==
  ASSUME NEW h, List(h), \A x \in DOMAIN h.hdr : Apart(h, x), NEW n \in Nat, n > 0
  PROVE  LET g == ExpandHeap(h, n)
             bytes == RoundUp(n, PageSize)
         IN  /\ List(g) /\ (\A x \in DOMAIN g.hdr : Apart(g, x)) /\ Kept(h, g)
             /\ g.hdr[g.LastHdr].free
             /\ g.hdr[g.LastHdr].length = IF h.hdr[h.LastHdr].free
                                          THEN h.hdr[h.LastHdr].length + bytes
                                          ELSE bytes - HdrSize
<1> DEFINE bytes == RoundUp(n, PageSize)
           new == h.heapEnd
           l == h.LastHdr
           m == Appended(h, bytes)
           g == CombineBackward(m, new)
<1>1. bytes \in Nat /\ bytes >= HdrSize
  <2>1. PageSize \in Nat \ {0} /\ PageSize \in Nat /\ HdrSize \in Nat /\ PageSize > HdrSize
    BY Sizes
  <2>2. bytes \in Nat /\ bytes >= PageSize
    BY <2>1, Rounding
  <2> HIDE DEF bytes
  <2>3. QED
    BY <2>1, <2>2
<1>2. ExpandHeap(h, n) = g
  BY DEF ExpandHeap, Appended
<1> HIDE DEF bytes
<1>3. /\ List(m) /\ DOMAIN m.hdr = DOMAIN h.hdr \cup {new} /\ new \notin DOMAIN h.hdr
      /\ m.LastHdr = new
      /\ \A x \in DOMAIN m.hdr :
           /\ m.hdr[x].length = IF x = new THEN bytes - HdrSize ELSE h.hdr[x].length
           /\ m.hdr[x].next = IF x = new THEN NULL ELSE IF x = l THEN new ELSE h.hdr[x].next
           /\ m.hdr[x].last = IF x = new THEN l ELSE h.hdr[x].last
           /\ x # new => m.hdr[x].free = h.hdr[x].free
      /\ m.hdr[new].free
  BY <1>1, AppendKeepsList
<1> HIDE DEF m
<1>4. l \in DOMAIN h.hdr /\ l # new /\ l # NULL
  BY <1>3, HeaderFacts DEF List
<1>5. Kept(h, m)
  BY <1>3 DEF Kept
<1>6. ASSUME NEW x \in DOMAIN m.hdr, x # l PROVE Apart(m, x)
  <2>1. CASE x = new
    BY <1>3, <2>1 DEF Apart
  <2>2. CASE x # new
    <3>1. x \in DOMAIN h.hdr /\ Apart(h, x)
      BY <1>3, <2>2
    <3>2. /\ h.hdr[x].next # NULL => h.hdr[x].next \in DOMAIN h.hdr /\ h.hdr[x].next # new
          /\ m.hdr[x].next = h.hdr[x].next /\ m.hdr[x].free = h.hdr[x].free
      BY <1>3, <1>6, <2>2, <3>1, HeaderFacts
    <3>3. h.hdr[x].next # NULL => m.hdr[h.hdr[x].next].free = h.hdr[h.hdr[x].next].free
      BY <1>3, <3>2
    <3>4. QED
      BY <3>1, <3>2, <3>3 DEF Apart
  <2>3. QED
    BY <2>1, <2>2
<1>7. new \in DOMAIN m.hdr /\ m.hdr[new].free /\ m.hdr[new].last = l
  BY <1>3
<1>8. List(g) /\ Kept(m, g) /\ \A x \in DOMAIN g.hdr : Apart(g, x)
  <2> HIDE DEF l, new
  <2>1. QED
    BY <1>3, <1>6, <1>7, BackwardEffect
<1>9. Kept(h, g)
  BY <1>5, <1>8 DEF Kept
<1>10. /\ g.hdr[g.LastHdr].free
       /\ g.hdr[g.LastHdr].length = IF h.hdr[l].free THEN h.hdr[l].length + bytes ELSE bytes - HdrSize
  <2>1. CASE h.hdr[l].free
    <3>1. l \in DOMAIN m.hdr /\ m.hdr[l].free /\ m.hdr[l].next = new /\ new # NULL
      BY <1>3, <1>4, <1>7, <2>1, HeaderFacts
    <3>2. g = CombineForward(m, l)
      BY <1>4, <1>7, <3>1 DEF CombineBackward
    <3> HIDE DEF g
    <3>3. /\ DOMAIN g.hdr = DOMAIN m.hdr \ {new} /\ g.LastHdr = l
          /\ g.hdr[l].length = m.hdr[l].length + m.hdr[new].length + HdrSize
          /\ g.hdr[l].free = m.hdr[l].free
      <4>1. l \in DOMAIN m.hdr \ {new}
        BY <1>4, <3>1
      <4>2. m.hdr[l].next # NULL /\ m.hdr[m.hdr[l].next].free /\ l \in DOMAIN m.hdr
        BY <1>7, <3>1
      <4> HIDE DEF new, l
      <4>3. /\ DOMAIN g.hdr = DOMAIN m.hdr \ {new}
            /\ g.LastHdr = IF new = m.LastHdr THEN l ELSE m.LastHdr
            /\ \A x \in DOMAIN g.hdr :
                 /\ g.hdr[x].length = IF x = l THEN m.hdr[l].length + m.hdr[new].length + HdrSize
                                               ELSE m.hdr[x].length
                 /\ g.hdr[x].free = m.hdr[x].free
        BY <1>3, <3>1, <3>2, <4>2, MergeKeepsList
      <4>4. QED
        BY <1>3, <4>1, <4>3
    <3>4. m.hdr[l].length = h.hdr[l].length /\ m.hdr[new].length = bytes - HdrSize
      BY <1>3, <1>4, <3>1
    <3>5. h.hdr[l].length \in Nat
      BY <1>4, HeaderFacts
    <3>6. QED
      BY <1>1, <2>1, <3>1, <3>3, <3>4, <3>5, Sizes
  <2>2. CASE ~h.hdr[l].free
    <3>1. m.hdr[l].free = h.hdr[l].free
      BY <1>3, <1>4
    <3>2. g = m
      BY <1>7, <2>2, <3>1 DEF CombineBackward
    <3>3. QED
      BY <1>3, <1>7, <2>2, <3>2
  <2>3. QED
    BY <2>1, <2>2
<1>11. QED
  BY <1>2, <1>8, <1>9, <1>10 DEF bytes

\* malloc takes a free segment, and cuts it if it can.
LEMMA TakeEffect ==
  ASSUME NEW h, List(h), \A x \in DOMAIN h.hdr : Apart(h, x),
         NEW a \in DOMAIN h.hdr, h.hdr[a].free,
         NEW n \in Nat, n > 0, h.hdr[a].length >= n
  PROVE  LET cut == IF h.hdr[a].length > n THEN Split(h, a, n) ELSE h
             g == [cut EXCEPT !.hdr[a].free = FALSE]
         IN  /\ List(g) /\ (\A x \in DOMAIN g.hdr : Apart(g, x)) /\ Kept(h, g)
             /\ a \in DOMAIN g.hdr /\ ~g.hdr[a].free
             /\ g.hdr[a].length \in Nat /\ g.hdr[a].length >= n
             /\ g.hdr[a].length <= h.hdr[a].length
<1> DEFINE cut == IF h.hdr[a].length > n THEN Split(h, a, n) ELSE h
           g == [cut EXCEPT !.hdr[a].free = FALSE]
           rest == h.hdr[a].length - n - HdrSize
           new == a + n + HdrSize
<1>1. h.hdr[a].length \in Nat /\ a \in Nat
  BY HeaderFacts
<1>2. /\ List(cut) /\ a \in DOMAIN cut.hdr
      /\ cut.hdr[a].length \in Nat /\ cut.hdr[a].length >= n
      /\ cut.hdr[a].length <= h.hdr[a].length
      /\ \A x \in DOMAIN cut.hdr : x # a => Apart(cut, x)
      /\ \A x \in DOMAIN h.hdr : /\ x \in DOMAIN cut.hdr /\ cut.hdr[x].free = h.hdr[x].free
                                 /\ x # a => cut.hdr[x].length = h.hdr[x].length
  <2>1. CASE h.hdr[a].length > n /\ n >= Align /\ rest >= Align
    <3>1. rest \in Nat /\ h.hdr[a].length = n + HdrSize + rest
      BY <1>1, <2>1, Sizes
    <3>2. cut = Split(h, a, n)
      BY <2>1
    <3> HIDE DEF cut, rest
    <3>3. /\ List(cut) /\ DOMAIN cut.hdr = DOMAIN h.hdr \cup {new} /\ new \notin DOMAIN h.hdr
          /\ \A x \in DOMAIN cut.hdr :
               /\ cut.hdr[x].length = IF x = new THEN rest ELSE IF x = a THEN n ELSE h.hdr[x].length
               /\ cut.hdr[x].next = IF x = new THEN h.hdr[a].next
                                    ELSE IF x = a THEN new ELSE h.hdr[x].next
               /\ x # new => cut.hdr[x].free = h.hdr[x].free
          /\ cut.hdr[new].free = h.hdr[a].free
      <4>1. new = a + n + HdrSize
        OBVIOUS
      <4> HIDE DEF new
      <4>2. /\ List(cut) /\ new \notin DOMAIN h.hdr
            /\ OnlySplit(h, cut, a, new, n, rest) /\ cut.hdr[new].free = h.hdr[a].free
        BY <2>1, <3>1, <3>2, <4>1, SplitKeepsList
      <4>3. QED
        BY <4>2 DEF OnlySplit
    <3> HIDE DEF new
    <3>4. ASSUME NEW x \in DOMAIN cut.hdr, x # a PROVE Apart(cut, x)
      <4> DEFINE y == IF x = new THEN a ELSE x
      <4>1. y \in DOMAIN h.hdr /\ Apart(h, y)
        <5>1. x \in DOMAIN h.hdr \cup {new}
          BY <3>3
        <5>2. QED
          BY <5>1
      <4>2. cut.hdr[x].next = h.hdr[y].next /\ cut.hdr[x].free = h.hdr[y].free
        BY <3>3, <3>4
      <4>3. h.hdr[y].next # NULL => h.hdr[y].next \in DOMAIN h.hdr
        BY <4>1, HeaderFacts
      <4> HIDE DEF y
      <4>4. h.hdr[y].next # NULL =>
              cut.hdr[h.hdr[y].next].free = h.hdr[h.hdr[y].next].free
        BY <3>3, <4>3
      <4>5. QED
        BY <4>1, <4>2, <4>4 DEF Apart
    <3>5. a # new /\ cut.hdr[a].length = n
      BY <3>3
    <3>6. QED
      BY <1>1, <3>3, <3>4, <3>5
  <2>2. CASE ~(h.hdr[a].length > n /\ n >= Align /\ rest >= Align)
    <3>1. h.hdr[a].length > n => Split(h, a, n) = h
      <4>1. SUFFICES ASSUME h.hdr[a].length > n PROVE Split(h, a, n) = h
        OBVIOUS
      <4>2. n < Align \/ rest < Align
        BY <1>1, <2>2, <4>1, Sizes
      <4>3. QED
        BY <4>2 DEF Split
    <3>2. cut = h
      BY <3>1
    <3> HIDE DEF cut
    <3>3. QED
      BY <1>1, <3>2
  <2>3. QED
    BY <2>1, <2>2
<1> HIDE DEF cut
<1>3. /\ List(g) /\ DOMAIN g.hdr = DOMAIN cut.hdr
      /\ \A x \in DOMAIN cut.hdr :
           /\ g.hdr[x].length = cut.hdr[x].length /\ g.hdr[x].next = cut.hdr[x].next
           /\ x # a => g.hdr[x].free = cut.hdr[x].free
      /\ ~g.hdr[a].free
  <2>1. FALSE \in BOOLEAN /\ g = [cut EXCEPT !.hdr[a].free = FALSE]
    OBVIOUS
  <2>2. List(cut) /\ a \in DOMAIN cut.hdr
    BY <1>2
  <2> HIDE DEF g
  <2>3. /\ List(g) /\ OnlyMarked(cut, g, a)
        /\ g.hdr[a].free = FALSE
    BY <2>2, <2>1, MarkKeepsList
  <2>4. QED
    BY <2>3 DEF OnlyMarked
<1> HIDE DEF g
<1>4. ASSUME NEW x \in DOMAIN g.hdr PROVE Apart(g, x)
  <2>1. CASE x = a
    <3>1. g.hdr[a].free = FALSE
      BY <1>2, <1>3
    <3>2. QED
      BY <2>1, <3>1 DEF Apart
  <2>2. CASE x # a
    <3>1. Apart(cut, x) /\ x \in DOMAIN cut.hdr
      BY <1>2, <1>3, <2>2
    <3>2. cut.hdr[x].next # NULL => cut.hdr[x].next \in DOMAIN cut.hdr
      BY <1>2, <3>1, HeaderFacts
    <3>3. QED
      BY <1>3, <2>2, <3>1, <3>2 DEF Apart
  <2>4. QED
    BY <2>1, <2>2
<1>5. Kept(h, g)
  BY <1>2, <1>3 DEF Kept
<1>6. a \in DOMAIN g.hdr /\ ~g.hdr[a].free /\ g.hdr[a].length = cut.hdr[a].length
  BY <1>2, <1>3
<1>7. QED
  BY <1>2, <1>3, <1>4, <1>5, <1>6 DEF g, cut

-----------------------------------------------------------------------------
(* The invariant.                                                          *)

\* What the tail has become after so many calls of ExpandHeap.
TailFits == heap.hdr[heap.LastHdr].free /\ heap.hdr[heap.LastHdr].length >= size

Grown ==
  /\ expansions \in 0 .. 2
  /\ pc \in {"walk", "expand"} /\ expansions = 1 =>
       /\ heap.hdr[heap.LastHdr].free
       /\ heap.hdr[heap.LastHdr].length >= RoundUp(size, PageSize) - HdrSize
  /\ pc \in {"walk", "expand"} /\ expansions = 2 => TailFits
  /\ pc = "expand" => ~TailFits

\* A block in use is a segment in use.
Blocks ==
  \A b \in DOMAIN given :
    b \in Nat /\ b - HdrSize \in Segs /\ ~heap.hdr[b - HdrSize].free

IInv ==
  /\ List(heap)
  /\ \A a \in Segs : Apart(heap, a)
  /\ Blocks
  /\ frames \in 0 .. MaxFrames
  /\ pc \in {"idle", "walk", "expand", "aliased"}
  /\ pc = "idle" => currentSeg = NULL
  /\ pc # "idle" => currentSeg \in Segs /\ size \in Nat /\ size > 0
  /\ Grown

\* The invariant gives those the run checks.
LEMMA InvariantImplies ==
  ASSUME IInv
  PROVE  SegmentsTileTheHeap /\ FreeSegmentsAreMerged /\ TwoExpansionsAreEnough
<1>1. List(heap)
  BY DEF IInv
<1>2. TypeOK
  <2>1. heap.hdr \in [Segs -> [length : Nat, next : Segs \cup {NULL},
                               last : Segs \cup {NULL}, free : BOOLEAN]]
    BY <1>1 DEF List, Header, Segs
  <2>2. \A a \in Segs : a \in HeapStart .. heap.heapEnd /\ a # NULL
    BY <1>1, HeaderFacts, Sizes DEF Linked, Segs, List
  <2>3. heap.LastHdr \in Segs /\ currentSeg \in Segs \cup {NULL}
    BY <1>1 DEF List, Segs, IInv
  <2>4. ASSUME NEW b \in DOMAIN given PROVE b \in HeapStart .. heap.heapEnd
    <3>1. b \in Nat /\ b - HdrSize \in Segs
      BY DEF IInv, Blocks
    <3>2. /\ HeapStart <= b - HdrSize /\ SegEnd(heap, b - HdrSize) <= heap.heapEnd
          /\ heap.hdr[b - HdrSize].length \in Nat
      BY <1>1, <3>1, HeaderFacts DEF Linked, Segs
    <3>3. heap.heapEnd \in Nat
      BY <1>1 DEF List
    <3>4. QED
      BY <3>1, <3>2, <3>3, Sizes DEF SegEnd
  <2>5. QED
    BY <2>1, <2>2, <2>3, <2>4 DEF TypeOK, Addresses, IInv
<1>3. ASSUME NEW a \in Segs
      PROVE  /\ IF heap.hdr[a].next = NULL
                THEN a = heap.LastHdr /\ EndOf(a) = heap.heapEnd
                ELSE heap.hdr[a].next = EndOf(a) /\ heap.hdr[EndOf(a)].last = a
             /\ heap.hdr[a].last = NULL => a = HeapStart
  <2>1. Linked(heap, a)
    BY <1>1 DEF List, Segs
  <2>2. QED
    BY <2>1 DEF Linked, EndOf, SegEnd
<1>4. SegmentsTileTheHeap
  BY <1>2, <1>3 DEF SegmentsTileTheHeap
<1>5. FreeSegmentsAreMerged
  BY DEF IInv, FreeSegmentsAreMerged, Apart
<1>6. QED
  BY <1>4, <1>5 DEF IInv, Grown, TwoExpansionsAreEnough

\* InitializeHeap.
LEMMA InitEstablishes == Init => IInv
<1>1. SUFFICES ASSUME Init PROVE IInv
  OBVIOUS
<1> DEFINE bytes == InitialPages * PageSize
           header == [length |-> bytes - HdrSize, next |-> NULL, last |-> NULL, free |-> TRUE]
<1>2. bytes \in Nat /\ bytes >= PageSize /\ bytes - HdrSize \in Nat
  <2>1. bytes = PageSize + (InitialPages - 1) * PageSize
    BY Sizes
  <2>2. InitialPages - 1 \in Nat /\ (InitialPages - 1) * PageSize \in Nat
    BY Sizes
  <2> HIDE DEF bytes
  <2>3. QED
    BY <2>1, <2>2, Sizes
<1>3. /\ heap \in [hdr : {heap.hdr}, LastHdr : {heap.LastHdr}, heapEnd : {heap.heapEnd},
                   nullHit : BOOLEAN]
      /\ heap.hdr = [a \in {HeapStart} |-> header]
      /\ heap.LastHdr = HeapStart /\ heap.heapEnd = HeapStart + bytes
  BY <1>1 DEF Init, InitializeHeap
<1> HIDE DEF bytes
<1>4. Segs = {HeapStart} /\ heap.hdr[HeapStart] = header
  BY <1>3 DEF Segs
<1>5. SegEnd(heap, HeapStart) = heap.heapEnd /\ heap.heapEnd \in Nat
  BY <1>2, <1>3, <1>4, Sizes DEF SegEnd
<1>6. header \in Header({HeapStart})
  BY <1>2 DEF Header
<1>7. Linked(heap, HeapStart) /\ Apart(heap, HeapStart)
  BY <1>3, <1>4, <1>5, Sizes DEF Linked, Apart
<1>8. List(heap)
  <2>1. heap.hdr \in [{HeapStart} -> Header({HeapStart})] /\ DOMAIN heap.hdr = {HeapStart}
    BY <1>3, <1>6
  <2>2. HeapStart \in Nat /\ ~(HeapStart < HeapStart)
    BY Sizes
  <2>3. QED
    BY <1>3, <1>4, <1>5, <1>7, <2>1, <2>2 DEF List
<1>9. frames \in 0 .. MaxFrames
  BY <1>1, Sizes DEF Init
<1>10. pc = "idle" /\ currentSeg = NULL /\ expansions = 0 /\ DOMAIN given = {}
  BY <1>1 DEF Init
<1>11. QED
  BY <1>4, <1>7, <1>8, <1>9, <1>10 DEF IInv, Blocks, Grown

\* malloc begins to walk.
LEMMA CallPreserves ==
  ASSUME IInv, CallMalloc
  PROVE  IInv'
<1>1. PICK n \in Requests :
        /\ RoundUp(n, Align) # 0 /\ size' = RoundUp(n, Align)
        /\ pc' = "walk" /\ currentSeg' = HeapStart /\ expansions' = 0
        /\ UNCHANGED <<heap, frames, pageZero, given>>
  BY DEF CallMalloc
<1>2. size' \in Nat /\ size' > 0
  <2>1. n \in Nat /\ Align \in Nat \ {0}
    BY HeapAssumption
  <2>2. RoundUp(n, Align) \in Nat
    BY <2>1, Rounding
  <2>3. QED
    BY <1>1, <2>2
<1>3. HeapStart \in Segs
  BY DEF IInv, List, Segs
<1>4. QED
  BY <1>1, <1>2, <1>3 DEF IInv, Blocks, Grown, Segs

\* The new block, and the others.
LEMMA TakePreserves ==
  ASSUME IInv, Take
  PROVE  IInv'
<1>1. /\ pc = "walk" /\ List(heap) /\ currentSeg \in Segs /\ size \in Nat /\ size > 0
      /\ heap.hdr[currentSeg].free /\ heap.hdr[currentSeg].length >= size
      /\ \A x \in DOMAIN heap.hdr : Apart(heap, x)
  BY DEF Take, Fits, IInv, Segs
<1>2. /\ List(heap') /\ (\A x \in DOMAIN heap'.hdr : Apart(heap', x)) /\ Kept(heap, heap')
      /\ currentSeg \in DOMAIN heap'.hdr /\ ~heap'.hdr[currentSeg].free
  BY <1>1, TakeEffect DEF Take, Segs
<1>3. /\ DOMAIN given' = DOMAIN given \cup {currentSeg + HdrSize}
      /\ pc' = "idle" /\ currentSeg' = NULL /\ expansions' = 0 /\ UNCHANGED frames
  BY DEF Take
<1>4. Blocks'
  <2>1. ASSUME NEW b \in DOMAIN given'
        PROVE  b \in Nat /\ b - HdrSize \in DOMAIN heap'.hdr /\ ~heap'.hdr[b - HdrSize].free
    <3>1. CASE b \in DOMAIN given
      BY <1>2, <3>1 DEF IInv, Blocks, Kept, Segs
    <3>2. CASE b = currentSeg + HdrSize
      <4>1. currentSeg \in Nat
        BY <1>1, HeaderFacts DEF Segs
      <4>2. b \in Nat /\ b - HdrSize = currentSeg
        BY <3>2, <4>1, Sizes
      <4>3. QED
        BY <1>2, <4>2
    <3>3. QED
      BY <1>3, <2>1, <3>1, <3>2
  <2>2. QED
    BY <2>1 DEF Blocks, Segs
<1>5. Grown'
  BY <1>3 DEF Grown
<1>6. QED
  BY <1>2, <1>3, <1>4, <1>5 DEF IInv, Segs

\* malloc gets to the end of the list only if the tail does not fit.
LEMMA WalkPreserves ==
  ASSUME IInv, Walk
  PROVE  IInv'
<1>1. /\ pc = "walk" /\ currentSeg \in Segs /\ ~Fits /\ List(heap)
      /\ UNCHANGED <<heap, frames, pageZero, size, expansions, given>>
  BY DEF Walk, IInv
<1>2. CASE heap.hdr[currentSeg].next = NULL
  <2>1. pc' = "expand" /\ UNCHANGED currentSeg
    BY <1>2 DEF Walk
  <2>2. currentSeg = heap.LastHdr
    BY <1>1, <1>2 DEF List, Linked, Segs
  <2>3. ~TailFits
    BY <1>1, <2>2 DEF Fits, TailFits
  <2>4. Grown'
    BY <1>1, <2>1, <2>3 DEF IInv, Grown, TailFits
  <2>5. QED
    BY <1>1, <2>1, <2>4 DEF IInv, Blocks, Segs
<1>3. CASE heap.hdr[currentSeg].next # NULL
  <2>1. pc' = "walk" /\ currentSeg' = heap.hdr[currentSeg].next
    BY <1>1, <1>3 DEF Walk
  <2>2. currentSeg' \in Segs
    BY <1>1, <1>3, <2>1, HeaderFacts DEF Segs
  <2>3. Grown'
    BY <1>1, <2>1 DEF IInv, Grown, TailFits
  <2>4. QED
    BY <1>1, <2>1, <2>2, <2>3 DEF IInv, Blocks, Segs
<1>4. QED
  BY <1>2, <1>3

\* The first ExpandHeap leaves a free tail that may be a header too short, the
\* second one that is long enough.
LEMMA ExpandPreserves ==
  ASSUME IInv, Expand
  PROVE  IInv'
<1> DEFINE bytes == RoundUp(size, PageSize)
<1>1. /\ pc = "expand" /\ List(heap) /\ size \in Nat /\ size > 0
      /\ \A x \in DOMAIN heap.hdr : Apart(heap, x)
      /\ heap' = ExpandHeap(heap, size)
      /\ expansions' = expansions + 1 /\ currentSeg' = HeapStart /\ pc' = "walk"
      /\ UNCHANGED <<pageZero, size, given>>
  BY DEF Expand, IInv, Segs
<1>2. /\ List(heap') /\ (\A x \in DOMAIN heap'.hdr : Apart(heap', x)) /\ Kept(heap, heap')
      /\ heap'.hdr[heap'.LastHdr].free
      /\ heap'.hdr[heap'.LastHdr].length = IF heap.hdr[heap.LastHdr].free
                                           THEN heap.hdr[heap.LastHdr].length + bytes
                                           ELSE bytes - HdrSize
  BY <1>1, ExpandEffect
<1>3. bytes \in Nat /\ bytes >= size /\ bytes >= PageSize
  <2>1. PageSize \in Nat \ {0}
    BY Sizes
  <2>2. QED
    BY <1>1, <2>1, Rounding
<1>4. frames' \in 0 .. MaxFrames
  <2>1. frames' = frames - PagesFor(size) /\ PagesFor(size) <= frames /\ frames \in 0 .. MaxFrames
    BY DEF Expand, IInv
  <2>2. PagesFor(size) \in Nat
    <3>1. PageSize \in Nat \ {0}
      BY Sizes
    <3> HIDE DEF bytes
    <3>2. bytes \div PageSize \in Nat
      BY <1>3, <3>1
    <3>3. QED
      BY <3>2 DEF PagesFor, bytes
  <2>3. QED
    BY <2>1, <2>2, Sizes
<1>5. heap.hdr[heap.LastHdr].length \in Nat
  BY <1>1, HeaderFacts DEF List
<1> HIDE DEF bytes
<1>6. expansions \in {0, 1}
  BY <1>1 DEF IInv, Grown
<1>7. heap'.hdr[heap'.LastHdr].length >= bytes - HdrSize
  BY <1>2, <1>3, <1>5, Sizes
<1>8. expansions = 1 => heap'.hdr[heap'.LastHdr].length >= size
  <2>1. SUFFICES ASSUME expansions = 1 PROVE heap'.hdr[heap'.LastHdr].length >= size
    OBVIOUS
  <2>2. /\ heap.hdr[heap.LastHdr].free
        /\ heap.hdr[heap.LastHdr].length >= bytes - HdrSize
    BY <1>1, <2>1 DEF IInv, Grown, bytes
  <2>3. heap'.hdr[heap'.LastHdr].length = heap.hdr[heap.LastHdr].length + bytes
    BY <1>2, <2>2
  <2>4. QED
    BY <1>1, <1>3, <1>5, <2>2, <2>3, Sizes
<1>9. Grown'
  <2>1. RoundUp(size, PageSize)' = bytes
    BY <1>1 DEF bytes
  <2>2. QED
    BY <1>1, <1>2, <1>6, <1>7, <1>8, <2>1 DEF Grown, TailFits
<1>10. Blocks'
  BY <1>1, <1>2 DEF IInv, Blocks, Kept, Segs
<1>11. HeapStart \in DOMAIN heap'.hdr
  BY <1>2 DEF List
<1>12. QED
  BY <1>1, <1>2, <1>4, <1>9, <1>10, <1>11 DEF IInv, Segs

\* A block that is freed, and the others.
LEMMA FreePreserves ==
  ASSUME IInv, Free
  PROVE  IInv'
<1>1. PICK a \in DOMAIN given :
        /\ pc = "idle"
        /\ heap' = CombineBackward(
             CombineForward([heap EXCEPT !.hdr[a - HdrSize].free = TRUE], a - HdrSize), a - HdrSize)
        /\ given' = [b \in DOMAIN given \ {a} |-> given[b]]
        /\ UNCHANGED <<frames, pageZero, pc, currentSeg, size, expansions>>
  BY DEF Free
<1> DEFINE s == a - HdrSize
<1>2. /\ List(heap) /\ a \in Nat /\ s \in DOMAIN heap.hdr
      /\ \A x \in DOMAIN heap.hdr : Apart(heap, x)
  BY DEF IInv, Blocks, Segs
<1>3. /\ List(heap') /\ \A x \in DOMAIN heap'.hdr : Apart(heap', x)
      /\ \A x \in DOMAIN heap.hdr :
           x # s /\ ~heap.hdr[x].free => /\ x \in DOMAIN heap'.hdr /\ ~heap'.hdr[x].free
                                         /\ heap'.hdr[x].length = heap.hdr[x].length
  <2> HIDE DEF s
  <2>1. heap' = CombineBackward(CombineForward([heap EXCEPT !.hdr[s].free = TRUE], s), s)
    BY <1>1 DEF s
  <2>2. QED
    BY <1>2, <2>1, FreeEffect
<1>4. ASSUME NEW b \in DOMAIN given'
      PROVE  b \in Nat /\ b - HdrSize \in DOMAIN heap'.hdr /\ ~heap'.hdr[b - HdrSize].free
  <2>1. b \in DOMAIN given /\ b # a
    BY <1>1
  <2>2. b \in Nat /\ b - HdrSize \in DOMAIN heap.hdr /\ ~heap.hdr[b - HdrSize].free
    BY <2>1 DEF IInv, Blocks, Segs
  <2>3. b - HdrSize # s
    BY <1>2, <2>1, <2>2, Sizes
  <2>4. QED
    BY <1>3, <2>2, <2>3
<1>5. Blocks'
  BY <1>4 DEF Blocks, Segs
<1>6. Grown'
  BY <1>1 DEF IInv, Grown
<1>7. QED
  BY <1>1, <1>3, <1>5, <1>6 DEF IInv, Segs

\* The state in which page 0 is mapped into the heap.
LEMMA AliasedPreserves ==
  ASSUME IInv, ExpandWithoutFrames
  PROVE  IInv'
<1>1. /\ pc = "expand" /\ pc' = "aliased" /\ frames' = 0
      /\ UNCHANGED <<heap, currentSeg, size, expansions, given>>
  BY DEF ExpandWithoutFrames
<1>2. frames' \in 0 .. MaxFrames
  BY <1>1, Sizes
<1>3. Grown'
  BY <1>1 DEF IInv, Grown
<1>4. QED
  BY <1>1, <1>2, <1>3 DEF IInv, Blocks, Segs

\* Every step keeps the invariant.
LEMMA NextPreserves == IInv /\ [Next]_vars => IInv'
<1>1. SUFFICES ASSUME IInv, [Next]_vars PROVE IInv'
  OBVIOUS
<1>2. CASE CallMalloc
  BY <1>1, <1>2, CallPreserves
<1>3. CASE Take
  BY <1>1, <1>3, TakePreserves
<1>4. CASE Walk
  BY <1>1, <1>4, WalkPreserves
<1>5. CASE Expand
  BY <1>1, <1>5, ExpandPreserves
<1>6. CASE ExpandWithoutFrames
  BY <1>1, <1>6, AliasedPreserves
<1>7. CASE Free
  BY <1>1, <1>7, FreePreserves
<1>8. CASE UNCHANGED vars
  BY <1>1, <1>8 DEF vars, IInv, Blocks, Grown, TailFits, Segs
<1>9. QED
  BY <1>1, <1>2, <1>3, <1>4, <1>5, <1>6, <1>7, <1>8 DEF Next

\* The invariant holds in every state.
LEMMA Invariance == Spec => []IInv
BY InitEstablishes, NextPreserves, PTL DEF Spec

\* The segments tile the heap, and every pointer of a header is right, after
\* any sequence of malloc and free.
THEOREM TilesTheHeap == Spec => []SegmentsTileTheHeap
BY Invariance, InvariantImplies, PTL

\* No two free segments lie next to each other.
THEOREM MergesFreeSegments == Spec => []FreeSegmentsAreMerged
BY Invariance, InvariantImplies, PTL

\* malloc calls itself at most twice, whatever the sizes of pages and headers.
THEOREM NeedsTwoExpansions == Spec => []TwoExpansionsAreEnough
BY Invariance, InvariantImplies, PTL

-----------------------------------------------------------------------------
(* The heap implements BlockStore.                                         *)

\* What the refinement needs of the size malloc looks for: rounding never
\* made it less than the request.
Asked ==
  /\ pc = "idle" => request = 0
  /\ pc # "idle" => request \in Nat /\ request # 0 /\ size \in Nat /\ size >= request

LEMMA AskedInvariance == Spec => []Asked
<1>1. Init => Asked
  BY DEF Init, Asked
<1>2. Asked /\ [Next]_vars => Asked'
  <2>1. SUFFICES ASSUME Asked, [Next]_vars PROVE Asked'
    OBVIOUS
  <2>2. CASE CallMalloc
    <3>1. PICK n \in Requests :
            RoundUp(n, Align) # 0 /\ pc' = "walk" /\ request' = n /\ size' = RoundUp(n, Align)
      BY <2>2 DEF CallMalloc
    <3>2. n \in Nat /\ Align \in Nat \ {0}
      BY HeapAssumption
    <3>3. RoundUp(n, Align) \in Nat /\ RoundUp(n, Align) >= n
      BY <3>2, Rounding
    <3>4. n # 0
      <4>1. ASSUME n = 0 PROVE FALSE
        <5>1. n % Align <= n /\ n % Align \in Nat
          BY <3>2, Remainder
        <5>2. QED
          BY <3>1, <3>2, <4>1, <5>1 DEF RoundUp
      <4>2. QED
        BY <4>1
    <3>5. QED
      BY <3>1, <3>2, <3>3, <3>4 DEF Asked
  <2>3. CASE Take
    BY <2>3 DEF Take, Asked
  <2>4. CASE Walk
    BY <2>1, <2>4 DEF Walk, Asked
  <2>5. CASE Expand
    BY <2>1, <2>5 DEF Expand, Asked
  <2>6. CASE ExpandWithoutFrames
    BY <2>1, <2>6 DEF ExpandWithoutFrames, Asked
  <2>7. CASE Free
    BY <2>1, <2>7 DEF Free, Asked
  <2>8. CASE UNCHANGED vars
    BY <2>1, <2>8 DEF vars, Asked
  <2>9. QED
    BY <2>1, <2>2, <2>3, <2>4, <2>5, <2>6, <2>7, <2>8 DEF Next
<1>3. QED
  BY <1>1, <1>2, PTL DEF Spec

\* The blocks of BlockStore.
Lengths == [b \in DOMAIN given |-> heap.hdr[b - HdrSize].length]

\* What malloc returns overlaps no other block and is as long as was asked.
LEMMA TakeAllocates ==
  ASSUME IInv, Asked, Take
  PROVE  Store!Allocate
<1> DEFINE block == currentSeg + HdrSize
<1>1. /\ List(heap) /\ currentSeg \in Segs /\ size \in Nat /\ size > 0
      /\ heap.hdr[currentSeg].free /\ heap.hdr[currentSeg].length >= size
      /\ \A x \in DOMAIN heap.hdr : Apart(heap, x)
  BY DEF Take, Fits, IInv, Segs
<1>2. /\ List(heap') /\ Kept(heap, heap') /\ currentSeg \in DOMAIN heap'.hdr
      /\ heap'.hdr[currentSeg].length \in Nat /\ heap'.hdr[currentSeg].length >= size
  BY <1>1, TakeEffect DEF Take, Segs
<1>3. currentSeg \in Nat /\ block \in Nat /\ block - HdrSize = currentSeg
  <2>1. currentSeg \in Nat
    BY <1>1, HeaderFacts DEF Segs
  <2>2. QED
    BY <2>1, Sizes
<1>4. DOMAIN given' = DOMAIN given \cup {block}
  BY DEF Take
<1>5. ASSUME NEW b \in DOMAIN given
      PROVE  /\ b \in Nat /\ b - HdrSize \in DOMAIN heap'.hdr /\ b - HdrSize # currentSeg
             /\ heap'.hdr[b - HdrSize].length = heap.hdr[b - HdrSize].length
  <2>1. b \in Nat /\ b - HdrSize \in Segs /\ ~heap.hdr[b - HdrSize].free
    BY DEF IInv, Blocks
  <2>2. QED
    BY <1>1, <1>2, <2>1 DEF Kept, Segs
<1>6. block \notin DOMAIN given
  BY <1>3, <1>5
<1> HIDE DEF block
<1>7. /\ DOMAIN Lengths = DOMAIN given
      /\ \A b \in DOMAIN given : Lengths[b] = heap.hdr[b - HdrSize].length
      /\ Lengths' = [b \in DOMAIN given' |-> heap'.hdr[b - HdrSize].length]
  BY DEF Lengths
<1>8. Lengths'[block] = heap'.hdr[currentSeg].length
  BY <1>3, <1>4, <1>7
<1>9. Lengths' = [b \in DOMAIN Lengths \cup {block} |->
                    IF b = block THEN Lengths'[block] ELSE Lengths[b]]
  BY <1>4, <1>5, <1>6, <1>7
<1>10. ASSUME NEW b \in DOMAIN given
       PROVE  block + Lengths'[block] <= b \/ b + Lengths[b] <= block
  <2> DEFINE s == b - HdrSize
  <2>1. /\ b \in Nat /\ s \in DOMAIN heap'.hdr /\ s # currentSeg
        /\ Lengths[b] = heap'.hdr[s].length
    BY <1>5, <1>7
  <2>2. b = s + HdrSize /\ s \in Nat
    BY <1>2, <2>1, Sizes DEF List
  <2> HIDE DEF s
  <2>3. heap'.hdr[s].length \in Nat
    BY <1>2, <2>1, HeaderFacts
  <2>4. CASE currentSeg < s
    <3>1. SegEnd(heap', currentSeg) <= s
      BY <1>2, <2>1, <2>4 DEF List
    <3>2. QED
      BY <1>2, <1>3, <1>8, <2>2, <3>1, Sizes DEF SegEnd, block
  <2>5. CASE s < currentSeg
    <3>1. SegEnd(heap', s) <= currentSeg
      BY <1>2, <2>1, <2>5 DEF List
    <3>2. QED
      BY <1>3, <2>1, <2>2, <2>3, <3>1, Sizes DEF SegEnd, block
  <2>6. QED
    BY <1>3, <2>1, <2>2, <2>4, <2>5
<1>11. Lengths'[block] >= request /\ request # 0 /\ request' = 0
  <2>0. pc = "walk"
    BY DEF Take
  <2>1. request \in Nat /\ request # 0 /\ size >= request
    BY <2>0 DEF Asked
  <2>2. request' = 0
    BY DEF Take
  <2>3. heap'.hdr[currentSeg].length \in Nat /\ heap'.hdr[currentSeg].length >= request
    BY <1>1, <1>2, <2>1
  <2>4. QED
    BY <1>8, <2>1, <2>2, <2>3
<1>12. block \in DOMAIN Lengths' \ DOMAIN Lengths
  BY <1>4, <1>6, <1>7
<1>13. \A b \in DOMAIN Lengths : Store!Apart(block, Lengths'[block], b, Lengths[b])
  BY <1>7, <1>10 DEF Store!Apart
<1>14. QED
  BY <1>9, <1>11, <1>12, <1>13 DEF Store!Allocate, Lengths

\* free gives one block back and leaves the others as they are.
LEMMA FreeReleases ==
  ASSUME IInv, Asked, Free
  PROVE  Store!Release
<1>1. PICK a \in DOMAIN given :
        /\ heap' = CombineBackward(
             CombineForward([heap EXCEPT !.hdr[a - HdrSize].free = TRUE], a - HdrSize), a - HdrSize)
        /\ given' = [b \in DOMAIN given \ {a} |-> given[b]]
  BY DEF Free
<1> DEFINE s == a - HdrSize
<1>2. /\ List(heap) /\ a \in Nat /\ s \in DOMAIN heap.hdr
      /\ \A x \in DOMAIN heap.hdr : Apart(heap, x)
  BY DEF IInv, Blocks, Segs
<1>3. \A x \in DOMAIN heap.hdr :
        x # s /\ ~heap.hdr[x].free => heap'.hdr[x].length = heap.hdr[x].length
  <2> HIDE DEF s
  <2>1. heap' = CombineBackward(CombineForward([heap EXCEPT !.hdr[s].free = TRUE], s), s)
    BY <1>1 DEF s
  <2>2. QED
    BY <1>2, <2>1, FreeEffect
<1>4. ASSUME NEW b \in DOMAIN given \ {a}
      PROVE  heap'.hdr[b - HdrSize].length = heap.hdr[b - HdrSize].length
  <2>1. b \in Nat /\ b - HdrSize \in DOMAIN heap.hdr /\ ~heap.hdr[b - HdrSize].free
    BY DEF IInv, Blocks, Segs
  <2>2. b - HdrSize # s
    BY <1>2, <2>1, Sizes
  <2>3. QED
    BY <1>3, <2>1, <2>2
<1>5. DOMAIN given' = DOMAIN given \ {a}
  BY <1>1
<1>6. Lengths' = [b \in DOMAIN Lengths \ {a} |-> Lengths[b]]
  BY <1>4, <1>5 DEF Lengths
<1>7. a \in DOMAIN Lengths
  BY DEF Lengths
<1>8. request = 0 /\ UNCHANGED request
  BY DEF Asked, Free
<1>9. QED
  BY <1>6, <1>7, <1>8 DEF Store!Release, Lengths

\* ExpandHeap leaves the blocks as they are.
LEMMA ExpandKeepsLengths ==
  ASSUME IInv, Expand
  PROVE  UNCHANGED <<Lengths, request>>
<1>1. /\ List(heap) /\ size \in Nat /\ size > 0
      /\ \A x \in DOMAIN heap.hdr : Apart(heap, x)
      /\ heap' = ExpandHeap(heap, size) /\ UNCHANGED <<given, request>>
  BY DEF Expand, IInv, Segs
<1>2. Kept(heap, heap')
  BY <1>1, ExpandEffect
<1>3. \A b \in DOMAIN given : heap'.hdr[b - HdrSize].length = heap.hdr[b - HdrSize].length
  BY <1>2 DEF IInv, Blocks, Kept, Segs
<1>4. QED
  BY <1>1, <1>3 DEF Lengths

\* A call asks the store for what its caller asked for.
LEMMA CallRequests ==
  ASSUME Asked, Asked', CallMalloc
  PROVE  Store!Request
<1>1. pc = "idle" /\ pc' = "walk" /\ UNCHANGED <<heap, given>>
  BY DEF CallMalloc
<1>2. request = 0 /\ request' \in Nat /\ request' # 0
  BY <1>1 DEF Asked
<1>3. UNCHANGED Lengths
  BY <1>1 DEF Lengths
<1>4. QED
  BY <1>2, <1>3 DEF Store!Request, Lengths

\* Every step is one of BlockStore's or changes no block.
LEMMA StepRefines ==
  IInv /\ Asked /\ Asked' /\ [Next]_vars => [Store!Next]_<<Lengths, request>>
<1>1. SUFFICES ASSUME IInv, Asked, Asked', [Next]_vars
               PROVE  Store!Next \/ UNCHANGED <<Lengths, request>>
  OBVIOUS
<1>2. CASE CallMalloc
  BY <1>1, <1>2, CallRequests DEF Store!Next
<1>3. CASE Take
  BY <1>1, <1>3, TakeAllocates DEF Store!Next
<1>4. CASE Walk
  BY <1>4 DEF Walk, Lengths
<1>5. CASE Expand
  BY <1>1, <1>5, ExpandKeepsLengths
<1>6. CASE ExpandWithoutFrames
  BY <1>6 DEF ExpandWithoutFrames, Lengths
<1>7. CASE Free
  BY <1>1, <1>7, FreeReleases DEF Store!Next
<1>8. CASE UNCHANGED vars
  BY <1>8 DEF vars, Lengths
<1>9. QED
  BY <1>1, <1>2, <1>3, <1>4, <1>5, <1>6, <1>7, <1>8 DEF Next

\* The heap keeps what malloc and free promise: a new block overlaps none that
\* is in use and has at least the bytes malloc was asked for, and a block keeps
\* its place and length until it is freed.
THEOREM Refinement == Spec => ImplementsBlockStore
<1>1. Init => Store!Init
  BY DEF Init, Store!Init
<1>2. IInv /\ Asked /\ Asked' /\ [Next]_vars => [Store!Next]_<<Lengths, request>>
  BY StepRefines
<1>3. QED
  BY <1>1, <1>2, Invariance, AskedInvariance, PTL
     DEF Spec, ImplementsBlockStore, Store!Spec, Lengths
=============================================================================
