----------------------------- MODULE BringUpProofs -----------------------------
(***************************************************************************)
(* Theorems about BringUp, for every kernel image, memory, list of tables  *)
(* and bus.                                                                *)
(*                                                                         *)
(* LoaderIInv says how far efi_main is and what the memory and the map are *)
(* by then; EnumerationIInv says, wherever the loops of pci.c are, which   *)
(* functions have got their driver.                                        *)
(***************************************************************************)
EXTENDS BringUp, SequenceTheorems, TLAPS

-----------------------------------------------------------------------------
(* The inductive invariant of the loader.                                  *)

\* What is left of efi_main when its call n is next.
Rest(n) == [i \in 1 .. 14 - n |-> EfiMain[i + n - 1]]

Owners == {"conventional", "firmware", "loader", "kernel"}

\* The first segments are the kernel's and hold what the file has.
Loaded(last) ==
  \A k \in 1 .. last :
    /\ \A p \in SegmentPages(k) : p \in MapPages /\ owner[p] = "kernel"
    /\ \A p \in PagesOf(k, Segments[k].filesz) : image[p] = k

Memory ==
  /\ owner \in [MapPages -> Owners]
  /\ image \in [MapPages -> Nat]
  /\ failed \in BOOLEAN
  /\ ~failed => Loaded(phdr - 1)

\* Before call n of efi_main; the loop over the segments is call 5.
Before(n) ==
  /\ todo = Rest(n)
  /\ n < 5 => phdr = 1
  /\ n = 5 => phdr \in 1 .. Len(Segments)
  /\ n > 5 => phdr = Len(Segments) + 1

\* From the call behind GetMap on the map is what the memory is like, unless
\* outdated; from the one behind ExitBootServices on the firmware is gone.
Current(n) ==
  /\ n >= 11 /\ ~outdated => map = owner /\ mapKey = key
  /\ n >= 13 /\ ~outdated => exited

LoaderIInv == Memory /\ \E n \in 1 .. 14 : Before(n) /\ Current(n)

-----------------------------------------------------------------------------
(* The inductive invariant of the enumeration.                             *)

Described == \E p \in Platforms : mcfg = p.mcfg /\ machine = p.machine

Loops ==
  /\ {t, bus, device, function} \subseteq Nat
  /\ reading = "idle" => t = 0
  /\ reading = "done" => t \notin DOMAIN mcfg /\ t > 0
  /\ reading \in {"EnumerateBus", "EnumerateDevice", "EnumerateFunction"} =>
       t \in DOMAIN mcfg /\ mcfg[t].StartBus <= bus
  /\ reading \in {"EnumerateDevice", "EnumerateFunction"} =>
       bus < mcfg[t].EndBus /\ Present(bus, 0, 0)
  /\ reading = "EnumerateFunction" =>
       /\ device < Devices /\ function <= Functions
       /\ Present(bus, device, 0)

\* The loops have not come to the device of function x, which entry n covers.
Ahead(x, n) ==
  \/ t < n
  \/ t = n /\ reading = "EnumerateBus" /\ bus <= x.at.bus
  \/ t = n /\ reading \in {"EnumerateDevice", "EnumerateFunction"} /\ bus < x.at.bus
  \/ t = n /\ reading = "EnumerateDevice" /\ bus = x.at.bus /\ device <= x.at.device
  \/ t = n /\ reading = "EnumerateFunction" /\ bus = x.at.bus /\ device < x.at.device

\* They are in it.
Under(x, n) ==
  t = n /\ reading = "EnumerateFunction" /\ bus = x.at.bus /\ device = x.at.device

\* How often the functions before number f of its device have found x.
Found(x, f) == IF x.aliased THEN f ELSE IF x.at.function < f THEN 1 ELSE 0

\* How many drivers a controller has that can be found.
Counted(x, n) ==
  drivers[x] = IF Ahead(x, n) THEN 0
               ELSE IF Under(x, n) THEN Found(x, function) ELSE Found(x, Functions)

Drivers ==
  /\ drivers \in [machine -> Nat]
  /\ \A x \in machine :
       /\ ~(x.Class = "AHCI" /\ x \in Visited) => drivers[x] = 0
       /\ x.Class = "AHCI" /\ x \in Visited =>
            \A n \in DOMAIN mcfg : Covers(mcfg[n], x.at.base, x.at.bus) => Counted(x, n)

EnumerationIInv == Described /\ Loops /\ (reading # "wild" => Drivers)

IInv == LoaderIInv /\ EnumerationIInv

-----------------------------------------------------------------------------
(* efi_main as a sequence.                                                 *)

Calls ==
  { "OpenKernel", "GetInfo", "ReadHeader", "ReadProgramHeaders", "LoadSegments", "LoadFont",
    "InitializeGOP", "GetMapSize", "AllocateMap", "GetMap", "FindRSDP", "ExitBootServices",
    "KernelStart" }

\* efi_main makes thirteen calls.
LEMMA EfiMainIs == EfiMain \in Seq(Calls) /\ Len(EfiMain) = 13
BY DEF EfiMain, Calls

\* Each is at its place.
LEMMA PlacesAre ==
  /\ EfiMain[1] = "OpenKernel" /\ EfiMain[2] = "GetInfo" /\ EfiMain[3] = "ReadHeader"
  /\ EfiMain[4] = "ReadProgramHeaders" /\ EfiMain[5] = "LoadSegments"
  /\ EfiMain[6] = "LoadFont" /\ EfiMain[7] = "InitializeGOP" /\ EfiMain[8] = "GetMapSize"
  /\ EfiMain[9] = "AllocateMap" /\ EfiMain[10] = "GetMap" /\ EfiMain[11] = "FindRSDP"
  /\ EfiMain[12] = "ExitBootServices" /\ EfiMain[13] = "KernelStart"
BY DEF EfiMain

\* No call is made twice.
LEMMA PlacesDiffer == \A n, m \in 1 .. 13 : EfiMain[n] = EfiMain[m] => n = m
<1>1. SUFFICES ASSUME NEW n \in 1 .. 13, NEW m \in 1 .. 13, EfiMain[n] = EfiMain[m]
               PROVE  n = m
  OBVIOUS
<1>2. m = 1 \/ m = 2 \/ m = 3 \/ m = 4 \/ m = 5 \/ m = 6 \/ m = 7 \/ m = 8 \/ m = 9
      \/ m = 10 \/ m = 11 \/ m = 12 \/ m = 13
  OBVIOUS
<1>3. n = 1 \/ n = 2 \/ n = 3 \/ n = 4 \/ n = 5 \/ n = 6 \/ n = 7 \/ n = 8 \/ n = 9
      \/ n = 10 \/ n = 11 \/ n = 12 \/ n = 13
  OBVIOUS
<1>4. QED
  BY <1>1, <1>2, <1>3, PlacesAre

\* What is left of efi_main ends after call 13, and each call takes one away.
LEMMA RestIs ==
  /\ Rest(1) = EfiMain /\ Rest(14) = <<>>
  /\ \A n \in 1 .. 13 : /\ Rest(n) # <<>> /\ Head(Rest(n)) = EfiMain[n]
                        /\ Tail(Rest(n)) = Rest(n + 1)
<1>1. Rest(1) = EfiMain
  <2>1. EfiMain = [i \in 1 .. 13 |-> EfiMain[i]]
    BY EfiMainIs
  <2>2. QED
    BY <2>1 DEF Rest
<1>2. Rest(14) = <<>>
  <2>1. Rest(14) \in Seq(Calls) /\ Len(Rest(14)) = 0
    BY EfiMainIs DEF Rest
  <2> DEFINE r == Rest(14)
  <2> HIDE DEF r
  <2>2. r \in Seq(Calls) /\ Len(r) = 0
    BY <2>1 DEF r
  <2>3. r = <<>>
    BY <2>2
  <2>4. QED
    BY <2>3 DEF r
<1>3. ASSUME NEW n \in 1 .. 13
      PROVE  /\ Rest(n) # <<>> /\ Head(Rest(n)) = EfiMain[n]
             /\ Tail(Rest(n)) = Rest(n + 1)
  <2>1. Rest(n) \in Seq(Calls) /\ Len(Rest(n)) = 14 - n
    <3> DEFINE k == 14 - n
    <3>1. k \in Nat /\ \A i \in 1 .. k : EfiMain[i + n - 1] \in Calls
      <4>1. \A j \in 1 .. 13 : EfiMain[j] \in Calls
        BY EfiMainIs, ElementOfSeq
      <4>2. k \in Nat /\ \A i \in 1 .. k : i + n - 1 \in 1 .. 13
        OBVIOUS
      <4>3. QED
        BY <4>1, <4>2
    <3>2. Rest(n) = [i \in 1 .. k |-> EfiMain[i + n - 1]]
      BY DEF Rest
    <3> HIDE DEF k
    <3>3. Rest(n) \in [1 .. k -> Calls]
      BY <3>1, <3>2
    <3>4. Rest(n) \in Seq(Calls) /\ Len(Rest(n)) = k
      BY <3>1, <3>3
    <3>5. QED
      BY <3>4 DEF k
  <2>2. Rest(n) # <<>> /\ Head(Rest(n)) = EfiMain[n]
    BY <2>1 DEF Rest
  <2>3. Tail(Rest(n)) = Rest(n + 1)
    <3>1. Tail(Rest(n)) = [i \in 1 .. 13 - n |-> Rest(n)[i + 1]]
      <4> DEFINE r == Rest(n)
                 k == 13 - n
      <4>0. k \in Nat /\ 14 - n = k + 1
        OBVIOUS
      <4> HIDE DEF r, k
      <4>1. r \in Seq(Calls) /\ Len(r) = k + 1
        BY <2>1, <4>0 DEF r
      <4>2. r # <<>>
        BY <4>0, <4>1
      <4>3. /\ Tail(r) \in Seq(Calls) /\ Len(Tail(r)) = Len(r) - 1
            /\ \A i \in 1 .. Len(Tail(r)) : Tail(r)[i] = r[i + 1]
        BY <4>1, <4>2, HeadTailProperties
      <4> DEFINE q == Tail(r)
      <4>4. /\ q \in Seq(Calls) /\ Len(q) = k
            /\ \A i \in 1 .. Len(q) : q[i] = r[i + 1]
        BY <4>0, <4>1, <4>3
      <4> HIDE DEF q
      <4>5. q = [i \in 1 .. k |-> q[i]]
        BY <4>0, <4>4
      <4>6. q = [i \in 1 .. k |-> r[i + 1]]
        BY <4>4, <4>5
      <4>7. QED
        BY <4>6 DEF r, k, q
    <3>2. \A i \in 1 .. 13 - n : Rest(n)[i + 1] = EfiMain[i + n]
      BY DEF Rest
    <3>3. Rest(n + 1) = [i \in 1 .. 13 - n |-> EfiMain[i + n]]
      BY DEF Rest
    <3>4. QED
      BY <3>1, <3>2, <3>3
  <2>4. QED
    BY <2>2, <2>3
<1>4. QED
  BY <1>1, <1>2, <1>3

\* The next call says how far efi_main is.
LEMMA CallIsNext ==
  ASSUME NEW n \in 1 .. 14, NEW m \in 1 .. 13, todo = Rest(n), At(EfiMain[m])
  PROVE  n = m /\ Tail(todo) = Rest(m + 1)
<1>1. n \in 1 .. 13
  <2>1. n # 14
    BY RestIs DEF At
  <2>2. QED
    BY <2>1
<1>2. EfiMain[n] = EfiMain[m]
  BY <1>1, RestIs DEF At
<1>3. n = m
  BY <1>1, <1>2, PlacesDiffer
<1>4. QED
  BY <1>3, RestIs

-----------------------------------------------------------------------------
(* Segments and pages.                                                     *)

\* A page with a byte of a segment is among those allocated for it: the rounding
\* of main.c:181 is up.
LEMMA PagesAreAllocated ==
  ASSUME NEW k \in DOMAIN Segments, NEW bytes \in 0 .. Segments[k].memsz
  PROVE  PagesOf(k, bytes) \subseteq SegmentPages(k)
<1> DEFINE start == Segments[k].paddr
           size  == Segments[k].memsz
           first == start \div PageSize
           count == (size + PageSize - 1) \div PageSize
<1>1. PageSize \in Nat \ {0} /\ start \in Nat /\ size \in Nat \ {0} /\ start % PageSize = 0
  BY BootLoaderAssumption
<1>2. first \in Nat /\ start = first * PageSize
  <2>1. \A a \in Nat, b \in Nat \ {0} : a % b = 0 => a \div b \in Nat /\ a = (a \div b) * b
    OBVIOUS
  <2> HIDE DEF start
  <2>2. QED
    BY <1>1, <2>1
<1>3. count \in Nat /\ size + PageSize - 1 < (count + 1) * PageSize
  <2>1. \A a \in Nat, b \in Nat \ {0} : a \div b \in Nat /\ a < (a \div b + 1) * b
    OBVIOUS
  <2>2. size + PageSize - 1 \in Nat
    BY <1>1
  <2> HIDE DEF size
  <2>3. QED
    BY <1>1, <2>1, <2>2
<1>4. \A b, c \in Nat, f, s, p, z, y \in Nat :
        /\ b > 0 /\ y <= z /\ s = f * b /\ z + b - 1 < (c + 1) * b
        /\ s < (p + 1) * b /\ p * b < s + y
        => p \in f .. f + c - 1
  <2>1. SUFFICES ASSUME NEW b \in Nat, NEW c \in Nat, NEW f \in Nat, NEW s \in Nat,
                        NEW p \in Nat, NEW z \in Nat, NEW y \in Nat,
                        b > 0, y <= z, s = f * b, z + b - 1 < (c + 1) * b,
                        s < (p + 1) * b, p * b < s + y
                 PROVE  p \in f .. f + c - 1
    OBVIOUS
  <2>2. \A u, v \in Int : u * b < v * b => u < v
    BY <2>1
  <2>3. f < p + 1
    BY <2>1, <2>2
  <2>4. (p + 1) * b < (f + c + 1) * b
    BY <2>1
  <2>5. p + 1 < f + c + 1
    BY <2>2, <2>4
  <2>6. QED
    BY <2>3, <2>5
<1>5. ASSUME NEW p \in PagesOf(k, bytes)
      PROVE  p \in first .. first + count - 1
  <2>1. p \in MapPages /\ start < (p + 1) * PageSize /\ p * PageSize < start + bytes
    BY DEF PagesOf
  <2>2. p \in Nat
    BY <2>1, BootLoaderAssumption DEF MapPages
  <2>3. bytes \in Nat /\ bytes <= size
    BY <1>1
  <2> HIDE DEF start, size, first, count
  <2>4. QED
    BY <1>1, <1>2, <1>3, <1>4, <2>1, <2>2, <2>3
<1>6. QED
  BY <1>5 DEF SegmentPages

\* All but the loop over the segments leaves the kernel's pages alone: pools come
\* from conventional memory.
KeepsKernel ==
  /\ \/ \E who \in {"firmware", "loader"}, n \in {1, 3} : AllocatePools(who, n)
     \/ UNCHANGED <<owner, key>>
  /\ UNCHANGED kernel
  /\ failed' = TRUE \/ UNCHANGED failed

LEMMA KernelIsKept ==
  ASSUME Memory, KeepsKernel
  PROVE  Memory'
<1>1. /\ owner' \in [MapPages -> Owners]
      /\ \A p \in MapPages : owner[p] = "kernel" => owner'[p] = "kernel"
  BY DEF Memory, KeepsKernel, AllocatePools, Owners
<1>2. image' = image /\ phdr' = phdr /\ failed' \in BOOLEAN /\ (~failed' => ~failed)
  <2>1. image' = image /\ phdr' = phdr
    BY DEF KeepsKernel, kernel
  <2>2. failed \in BOOLEAN /\ (failed' = TRUE \/ failed' = failed)
    BY DEF Memory, KeepsKernel
  <2>3. failed' \in BOOLEAN
    BY <2>2
  <2>4. ~failed' => ~failed
    BY <2>2
  <2>5. QED
    BY <2>1, <2>3, <2>4
<1>3. ~failed' => Loaded(phdr - 1)'
  <2>1. SUFFICES ASSUME ~failed', NEW k \in 1 .. phdr' - 1
                 PROVE  /\ \A p \in SegmentPages(k) : p \in MapPages /\ owner'[p] = "kernel"
                        /\ \A p \in PagesOf(k, Segments[k].filesz) : image'[p] = k
    BY DEF Loaded, SegmentPages, PagesOf
  <2>2. Loaded(phdr - 1) /\ k \in 1 .. phdr - 1
    BY <1>2, <2>1 DEF Memory
  <2>3. QED
    BY <1>1, <1>2, <2>2 DEF Loaded
<1>4. QED
  BY <1>1, <1>2, <1>3 DEF Memory

\* A round of the loop keeps the segments before, and adds one if no call fails.
LEMMA SegmentIsLoaded ==
  ASSUME Memory, LoadSegments, phdr \in 1 .. Len(Segments)
  PROVE  Memory'
<1> DEFINE n     == phdr
           free  == \A p \in SegmentPages(n) : p \in MapPages /\ owner[p] = "conventional"
           pages == PagesOf(n, Segments[n].filesz)
<1>1. /\ owner' = IF free THEN [p \in MapPages |-> IF p \in SegmentPages(n)
                                                   THEN "kernel" ELSE owner[p]]
                          ELSE owner
      /\ \/ /\ image' = [p \in MapPages |-> IF p \in pages THEN n ELSE image[p]]
            /\ failed' = IF free THEN failed ELSE TRUE
         \/ failed' = TRUE /\ image' = image
      /\ phdr' = phdr + 1
  BY DEF LoadSegments, Fails, Succeeds
<1>2. n \in DOMAIN Segments /\ n \in Nat /\ Segments[n].filesz \in 0 .. Segments[n].memsz
  BY BootLoaderAssumption
<1>3. pages \subseteq SegmentPages(n)
  BY <1>2, PagesAreAllocated
<1>4. \A k \in 1 .. phdr - 1 :
        /\ k \in DOMAIN Segments /\ k # n
        /\ PagesOf(k, Segments[k].filesz) \subseteq SegmentPages(k)
  <2>1. \A k \in 1 .. phdr - 1 : k \in 1 .. Len(Segments) /\ k # n
    BY <1>2, BootLoaderAssumption
  <2>2. \A k \in DOMAIN Segments : PagesOf(k, Segments[k].filesz) \subseteq SegmentPages(k)
    BY BootLoaderAssumption, PagesAreAllocated
  <2>3. QED
    BY <2>1, <2>2, BootLoaderAssumption
<1>5. owner' \in [MapPages -> Owners]
  BY <1>1 DEF Memory, Owners
<1>6. image' \in [MapPages -> Nat]
  BY <1>1, <1>2 DEF Memory
<1>7. failed' \in BOOLEAN
  BY <1>1 DEF Memory
<1>8. ASSUME ~failed'
      PROVE  Loaded(phdr - 1)'
  <2>1. /\ free /\ ~failed
        /\ owner' = [p \in MapPages |-> IF p \in SegmentPages(n) THEN "kernel" ELSE owner[p]]
        /\ image' = [p \in MapPages |-> IF p \in pages THEN n ELSE image[p]]
    BY <1>1, <1>8
  <2>2. Loaded(n - 1)
    BY <2>1 DEF Memory
  <2>3. pages \subseteq MapPages
    BY DEF PagesOf
  <2>4. \A p \in SegmentPages(n) : p \in MapPages /\ owner'[p] = "kernel"
    BY <2>1
  <2>5. \A p \in pages : image'[p] = n
    BY <2>1, <2>3
  <2>6. ASSUME NEW k \in 1 .. n - 1
        PROVE  /\ \A p \in SegmentPages(k) : p \in MapPages /\ owner'[p] = "kernel"
               /\ \A p \in PagesOf(k, Segments[k].filesz) : image'[p] = k
    <3>1. \A p \in SegmentPages(k) : p \in MapPages /\ owner[p] = "kernel"
      BY <2>2 DEF Loaded
    <3>2. \A p \in PagesOf(k, Segments[k].filesz) : image[p] = k
      BY <2>2 DEF Loaded
    <3>3. \A p \in SegmentPages(k) : p \notin SegmentPages(n)
      BY <2>1, <3>1
    <3>4. \A p \in PagesOf(k, Segments[k].filesz) : p \in SegmentPages(k) /\ p \notin pages
      BY <1>3, <1>4, <3>3
    <3> HIDE DEF pages, n
    <3>5. QED
      BY <2>1, <3>1, <3>2, <3>4
  <2>7. \A k \in 1 .. phdr' - 1 : k = n \/ k \in 1 .. n - 1
    BY <1>1, <1>2
  <2>8. \A k \in 1 .. phdr' - 1 :
          /\ \A p \in SegmentPages(k) : p \in MapPages /\ owner'[p] = "kernel"
          /\ \A p \in PagesOf(k, Segments[k].filesz) : image'[p] = k
    <3> HIDE DEF n
    <3>1. QED
      BY <2>4, <2>5, <2>6, <2>7 DEF pages
  <2>9. QED
    BY <2>8 DEF Loaded, SegmentPages, PagesOf
<1>9. QED
  BY <1>5, <1>6, <1>7, <1>8 DEF Memory

-----------------------------------------------------------------------------
(* The loader keeps its invariant.                                         *)

LEMMA IsBefore ==
  ASSUME NEW n \in 1 .. 14, todo' = Rest(n),
         n < 5 => phdr' = 1,
         n = 5 => phdr' \in 1 .. Len(Segments),
         n > 5 => phdr' = Len(Segments) + 1
  PROVE  Before(n)'
<1>1. Rest(n)' = Rest(n)
  BY DEF Rest
<1>2. QED
  BY <1>1 DEF Before

\* The calls before GetMap, but for the loop over the segments: nothing is said
\* of the map yet.
LEMMA EarlyCall ==
  ASSUME LoaderIInv, NEW m \in 1 .. 9, m # 5, At(EfiMain[m]), Return, KeepsKernel
  PROVE  LoaderIInv'
<1>1. PICK n \in 1 .. 14 : Before(n) /\ Current(n)
  BY DEF LoaderIInv
<1>2. PICK k \in 1 .. 14 : k = m + 1
  OBVIOUS
<1>3. n = m /\ todo' = Rest(k)
  <2>1. m \in 1 .. 13
    OBVIOUS
  <2>2. n = m /\ Tail(todo) = Rest(m + 1)
    BY <1>1, <2>1, CallIsNext DEF Before
  <2>3. QED
    BY <1>2, <2>2 DEF Return
<1>4. phdr' = phdr
  BY DEF KeepsKernel, kernel
<1>5. phdr = IF m < 5 THEN 1 ELSE Len(Segments) + 1
  BY <1>1, <1>3 DEF Before
<1>6. /\ k <= 10
      /\ k < 5 => phdr' = 1
      /\ k = 5 => phdr' \in 1 .. Len(Segments)
      /\ k > 5 => phdr' = Len(Segments) + 1
  BY <1>2, <1>4, <1>5, BootLoaderAssumption
<1>7. Before(k)'
  BY <1>3, <1>6, IsBefore
<1>8. Current(k)'
  BY <1>6 DEF Current
<1>9. Memory'
  BY KernelIsKept DEF LoaderIInv
<1>10. QED
  BY <1>7, <1>8, <1>9 DEF LoaderIInv

\* Those behind GetMap: nobody allocates any more.
LEMMA LateCall ==
  ASSUME LoaderIInv, NEW m \in 11 .. 13, At(EfiMain[m]), Return,
         UNCHANGED <<memory, theMap, kernel, failed>>,
         exited' = IF m = 12 THEN mapKey = key ELSE exited
  PROVE  LoaderIInv'
<1>1. PICK n \in 1 .. 14 : Before(n) /\ Current(n)
  BY DEF LoaderIInv
<1>2. PICK k \in 12 .. 14 : k = m + 1
  OBVIOUS
<1>3. n = m /\ todo' = Rest(k)
  <2>1. m \in 1 .. 13
    OBVIOUS
  <2>2. n = m /\ Tail(todo) = Rest(m + 1)
    BY <1>1, <2>1, CallIsNext DEF Before
  <2>3. QED
    BY <1>2, <2>2 DEF Return
<1>4. /\ owner' = owner /\ image' = image /\ phdr' = phdr /\ failed' = failed
      /\ map' = map /\ mapKey' = mapKey /\ key' = key /\ outdated' = outdated
  BY DEF memory, theMap, kernel
<1>5. Memory'
  BY <1>4 DEF LoaderIInv, Memory, Loaded, SegmentPages, PagesOf
<1>6. Before(k)'
  <2>1. phdr' = Len(Segments) + 1
    BY <1>1, <1>3, <1>4 DEF Before
  <2>2. k \in 1 .. 14 /\ k > 5
    OBVIOUS
  <2>3. QED
    BY <1>3, <2>1, <2>2, IsBefore
<1>7. Current(k)'
  <2>1. ~outdated => map = owner /\ mapKey = key
    BY <1>1, <1>3 DEF Current
  <2>2. m = 13 /\ ~outdated => exited
    BY <1>1, <1>3 DEF Current
  <2>3. ~outdated' => map' = owner' /\ mapKey' = key'
    BY <1>4, <2>1
  <2>4. k >= 13 => m = 12 \/ m = 13
    BY <1>2
  <2>5. k >= 13 /\ ~outdated' => exited'
    BY <1>4, <2>1, <2>2, <2>4
  <2>6. QED
    BY <2>3, <2>5 DEF Current
<1>8. QED
  BY <1>5, <1>6, <1>7 DEF LoaderIInv

\* GetMap reads the map, or makes it known to be useless.
LEMMA GetMapKeeps ==
  ASSUME LoaderIInv, GetMap
  PROVE  LoaderIInv'
<1>1. PICK n \in 1 .. 14 : Before(n) /\ Current(n)
  BY DEF LoaderIInv
<1>2. n = 10 /\ todo' = Rest(11)
  <2>1. At(EfiMain[10]) /\ todo' = Tail(todo)
    BY PlacesAre DEF GetMap, Return
  <2>2. 10 \in 1 .. 13 /\ 10 + 1 = 11
    OBVIOUS
  <2>3. QED
    BY <1>1, <2>1, <2>2, CallIsNext DEF Before
<1>3. /\ owner' = owner /\ image' = image /\ phdr' = phdr /\ failed' = failed /\ key' = key
      /\ outdated' \/ (map' = owner /\ mapKey' = key)
  BY DEF GetMap, memory, kernel
<1>4. Memory'
  BY <1>3 DEF LoaderIInv, Memory, Loaded, SegmentPages, PagesOf
<1>5. Before(11)'
  BY <1>1, <1>2, <1>3 DEF Before, Rest
<1>6. Current(11)'
  BY <1>3 DEF Current
<1>7. QED
  BY <1>4, <1>5, <1>6 DEF LoaderIInv

LEMMA LoadSegmentsKeeps ==
  ASSUME LoaderIInv, LoadSegments
  PROVE  LoaderIInv'
<1>1. PICK n \in 1 .. 14 : Before(n) /\ Current(n)
  BY DEF LoaderIInv
<1>2. n = 5 /\ Tail(todo) = Rest(6)
  <2>1. At(EfiMain[5])
    BY PlacesAre DEF LoadSegments
  <2>2. 5 \in 1 .. 13 /\ 5 + 1 = 6
    OBVIOUS
  <2>3. QED
    BY <1>1, <2>1, <2>2, CallIsNext DEF Before
<1>3. phdr \in 1 .. Len(Segments) /\ todo = Rest(5)
  BY <1>1, <1>2 DEF Before
<1>4. Memory'
  BY <1>3, SegmentIsLoaded DEF LoaderIInv
<1>5. /\ phdr' = phdr + 1 /\ Len(Segments) \in Nat
      /\ todo' = IF phdr < Len(Segments) THEN todo ELSE Rest(6)
  BY <1>2, BootLoaderAssumption DEF LoadSegments, Return
<1>6. CASE phdr < Len(Segments)
  <2>1. Before(5)' /\ Current(5)'
    BY <1>3, <1>5, <1>6 DEF Before, Current, Rest
  <2>2. QED
    BY <1>4, <2>1 DEF LoaderIInv
<1>7. CASE ~(phdr < Len(Segments))
  <2>1. Before(6)' /\ Current(6)'
    BY <1>3, <1>5, <1>7 DEF Before, Current, Rest
  <2>2. QED
    BY <1>4, <2>1 DEF LoaderIInv
<1>8. QED
  BY <1>6, <1>7

\* What the firmware does on its own outdates a map that was read; once it is
\* gone it does nothing.
LEMMA FirmwareEventKeeps ==
  ASSUME LoaderIInv, FirmwareEvent
  PROVE  LoaderIInv'
<1>1. PICK n \in 1 .. 14 : Before(n) /\ Current(n)
  BY DEF LoaderIInv
<1>2. KeepsKernel /\ todo' = todo /\ phdr' = phdr /\ ~exited
  BY DEF FirmwareEvent, AllocatePool, KeepsKernel, kernel
<1>3. Memory'
  BY <1>2, KernelIsKept DEF LoaderIInv
<1>4. Before(n)'
  BY <1>1, <1>2 DEF Before, Rest
<1>5. Current(n)'
  <2>1. outdated' = (outdated \/ map # NoMap)
    BY DEF FirmwareEvent
  <2>2. n >= 11 /\ ~outdated => map = owner
    BY <1>1 DEF Current
  <2>3. owner # NoMap
    <3>1. 0 \in MapPages
      BY BootLoaderAssumption DEF MapPages
    <3>2. DOMAIN owner = MapPages
      BY DEF LoaderIInv, Memory
    <3>3. DOMAIN NoMap = {}
      BY DEF NoMap
    <3>4. QED
      BY <3>1, <3>2, <3>3
  <2>4. n >= 11 => outdated'
    BY <2>1, <2>2, <2>3
  <2>5. QED
    BY <2>4 DEF Current
<1>6. QED
  BY <1>3, <1>4, <1>5 DEF LoaderIInv

LEMMA LoaderStepKeeps ==
  ASSUME LoaderIInv, LoaderNext
  PROVE  LoaderIInv'
<1>1. CASE OpenKernel
  <2>1. At(EfiMain[1]) /\ Return /\ KeepsKernel
    BY <1>1, PlacesAre DEF OpenKernel, LoadFile, Fails, Succeeds, KeepsKernel, memory, kernel
  <2>2. QED
    BY <2>1, EarlyCall
<1>2. CASE GetInfo
  <2>1. At(EfiMain[2]) /\ Return /\ KeepsKernel
    BY <1>2, PlacesAre DEF GetInfo, AllocatePool, Fails, Succeeds, KeepsKernel, kernel
  <2>2. QED
    BY <2>1, EarlyCall
<1>3. CASE ReadHeader
  <2>1. At(EfiMain[3]) /\ Return /\ KeepsKernel
    BY <1>3, PlacesAre DEF ReadHeader, Fails, Succeeds, KeepsKernel, memory, kernel
  <2>2. QED
    BY <2>1, EarlyCall
<1>4. CASE ReadProgramHeaders
  <2>1. At(EfiMain[4]) /\ Return /\ KeepsKernel
    BY <1>4, PlacesAre DEF ReadProgramHeaders, AllocatePool, Fails, Succeeds, KeepsKernel, kernel
  <2>2. QED
    BY <2>1, EarlyCall
<1>5. CASE LoadSegments
  BY <1>5, LoadSegmentsKeeps
<1>6. CASE LoadFont
  <2>1. At(EfiMain[6]) /\ Return /\ KeepsKernel
    BY <1>6, PlacesAre DEF LoadFont, LoadFile, Fails, Succeeds, KeepsKernel, kernel
  <2>2. QED
    BY <2>1, EarlyCall
<1>7. CASE InitializeGOP
  <2>1. At(EfiMain[7]) /\ Return /\ KeepsKernel
    BY <1>7, PlacesAre DEF InitializeGOP, Fails, Succeeds, KeepsKernel, memory, kernel
  <2>2. QED
    BY <2>1, EarlyCall
<1>8. CASE GetMapSize
  <2>1. At(EfiMain[8]) /\ Return /\ KeepsKernel
    BY <1>8, PlacesAre DEF GetMapSize, KeepsKernel, memory, kernel
  <2>2. QED
    BY <2>1, EarlyCall
<1>9. CASE AllocateMap
  <2>1. At(EfiMain[9]) /\ Return /\ KeepsKernel
    BY <1>9, PlacesAre DEF AllocateMap, AllocatePool, Fails, Succeeds, KeepsKernel, kernel
  <2>2. QED
    BY <2>1, EarlyCall
<1>10. CASE GetMap
  BY <1>10, GetMapKeeps
<1>11. CASE FindRSDP
  <2>1. /\ At(EfiMain[11]) /\ Return
        /\ UNCHANGED <<memory, theMap, kernel, failed>> /\ exited' = exited
    BY <1>11, PlacesAre DEF FindRSDP
  <2>2. QED
    BY <2>1, LateCall
<1>12. CASE ExitBootServices
  <2>1. /\ At(EfiMain[12]) /\ Return
        /\ UNCHANGED <<memory, theMap, kernel, failed>> /\ exited' = (mapKey = key)
    BY <1>12, PlacesAre DEF ExitBootServices
  <2>2. QED
    BY <2>1, LateCall
<1>13. CASE KernelStart
  <2>1. /\ At(EfiMain[13]) /\ Return
        /\ UNCHANGED <<memory, theMap, kernel, failed>> /\ exited' = exited
    BY <1>13, PlacesAre DEF KernelStart
  <2>2. QED
    BY <2>1, LateCall
<1>14. CASE FirmwareEvent
  BY <1>14, FirmwareEventKeeps
<1>15. QED
  BY <1>1, <1>2, <1>3, <1>4, <1>5, <1>6, <1>7, <1>8, <1>9, <1>10, <1>11, <1>12, <1>13,
     <1>14 DEF LoaderNext

LEMMA LoaderInitHolds ==
  ASSUME LoaderInit
  PROVE  LoaderIInv
<1>1. todo = Rest(1) /\ phdr = 1 /\ failed = FALSE
  BY RestIs DEF LoaderInit
<1>2. owner \in [MapPages -> Owners] /\ image \in [MapPages -> Nat]
  BY DEF LoaderInit, Owners
<1>3. Loaded(phdr - 1)
  BY <1>1 DEF Loaded
<1>4. Memory
  BY <1>1, <1>2, <1>3 DEF Memory
<1>5. Before(1) /\ Current(1)
  BY <1>1 DEF Before, Current
<1>6. QED
  BY <1>4, <1>5 DEF LoaderIInv

-----------------------------------------------------------------------------
(* What can be found.                                                      *)

\* A header that can be read at function 0 of device d on the bus of x.
There(x, d) ==
  \E y \in machine : /\ y.at.base = x.at.base /\ y.at.bus = x.at.bus
                     /\ y.at.device = d
                     /\ y.at.function = 0 \/ y.aliased

LEMMA VisitedIs ==
  ASSUME NEW x \in machine
  PROVE  x \in Visited <=> \E n \in DOMAIN mcfg : /\ Covers(mcfg[n], x.at.base, x.at.bus)
                                                  /\ There(x, 0) /\ There(x, x.at.device)
BY DEF Visited, There

\* PCIAssumption, of the platform the kernel runs on.
LEMMA PlatformIs ==
  ASSUME Described
  PROVE  /\ Len(mcfg) \in Nat /\ DOMAIN mcfg = 1 .. Len(mcfg)
         /\ \A n \in DOMAIN mcfg : mcfg[n].StartBus \in Nat /\ mcfg[n].EndBus \in Nat
         /\ \A x \in machine :
              /\ x.aliased \in BOOLEAN /\ x.at.bus \in Nat
              /\ x.at.device \in 0 .. Devices - 1 /\ x.at.function \in 0 .. Functions - 1
              /\ \A n, m \in DOMAIN mcfg :
                   /\ Covers(mcfg[n], x.at.base, x.at.bus)
                   /\ Covers(mcfg[m], x.at.base, x.at.bus)
                   => n = m
         /\ Devices \in Nat /\ Functions \in Nat
<1>1. PICK p \in Platforms : mcfg = p.mcfg /\ machine = p.machine
  BY DEF Described
<1>2. Devices \in Nat /\ Functions \in Nat
  BY PCIAssumption
<1>3. /\ Len(p.mcfg) \in Nat /\ DOMAIN p.mcfg = 1 .. Len(p.mcfg)
      /\ \A n \in DOMAIN p.mcfg : p.mcfg[n].StartBus \in Nat /\ p.mcfg[n].EndBus \in Nat
  BY PCIAssumption
<1>4. ASSUME NEW x \in p.machine
      PROVE  /\ x.aliased \in BOOLEAN /\ x.at.bus \in Nat
             /\ x.at.device \in 0 .. Devices - 1 /\ x.at.function \in 0 .. Functions - 1
             /\ \A n, m \in DOMAIN p.mcfg :
                  /\ Covers(p.mcfg[n], x.at.base, x.at.bus)
                  /\ Covers(p.mcfg[m], x.at.base, x.at.bus)
                  => n = m
  BY PCIAssumption
<1>5. QED
  BY <1>1, <1>2, <1>3, <1>4

\* On the bus the loops are at, There is what Present sees.
LEMMA PresentIs ==
  ASSUME NEW x \in machine, x.at.base = mcfg[t].BaseAddress, NEW d
  PROVE  There(x, d) <=> Present(x.at.bus, d, 0)
BY DEF There, Present, Answering

\* The loops are in the range of an entry: it is the one that covers the bus.
LEMMA EntryIs ==
  ASSUME Described, Loops, t \in DOMAIN mcfg,
         mcfg[t].StartBus <= bus, bus < mcfg[t].EndBus
  PROVE  /\ \A x \in machine :
              x.at.base = mcfg[t].BaseAddress /\ x.at.bus = bus =>
                /\ Covers(mcfg[t], x.at.base, x.at.bus)
                /\ \A n \in DOMAIN mcfg : Covers(mcfg[n], x.at.base, x.at.bus) => n = t
<1>1. bus \in mcfg[t].StartBus .. mcfg[t].EndBus - 1
  <2>1. bus \in Nat
    BY DEF Loops
  <2>2. mcfg[t].StartBus \in Nat /\ mcfg[t].EndBus \in Nat
    BY PlatformIs
  <2>3. QED
    BY <2>1, <2>2
<1>2. ASSUME NEW x \in machine, x.at.base = mcfg[t].BaseAddress, x.at.bus = bus
      PROVE  Covers(mcfg[t], x.at.base, x.at.bus)
  BY <1>1, <1>2 DEF Covers
<1>3. QED
  BY <1>2, PlatformIs

\* A controller that can be found, and the entry that covers its bus.
LEMMA ControllerIs ==
  ASSUME Described, NEW x \in machine, x \in Visited,
         NEW n \in DOMAIN mcfg, Covers(mcfg[n], x.at.base, x.at.bus)
  PROVE  /\ n \in Nat /\ n > 0 /\ n <= Len(mcfg)
         /\ x.at.base = mcfg[n].BaseAddress
         /\ x.at.bus \in Nat /\ mcfg[n].StartBus <= x.at.bus /\ x.at.bus < mcfg[n].EndBus
         /\ x.at.device \in Nat /\ x.at.device < Devices
         /\ x.at.function \in Nat /\ x.at.function < Functions
         /\ There(x, 0) /\ There(x, x.at.device)
<1>1. There(x, 0) /\ There(x, x.at.device)
  BY VisitedIs
<1>2. n \in 1 .. Len(mcfg) /\ Len(mcfg) \in Nat
  BY PlatformIs
<1>3. x.at.base = mcfg[n].BaseAddress /\ x.at.bus \in mcfg[n].StartBus .. mcfg[n].EndBus - 1
  BY DEF Covers
<1>4. /\ mcfg[n].StartBus \in Nat /\ mcfg[n].EndBus \in Nat /\ x.at.bus \in Nat
      /\ x.at.device \in 0 .. Devices - 1 /\ x.at.function \in 0 .. Functions - 1
      /\ Devices \in Nat /\ Functions \in Nat
  BY PlatformIs
<1>5. n \in Nat /\ n > 0 /\ n <= Len(mcfg)
  BY <1>2
<1>6. mcfg[n].StartBus <= x.at.bus /\ x.at.bus < mcfg[n].EndBus
  BY <1>3, <1>4
<1>7. /\ x.at.device \in Nat /\ x.at.device < Devices
      /\ x.at.function \in Nat /\ x.at.function < Functions
  BY <1>4
<1>8. QED
  BY <1>1, <1>3, <1>4, <1>5, <1>6, <1>7

-----------------------------------------------------------------------------
(* The enumeration keeps its invariant.                                    *)

LEMMA TablesKept ==
  ASSUME Described, mcfg' = mcfg, machine' = machine
  PROVE  Described' /\ Visited' = Visited
<1>1. Described'
  BY DEF Described
<1>2. Visited' = Visited
  BY DEF Visited
<1>3. QED
  BY <1>1, <1>2

\* It is enough that each controller's count stays what it should be.
LEMMA CountsKept ==
  ASSUME Described, Drivers, mcfg' = mcfg, machine' = machine,
         drivers' \in [machine -> Nat],
         \A x \in machine : ~(x.Class = "AHCI" /\ x \in Visited) => drivers'[x] = drivers[x],
         \A x \in machine, n \in DOMAIN mcfg :
           /\ x.Class = "AHCI" /\ x \in Visited
           /\ Covers(mcfg[n], x.at.base, x.at.bus)
           /\ Counted(x, n)
           => Counted(x, n)'
  PROVE  Drivers'
<1>1. Visited' = Visited
  BY TablesKept
<1>2. ASSUME NEW x \in machine, ~(x.Class = "AHCI" /\ x \in Visited)
      PROVE  drivers'[x] = 0
  BY <1>2 DEF Drivers
<1>3. ASSUME NEW x \in machine, x.Class = "AHCI", x \in Visited,
             NEW n \in DOMAIN mcfg, Covers(mcfg[n], x.at.base, x.at.bus)
      PROVE  Counted(x, n)'
  BY <1>3 DEF Drivers
<1>4. QED
  BY <1>1, <1>2, <1>3 DEF Drivers

LEMMA EnumeratePCIKeeps ==
  ASSUME Described, Loops, Drivers, EnumeratePCI
  PROVE  Loops' /\ Drivers'
<1>1. /\ reading = "EnumeratePCI" /\ t' = t + 1 /\ t \in Nat
      /\ mcfg' = mcfg /\ machine' = machine /\ device' = device /\ function' = function
      /\ drivers' = drivers
  BY DEF EnumeratePCI, Loops
<1>2. \/ t + 1 \in DOMAIN mcfg /\ reading' = "EnumerateBus" /\ bus' = mcfg[t + 1].StartBus
      \/ t + 1 \notin DOMAIN mcfg /\ reading' = "done" /\ bus' = bus
  BY DEF EnumeratePCI
<1>3. Loops'
  <2>1. bus' \in Nat /\ t' \in Nat /\ t' > 0
    BY <1>1, <1>2, PlatformIs DEF Loops
  <2>2. reading' = "EnumerateBus" => t' \in DOMAIN mcfg' /\ mcfg'[t'].StartBus <= bus'
    <3>1. CASE t + 1 \in DOMAIN mcfg
      <4>1. bus' = mcfg[t + 1].StartBus
        BY <1>2, <3>1
      <4>2. mcfg[t + 1].StartBus <= bus'
        BY <2>1, <4>1
      <4>3. QED
        BY <1>1, <3>1, <4>2
    <3>2. CASE t + 1 \notin DOMAIN mcfg
      BY <1>2, <3>2
    <3>3. QED
      BY <3>1, <3>2
  <2>3. /\ reading' = "done" => t' \notin DOMAIN mcfg'
        /\ reading' \in {"EnumerateBus", "done"}
    BY <1>1, <1>2
  <2>4. {t', bus', device', function'} \subseteq Nat
    BY <1>1, <2>1 DEF Loops
  <2>5. QED
    BY <2>1, <2>2, <2>3, <2>4 DEF Loops
<1>4. ASSUME NEW x \in machine, NEW n \in DOMAIN mcfg, x \in Visited,
             Covers(mcfg[n], x.at.base, x.at.bus), Counted(x, n)
      PROVE  Counted(x, n)'
  <2>1. /\ n \in Nat /\ n <= Len(mcfg) /\ mcfg[n].StartBus \in Nat
        /\ x.at.bus \in Nat /\ mcfg[n].StartBus <= x.at.bus
    BY <1>4, ControllerIs, PlatformIs
  <2>2. (Ahead(x, n) <=> t < n) /\ ~Under(x, n)
    BY <1>1 DEF Ahead, Under
  <2>3. (Ahead(x, n)' <=> t < n) /\ ~Under(x, n)'
    <3>1. CASE t + 1 \in DOMAIN mcfg
      <4>1. reading' = "EnumerateBus" /\ t' = t + 1 /\ bus' = mcfg[t + 1].StartBus
        BY <1>1, <1>2, <3>1
      <4>2. Ahead(x, n)' <=> (t' < n \/ (t' = n /\ bus' <= x.at.bus))
        BY <4>1 DEF Ahead
      <4>3. ~Under(x, n)'
        BY <4>1 DEF Under
      <4>4. t' = n => bus' <= x.at.bus
        BY <2>1, <4>1
      <4>5. (t' < n \/ t' = n) <=> t < n
        BY <1>1, <2>1
      <4>6. QED
        BY <4>2, <4>3, <4>4, <4>5
    <3>2. CASE t + 1 \notin DOMAIN mcfg
      <4>1. reading' = "done" /\ t' = t + 1
        BY <1>1, <1>2, <3>2
      <4>2. (Ahead(x, n)' <=> t' < n) /\ ~Under(x, n)'
        BY <4>1 DEF Ahead, Under
      <4>3. ~(t < n) /\ ~(t' < n)
        <5>1. DOMAIN mcfg = 1 .. Len(mcfg) /\ Len(mcfg) \in Nat
          BY PlatformIs
        <5>2. t + 1 > Len(mcfg)
          BY <1>1, <3>2, <5>1
        <5>3. QED
          BY <1>1, <2>1, <5>1, <5>2
      <4>4. QED
        BY <4>2, <4>3
    <3>3. QED
      BY <3>1, <3>2
  <2>4. QED
    BY <1>1, <1>4, <2>2, <2>3 DEF Counted, Found
<1>5. Drivers'
  <2>1. drivers' \in [machine -> Nat]
    BY <1>1 DEF Drivers
  <2>2. QED
    BY <1>1, <1>4, <2>1, CountsKept
<1>6. QED
  BY <1>3, <1>5

\* A bus without device 0 has no controller that can be found.
LEMMA EnumerateBusKeeps ==
  ASSUME Described, Loops, Drivers, EnumerateBus
  PROVE  Loops' /\ Drivers'
<1>1. /\ reading = "EnumerateBus" /\ t' = t /\ mcfg' = mcfg /\ machine' = machine
      /\ function' = function /\ drivers' = drivers
      /\ t \in DOMAIN mcfg /\ mcfg[t].StartBus <= bus
      /\ t \in Nat /\ bus \in Nat /\ device \in Nat /\ function \in Nat
  BY DEF EnumerateBus, Loops
<1>2. /\ mcfg[t].StartBus \in Nat /\ mcfg[t].EndBus \in Nat
      /\ t > 0 /\ t <= Len(mcfg) /\ Len(mcfg) \in Nat
  BY <1>1, PlatformIs
<1>3. \/ /\ bus < mcfg[t].EndBus /\ Present(bus, 0, 0)
         /\ reading' = "EnumerateDevice" /\ device' = 0 /\ bus' = bus
      \/ /\ bus < mcfg[t].EndBus /\ ~Present(bus, 0, 0)
         /\ reading' = "EnumerateBus" /\ bus' = bus + 1 /\ device' = device
      \/ /\ ~(bus < mcfg[t].EndBus)
         /\ reading' = "EnumeratePCI" /\ bus' = bus /\ device' = device
  BY DEF EnumerateBus, NextBus
<1>4. Loops'
  <2>1. {t', bus', device', function'} \subseteq Nat
    BY <1>1, <1>3
  <2>2. mcfg'[t'].StartBus <= bus'
    BY <1>1, <1>2, <1>3
  <2>3. reading' = "EnumerateDevice" => bus' < mcfg'[t'].EndBus /\ Present(bus, 0, 0)'
    <3>1. ASSUME reading' = "EnumerateDevice"
          PROVE  bus < mcfg[t].EndBus /\ Present(bus, 0, 0) /\ bus' = bus
      BY <1>3, <3>1
    <3>2. QED
      BY <1>1, <3>1 DEF Present, Answering
  <2>4. reading' \in {"EnumeratePCI", "EnumerateBus", "EnumerateDevice"}
    BY <1>3
  <2>5. QED
    BY <1>1, <2>1, <2>2, <2>3, <2>4 DEF Loops
<1>5. ASSUME NEW x \in machine, NEW n \in DOMAIN mcfg, x \in Visited,
             Covers(mcfg[n], x.at.base, x.at.bus), Counted(x, n)
      PROVE  Counted(x, n)'
  <2>1. /\ n \in Nat /\ x.at.base = mcfg[n].BaseAddress
        /\ x.at.bus \in Nat /\ x.at.bus < mcfg[n].EndBus
        /\ x.at.device \in Nat /\ There(x, 0)
    BY <1>5, ControllerIs
  <2>2. Ahead(x, n) <=> t < n \/ (t = n /\ bus <= x.at.bus)
    BY <1>1 DEF Ahead
  <2>3. ~Under(x, n) /\ ~Under(x, n)'
    BY <1>1, <1>3 DEF Under
  <2>4. Ahead(x, n)' <=> Ahead(x, n)
    <3>1. CASE /\ reading' = "EnumerateDevice" /\ device' = 0 /\ bus' = bus
      <4>1. Ahead(x, n)' <=> \/ t < n
                             \/ t = n /\ bus < x.at.bus
                             \/ t = n /\ bus = x.at.bus /\ 0 <= x.at.device
        BY <1>1, <3>1 DEF Ahead
      <4>2. 0 <= x.at.device /\ (bus <= x.at.bus <=> bus < x.at.bus \/ bus = x.at.bus)
        BY <1>1, <2>1
      <4>3. QED
        BY <2>2, <4>1, <4>2
    <3>2. CASE ~Present(bus, 0, 0) /\ reading' = "EnumerateBus" /\ bus' = bus + 1
      <4>1. Ahead(x, n)' <=> t < n \/ (t = n /\ bus + 1 <= x.at.bus)
        BY <1>1, <3>2 DEF Ahead
      <4>2. t = n => bus # x.at.bus
        BY <2>1, <3>2, PresentIs
      <4>3. bus + 1 <= x.at.bus <=> bus <= x.at.bus /\ bus # x.at.bus
        BY <1>1, <2>1
      <4>4. QED
        BY <2>2, <4>1, <4>2, <4>3
    <3>3. CASE ~(bus < mcfg[t].EndBus) /\ reading' = "EnumeratePCI"
      <4>1. Ahead(x, n)' <=> t < n
        BY <1>1, <3>3 DEF Ahead
      <4>2. t = n => ~(bus <= x.at.bus)
        BY <1>1, <1>2, <2>1, <3>3
      <4>3. QED
        BY <2>2, <4>1, <4>2
    <3>4. QED
      BY <1>3, <3>1, <3>2, <3>3
  <2>5. QED
    BY <1>1, <1>5, <2>3, <2>4 DEF Counted, Found
<1>6. Drivers'
  <2>1. drivers' \in [machine -> Nat]
    BY <1>1 DEF Drivers
  <2>2. QED
    BY <1>1, <1>5, <2>1, CountsKept
<1>7. QED
  BY <1>4, <1>6

\* A device without function 0 has no function that can be found.
LEMMA EnumerateDeviceKeeps ==
  ASSUME Described, Loops, Drivers, EnumerateDevice
  PROVE  Loops' /\ Drivers'
<1>1. /\ reading = "EnumerateDevice" /\ t' = t /\ mcfg' = mcfg /\ machine' = machine
      /\ drivers' = drivers
      /\ t \in DOMAIN mcfg /\ mcfg[t].StartBus <= bus
      /\ bus < mcfg[t].EndBus /\ Present(bus, 0, 0)
      /\ t \in Nat /\ bus \in Nat /\ device \in Nat /\ function \in Nat
  BY DEF EnumerateDevice, Loops
<1>2. /\ mcfg[t].StartBus \in Nat /\ mcfg[t].EndBus \in Nat
      /\ Devices \in Nat /\ Functions \in Nat
  BY <1>1, PlatformIs
<1>3. \/ /\ device < Devices /\ Present(bus, device, 0)
         /\ reading' = "EnumerateFunction" /\ function' = 0 /\ bus' = bus /\ device' = device
      \/ /\ device < Devices /\ ~Present(bus, device, 0)
         /\ reading' = "EnumerateDevice" /\ device' = device + 1
         /\ bus' = bus /\ function' = function
      \/ /\ ~(device < Devices)
         /\ reading' = "EnumerateBus" /\ bus' = bus + 1
         /\ device' = device /\ function' = function
  BY DEF EnumerateDevice, NextDevice, NextBus
<1>4. Loops'
  <2>1. {t', bus', device', function'} \subseteq Nat
    BY <1>1, <1>3
  <2>2. mcfg'[t'].StartBus <= bus'
    BY <1>1, <1>2, <1>3
  <2>3. reading' \in {"EnumerateDevice", "EnumerateFunction"} =>
          bus' < mcfg'[t'].EndBus /\ Present(bus, 0, 0)'
    <3>1. ASSUME reading' \in {"EnumerateDevice", "EnumerateFunction"}
          PROVE  bus' = bus
      BY <1>3, <3>1
    <3>2. QED
      BY <1>1, <3>1 DEF Present, Answering
  <2>4. reading' = "EnumerateFunction" =>
          device' < Devices /\ function' <= Functions /\ Present(bus, device, 0)'
    <3>1. ASSUME reading' = "EnumerateFunction"
          PROVE  /\ device < Devices /\ Present(bus, device, 0)
                 /\ function' = 0 /\ bus' = bus /\ device' = device
      BY <1>3, <3>1
    <3>2. QED
      BY <1>1, <1>2, <3>1 DEF Present, Answering
  <2>5. reading' \in {"EnumerateBus", "EnumerateDevice", "EnumerateFunction"}
    BY <1>3
  <2>6. QED
    BY <1>1, <2>1, <2>2, <2>3, <2>4, <2>5 DEF Loops
<1>5. ASSUME NEW x \in machine, NEW n \in DOMAIN mcfg, x \in Visited,
             Covers(mcfg[n], x.at.base, x.at.bus), Counted(x, n)
      PROVE  Counted(x, n)'
  <2>1. /\ n \in Nat /\ x.at.base = mcfg[n].BaseAddress
        /\ x.at.bus \in Nat /\ x.at.device \in Nat /\ x.at.device < Devices
        /\ x.at.function \in Nat /\ There(x, x.at.device)
    BY <1>5, ControllerIs
  <2>2. /\ Ahead(x, n) <=> \/ t < n
                           \/ t = n /\ bus < x.at.bus
                           \/ t = n /\ bus = x.at.bus /\ device <= x.at.device
        /\ ~Under(x, n)
    BY <1>1 DEF Ahead, Under
  <2>3. CASE /\ reading' = "EnumerateFunction" /\ function' = 0
             /\ bus' = bus /\ device' = device
    <3>1. /\ Ahead(x, n)' <=> \/ t < n
                              \/ t = n /\ bus < x.at.bus
                              \/ t = n /\ bus = x.at.bus /\ device < x.at.device
          /\ Under(x, n)' <=> t = n /\ bus = x.at.bus /\ device = x.at.device
      BY <1>1, <2>3 DEF Ahead, Under
    <3>2. device <= x.at.device <=> device < x.at.device \/ device = x.at.device
      BY <1>1, <2>1
    <3>3. /\ Ahead(x, n)' => Ahead(x, n)
          /\ ~Ahead(x, n)' /\ Under(x, n)' => Ahead(x, n)
          /\ ~Ahead(x, n)' /\ ~Under(x, n)' => ~Ahead(x, n)
      BY <2>2, <3>1, <3>2
    <3>4. Found(x, 0) = 0
      BY <2>1 DEF Found
    <3>5. /\ function' = 0 /\ drivers'[x] = drivers[x]
          /\ drivers[x] = IF Ahead(x, n) THEN 0 ELSE Found(x, Functions)
      BY <1>1, <1>5, <2>2, <2>3 DEF Counted
    <3>6. drivers'[x] = IF Ahead(x, n)' THEN 0
                        ELSE IF Under(x, n)' THEN Found(x, 0) ELSE Found(x, Functions)
      BY <3>3, <3>4, <3>5
    <3>7. QED
      BY <3>5, <3>6 DEF Counted, Found
  <2>4. CASE /\ ~Present(bus, device, 0) /\ reading' = "EnumerateDevice"
             /\ device' = device + 1 /\ bus' = bus
    <3>1. /\ Ahead(x, n)' <=> \/ t < n
                              \/ t = n /\ bus < x.at.bus
                              \/ t = n /\ bus = x.at.bus /\ device + 1 <= x.at.device
          /\ ~Under(x, n)'
      BY <1>1, <2>4 DEF Ahead, Under
    <3>2. t = n /\ bus = x.at.bus => device # x.at.device
      BY <2>1, <2>4, PresentIs
    <3>3. device + 1 <= x.at.device <=> device <= x.at.device /\ device # x.at.device
      BY <1>1, <2>1
    <3>4. Ahead(x, n)' <=> Ahead(x, n)
      BY <2>2, <3>1, <3>2, <3>3
    <3>5. QED
      BY <1>1, <1>5, <2>2, <3>1, <3>4 DEF Counted, Found
  <2>5. CASE ~(device < Devices) /\ reading' = "EnumerateBus" /\ bus' = bus + 1
    <3>1. /\ Ahead(x, n)' <=> t < n \/ (t = n /\ bus + 1 <= x.at.bus)
          /\ ~Under(x, n)'
      BY <1>1, <2>5 DEF Ahead, Under
    <3>2. /\ ~(device <= x.at.device)
          /\ bus + 1 <= x.at.bus <=> bus < x.at.bus
      BY <1>1, <1>2, <2>1, <2>5
    <3>3. Ahead(x, n)' <=> Ahead(x, n)
      BY <2>2, <3>1, <3>2
    <3>4. QED
      BY <1>1, <1>5, <2>2, <3>1, <3>3 DEF Counted, Found
  <2>6. QED
    BY <1>3, <2>3, <2>4, <2>5
<1>6. Drivers'
  <2>1. drivers' \in [machine -> Nat]
    BY <1>1 DEF Drivers
  <2>2. QED
    BY <1>1, <1>5, <2>1, CountsKept
<1>7. QED
  BY <1>4, <1>6

\* A header that answers adds one to the count of a controller that can be found.
LEMMA FunctionIsCounted ==
  ASSUME Described, Loops, Drivers, EnumerateFunction, function < Functions,
         reading' # "wild"
  PROVE  Loops' /\ Drivers'
<1>1. /\ reading = "EnumerateFunction" /\ t' = t /\ mcfg' = mcfg /\ machine' = machine
      /\ t \in DOMAIN mcfg /\ mcfg[t].StartBus <= bus
      /\ bus < mcfg[t].EndBus /\ Present(bus, 0, 0)
      /\ device < Devices /\ function <= Functions /\ Present(bus, device, 0)
      /\ t \in Nat /\ bus \in Nat /\ device \in Nat /\ function \in Nat
  BY DEF EnumerateFunction, Loops
<1>2. /\ reading' = reading /\ function' = function + 1 /\ bus' = bus /\ device' = device
      /\ drivers' = [x \in machine |->
                       IF x \in Answering(bus, device, function) /\ x.Class = "AHCI"
                       THEN drivers[x] + 1 ELSE drivers[x]]
  BY DEF EnumerateFunction, NextFunction
<1>3. Devices \in Nat /\ Functions \in Nat
  BY PlatformIs
<1>4. Loops'
  <2>1. Present(bus, 0, 0)' /\ Present(bus, device, 0)'
    BY <1>1, <1>2 DEF Present, Answering
  <2>2. function' \in Nat /\ function' <= Functions
    BY <1>1, <1>2, <1>3
  <2>3. QED
    BY <1>1, <1>2, <2>1, <2>2 DEF Loops
<1>5. ASSUME NEW x \in machine
      PROVE  x \in Answering(bus, device, function) <=>
               /\ x.at.base = mcfg[t].BaseAddress /\ x.at.bus = bus /\ x.at.device = device
               /\ x.at.function = function \/ x.aliased
  BY DEF Answering
<1>6. \A x \in machine :
        ~(x.Class = "AHCI" /\ x \in Visited) => drivers'[x] = drivers[x]
  <2>1. SUFFICES ASSUME NEW x \in machine, x \in Answering(bus, device, function)
                 PROVE  x \in Visited
    BY <1>2
  <2>2. x.at.base = mcfg[t].BaseAddress /\ x.at.bus = bus /\ x.at.device = device
    BY <1>5, <2>1
  <2>3. Covers(mcfg[t], x.at.base, x.at.bus)
    BY <1>1, <2>2, EntryIs
  <2>4. There(x, 0) /\ There(x, x.at.device)
    BY <1>1, <2>2, PresentIs
  <2>5. QED
    BY <1>1, <2>3, <2>4, VisitedIs
<1>7. ASSUME NEW x \in machine, NEW n \in DOMAIN mcfg, x.Class = "AHCI", x \in Visited,
             Covers(mcfg[n], x.at.base, x.at.bus), Counted(x, n)
      PROVE  Counted(x, n)'
  <2>1. /\ n \in Nat /\ x.at.base = mcfg[n].BaseAddress
        /\ x.at.function \in Nat /\ x.aliased \in BOOLEAN
    BY <1>7, ControllerIs, PlatformIs
  <2>2. /\ Ahead(x, n)' <=> Ahead(x, n)
        /\ Under(x, n)' <=> Under(x, n)
    BY <1>1, <1>2 DEF Ahead, Under
  <2>3. /\ Under(x, n) <=> t = n /\ bus = x.at.bus /\ device = x.at.device
        /\ Under(x, n) => ~Ahead(x, n)
    <3>1. Under(x, n) <=> t = n /\ bus = x.at.bus /\ device = x.at.device
      BY <1>1 DEF Under
    <3>2. Ahead(x, n) <=> \/ t < n
                          \/ t = n /\ bus < x.at.bus
                          \/ t = n /\ bus = x.at.bus /\ device < x.at.device
      BY <1>1 DEF Ahead
    <3>3. /\ t = n => ~(t < n)
          /\ bus = x.at.bus => ~(bus < x.at.bus)
          /\ device = x.at.device => ~(device < x.at.device)
      BY <1>1, <2>1
    <3>4. QED
      BY <3>1, <3>2, <3>3
  <2>4. x.at.base = mcfg[t].BaseAddress /\ x.at.bus = bus => t = n
    BY <1>1, <1>7, EntryIs
  <2>5. x \in Answering(bus, device, function) <=>
          Under(x, n) /\ (x.at.function = function \/ x.aliased)
    BY <1>5, <2>1, <2>3, <2>4
  <2>6. drivers'[x] = IF x \in Answering(bus, device, function)
                      THEN drivers[x] + 1 ELSE drivers[x]
    BY <1>2, <1>7
  <2>7. Found(x, function + 1) = IF x.at.function = function \/ x.aliased
                                 THEN Found(x, function) + 1 ELSE Found(x, function)
    BY <1>1, <2>1 DEF Found
  <2>8. drivers'[x] = IF Ahead(x, n) THEN 0
                      ELSE IF Under(x, n) THEN Found(x, function + 1) ELSE Found(x, Functions)
    BY <1>7, <2>3, <2>5, <2>6, <2>7 DEF Counted
  <2>9. QED
    BY <1>2, <2>2, <2>8 DEF Counted, Found
<1>8. Drivers'
  <2>1. drivers' \in [machine -> Nat]
    BY <1>2 DEF Drivers
  <2>2. QED
    BY <1>1, <1>6, <1>7, <2>1, CountsKept
<1>9. QED
  BY <1>4, <1>8

\* After its last function a device is behind the loops.
LEMMA DeviceIsLeft ==
  ASSUME Described, Loops, Drivers, EnumerateFunction, ~(function < Functions)
  PROVE  Loops' /\ Drivers'
<1>1. /\ reading = "EnumerateFunction" /\ t' = t /\ mcfg' = mcfg /\ machine' = machine
      /\ t \in DOMAIN mcfg /\ mcfg[t].StartBus <= bus
      /\ bus < mcfg[t].EndBus /\ Present(bus, 0, 0) /\ function <= Functions
      /\ t \in Nat /\ bus \in Nat /\ device \in Nat /\ function \in Nat
  BY DEF EnumerateFunction, Loops
<1>2. /\ reading' = "EnumerateDevice" /\ device' = device + 1 /\ bus' = bus
      /\ function' = function /\ drivers' = drivers
  BY DEF EnumerateFunction, NextDevice
<1>3. function = Functions
  BY <1>1, PlatformIs
<1>4. Loops'
  <2>1. Present(bus, 0, 0)'
    BY <1>1, <1>2 DEF Present, Answering
  <2>2. device' \in Nat
    BY <1>1, <1>2
  <2>3. QED
    BY <1>1, <1>2, <2>1, <2>2 DEF Loops
<1>5. ASSUME NEW x \in machine, NEW n \in DOMAIN mcfg, x \in Visited,
             Covers(mcfg[n], x.at.base, x.at.bus), Counted(x, n)
      PROVE  Counted(x, n)'
  <2>1. x.at.device \in Nat
    BY <1>5, ControllerIs
  <2>2. Ahead(x, n) <=> \/ t < n
                        \/ t = n /\ bus < x.at.bus
                        \/ t = n /\ bus = x.at.bus /\ device < x.at.device
    BY <1>1 DEF Ahead
  <2>3. /\ Ahead(x, n)' <=> \/ t < n
                            \/ t = n /\ bus < x.at.bus
                            \/ t = n /\ bus = x.at.bus /\ device + 1 <= x.at.device
        /\ ~Under(x, n)'
    BY <1>1, <1>2 DEF Ahead, Under
  <2>4. device < x.at.device <=> device + 1 <= x.at.device
    BY <1>1, <2>1
  <2>5. Ahead(x, n)' <=> Ahead(x, n)
    BY <2>2, <2>3, <2>4
  <2>6. drivers[x] = IF Ahead(x, n) THEN 0 ELSE Found(x, Functions)
    BY <1>3, <1>5 DEF Counted
  <2>7. QED
    BY <1>2, <2>3, <2>5, <2>6 DEF Counted, Found
<1>6. Drivers'
  <2>1. drivers' \in [machine -> Nat]
    BY <1>2 DEF Drivers
  <2>2. QED
    BY <1>1, <1>2, <1>5, <2>1, CountsKept
<1>7. QED
  BY <1>4, <1>6

-----------------------------------------------------------------------------
(* Theorems.                                                               *)

LEMMA EnumerationStepKeeps ==
  ASSUME EnumerationIInv, PCINext
  PROVE  EnumerationIInv'
<1>1. mcfg' = mcfg /\ machine' = machine /\ reading # "wild"
  BY DEF PCINext, EnumeratePCI, EnumerateBus, EnumerateDevice, EnumerateFunction
<1>2. Described /\ Loops /\ Drivers
  BY <1>1 DEF EnumerationIInv
<1>3. Described'
  BY <1>1, <1>2, TablesKept
<1>4. CASE EnumeratePCI
  BY <1>2, <1>3, <1>4, EnumeratePCIKeeps DEF EnumerationIInv
<1>5. CASE EnumerateBus
  BY <1>2, <1>3, <1>5, EnumerateBusKeeps DEF EnumerationIInv
<1>6. CASE EnumerateDevice
  BY <1>2, <1>3, <1>6, EnumerateDeviceKeeps DEF EnumerationIInv
<1>7. CASE EnumerateFunction
  <2>1. CASE function < Functions /\ reading' # "wild"
    BY <1>2, <1>3, <1>7, <2>1, FunctionIsCounted DEF EnumerationIInv
  <2>2. CASE ~(function < Functions)
    BY <1>2, <1>3, <1>7, <2>2, DeviceIsLeft DEF EnumerationIInv
  <2>3. CASE function < Functions /\ reading' = "wild"
    <3>1. t' = t /\ bus' = bus /\ device' = device /\ function' \in {function, function + 1}
      BY <1>7, <2>3 DEF EnumerateFunction, NextFunction
    <3>2. {t', bus', device', function'} \subseteq Nat
      BY <1>2, <3>1 DEF Loops
    <3>3. Loops'
      BY <2>3, <3>2 DEF Loops
    <3>4. QED
      BY <1>3, <2>3, <3>3 DEF EnumerationIInv
  <2>4. QED
    BY <2>1, <2>2, <2>3
<1>8. QED
  BY <1>4, <1>5, <1>6, <1>7 DEF PCINext

\* The kernel's first step leads into the loops or nowhere.
LEMMA PrepareACPIKeeps ==
  ASSUME EnumerationIInv, NEW rsdp, PrepareACPI(rsdp)
  PROVE  EnumerationIInv'
<1>1. /\ mcfg' = mcfg /\ machine' = machine /\ drivers' = drivers
      /\ t' = t /\ bus' = bus /\ device' = device /\ function' = function
      /\ reading = "idle" /\ reading' \in {"EnumeratePCI", "wild"}
  BY DEF PrepareACPI, loops
<1>2. Described /\ Loops /\ Drivers
  BY <1>1 DEF EnumerationIInv
<1>3. Described' /\ Visited' = Visited
  BY <1>1, <1>2, TablesKept
<1>4. Loops'
  BY <1>1, <1>2 DEF Loops
<1>5. ASSUME NEW x \in machine, NEW n \in DOMAIN mcfg, x \in Visited,
             Covers(mcfg[n], x.at.base, x.at.bus), Counted(x, n)
      PROVE  Counted(x, n)'
  <2>1. /\ Ahead(x, n) <=> t < n
        /\ Ahead(x, n)' <=> t < n
        /\ ~Under(x, n) /\ ~Under(x, n)'
    BY <1>1 DEF Ahead, Under
  <2>2. QED
    BY <1>1, <1>5, <2>1 DEF Counted, Found
<1>6. Drivers'
  <2>1. drivers' \in [machine -> Nat]
    BY <1>1, <1>2 DEF Drivers
  <2>2. QED
    BY <1>1, <1>2, <1>5, <2>1, CountsKept
<1>7. QED
  BY <1>3, <1>4, <1>6 DEF EnumerationIInv

LEMMA EnumerationInitHolds ==
  ASSUME PCIInit
  PROVE  EnumerationIInv
<1>1. /\ t = 0 /\ bus = 0 /\ device = 0 /\ function = 0 /\ reading = "idle"
      /\ drivers = [x \in machine |-> 0]
  BY DEF PCIInit
<1>2. Described
  BY DEF PCIInit, Described
<1>3. Loops
  BY <1>1 DEF Loops
<1>4. ASSUME NEW x \in machine, NEW n \in DOMAIN mcfg
      PROVE  Counted(x, n)
  <2>1. n \in Nat /\ n > 0
    BY <1>2, PlatformIs
  <2>2. Ahead(x, n)
    BY <1>1, <2>1 DEF Ahead
  <2>3. QED
    BY <1>1, <2>2 DEF Counted
<1>5. Drivers
  BY <1>1, <1>4 DEF Drivers
<1>6. QED
  BY <1>2, <1>3, <1>5 DEF EnumerationIInv

\* The invariant is inductive.
THEOREM BringUpInductive == Spec => []IInv
<1>1. Init => IInv
  BY LoaderInitHolds, EnumerationInitHolds DEF Init, IInv
<1>2. IInv /\ [Next]_vars => IInv'
  <2>1. SUFFICES ASSUME IInv, [Next]_vars
                 PROVE  IInv'
    OBVIOUS
  <2>2. CASE LoaderNext /\ UNCHANGED pciVars
    <3>1. LoaderIInv'
      BY <2>1, <2>2, LoaderStepKeeps DEF IInv
    <3>2. EnumerationIInv'
      BY <2>1, <2>2 DEF IInv, EnumerationIInv, Described, Loops, Drivers, Present, Answering,
         Visited, Counted, Ahead, Under, Found, pciVars, loops
    <3>3. QED
      BY <3>1, <3>2 DEF IInv
  <2>3. CASE UNCHANGED loaderVars /\ EnumerationIInv'
    <3>1. LoaderIInv'
      BY <2>1, <2>3 DEF IInv, LoaderIInv, Memory, Loaded, SegmentPages, PagesOf, Before, Rest,
         Current, loaderVars
    <3>2. QED
      BY <2>3, <3>1 DEF IInv
  <2>4. CASE Started /\ PrepareACPI(bootinfo.rsdp) /\ UNCHANGED loaderVars
    BY <2>1, <2>3, <2>4, PrepareACPIKeeps DEF IInv
  <2>5. CASE PCINext /\ UNCHANGED loaderVars
    BY <2>1, <2>3, <2>5, EnumerationStepKeeps DEF IInv
  <2>6. CASE UNCHANGED vars
    <3>1. EnumerationIInv'
      BY <2>1, <2>6 DEF vars, IInv, EnumerationIInv, Described, Loops, Drivers, Present,
         Answering, Visited, Counted, Ahead, Under, Found, pciVars, loops
    <3>2. QED
      BY <2>3, <2>6, <3>1 DEF vars
  <2>7. QED
    BY <2>1, <2>2, <2>4, <2>5, <2>6 DEF Next
<1>3. QED
  BY <1>1, <1>2, PTL DEF Spec

\* If the map was read and the firmware allocated nothing after that, the map the
\* kernel gets is that of the memory it gets, and the firmware is gone.  Other
\* calls may fail.  If Map has no pool, or became too long for its own pool
\* (main.c:219-221), nothing is claimed: outdated is set then too.
THEOREM MapIsCurrent == Spec => []HandedOverMapIsCurrent
<1>1. IInv => HandedOverMapIsCurrent
  <2>1. SUFFICES ASSUME IInv, Started, ~outdated
                 PROVE  exited /\ map = owner
    BY DEF HandedOverMapIsCurrent
  <2>2. PICK n \in 1 .. 14 : Before(n) /\ Current(n)
    BY <2>1 DEF IInv, LoaderIInv
  <2>3. n \notin 1 .. 13
    BY <2>1, <2>2, RestIs DEF Started, Before
  <2>4. n = 14
    BY <2>3
  <2>5. QED
    BY <2>1, <2>2, <2>4 DEF Current
<1>2. QED
  BY <1>1, BringUpInductive, PTL

\* If no call failed, every segment of the kernel is where its header says, in
\* memory that is the kernel's: rounding up its pages leaves no byte of it out, and
\* no segment after it, pool or event of the firmware takes one of them.
THEOREM KernelIsLoaded == Spec => []ImageIsWhole
<1>1. IInv => ImageIsWhole
  <2>1. SUFFICES ASSUME IInv, Started, ~failed, NEW k \in DOMAIN Segments
                 PROVE  /\ \A p \in PagesOf(k, Segments[k].memsz) : owner[p] = "kernel"
                        /\ \A p \in PagesOf(k, Segments[k].filesz) : image[p] = k
    BY DEF ImageIsWhole
  <2>2. PICK n \in 1 .. 14 : Before(n) /\ Current(n)
    BY <2>1 DEF IInv, LoaderIInv
  <2>3. n \notin 1 .. 13
    BY <2>1, <2>2, RestIs DEF Started, Before
  <2>4. n > 5
    BY <2>3
  <2>5. phdr = Len(Segments) + 1
    BY <2>2, <2>4 DEF Before
  <2>6. k \in 1 .. phdr - 1
    BY <2>5, BootLoaderAssumption
  <2>7. Loaded(phdr - 1)
    BY <2>1 DEF IInv, LoaderIInv, Memory
  <2>8. PagesOf(k, Segments[k].memsz) \subseteq SegmentPages(k)
    <3>1. Segments[k].memsz \in 0 .. Segments[k].memsz
      BY BootLoaderAssumption
    <3>2. QED
      BY <3>1, PagesAreAllocated
  <2>9. QED
    BY <2>6, <2>7, <2>8 DEF Loaded
<1>2. QED
  BY <1>1, BringUpInductive, PTL

\* On every bus the MCFG describes once, a controller that can be found gets its
\* driver once, and one that answers at every function once for each.
THEOREM ControllersHaveDrivers == Spec => []EveryControllerHasADriver
<1>1. IInv => EveryControllerHasADriver
  <2>1. SUFFICES ASSUME IInv, reading = "done", NEW x \in machine
                 PROVE  drivers[x] = IF x.Class = "AHCI" /\ x \in Visited
                                     THEN IF x.aliased THEN Functions ELSE 1
                                     ELSE 0
    BY DEF EveryControllerHasADriver
  <2>2. Described /\ Loops /\ Drivers
    BY <2>1 DEF IInv, EnumerationIInv
  <2>3. CASE ~(x.Class = "AHCI" /\ x \in Visited)
    BY <2>2, <2>3 DEF Drivers
  <2>4. CASE x.Class = "AHCI" /\ x \in Visited
    <3>1. PICK n \in DOMAIN mcfg : Covers(mcfg[n], x.at.base, x.at.bus)
      BY <2>4, VisitedIs
    <3>2. Counted(x, n)
      BY <2>2, <2>4, <3>1 DEF Drivers
    <3>3. n <= Len(mcfg) /\ n \in Nat /\ x.at.function < Functions
      BY <2>2, <2>4, <3>1, ControllerIs
    <3>4. ~(t < n)
      <4>1. t \in Nat /\ t > 0 /\ t \notin 1 .. Len(mcfg) /\ Len(mcfg) \in Nat
        BY <2>1, <2>2, PlatformIs DEF Loops
      <4>2. QED
        BY <3>3, <4>1
    <3>5. ~Ahead(x, n) /\ ~Under(x, n)
      BY <2>1, <3>4 DEF Ahead, Under
    <3>6. drivers[x] = Found(x, Functions)
      BY <3>2, <3>5 DEF Counted
    <3>7. QED
      BY <2>4, <3>3, <3>6 DEF Found
  <2>5. QED
    BY <2>3, <2>4
<1>2. QED
  BY <1>1, BringUpInductive, PTL
=============================================================================
