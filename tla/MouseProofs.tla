------------------------------ MODULE MouseProofs ------------------------------
(***************************************************************************)
(* The theorems about userinput/mouse.c: how the driver collects packets   *)
(* (PS2Mouse), and what it does to the screen with them (MouseCursor).     *)
(*                                                                         *)
(* PS2Mouse, for every mouse of 3 or 4 bytes, any number of bytes before   *)
(* the numbering starts over and any number of acknowledgements left       *)
(* unread.  DrawnPacketIsWhole rests on who began the packet in the        *)
(* buffer: while the main loop waits, the handler appends each byte to the *)
(* one before (Collecting); a packet it begins while the main loop is at   *)
(* work is marked by overlap, and its stores into the packet the main loop *)
(* reads by overtaken, so that what is left is a packet nobody touches     *)
(* (Reading).                                                              *)
(*                                                                         *)
(* MouseCursor, for every size of the screen and of the pointer, every     *)
(* shape of the pointer and every packet.  That the main loop stays on the *)
(* screen follows from clamping the position (mouse.c:134-137) and         *)
(* clipping the pointer there (BasicRenderer.c:99-102, 121-124); that it   *)
(* stays there while it visits pixel after pixel, from the next pixel      *)
(* being one of those left.  That the pointer costs no more text than it   *)
(* must follows from what the loops leave behind at every access: the      *)
(* pixels that carry the pointer have their text saved or on the screen,   *)
(* all others show it, and no two pixels of the pointer are the same pixel *)
(* of the screen.                                                          *)
(***************************************************************************)
EXTENDS PS2Mouse, MouseCursor, TLAPS, WellFoundedInduction

\* Packets have 3 or 4 bytes, and their numbers start over.
LEMMA Numbers ==
  ASSUME NEW p \in PacketSizes
  PROVE  /\ p \in {3, 4} /\ Packets * p \in Nat \ {0}
         /\ 0 \in 0 .. Packets * p - 1
         /\ \A n \in 0 .. Packets * p - 1 : (n + 1) % (Packets * p) \in 0 .. Packets * p - 1
<1>1. p \in {3, 4} /\ Packets \in Nat \ {0}
  BY PS2MouseAssumption
<1>2. Packets * p \in Nat \ {0}
  BY <1>1, SMT
<1>3. \A w \in Nat \ {0} : 0 \in 0 .. w - 1 /\ \A n \in 0 .. w - 1 : (n + 1) % w \in 0 .. w - 1
  BY SMT
<1>4. QED
  BY <1>1, <1>2, <1>3

\* Both orders have eight accesses.
LEMMA Orders ==
  ASSUME NEW o \in MainOrders
  PROVE  Len(o) = 8 /\ \A i \in 1 .. 8 : o[i] \in {"clear", "load0", "load1", "store1", "load2",
                                                  "store2", "draw", "done"}
BY DEF MainOrders

-----------------------------------------------------------------------------
(* Types.                                                                  *)

\* What the mouse sends, and what is left in the buffer, are bytes.
LEMMA ByteTypes ==
  ASSUME packetSize \in PacketSizes
  PROVE  Ack \in Bytes /\ Garbage \in Bytes /\ \A n \in 0 .. Window - 1 : Byte(n) \in Bytes
<1>1. Window \in Nat \ {0}
  BY Numbers DEF Window
<1>2. \A n \in -2 .. Window - 1 : Byte(n) \in Bytes
  BY DEF Byte, Bytes
<1>3. QED
  BY <1>1, <1>2 DEF Ack, Garbage

\* The initial states have the types,
LEMMA TypeOKInit == Init => TypeOK
<1>1. SUFFICES ASSUME Init PROVE TypeOK
  OBVIOUS
<1>2. packetSize \in PacketSizes /\ Garbage \in Bytes /\ 0 \in 0 .. Window - 1
  BY <1>1, ByteTypes, Numbers DEF Init, Window
<1>3. MousePacket \in [0 .. 3 -> Bytes] /\ loaded \in [0 .. 2 -> Bytes]
  BY <1>1, <1>2 DEF Init, NothingLoaded
<1>4. pc \in 0 .. Len(order)
  BY <1>1, Orders DEF Init
<1>5. acks \in Nat /\ missed \in BOOLEAN
  BY <1>1, PS2MouseAssumption DEF Init
<1>6. /\ MouseCycle \in 0 .. 3 /\ order \in MainOrders /\ sent \in 0 .. Window - 1
  BY <1>1, <1>2 DEF Init
<1>7. negative \in BOOLEAN \X BOOLEAN
  BY <1>1 DEF Init, NoSigns
<1>8. MousePacketReady \in BOOLEAN /\ overlap \in BOOLEAN /\ overtaken \in BOOLEAN
  BY <1>1 DEF Init
<1>9. QED
  BY <1>2, <1>3, <1>4, <1>5, <1>6, <1>7, <1>8 DEF TypeOK

\* What the handler leaves behind, for any byte.
LEMMA HandlerTypes ==
  ASSUME TypeOK, NEW data \in Bytes, NEW sync \in BOOLEAN, HandlePS2Mouse(data, sync)
  PROVE  /\ MouseCycle' \in 0 .. 3 /\ MousePacket' \in [0 .. 3 -> Bytes]
         /\ {MousePacketReady, overlap, overtaken, missed}' \subseteq BOOLEAN
<1>1. CASE UNCHANGED <<shared, overlap, overtaken>>
  BY <1>1 DEF TypeOK, HandlePS2Mouse, shared
<1>2. CASE ~Dropped /\ ~OutOfSync(sync)
  <2>1. /\ MousePacket' = [MousePacket EXCEPT ![MouseCycle] = data]
        /\ MousePacketReady' = (MousePacketReady \/ MouseCycle = 3)
        /\ MouseCycle' = NextCycle
        /\ overlap' = (IF MouseCycle = 0 THEN pc # 0 ELSE overlap)
        /\ overtaken' = (overtaken \/ pc # 0)
        /\ UNCHANGED missed
    BY <1>2 DEF HandlePS2Mouse
  <2>2. MouseCycle' \in 0 .. 3 /\ MousePacket' \in [0 .. 3 -> Bytes]
    BY <2>1 DEF TypeOK, NextCycle
  <2>3. {MousePacketReady, overlap, overtaken, missed}' \subseteq BOOLEAN
    BY <2>1 DEF TypeOK
  <2>4. QED
    BY <2>2, <2>3
<1>3. QED
  BY <1>1, <1>2 DEF HandlePS2Mouse

\* and every step keeps them.
LEMMA TypeOKNext == TypeOK /\ [Next]_vars => TypeOK'
<1>1. SUFFICES ASSUME TypeOK, [Next]_vars PROVE TypeOK'
  OBVIOUS
<1>2. /\ packetSize \in PacketSizes /\ sent \in 0 .. Window - 1 /\ acks \in Nat
      /\ order \in MainOrders /\ Len(order) = 8 /\ pc \in 0 .. 8
  BY <1>1, Orders DEF TypeOK
<1>3. CASE AckInterrupt
  <2>1. Ack \in Bytes
    BY <1>2, ByteTypes
  <2>2. HandlePS2Mouse(Ack, TRUE)
    BY <1>3 DEF AckInterrupt
  <2>3. acks' \in Nat /\ UNCHANGED <<packetSize, sent, main>>
    BY <1>2, <1>3 DEF AckInterrupt
  <2>4. QED
    BY <1>1, <2>1, <2>2, <2>3, HandlerTypes DEF TypeOK, main, Window, Bytes
<1>4. CASE MouseInterrupt
  <2>1. Byte(sent) \in Bytes
    BY <1>2, ByteTypes
  <2>2. PICK sync \in BOOLEAN : HandlePS2Mouse(Byte(sent), sync)
    BY <1>4 DEF MouseInterrupt
  <2>3. sent' \in 0 .. Window - 1 /\ UNCHANGED <<packetSize, acks, main>>
    BY <1>2, <1>4, Numbers DEF MouseInterrupt, Following, Window
  <2>4. QED
    BY <1>1, <2>1, <2>2, <2>3, HandlerTypes DEF TypeOK, main, Window, Bytes
<1>5. CASE Main
  <2>1. pc' \in 0 .. 8 /\ UNCHANGED <<device, order, MouseCycle>>
    <3>1. UNCHANGED <<device, order, MouseCycle>>
      BY <1>5 DEF Main, Poll, Clear, Done, Load0, Load, Store, Draw, shared
    <3>2. pc' = 1 \/ Advance
      BY <1>5 DEF Main, Poll, Clear, Done, Load0, Load, Store, Draw
    <3>3. QED
      BY <1>2, <3>1, <3>2 DEF Advance
  <2>2. negative' \in BOOLEAN \X BOOLEAN
    <3>1. negative' \in BOOLEAN \X BOOLEAN \/ negative' = negative \/ negative' = NoSigns
      BY <1>5 DEF Main, Poll, Clear, Done, Load0, Load, Store, Draw
    <3>2. NoSigns \in BOOLEAN \X BOOLEAN
      BY DEF NoSigns
    <3>3. QED
      BY <1>1, <3>1, <3>2 DEF TypeOK
  <2>6. /\ UNCHANGED overlap /\ UNCHANGED missed
        /\ overtaken' = overtaken \/ overtaken' = overlap \/ overtaken' = FALSE
        /\ MousePacketReady' = MousePacketReady \/ MousePacketReady' = FALSE
    BY <1>5 DEF Main, Poll, Clear, Done, Load0, Load, Store, Draw, shared
  <2>3. loaded' \in [0 .. 2 -> Bytes]
    BY <1>1, <1>2, <1>5, ByteTypes
       DEF Main, Poll, Clear, Done, Load0, Load, Store, Draw, NothingLoaded, TypeOK
  <2>4. \A i \in 1 .. 2 : [n |-> loaded[i].n, negated |-> ~loaded[i].negated] \in Bytes
    BY <1>1 DEF TypeOK, Bytes
  <2>5. MousePacket' \in [0 .. 3 -> Bytes]
    <3>1. \/ MousePacket' = MousePacket
          \/ \E i \in 1 .. 2 :
               MousePacket' = [MousePacket EXCEPT
                                 ![i] = [n |-> loaded[i].n, negated |-> ~loaded[i].negated]]
      BY <1>5 DEF Main, Poll, Clear, Done, Load0, Load, Store, Draw, shared
    <3>2. MousePacket \in [0 .. 3 -> Bytes]
      BY <1>1 DEF TypeOK
    <3>3. QED
      BY <2>4, <3>1, <3>2
  <2>7. QED
    BY <1>1, <1>2, <2>1, <2>2, <2>3, <2>5, <2>6 DEF TypeOK, device, Window, Bytes
<1>6. CASE UNCHANGED vars
  BY <1>1, <1>6 DEF TypeOK, vars, device, shared, main, Window, Bytes
<1>7. QED
  BY <1>1, <1>3, <1>4, <1>5, <1>6 DEF Next

\* The types of the driver's state.
THEOREM TypeCorrect == MovingSpec => []TypeOK
BY TypeOKInit, TypeOKNext, PTL DEF MovingSpec, Spec

-----------------------------------------------------------------------------
(* The place in the stream.                                                *)

\* The byte after one has the next place in its packet.
LEMMA NextPosition ==
  ASSUME packetSize = 4, packetSize \in PacketSizes, sent \in 0 .. Window - 1
  PROVE  Following(sent) % 4 = IF sent % 4 = 3 THEN 0 ELSE (sent % 4) + 1
<1>1. Packets \in Nat \ {0} /\ Window = Packets * 4
  BY PS2MouseAssumption DEF Window
<1>2. CASE sent + 1 < Window
  <2>1. Following(sent) = sent + 1
    BY <1>1, <1>2, SMT DEF Following
  <2>2. QED
    BY <1>1, <2>1, SMT
<1>3. CASE sent + 1 = Window
  <2>1. Following(sent) = 0
    BY <1>1, <1>3, SMT DEF Following
  <2>2. sent % 4 = 3
    BY <1>1, <1>3, SMT
  <2>3. QED
    BY <2>1, <2>2, SMT
<1>4. QED
  BY <1>1, <1>2, <1>3, SMT

\* Unread acknowledgements count as a missed byte.
Placed == (acks > 0 => missed) /\ InSyncUntilAByteIsMissed

\* The handler and the mouse count alike until a byte is missed.
LEMMA PlacedNext == TypeOK /\ Placed /\ [Next]_vars => Placed'
<1>1. SUFFICES ASSUME TypeOK, Placed, [Next]_vars PROVE Placed'
  OBVIOUS
<1>2. CASE AckInterrupt
  <2>1. missed /\ missed'
    BY <1>1, <1>2 DEF AckInterrupt, HandlePS2Mouse, Placed, TypeOK
  <2>2. QED
    BY <2>1 DEF Placed, InSyncUntilAByteIsMissed
<1>3. CASE MouseInterrupt
  <2>1. SUFFICES ASSUME packetSize = 4, ~missed' PROVE MouseCycle' = Position(sent)'
    BY <1>1, <1>3 DEF MouseInterrupt, Placed, InSyncUntilAByteIsMissed
  <2>2. /\ ~missed /\ ~Dropped
        /\ UNCHANGED packetSize /\ sent' = Following(sent)
    BY <1>1, <1>3, <2>1 DEF MouseInterrupt, HandlePS2Mouse, TypeOK
  <2>3. MouseCycle = sent % 4
    BY <1>1, <2>1, <2>2 DEF Placed, InSyncUntilAByteIsMissed, Position
  <2>4. PICK sync \in {TRUE} \cup {Position(sent) = 0} : HandlePS2Mouse(Byte(sent), sync)
    BY <1>3 DEF MouseInterrupt
  <2>5. ~OutOfSync(sync)
    BY <2>1, <2>3, <2>4 DEF OutOfSync, Position
  <2>6. MouseCycle' = NextCycle
    BY <2>2, <2>4, <2>5 DEF HandlePS2Mouse
  <2>7. Following(sent) % 4 = IF sent % 4 = 3 THEN 0 ELSE (sent % 4) + 1
    BY <1>1, <2>1, NextPosition DEF TypeOK
  <2>8. QED
    BY <2>1, <2>2, <2>3, <2>6, <2>7 DEF NextCycle, Position
<1>4. CASE Main
  <2>1. UNCHANGED <<device, MouseCycle, missed>>
    BY <1>4 DEF Main, Poll, Clear, Done, Load0, Load, Store, Draw, shared
  <2>2. QED
    BY <1>1, <2>1 DEF Placed, InSyncUntilAByteIsMissed, Position, device
<1>5. CASE UNCHANGED vars
  BY <1>1, <1>5 DEF Placed, InSyncUntilAByteIsMissed, Position, vars, device, shared
<1>6. QED
  BY <1>1, <1>2, <1>3, <1>4, <1>5 DEF Next

LEMMA InitPlaced == Init => Placed
<1>1. SUFFICES ASSUME Init, packetSize = 4 PROVE MouseCycle = Position(sent)
  BY DEF Init, Placed, InSyncUntilAByteIsMissed
<1>2. QED
  BY <1>1, SMT DEF Init, Position

\* With packets of 4 bytes the handler keeps its place until a byte is missed:
\* bit 3 of the first byte (mouse.c:57-87) never makes it leave one out.
THEOREM KeepsItsPlace == MovingSpec => []InSyncUntilAByteIsMissed
<1>1. Placed => InSyncUntilAByteIsMissed
  BY DEF Placed
<1>2. QED
  BY <1>1, InitPlaced, PlacedNext, TypeCorrect, PTL DEF MovingSpec, Spec

-----------------------------------------------------------------------------
(* The packet the main loop draws.                                         *)

\* c is the byte after b, numbers being taken modulo w.
Linked(w, b, c) ==
  b.n \in Nat => c.n = (b.n + 1) % w /\ ~b.negated /\ ~c.negated

LoadOf(i) == CASE i = 0 -> "load0" [] i = 1 -> "load1" [] i = 2 -> "load2"

\* The bytes the main loop works on: what it has loaded, or will load.
IsLoaded(i) == \E k \in 1 .. 8 : k < pc /\ order[k] = LoadOf(i)
InHand(i)   == IF IsLoaded(i) THEN loaded[i] ELSE MousePacket[i]

\* A packet's bytes are linked each to the one before, the last of them to the
\* byte that comes next.
Chained(w, packet, cycle, next) ==
  /\ \A i \in 0 .. 1 : i + 1 < cycle => Linked(w, packet[i], packet[i + 1])
  /\ packet[cycle - 1].n \in Nat =>
       next = (packet[cycle - 1].n + 1) % w /\ ~packet[cycle - 1].negated

Collecting == Chained(Window, MousePacket, MouseCycle, sent)

Complete == \A i \in 0 .. 1 : Linked(Window, MousePacket[i], MousePacket[i + 1])

Reading == MouseCycle = 0 /\ \A i \in 0 .. 1 : Linked(Window, InHand(i), InHand(i + 1))

NoData == /\ \A i \in 0 .. 3 : MousePacket[i].n < 0
          /\ \A i \in 0 .. 2 : loaded[i].n < 0

Whole ==
  /\ MousePacketReady => MouseCycle = 0
  /\ acks > 0 => NoData
  /\ pc # 0 /\ MouseCycle > 0 => overlap
  /\ pc = 0 /\ ~overlap /\ MouseCycle > 0 => Collecting
  /\ pc = 0 /\ ~overlap /\ MousePacketReady => Complete
  /\ pc # 0 /\ ~overtaken => Reading

\* A byte the handler stores where the main loop waits prolongs the chain.
LEMMA ChainGrows ==
  ASSUME NEW w, NEW packet \in [0 .. 3 -> [n : Int, negated : BOOLEAN]],
         NEW cycle \in 0 .. 3, NEW data \in [n : Int, negated : BOOLEAN], NEW next, NEW after,
         ~data.negated, data.n \in Nat => data.n = next /\ after = (next + 1) % w,
         cycle > 0 => Chained(w, packet, cycle, next),
         cycle > 0 /\ data.n \notin Nat => packet[cycle - 1].n \notin Nat
  PROVE  Chained(w, [packet EXCEPT ![cycle] = data], cycle + 1, after)
<1> DEFINE stored == [packet EXCEPT ![cycle] = data]
<1>1. /\ stored[cycle] = data
      /\ \A i \in 0 .. 3 : i # cycle => stored[i] = packet[i]
  OBVIOUS
<1> HIDE DEF stored
<1>2. ASSUME NEW i \in 0 .. 1, i + 1 < cycle + 1 PROVE Linked(w, stored[i], stored[i + 1])
  <2>1. CASE i + 1 < cycle
    <3>1. Linked(w, packet[i], packet[i + 1])
      BY <2>1 DEF Chained
    <3>2. stored[i] = packet[i] /\ stored[i + 1] = packet[i + 1]
      BY <1>1, <2>1
    <3>3. QED
      BY <3>1, <3>2
  <2>2. CASE i + 1 = cycle
    <3>1. stored[i] = packet[cycle - 1] /\ stored[i + 1] = data
      BY <1>1, <2>2
    <3>2. packet[cycle - 1].n \in Nat =>
            next = (packet[cycle - 1].n + 1) % w /\ ~packet[cycle - 1].negated
      BY <2>2 DEF Chained
    <3>3. Linked(w, packet[cycle - 1], data)
      BY <2>2, <3>2 DEF Linked
    <3>4. QED
      BY <3>1, <3>3
  <2>3. QED
    BY <1>2, <2>1, <2>2
<1>3. stored[cycle + 1 - 1] = data
  BY <1>1
<1>4. QED
  BY <1>2, <1>3 DEF Chained, stored

\* Both orders load a byte once, before it is written back, and all of them
\* before the pointer is drawn.
LEMMA LoadsComeFirst ==
  ASSUME NEW o \in MainOrders, NEW p \in 1 .. 8
  PROVE  /\ o[p] = "done" <=> p = 8
         /\ \A k \in 1 .. 8 : k # p /\ o[k] = o[p] => o[p] \notin {"load0", "load1", "load2"}
         /\ o[p] = "store1" => \E k \in 1 .. 8 : k < p /\ o[k] = "load1"
         /\ o[p] = "store2" => \E k \in 1 .. 8 : k < p /\ o[k] = "load2"
         /\ o[p] = "draw" => \A l \in {"load0", "load1", "load2"} :
                               \E k \in 1 .. 8 : k < p /\ o[k] = l
<1>1. CASE o = <<"clear", "load0", "load1", "store1", "load2", "store2", "draw", "done">>
  <2>1. /\ o[1] = "clear" /\ o[2] = "load0" /\ o[3] = "load1" /\ o[4] = "store1"
        /\ o[5] = "load2" /\ o[6] = "store2" /\ o[7] = "draw" /\ o[8] = "done"
    BY <1>1
  <2>2. QED
    BY <2>1
<1>2. CASE o = <<"load0", "load1", "clear", "store1", "load2", "store2", "draw", "done">>
  <2>1. /\ o[1] = "load0" /\ o[2] = "load1" /\ o[3] = "clear" /\ o[4] = "store1"
        /\ o[5] = "load2" /\ o[6] = "store2" /\ o[7] = "draw" /\ o[8] = "done"
    BY <1>2
  <2>2. QED
    BY <2>1
<1>3. QED
  BY <1>1, <1>2 DEF MainOrders

\* The handler stores into a packet nobody reads, or overtaken says so.
LEMMA HandlerKeepsWhole ==
  ASSUME TypeOK, Whole, UNCHANGED <<packetSize, main>>,
         NEW data \in Bytes, NEW sync \in BOOLEAN, HandlePS2Mouse(data, sync),
         ~data.negated, data.n \in Nat => data.n = sent /\ sent' = (sent + 1) % Window,
         data.n \notin Nat => NoData,
         acks' > 0 => NoData /\ data.n < 0
  PROVE  Whole'
<1>1. Window' = Window /\ Window \in Nat /\ Bytes \subseteq [n : Int, negated : BOOLEAN]
  BY Numbers DEF Window, TypeOK, Bytes
<1>2. CASE Dropped \/ OutOfSync(sync)
  <2>1. UNCHANGED <<shared, overlap, overtaken, main>> /\ MouseCycle = 0
    BY <1>2 DEF HandlePS2Mouse, Dropped, OutOfSync, Whole
  <2>2. (acks' > 0 => NoData') /\ (Complete => Complete') /\ (Reading => Reading')
    BY <1>1, <2>1 DEF NoData, Complete, Reading, InHand, IsLoaded, shared, main
  <2>3. QED
    BY <2>1, <2>2 DEF Whole, shared, main
<1>3. CASE ~Dropped /\ ~OutOfSync(sync)
  <2> DEFINE stored == [MousePacket EXCEPT ![MouseCycle] = data]
  <2>1. /\ MousePacket' = stored /\ MouseCycle' = NextCycle
        /\ MousePacketReady' = (MousePacketReady \/ MouseCycle = 3)
        /\ overlap' = (IF MouseCycle = 0 THEN pc # 0 ELSE overlap)
        /\ overtaken' = (overtaken \/ pc # 0)
        /\ pc' = pc /\ loaded' = loaded
    BY <1>3 DEF HandlePS2Mouse, main
  <2>2. MouseCycle \in 0 .. 3 /\ ~MousePacketReady /\ MousePacket \in [0 .. 3 -> Bytes]
    BY <1>3 DEF Dropped, TypeOK
  <2>3. acks' > 0 => NoData'
    BY <2>1, <2>2 DEF NoData
  <2>4. ASSUME pc = 0, ~overlap'
        PROVE  Chained(Window, stored, MouseCycle + 1, sent')
    <3>1. MouseCycle > 0 => Chained(Window, MousePacket, MouseCycle, sent)
      BY <2>1, <2>2, <2>4 DEF Whole, Collecting
    <3>2. MouseCycle > 0 /\ data.n \notin Nat => MousePacket[MouseCycle - 1].n \notin Nat
      BY <2>2 DEF NoData
    <3>3. MousePacket \in [0 .. 3 -> [n : Int, negated : BOOLEAN]]
      BY <1>1, <2>2
    <3>4. QED
      BY <1>1, <2>2, <3>1, <3>2, <3>3, ChainGrows
  <2> HIDE DEF stored
  <2>5. pc = 0 /\ ~overlap' /\ MouseCycle' > 0 => Collecting'
    BY <1>1, <2>1, <2>2, <2>4 DEF NextCycle, Collecting
  <2>6. pc = 0 /\ ~overlap' /\ MousePacketReady' => Complete'
    <3>1. SUFFICES ASSUME pc = 0, ~overlap', MouseCycle = 3 PROVE Complete'
      BY <2>1, <2>2
    <3>2. \A i \in 0 .. 1 : Linked(Window, stored[i], stored[i + 1])
      BY <2>4, <3>1 DEF Chained
    <3>3. QED
      BY <1>1, <2>1, <3>2 DEF Complete
  <2>7. MousePacketReady' => MouseCycle' = 0
    BY <2>1, <2>2 DEF NextCycle
  <2>8. pc # 0 /\ MouseCycle' > 0 => overlap'
    <3>1. CASE MouseCycle = 0
      BY <2>1, <3>1
    <3>2. CASE MouseCycle # 0
      <4>1. pc # 0 => overlap
        BY <2>2, <3>2 DEF Whole
      <4>2. overlap' = overlap
        BY <2>1, <3>2
      <4>3. QED
        BY <4>1, <4>2
    <3>3. QED
      BY <3>1, <3>2
  <2>9. pc # 0 => overtaken'
    BY <2>1
  <2>10. QED
    BY <2>1, <2>3, <2>5, <2>6, <2>7, <2>8, <2>9 DEF Whole
<1>4. QED
  BY <1>2, <1>3

\* What the main loop has loaded belongs to one packet.
LEMMA MainKeepsWhole ==
  ASSUME TypeOK, Whole, Main
  PROVE  Whole'
<1>1. /\ Window' = Window /\ order \in MainOrders /\ Len(order) = 8 /\ pc \in 0 .. 8
      /\ UNCHANGED <<device, MouseCycle, overlap, order>>
  BY Orders DEF Main, Poll, Clear, Done, Load0, Load, Store, Draw, shared, device, Window, TypeOK
<1>2. MousePacketReady' => MousePacketReady
  BY DEF Main, Poll, Clear, Done, Load0, Load, Store, Draw, shared
<1>3. acks' > 0 => NoData'
  <2>1. SUFFICES ASSUME NoData PROVE NoData'
    BY <1>1 DEF Whole, device
  <2>2. Garbage.n < 0
    BY DEF Garbage, Byte
  <2>3. \A i \in 0 .. 2 : loaded'[i].n < 0
    BY <2>1, <2>2 DEF Main, Poll, Clear, Done, Load0, Load, Store, Draw, NoData, TypeOK, NothingLoaded
  <2>4. \A i \in 0 .. 3 : MousePacket'[i].n < 0
    BY <2>1 DEF Main, Poll, Clear, Done, Load0, Load, Store, Draw, NoData, TypeOK, shared
  <2>5. QED
    BY <2>3, <2>4 DEF NoData
<1>4. CASE Poll
  <2>1. \A i : IsLoaded(i)' = FALSE
    BY <1>4 DEF Poll, IsLoaded
  <2>2. overtaken' = overlap /\ pc = 0 /\ MousePacketReady /\ pc' = 1 /\ UNCHANGED MousePacket
    BY <1>4 DEF Poll, shared
  <2>3. ~overtaken' => Reading'
    BY <1>1, <2>1, <2>2 DEF Whole, Complete, Reading, InHand
  <2>4. QED
    BY <1>1, <1>2, <1>3, <2>2, <2>3 DEF Whole
<1>5. CASE Done
  <2>1. pc' = 0 /\ ~MousePacketReady' /\ pc # 0
    BY <1>1, <1>5, LoadsComeFirst DEF Done, At, Advance
  <2>2. QED
    BY <1>1, <1>2, <1>3, <2>1 DEF Whole
<1>6. CASE Clear \/ Load0 \/ Load(1, "load1") \/ Load(2, "load2") \/ Draw
           \/ Store(1, "store1") \/ Store(2, "store2")
  <2>1. pc \in 1 .. 8 /\ pc # 8
    BY <1>1, <1>6, LoadsComeFirst DEF Clear, Load0, Load, Draw, Store, At
  <2>2. pc' = pc + 1 /\ UNCHANGED overtaken
    <3>1. Advance
      BY <1>6 DEF Clear, Load0, Load, Draw, Store
    <3>2. UNCHANGED overtaken
      BY <1>6 DEF Clear, Load0, Load, Draw, Store
    <3>3. QED
      BY <1>1, <2>1, <3>1, <3>2 DEF Advance
  <2>3. \A i \in 0 .. 2 : IsLoaded(i)' <=> IsLoaded(i) \/ order[pc] = LoadOf(i)
    BY <1>1, <2>1, <2>2 DEF IsLoaded
  <2>4. ASSUME NEW i \in 0 .. 2 PROVE InHand(i)' = InHand(i)
    <3>1. CASE Clear \/ Draw
      BY <1>1, <2>3, <3>1 DEF Clear, Draw, At, InHand, LoadOf, shared
    <3>2. ASSUME NEW j \in 0 .. 2, At(LoadOf(j)), UNCHANGED MousePacket,
                 loaded' = [loaded EXCEPT ![j] = MousePacket[j]]
          PROVE  InHand(i)' = InHand(i)
      <4>1. ~IsLoaded(j) /\ order[pc] = LoadOf(j)
        BY <1>1, <2>1, <3>2, LoadsComeFirst DEF At, IsLoaded, LoadOf
      <4>2. CASE i = j
        BY <2>3, <3>2, <4>1, <4>2 DEF InHand, TypeOK
      <4>3. CASE i # j
        BY <2>3, <3>2, <4>1, <4>3 DEF InHand, TypeOK, LoadOf
      <4>4. QED
        BY <4>2, <4>3
    <3>3. ASSUME NEW j \in 1 .. 2, IsLoaded(j), order[pc] \in {"store1", "store2"},
                 UNCHANGED loaded, \A k \in 0 .. 3 : k # j => MousePacket'[k] = MousePacket[k]
          PROVE  InHand(i)' = InHand(i)
      BY <2>3, <3>3 DEF InHand, LoadOf
    <3>4. CASE Load0 \/ Load(1, "load1") \/ Load(2, "load2")
      BY <3>2, <3>4 DEF Load0, Load, LoadOf, shared
    <3>5. CASE Store(1, "store1")
      <4>1. IsLoaded(1) /\ order[pc] = "store1"
        BY <1>1, <2>1, <3>5, LoadsComeFirst DEF Store, At, IsLoaded, LoadOf
      <4>2. UNCHANGED loaded /\ \A k \in 0 .. 3 : k # 1 => MousePacket'[k] = MousePacket[k]
        BY <3>5 DEF Store, TypeOK
      <4>3. QED
        BY <3>3, <4>1, <4>2
    <3>6. CASE Store(2, "store2")
      <4>1. IsLoaded(2) /\ order[pc] = "store2"
        BY <1>1, <2>1, <3>6, LoadsComeFirst DEF Store, At, IsLoaded, LoadOf
      <4>2. UNCHANGED loaded /\ \A k \in 0 .. 3 : k # 2 => MousePacket'[k] = MousePacket[k]
        BY <3>6 DEF Store, TypeOK
      <4>3. QED
        BY <3>3, <4>1, <4>2
    <3>7. QED
      BY <1>6, <3>1, <3>4, <3>5, <3>6
  <2>5. Reading => Reading'
    <3>1. ASSUME NEW i \in 0 .. 1 PROVE InHand(i)' = InHand(i) /\ InHand(i + 1)' = InHand(i + 1)
      BY <2>4
    <3>2. QED
      BY <1>1, <3>1 DEF Reading
  <2>6. QED
    BY <1>1, <1>2, <1>3, <2>1, <2>2, <2>5 DEF Whole
<1>7. QED
  BY <1>4, <1>5, <1>6 DEF Main

\* Until a byte is missed a packet of 4 bytes begins with its byte 0.
Begins ==
  packetSize = 4 /\ ~missed =>
    \A b \in {MousePacket[0], loaded[0]} : b.n \in Nat => Position(b.n) = 0

LEMMA BeginsNext == TypeOK /\ Placed /\ Begins /\ [Next]_vars => Begins'
<1>1. SUFFICES ASSUME TypeOK, Placed, Begins, [Next]_vars, packetSize' = 4, ~missed'
               PROVE  \A b \in {MousePacket'[0], loaded'[0]} :
                        b.n \in Nat => (b.n % packetSize)' = 0
  BY DEF Begins, Position
<1>2. UNCHANGED packetSize
  BY <1>1 DEF Next, AckInterrupt, MouseInterrupt, Main, Poll, Clear, Done, Load0, Load, Store,
              Draw, device, vars
<1>3. ~missed
  BY <1>1 DEF Next, AckInterrupt, MouseInterrupt, HandlePS2Mouse, Main, Poll, Clear, Done, Load0,
              Load, Store, Draw, vars, TypeOK
<1>4. \A b \in {MousePacket[0], loaded[0]} : b.n \in Nat => b.n % packetSize = 0
  BY <1>1, <1>2, <1>3 DEF Begins, Position
<1>5. MousePacket \in [0 .. 3 -> Bytes] /\ loaded \in [0 .. 2 -> Bytes]
  BY <1>1 DEF TypeOK
<1>6. CASE AckInterrupt
  BY <1>1, <1>3, <1>6 DEF AckInterrupt, Placed
<1>7. CASE MouseInterrupt
  <2>1. PICK sync \in {TRUE} \cup {Position(sent) = 0} : HandlePS2Mouse(Byte(sent), sync)
    BY <1>7 DEF MouseInterrupt
  <2>2. UNCHANGED loaded
    BY <1>7 DEF MouseInterrupt, main
  <2>3. \/ UNCHANGED MousePacket
        \/ MousePacket' = [MousePacket EXCEPT ![MouseCycle] = Byte(sent)]
    BY <2>1 DEF HandlePS2Mouse, shared
  <2>4. MouseCycle = 0 => sent % packetSize = 0
    BY <1>1, <1>2, <1>3 DEF Placed, InSyncUntilAByteIsMissed, Position
  <2>5. MousePacket'[0] \in {MousePacket[0]} \cup {b \in {Byte(sent)} : MouseCycle = 0}
    BY <1>5, <2>3
  <2>6. Byte(sent).n = sent
    BY DEF Byte
  <2>7. QED
    BY <1>2, <1>4, <2>2, <2>4, <2>5, <2>6
<1>8. CASE Main
  <2>1. MousePacket'[0] = MousePacket[0]
    BY <1>5, <1>8 DEF Main, Poll, Clear, Done, Load0, Load, Store, Draw, shared
  <2>2. loaded'[0] \in {loaded[0], MousePacket[0], Garbage}
    BY <1>5, <1>8 DEF Main, Poll, Clear, Done, Load0, Load, Store, Draw, NothingLoaded
  <2>3. Garbage.n \notin Nat
    BY DEF Garbage, Byte
  <2>4. QED
    BY <1>2, <1>4, <2>1, <2>2, <2>3
<1>9. CASE UNCHANGED vars
  BY <1>2, <1>4, <1>9 DEF vars, shared, main
<1>10. QED
  BY <1>1, <1>6, <1>7, <1>8, <1>9 DEF Next

\* What is drawn is three bytes the mouse sent one after the other, as it sent
\* them, in either order of the loads and however the handler interrupts them
\* (mouse.c:88-152), but for the packets overtaken names; and they are of one
\* packet if the mouse sends 4 bytes and none was missed.
THEOREM DrawsWholePackets == MovingSpec => []DrawnPacketIsWhole
<1>1. Init => Whole
  BY DEF Init, Whole, NoData, Garbage, Byte, NothingLoaded
<1>2. TypeOK /\ Whole /\ [Next]_vars => Whole'
  <2>1. SUFFICES ASSUME TypeOK, Whole, [Next]_vars PROVE Whole'
    OBVIOUS
  <2>2. CASE AckInterrupt
    <3>1. Ack \in Bytes /\ ~Ack.negated /\ Ack.n < 0 /\ Ack.n \notin Nat
      BY <2>1, ByteTypes DEF TypeOK, Ack, Byte
    <3>2. HandlePS2Mouse(Ack, TRUE) /\ UNCHANGED <<packetSize, main>> /\ NoData
      BY <2>1, <2>2 DEF AckInterrupt, Whole
    <3>3. QED
      BY <2>1, <3>1, <3>2, HandlerKeepsWhole
  <2>3. CASE MouseInterrupt
    <3>1. /\ Byte(sent) \in Bytes /\ ~Byte(sent).negated /\ Byte(sent).n = sent
          /\ sent \in Nat
      BY <2>1, ByteTypes, Numbers DEF TypeOK, Byte, Window
    <3>2. /\ UNCHANGED <<packetSize, main>> /\ acks' = 0
          /\ sent' = (sent + 1) % Window
      BY <2>3 DEF MouseInterrupt, Following
    <3>3. PICK sync \in BOOLEAN : HandlePS2Mouse(Byte(sent), sync)
      BY <2>3 DEF MouseInterrupt
    <3>4. QED
      BY <2>1, <3>1, <3>2, <3>3, HandlerKeepsWhole
  <2>4. CASE Main
    BY <2>1, <2>4, MainKeepsWhole
  <2>5. CASE UNCHANGED vars
    BY <2>1, <2>5 DEF vars, device, shared, main, Whole, NoData, Collecting, Complete, Reading,
                      InHand, IsLoaded, Window
  <2>6. QED
    BY <2>1, <2>2, <2>3, <2>4, <2>5 DEF Next
<1>3. TypeOK /\ Whole /\ Begins => DrawnPacketIsWhole
  <2>1. SUFFICES ASSUME TypeOK, Whole, Begins, At("draw"), ~overtaken, NEW i \in 0 .. 1,
                        loaded[i].n \in Nat
                 PROVE  Consecutive(loaded[i], loaded[i + 1])
    BY DEF DrawnPacketIsWhole, Begins
  <2>2. order \in MainOrders /\ pc \in 1 .. 8 /\ order[pc] = "draw"
    <3>1. order \in MainOrders /\ pc \in 0 .. Len(order)
      BY <2>1 DEF TypeOK
    <3>2. Len(order) = 8
      BY <3>1, Orders
    <3>3. pc > 0 /\ order[pc] = "draw"
      BY <2>1 DEF At
    <3>4. QED
      BY <3>1, <3>2, <3>3
  <2>3. IsLoaded(i) /\ IsLoaded(i + 1)
    BY <2>2, LoadsComeFirst DEF IsLoaded, LoadOf
  <2>4. Linked(Window, loaded[i], loaded[i + 1])
    BY <2>1, <2>2, <2>3 DEF Whole, Reading, InHand
  <2>5. QED
    BY <2>1, <2>4 DEF Linked, Consecutive, Following
<1>4. Init => Placed /\ Begins
  <2>1. Init => Begins
    BY DEF Init, Begins, Garbage, Byte, NothingLoaded
  <2>2. QED
    BY <2>1, InitPlaced
<1>5. QED
  BY <1>1, <1>2, <1>3, <1>4, PlacedNext, BeginsNext, TypeCorrect, PTL DEF MovingSpec, Spec

-----------------------------------------------------------------------------
(* The pointer on the screen.                                              *)

\* What the loops rest on: between two accesses there is a pixel to go on with.
IInv ==
  /\ CursorTypeOK
  /\ StaysOnItsLines
  /\ doing \in {"restore", "put", "after"} => todo # {}

-----------------------------------------------------------------------------
(* Numbers.                                                                *)

\* A non-empty set of naturals has a least element.
LEMMA HasLeast ==
  ASSUME NEW S \in SUBSET Nat, S # {}
  PROVE  \E n \in S : \A m \in S : n <= m
<1>1. PICK n \in S : \A m \in S : ~(<<m, n>> \in OpToRel(<, Nat))
  BY WFMin, NatLessThanWellFounded
<1>2. ASSUME NEW m \in S PROVE n <= m
  <2>1. ~(<<m, n>> \in {pair \in Nat \X Nat : pair[1] < pair[2]})
    BY <1>1, Zenon DEF OpToRel
  <2>2. QED
    BY <2>1
<1>3. QED
  BY <1>2

\* A row below the last leaves room for one more.
LEMMA RowsBelow ==
  ASSUME NEW b \in Nat, NEW h \in Nat, NEW w \in Nat, b < h
  PROVE  b * w \in Nat /\ b * w + w <= h * w /\ h * w \in Nat
<1>1. /\ (h - b - 1) \in Nat /\ (h - b - 1) * w \in Nat
      /\ b * w \in Nat /\ h * w \in Nat
  OBVIOUS
<1>2. h * w = (h - b - 1) * w + b * w + w
  OBVIOUS
<1>3. QED
  BY <1>1, <1>2

\* The sizes of the screen and the pointer.
LEMMA Sizes ==
  /\ Width \in Nat /\ Width > 0 /\ Height \in Nat /\ Height > 0 /\ Size \in Nat
  /\ \A p \in MousePointer : p[1] \in Nat /\ p[2] \in Nat /\ p = <<p[1], p[2]>>
BY MouseCursorAssumption

\* A pixel on the scan lines has its number: PutPix stays inside the
\* framebuffer.
LEMMA PixOnScreen ==
  ASSUME NEW position, NEW p, <<position[1] + p[1], position[2] + p[2]>> \in Points
  PROVE  Pix(position, p) \in Pixels
<1> DEFINE a == position[1] + p[1]
           b == position[2] + p[2]
<1>1. a \in 0 .. Width - 1 /\ b \in 0 .. Height - 1
  BY DEF Points
<1> HIDE DEF a, b
<1>2. a \in Nat /\ b \in Nat /\ a < Width /\ b < Height
  BY <1>1, Sizes
<1>3. b * Width \in Nat /\ b * Width + Width <= Height * Width /\ Height * Width \in Nat
  BY <1>2, Sizes, RowsBelow
<1>4. Width * Height = Height * Width
  BY Sizes
<1>5. a + b * Width \in 0 .. Width * Height - 1
  BY <1>2, <1>3, <1>4, Sizes
<1>6. QED
  BY <1>5 DEF Pix, Pixels, a, b

\* The pointer is clipped at the right and lower edges.
LEMMA CoveredOnScreen ==
  ASSUME NEW position \in Points
  PROVE  /\ Covered(position) \subseteq MousePointer
         /\ \A p \in Covered(position) : <<position[1] + p[1], position[2] + p[2]>> \in Points
<1>1. ASSUME NEW p \in Covered(position)
      PROVE  <<position[1] + p[1], position[2] + p[2]>> \in Points
  <2>1. /\ p \in MousePointer
        /\ p[1] < Least(Size, Width - position[1])
        /\ p[2] < Least(Size, Height - position[2])
    BY <1>1 DEF Covered
  <2>2. p[1] \in Nat /\ p[2] \in Nat
    BY <2>1, Sizes
  <2>3. position[1] \in 0 .. Width - 1 /\ position[2] \in 0 .. Height - 1
    BY DEF Points
  <2>4. p[1] < Width - position[1] /\ p[2] < Height - position[2]
    BY <2>1, <2>2, <2>3, Sizes DEF Least
  <2>5. /\ position[1] + p[1] \in 0 .. Width - 1
        /\ position[2] + p[2] \in 0 .. Height - 1
    BY <2>2, <2>3, <2>4, Sizes
  <2>6. QED
    BY <2>5 DEF Points
<1>2. QED
  BY <1>1 DEF Covered

\* The next pixel is one of those left.
LEMMA FirstIsLeft ==
  ASSUME todo \subseteq MousePointer, todo # {}
  PROVE  First \in todo
<1>1. \A p \in todo : p[1] \in Nat /\ p[2] \in Nat
  BY Sizes
<1>2. PICK y \in {p[2] : p \in todo} : \A z \in {p[2] : p \in todo} : y <= z
  <2>1. {p[2] : p \in todo} \in SUBSET Nat /\ {p[2] : p \in todo} # {}
    BY <1>1
  <2>2. QED
    BY <2>1, HasLeast
<1> DEFINE Line == {p[1] : p \in {q \in todo : q[2] = y}}
<1>3. PICK x \in Line : \A z \in Line : x <= z
  <2>1. Line \in SUBSET Nat /\ Line # {}
    BY <1>1, <1>2
  <2> HIDE DEF Line
  <2>2. QED
    BY <2>1, HasLeast
<1>4. PICK p \in todo : p[2] = y /\ p[1] = x
  BY <1>3
<1>5. ASSUME NEW q \in todo
      PROVE  p[2] < q[2] \/ (p[2] = q[2] /\ p[1] <= q[1])
  <2>1. y <= q[2] /\ y \in Nat /\ q[2] \in Nat
    BY <1>1, <1>2
  <2>2. q[2] = y => x <= q[1]
    BY <1>3
  <2>3. QED
    BY <1>4, <2>1, <2>2
<1>6. QED
  BY <1>4, <1>5 DEF First

\* The next pixel is on the screen, at the place the loop is at work.
LEMMA FirstOnScreen ==
  ASSUME IInv, todo # {}
  PROVE  /\ First \in MousePointer /\ First \in todo
         /\ doing \in {"clear", "restore"} => Pix(MousePositionOLD, First) \in Pixels
         /\ doing \in {"draw", "put", "after"} => Pix(MousePosition, First) \in Pixels
<1>1. First \in todo /\ First \in MousePointer
  BY FirstIsLeft DEF IInv, CursorTypeOK
<1>2. QED
  BY <1>1, PixOnScreen DEF IInv, StaysOnItsLines

\* mouse.c:134-137.
LEMMA ClampedInside ==
  ASSUME NEW v \in Int, NEW limit \in Nat, limit > 0
  PROVE  Clamped(v, limit) \in 0 .. limit - 1
BY DEF Clamped

\* A packet moves by a whole number of pixels.
LEMMA MovementIsInt ==
  ASSUME NEW d \in Movements
  PROVE  d \in Int
<1>1. PICK byte \in PacketBytes, minus \in BOOLEAN, overflow \in BOOLEAN :
        d = Movement(byte, minus, overflow)
  BY DEF Movements
<1>2. byte \in Int /\ (256 - byte) % 256 \in Int
  BY MouseCursorAssumption
<1>3. (IF minus THEN (256 - byte) % 256 ELSE byte) + (IF overflow THEN 255 ELSE 0) \in Int
  BY <1>2
<1>4. QED
  BY <1>1, <1>3 DEF Movement

-----------------------------------------------------------------------------
(* The invariant.                                                          *)

\* Whatever the constructor left in the renderer.
LEMMA InitEstablishes == CursorInit => IInv
<1>1. SUFFICES ASSUME CursorInit PROVE IInv
  OBVIOUS
<1>2. screen \in [Pixels -> Colours] /\ White \in Colours /\ Black \in Colours
  BY <1>1, MouseCursorAssumption DEF CursorInit
<1>3. <<0, 0>> \in Points
  BY Sizes DEF Points
<1>4. MouseDrawn \in BOOLEAN /\ ClearColor \in Colours
  BY <1>1 DEF CursorInit
<1>5. /\ MouseCursorBuffer \in [MousePointer -> Colours]
      /\ MouseCursorBufferAfter \in [MousePointer -> Colours]
  <2>1. [p \in MousePointer |-> White] \in [MousePointer -> Colours]
    BY <1>2
  <2>2. QED
    BY <1>1, <2>1 DEF CursorInit
<1>6. text \in [Pixels -> Colours \cup {Unknown}]
  <2>1. CASE MouseDrawn
    <3>1. text = [i \in Pixels |-> IF i \in Under(<<0, 0>>) THEN Unknown ELSE screen[i]]
      BY <1>1, <2>1 DEF CursorInit
    <3>2. QED
      BY <1>2, <3>1
  <2>2. CASE ~MouseDrawn
    <3>1. text = screen
      BY <1>1, <2>2 DEF CursorInit
    <3>2. QED
      BY <1>2, <3>1
  <2>3. QED
    BY <2>1, <2>2
<1>7. MousePosition = <<0, 0>> /\ MousePositionOLD = <<0, 0>> /\ doing = "idle" /\ todo = {}
  BY <1>1 DEF CursorInit
<1>8. QED
  BY <1>2, <1>3, <1>4, <1>5, <1>6, <1>7 DEF IInv, CursorTypeOK, StaysOnItsLines

\* Text appears or disappears anywhere on the screen.
LEMMA KeyPreserves ==
  ASSUME IInv, KeyboardInterrupt
  PROVE  IInv'
<1>1. PICK i \in Pixels, c \in {White, ClearColor} :
        /\ screen' = [screen EXCEPT ![i] = c]
        /\ text' = [text EXCEPT ![i] = IF Endangered(i, c) THEN Unknown ELSE c]
        /\ UNCHANGED <<renderer, mouse, doing, todo>>
  BY DEF KeyboardInterrupt
<1>2. c \in Colours
  BY MouseCursorAssumption DEF IInv, CursorTypeOK
<1>3. screen' \in [Pixels -> Colours]
  BY <1>1, <1>2 DEF IInv, CursorTypeOK
<1>4. text' \in [Pixels -> Colours \cup {Unknown}]
  BY <1>1, <1>2 DEF IInv, CursorTypeOK
<1>5. QED
  BY <1>1, <1>3, <1>4 DEF IInv, CursorTypeOK, StaysOnItsLines, renderer, mouse

\* The position stays on the screen.
LEMMA PacketPreserves ==
  ASSUME IInv, ProcessMousePacket
  PROVE  IInv'
<1>1. PICK dx \in Movements, dy \in Movements :
        MousePosition' = << Clamped(MousePosition[1] + dx, Width),
                            Clamped(MousePosition[2] - dy, Height) >>
  BY DEF ProcessMousePacket
<1>2. dx \in Int /\ dy \in Int /\ MousePosition[1] \in Int /\ MousePosition[2] \in Int
  BY MovementIsInt, Sizes DEF IInv, CursorTypeOK, Points
<1>3. MousePosition' \in Points
  <2>1. MousePosition[1] + dx \in Int /\ MousePosition[2] - dy \in Int
    BY <1>2
  <2>2. /\ Clamped(MousePosition[1] + dx, Width) \in 0 .. Width - 1
        /\ Clamped(MousePosition[2] - dy, Height) \in 0 .. Height - 1
    BY <2>1, ClampedInside, Sizes
  <2>3. QED
    BY <1>1, <2>2 DEF Points
<1>4. UNCHANGED <<screen, renderer, MousePositionOLD, text>>
  BY DEF ProcessMousePacket
<1>5. MousePositionOLD \in Points
  BY DEF IInv, CursorTypeOK
<1>6. \/ doing' = "clear" /\ todo' = Covered(MousePositionOLD)
      \/ doing' = "draw" /\ todo' = Covered(MousePosition')
  BY DEF ProcessMousePacket
<1>7. CursorTypeOK'
  BY <1>3, <1>4, <1>5, <1>6, CoveredOnScreen DEF IInv, CursorTypeOK, renderer
<1>8. StaysOnItsLines'
  BY <1>3, <1>4, <1>5, <1>6, CoveredOnScreen DEF StaysOnItsLines
<1>9. QED
  BY <1>6, <1>7, <1>8 DEF IInv

\* A step from pixel to pixel at one place.
LEMMA VisitPreserves ==
  ASSUME IInv, ClearLook \/ ClearRestore \/ DrawSave \/ DrawPut \/ DrawAfter
  PROVE  IInv'
<1>1. todo # {}
  BY DEF IInv, ClearLook, ClearRestore, DrawSave, DrawPut, DrawAfter
<1>2. /\ First \in MousePointer
      /\ doing \in {"clear", "restore"} => Pix(MousePositionOLD, First) \in Pixels
      /\ doing \in {"draw", "put", "after"} => Pix(MousePosition, First) \in Pixels
  BY <1>1, FirstOnScreen
<1>3. /\ UNCHANGED <<ClearColor, MousePosition, MousePositionOLD, MouseDrawn, text>>
      /\ todo' \subseteq todo /\ (doing' \in {"restore", "put", "after"} => todo' = todo)
      /\ doing' \in {"clear", "restore", "draw", "put", "after"}
      /\ doing' \in {"clear", "restore"} <=> doing \in {"clear", "restore"}
  BY DEF ClearLook, ClearRestore, DrawSave, DrawPut, DrawAfter, renderer, mouse
<1>4. screen' \in [Pixels -> Colours]
  <2>1. CASE UNCHANGED screen
    BY <2>1 DEF IInv, CursorTypeOK
  <2>2. CASE ClearRestore
    <3>1. MouseCursorBuffer[First] \in Colours
      BY <1>2 DEF IInv, CursorTypeOK
    <3>2. QED
      BY <2>2, <3>1 DEF ClearRestore, IInv, CursorTypeOK
  <2>3. CASE DrawPut
    BY <2>3, MouseCursorAssumption DEF DrawPut, IInv, CursorTypeOK
  <2>4. QED
    BY <2>1, <2>2, <2>3 DEF ClearLook, DrawSave, DrawAfter
<1>5. /\ MouseCursorBuffer' \in [MousePointer -> Colours]
      /\ MouseCursorBufferAfter' \in [MousePointer -> Colours]
  <2>1. CASE DrawSave
    <3>1. Shown(First) \in Colours
      BY <1>2, <2>1 DEF DrawSave, Shown, IInv, CursorTypeOK
    <3>2. QED
      BY <2>1, <3>1 DEF DrawSave, IInv, CursorTypeOK
  <2>2. CASE DrawAfter
    <3>1. screen[Pix(MousePosition, First)] \in Colours
      BY <1>2, <2>2 DEF DrawAfter, IInv, CursorTypeOK
    <3>2. QED
      BY <2>2, <3>1 DEF DrawAfter, IInv, CursorTypeOK
  <2>3. CASE UNCHANGED renderer
    BY <2>3 DEF renderer, IInv, CursorTypeOK
  <2>4. QED
    BY <2>1, <2>2, <2>3 DEF ClearLook, ClearRestore, DrawPut
<1>6. CursorTypeOK'
  BY <1>3, <1>4, <1>5 DEF IInv, CursorTypeOK
<1>7. StaysOnItsLines'
  BY <1>3 DEF IInv, StaysOnItsLines
<1>8. QED
  BY <1>1, <1>3, <1>6, <1>7 DEF IInv

\* The loops end, and the next one begins at the new position.
LEMMA LoopEndPreserves ==
  ASSUME IInv, Cleared \/ Drawn
  PROVE  IInv'
<1>1. MousePosition \in Points /\ MousePositionOLD \in Points
  BY DEF IInv, CursorTypeOK
<1>2. CASE Cleared
  <2>1. /\ UNCHANGED <<screen, renderer, mouse, text>>
        /\ doing' = "draw" /\ todo' = Covered(MousePosition)
    BY <1>2 DEF Cleared
  <2>2. CursorTypeOK'
    BY <1>1, <2>1, CoveredOnScreen DEF IInv, CursorTypeOK, renderer, mouse
  <2>3. QED
    BY <1>1, <2>1, <2>2, CoveredOnScreen DEF IInv, StaysOnItsLines, mouse
<1>3. CASE Drawn
  BY <1>1, <1>3 DEF Drawn, IInv, CursorTypeOK, StaysOnItsLines
<1>4. QED
  BY <1>2, <1>3

\* Every step keeps the invariant.
LEMMA NextPreserves == IInv /\ [CursorNext]_cursorVars => IInv'
<1>1. SUFFICES ASSUME IInv, [CursorNext]_cursorVars PROVE IInv'
  OBVIOUS
<1>2. CASE UNCHANGED cursorVars
  BY <1>1, <1>2 DEF cursorVars, renderer, mouse, IInv, CursorTypeOK, StaysOnItsLines
<1>3. QED
  BY <1>1, <1>2, KeyPreserves, PacketPreserves, VisitPreserves, LoopEndPreserves DEF CursorNext

\* The types of the renderer's state, whatever its constructor left behind:
\* colours come from the screen or are the pointer's.
THEOREM CursorTypeCorrect == CursorSpec => []CursorTypeOK
<1>1. IInv => CursorTypeOK
  BY DEF IInv
<1>2. QED
  BY <1>1, InitEstablishes, NextPreserves, PTL DEF CursorSpec

\* Whatever the mouse reports, drawing the pointer and taking it away never
\* leaves the screen or runs into the next scan line (BasicRenderer.c:104-110,
\* 126-132).
THEOREM StaysOnScreen == CursorSpec => []StaysOnItsLines
<1>1. IInv => StaysOnItsLines
  BY DEF IInv
<1>2. QED
  BY <1>1, InitEstablishes, NextPreserves, PTL DEF CursorSpec

-----------------------------------------------------------------------------
(* The text.                                                               *)

\* Where the main loop is at work, or would begin to.
Place == IF doing \in {"idle", "clear", "restore"} THEN MousePositionOLD ELSE MousePosition

\* The pixels of the pointer that are on the screen and saved.
Painted ==
  IF doing = "idle" THEN IF MouseDrawn THEN Covered(MousePositionOLD) ELSE {}
  ELSE IF doing \in {"clear", "restore"} THEN todo
  ELSE Covered(MousePosition) \ todo

\* Pixel i of the screen shows its text,
Shows(i) == text[i] # Unknown => screen[i] = text[i]

\* the pixel saved for p is the text,
Kept(position, p) ==
  text[Pix(position, p)] # Unknown => MouseCursorBuffer[p] = text[Pix(position, p)]

\* and ClearMouseCursor will leave the text behind where p is drawn.
Restorable(position, p) ==
  IF screen[Pix(position, p)] = MouseCursorBufferAfter[p]
  THEN Kept(position, p) ELSE Shows(Pix(position, p))

\* The pointer is not on pixel i: it is on the saved pixels, and on the one
\* DrawOverlayMouseCursor has drawn and not yet noted.
Bare(i) == /\ \A p \in Painted : i # Pix(Place, p)
           /\ doing = "after" => i # Pix(Place, First)

\* What is not covered shows the text, and what is can be restored.
TextInv ==
  /\ IInv
  /\ doing # "idle" => todo \subseteq Covered(Place)
  /\ \A p \in Painted : Restorable(Place, p)
  /\ \A i \in Pixels : Bare(i) => Shows(i)
  /\ doing \in {"restore", "put", "after"} => Kept(Place, First)

\* Pixels of the pointer that are on the screen are different pixels of the
\* screen.
LEMMA PixInjective ==
  ASSUME NEW position \in Points, NEW p \in Covered(position), NEW q \in Covered(position),
         Pix(position, p) = Pix(position, q)
  PROVE  p = q
<1>1. /\ <<position[1] + p[1], position[2] + p[2]>> \in Points
      /\ <<position[1] + q[1], position[2] + q[2]>> \in Points
      /\ p \in MousePointer /\ q \in MousePointer
  BY CoveredOnScreen
<1> DEFINE a == position[1] + p[1]
           b == position[2] + p[2]
           c == position[1] + q[1]
           d == position[2] + q[2]
<1>2. /\ a \in 0 .. Width - 1 /\ b \in 0 .. Height - 1
      /\ c \in 0 .. Width - 1 /\ d \in 0 .. Height - 1
      /\ a + b * Width = c + d * Width
  BY <1>1 DEF Points, Pix
<1>3. a = c /\ b = d
  <2> HIDE DEF a, b, c, d
  <2>1. /\ a \in Nat /\ b \in Nat /\ c \in Nat /\ d \in Nat
        /\ a < Width /\ c < Width /\ b * Width \in Nat /\ d * Width \in Nat
    BY <1>2, Sizes
  <2>2. /\ b < d => b * Width + Width <= d * Width
        /\ d < b => d * Width + Width <= b * Width
    BY <2>1, Sizes, RowsBelow
  <2>3. ~(b < d) /\ ~(d < b)
    BY <1>2, <2>1, <2>2, Sizes
  <2>4. QED
    BY <1>2, <2>1, <2>3
<1>4. /\ position[1] \in Nat /\ position[2] \in Nat
      /\ p[1] \in Nat /\ p[2] \in Nat /\ p = <<p[1], p[2]>>
      /\ q[1] \in Nat /\ q[2] \in Nat /\ q = <<q[1], q[2]>>
  BY <1>1, Sizes DEF Points
<1>5. p[1] = q[1] /\ p[2] = q[2]
  BY <1>3, <1>4
<1>6. QED
  BY <1>4, <1>5

\* The pointer is on the screen.
LEMMA Geometry ==
  ASSUME TextInv
  PROVE  /\ Place \in Points /\ Painted \subseteq Covered(Place)
         /\ \A p \in Covered(Place) : Pix(Place, p) \in Pixels /\ p \in MousePointer
         /\ todo # {} => First \in todo /\ First \in MousePointer
<1>1. MousePosition \in Points /\ MousePositionOLD \in Points /\ todo \subseteq MousePointer
  BY DEF TextInv, IInv, CursorTypeOK
<1>2. Place \in Points
  BY <1>1 DEF Place
<1>3. \A p \in Covered(Place) : Pix(Place, p) \in Pixels /\ p \in MousePointer
  BY <1>2, CoveredOnScreen, PixOnScreen
<1>4. Painted \subseteq Covered(Place)
  BY DEF TextInv, Painted, Place, IInv, CursorTypeOK
<1>5. QED
  BY <1>1, <1>2, <1>3, <1>4, FirstIsLeft

LEMMA InitText == CursorInit => TextInv
<1>1. SUFFICES ASSUME CursorInit PROVE TextInv
  OBVIOUS
<1>2. IInv
  BY <1>1, InitEstablishes
<1>3. doing = "idle" /\ Place = <<0, 0>> /\ MousePositionOLD = <<0, 0>>
  BY <1>1 DEF CursorInit, Place
<1>4. <<0, 0>> \in Points
  BY <1>2, <1>3 DEF IInv, CursorTypeOK
<1>5. CASE MouseDrawn
  <2>1. text = [i \in Pixels |-> IF i \in Under(<<0, 0>>) THEN Unknown ELSE screen[i]]
    BY <1>1, <1>5 DEF CursorInit
  <2>2. \A p \in Painted : Pix(Place, p) \in Under(<<0, 0>>) /\ Pix(Place, p) \in Pixels
    BY <1>3, <1>4, <1>5, CoveredOnScreen, PixOnScreen DEF Painted, Under
  <2>3. \A p \in Painted : text[Pix(Place, p)] = Unknown
    BY <2>1, <2>2
  <2>4. \A i \in Pixels : Shows(i)
    BY <2>1 DEF Shows
  <2>5. QED
    BY <1>2, <1>3, <2>3, <2>4, <2>2 DEF TextInv, Restorable, Kept
<1>6. CASE ~MouseDrawn
  <2>1. text = screen
    BY <1>1, <1>6 DEF CursorInit
  <2>2. \A i \in Pixels : Shows(i)
    BY <2>1 DEF Shows
  <2>3. Painted = {}
    BY <1>3, <1>6 DEF Painted
  <2>4. QED
    BY <1>2, <1>3, <2>2, <2>3 DEF TextInv
<1>7. QED
  BY <1>5, <1>6

\* The keyboard interrupt.
LEMMA KeyKeepsText ==
  ASSUME TextInv, KeyboardInterrupt
  PROVE  TextInv'
<1>1. PICK i \in Pixels, c \in {White, ClearColor} :
        /\ screen' = [screen EXCEPT ![i] = c]
        /\ text' = [text EXCEPT ![i] = IF Endangered(i, c) THEN Unknown ELSE c]
        /\ UNCHANGED <<renderer, mouse, doing, todo>>
  BY DEF KeyboardInterrupt
<1>2. /\ UNCHANGED <<MouseDrawn, MouseCursorBuffer, MouseCursorBufferAfter>>
      /\ UNCHANGED <<MousePosition, MousePositionOLD, doing, todo>>
  BY <1>1 DEF renderer, mouse
<1>3. Place' = Place /\ Painted' = Painted /\ First' = First
  BY <1>2 DEF Place, Painted, First
<1>4. /\ screen \in [Pixels -> Colours] /\ text \in [Pixels -> Colours \cup {Unknown}]
  BY DEF TextInv, IInv, CursorTypeOK
<1>5. /\ screen'[i] = c /\ text'[i] = IF Endangered(i, c) THEN Unknown ELSE c
      /\ \A j \in Pixels : j # i => screen'[j] = screen[j] /\ text'[j] = text[j]
  BY <1>1, <1>4
<1>6. Shows(i)'
  BY <1>5 DEF Shows
<1>7. \A j \in Pixels : j # i => (Shows(j)' <=> Shows(j))
  BY <1>5 DEF Shows
<1>8. /\ Painted \subseteq Covered(Place)
      /\ \A p \in Covered(Place) : Pix(Place, p) \in Pixels
      /\ todo # {} => First \in todo
  BY Geometry
<1>9. ASSUME NEW p \in Covered(Place), doing # "idle", Pix(Place, p) = i
      PROVE  text'[i] = Unknown
  <2>1. Place = MousePosition \/ Place = MousePositionOLD
    BY DEF Place
  <2>2. i \in Under(MousePositionOLD) \cup Under(MousePosition)
    BY <1>9, <2>1 DEF Under
  <2>3. Endangered(i, c)
    BY <1>9, <2>2 DEF Endangered
  <2>4. QED
    BY <1>5, <2>3
<1>10. ASSUME NEW p \in Painted PROVE Restorable(Place, p)'
  <2>1. Restorable(Place, p)
    BY DEF TextInv
  <2>2. CASE Pix(Place, p) # i
    <3>1. Pix(Place, p) \in Pixels /\ Pix(Place, p)' = Pix(Place, p)
      BY <1>3, <1>8 DEF Pix
    <3>2. /\ screen'[Pix(Place, p)] = screen[Pix(Place, p)]
          /\ text'[Pix(Place, p)] = text[Pix(Place, p)]
      BY <1>5, <2>2, <3>1
    <3>3. QED
      BY <1>2, <1>3, <2>1, <3>2 DEF Restorable, Kept, Shows
  <2>3. CASE Pix(Place, p) = i /\ doing # "idle"
    BY <1>3, <1>8, <1>9, <2>3 DEF Restorable, Kept, Shows
  <2>4. CASE Pix(Place, p) = i /\ doing = "idle"
    <3>1. MouseDrawn /\ p \in Covered(MousePositionOLD) /\ Place = MousePositionOLD
      BY <2>4 DEF Painted, Place
    <3>2. MouseCursorBufferAfter[p] = c => text'[i] = Unknown
      BY <1>5, <2>4, <3>1 DEF Endangered
    <3>3. QED
      BY <1>2, <1>3, <1>5, <1>6, <2>4, <3>2 DEF Restorable, Kept, Shows
  <2>5. QED
    BY <2>2, <2>3, <2>4
<1>11. ASSUME NEW j \in Pixels, Bare(j)' PROVE Shows(j)'
  <2>1. Bare(j)
    BY <1>2, <1>3, <1>11 DEF Bare
  <2>2. QED
    BY <1>6, <1>7, <2>1 DEF TextInv
<1>12. ASSUME doing \in {"restore", "put", "after"} PROVE Kept(Place, First)'
  <2>1. First \in Covered(Place) /\ Kept(Place, First)
    BY <1>8, <1>12 DEF TextInv, IInv
  <2>2. CASE Pix(Place, First) = i
    BY <1>3, <1>9, <1>12, <2>1, <2>2 DEF Kept
  <2>3. CASE Pix(Place, First) # i
    <3>1. text'[Pix(Place, First)] = text[Pix(Place, First)]
      BY <1>5, <1>8, <2>1, <2>3
    <3>2. QED
      BY <1>2, <1>3, <2>1, <3>1 DEF Kept
  <2>4. QED
    BY <2>2, <2>3
<1>13. IInv'
  BY KeyPreserves DEF TextInv
<1>14. doing' # "idle" => todo' \subseteq Covered(Place)'
  BY <1>2, <1>3 DEF TextInv
<1>15. QED
  BY <1>2, <1>3, <1>10, <1>11, <1>12, <1>13, <1>14 DEF TextInv

\* A packet changes the position the pointer is going to have.
LEMMA PacketKeepsText ==
  ASSUME TextInv, ProcessMousePacket
  PROVE  TextInv'
<1>1. IInv'
  BY PacketPreserves DEF TextInv
<1>2. /\ doing = "idle" /\ UNCHANGED <<screen, text, MousePositionOLD, MouseCursorBuffer, MouseCursorBufferAfter>>
      /\ IF MouseDrawn THEN doing' = "clear" /\ todo' = Covered(MousePositionOLD)
                       ELSE doing' = "draw" /\ todo' = Covered(MousePosition')
  BY DEF ProcessMousePacket, renderer
<1>3. \A i : Shows(i)' <=> Shows(i)
  BY <1>2 DEF Shows
<1>4. CASE MouseDrawn
  <2>1. /\ doing' = "clear" /\ Place' = Place /\ Painted' = Painted
        /\ todo' = Covered(Place)
    BY <1>2, <1>4 DEF Place, Painted
  <2>2. \A p \in Painted : Restorable(Place, p)'
    BY <1>2, <2>1 DEF TextInv, Restorable, Kept, Shows, Pix
  <2>3. \A i : Bare(i)' => Bare(i)
    BY <1>2, <2>1 DEF Bare
  <2>4. QED
    BY <1>1, <1>2, <1>3, <2>1, <2>2, <2>3 DEF TextInv
<1>5. CASE ~MouseDrawn
  <2>1. /\ doing' = "draw" /\ Place' = MousePosition' /\ Painted' = {} /\ Painted = {}
        /\ todo' = Covered(Place')
    BY <1>2, <1>5 DEF Place, Painted
  <2>2. \A i : Bare(i)
    BY <1>2, <2>1 DEF Bare
  <2>3. QED
    BY <1>1, <1>3, <2>1, <2>2 DEF TextInv
<1>6. QED
  BY <1>4, <1>5

\* A pixel that was restored, or drawn over, shows its text.
LEMMA ClearKeepsText ==
  ASSUME TextInv, ClearLook \/ ClearRestore
  PROVE  TextInv'
<1>1. IInv'
  BY VisitPreserves DEF TextInv
<1>2. /\ doing \in {"clear", "restore"} /\ doing' \in {"clear", "restore"}
      /\ UNCHANGED <<text, MousePosition, MousePositionOLD, MouseCursorBuffer, MouseCursorBufferAfter>>
      /\ todo # {}
  BY DEF ClearLook, ClearRestore, renderer, mouse, TextInv, IInv
<1>3. Place' = Place /\ Painted = todo /\ Painted' = todo'
  BY <1>2 DEF Place, Painted
<1>4. /\ Place \in Points /\ todo \subseteq Covered(Place) /\ First \in todo
      /\ \A p \in todo : Pix(Place, p) \in Pixels
  BY <1>2, <1>3, Geometry
<1> DEFINE here == Pix(Place, First)
<1>5. \A p \in todo : p # First => Pix(Place, p) # here
  BY <1>4, PixInjective
<1>6. Place = MousePositionOLD
  BY <1>2 DEF Place
<1>7. \A i \in Pixels : Bare(i) <=> \A p \in todo : i # Pix(Place, p)
  BY <1>2, <1>3 DEF Bare
<1>8. \A i \in Pixels : Bare(i)' <=> \A p \in todo' : i # Pix(Place, p)
  BY <1>2, <1>3 DEF Bare, Pix
<1>9. CASE ClearLook /\ Unchanged(First)
  <2>1. UNCHANGED <<screen, todo>> /\ First' = First
    BY <1>9 DEF ClearLook, First
  <2>2. \A p \in todo' : Restorable(Place, p)'
    BY <1>2, <1>3, <2>1 DEF TextInv, Restorable, Kept, Shows, Pix
  <2>3. \A i \in Pixels : Bare(i)' => Shows(i)'
    BY <1>2, <1>7, <1>8, <2>1 DEF TextInv, Shows
  <2>4. Kept(Place, First)
    BY <1>3, <1>4, <1>6, <1>9 DEF TextInv, Restorable, Unchanged
  <2>5. Kept(Place, First)'
    BY <1>2, <1>3, <2>1, <2>4 DEF Kept, Pix
  <2>6. QED
    BY <1>1, <1>2, <1>3, <1>4, <2>1, <2>2, <2>3, <2>5 DEF TextInv
<1>10. CASE ClearLook /\ ~Unchanged(First)
  <2>1. UNCHANGED screen /\ todo' = todo \ {First} /\ doing' = "clear"
    BY <1>10 DEF ClearLook
  <2>2. \A p \in todo' : Restorable(Place, p)'
    BY <1>2, <1>3, <2>1 DEF TextInv, Restorable, Kept, Shows, Pix
  <2>3. Shows(here)
    BY <1>3, <1>4, <1>6, <1>10 DEF TextInv, Restorable, Unchanged
  <2>4. \A i \in Pixels : Bare(i)' => i = here \/ Bare(i)
    BY <1>7, <1>8, <2>1
  <2>5. \A i \in Pixels : Bare(i)' => Shows(i)'
    BY <1>2, <2>1, <2>3, <2>4 DEF TextInv, Shows
  <2>6. QED
    BY <1>1, <1>3, <1>4, <2>1, <2>2, <2>5 DEF TextInv
<1>11. CASE ClearRestore
  <2>1. /\ doing = "restore" /\ doing' = "clear" /\ todo' = todo \ {First}
        /\ screen' = [screen EXCEPT ![here] = MouseCursorBuffer[First]]
    BY <1>6, <1>11 DEF ClearRestore
  <2>2. here \in Pixels /\ screen \in [Pixels -> Colours]
    BY <1>4 DEF TextInv, IInv, CursorTypeOK
  <2>3. /\ screen'[here] = MouseCursorBuffer[First]
        /\ \A i \in Pixels : i # here => screen'[i] = screen[i]
    BY <2>1, <2>2
  <2>4. text[here] # Unknown => screen'[here] = text[here]
    BY <2>1, <2>3 DEF TextInv, Kept
  <2>5. \A p \in todo' : Restorable(Place, p)'
    <3>1. SUFFICES ASSUME NEW p \in todo' PROVE Restorable(Place, p)'
      OBVIOUS
    <3>2. Pix(Place, p) \in Pixels /\ Pix(Place, p) # here /\ Restorable(Place, p)
      BY <1>3, <1>4, <1>5, <2>1 DEF TextInv
    <3>3. screen'[Pix(Place, p)] = screen[Pix(Place, p)]
      BY <2>3, <3>2
    <3>4. QED
      BY <1>2, <1>3, <3>2, <3>3 DEF Restorable, Kept, Shows, Pix
  <2>6. \A i \in Pixels : Bare(i)' => i = here \/ Bare(i)
    BY <1>7, <1>8, <2>1
  <2>7. \A i \in Pixels : Bare(i)' => Shows(i)'
    BY <1>2, <2>3, <2>4, <2>6 DEF TextInv, Shows
  <2>8. QED
    BY <1>1, <1>3, <1>4, <2>1, <2>5, <2>7 DEF TextInv
<1>12. QED
  BY <1>9, <1>10, <1>11

\* DrawOverlayMouseCursor saves what it draws over and knows what it drew.
LEMMA DrawKeepsText ==
  ASSUME TextInv, DrawSave \/ DrawPut \/ DrawAfter
  PROVE  TextInv'
<1>1. IInv'
  BY VisitPreserves DEF TextInv
<1>2. /\ doing \in {"draw", "put", "after"} /\ doing' \in {"draw", "put", "after"}
      /\ UNCHANGED <<text, MousePosition, MousePositionOLD>>
      /\ todo # {}
  BY DEF DrawSave, DrawPut, DrawAfter, mouse, TextInv, IInv
<1>3. /\ Place' = Place /\ Place = MousePosition
      /\ Painted = Covered(Place) \ todo /\ Painted' = Covered(Place) \ todo'
  BY <1>2 DEF Place, Painted
<1>4. /\ Place \in Points /\ todo \subseteq Covered(Place) /\ First \in todo
      /\ \A p \in Covered(Place) : Pix(Place, p) \in Pixels /\ p \in MousePointer
  BY <1>2, Geometry DEF TextInv
<1> DEFINE here == Pix(Place, First)
<1>5. here \in Pixels /\ \A p \in Painted : p # First /\ Pix(Place, p) # here
  BY <1>3, <1>4, PixInjective
<1>6. /\ screen \in [Pixels -> Colours]
      /\ MouseCursorBuffer \in [MousePointer -> Colours]
      /\ MouseCursorBufferAfter \in [MousePointer -> Colours]
      /\ First \in MousePointer
  BY <1>4 DEF TextInv, IInv, CursorTypeOK
<1>7. \A p \in Painted : Restorable(Place, p) /\ Pix(Place, p) \in Pixels /\ p \in MousePointer
  BY <1>3, <1>4 DEF TextInv
<1>8. CASE DrawSave
  <2>1. /\ UNCHANGED <<screen, todo, MouseCursorBufferAfter>> /\ doing = "draw" /\ doing' = "put"
        /\ MouseCursorBuffer' = [MouseCursorBuffer EXCEPT ![First] = screen[here]]
    BY <1>3, <1>8 DEF DrawSave, Shown
  <2>2. First' = First /\ Painted' = Painted
    BY <1>3, <2>1 DEF First
  <2>3. /\ MouseCursorBuffer'[First] = screen[here]
        /\ \A p \in Painted : MouseCursorBuffer'[p] = MouseCursorBuffer[p]
    BY <1>5, <1>6, <1>7, <2>1
  <2>4. \A p \in Painted : Restorable(Place, p)'
    BY <1>2, <1>3, <1>7, <2>1, <2>3 DEF Restorable, Kept, Shows, Pix
  <2>5. \A i \in Pixels : Bare(i)' => Shows(i)'
    BY <1>2, <1>3, <2>1, <2>2 DEF TextInv, Bare, Shows, Pix
  <2>6. Shows(here)
    BY <1>5, <2>1 DEF TextInv, Bare
  <2>7. Kept(Place, First)'
    BY <1>2, <1>3, <2>2, <2>3, <2>6 DEF Kept, Shows, Pix
  <2>8. QED
    BY <1>1, <1>3, <1>4, <2>1, <2>2, <2>4, <2>5, <2>7 DEF TextInv
<1>9. CASE DrawPut
  <2>1. /\ UNCHANGED <<todo, MouseCursorBuffer, MouseCursorBufferAfter>>
        /\ doing = "put" /\ doing' = "after"
        /\ screen' = [screen EXCEPT ![here] = White]
    BY <1>3, <1>9 DEF DrawPut, renderer
  <2>2. First' = First /\ Painted' = Painted
    BY <1>3, <2>1 DEF First
  <2>3. \A i \in Pixels : i # here => screen'[i] = screen[i]
    BY <1>5, <1>6, <2>1
  <2>4. \A p \in Painted : Restorable(Place, p)'
    BY <1>2, <1>3, <1>5, <1>7, <2>1, <2>3 DEF Restorable, Kept, Shows, Pix
  <2>5. \A i \in Pixels : Bare(i)' => Bare(i) /\ i # here
    BY <1>2, <1>3, <2>1, <2>2 DEF Bare, Pix
  <2>6. \A i \in Pixels : Bare(i)' => Shows(i)'
    BY <1>2, <2>3, <2>5 DEF TextInv, Shows
  <2>7. Kept(Place, First)'
    BY <1>2, <1>3, <2>1, <2>2 DEF TextInv, Kept, Pix
  <2>8. QED
    BY <1>1, <1>3, <1>4, <2>1, <2>2, <2>4, <2>6, <2>7 DEF TextInv
<1>10. CASE DrawAfter
  <2>1. /\ UNCHANGED <<screen, MouseCursorBuffer>>
        /\ doing = "after" /\ doing' = "draw" /\ todo' = todo \ {First}
        /\ MouseCursorBufferAfter' = [MouseCursorBufferAfter EXCEPT ![First] = screen[here]]
    BY <1>3, <1>10 DEF DrawAfter
  <2>2. Painted' = Painted \cup {First}
    BY <1>3, <1>4, <2>1
  <2>3. /\ MouseCursorBufferAfter'[First] = screen[here]
        /\ \A p \in Painted : MouseCursorBufferAfter'[p] = MouseCursorBufferAfter[p]
    BY <1>5, <1>6, <1>7, <2>1
  <2>4. \A p \in Painted : Restorable(Place, p)'
    BY <1>2, <1>3, <1>7, <2>1, <2>3 DEF Restorable, Kept, Shows, Pix
  <2>5. \A p : p = First => Restorable(Place, p)'
    <3>1. Kept(Place, First)
      BY <2>1 DEF TextInv
    <3>2. QED
      BY <1>2, <1>3, <2>1, <2>3, <3>1 DEF Restorable, Kept, Pix
  <2>6. \A i \in Pixels : Bare(i)' => Bare(i)
    BY <1>3, <2>1, <2>2 DEF Bare, Pix
  <2>7. \A i \in Pixels : Bare(i)' => Shows(i)'
    BY <1>2, <2>1, <2>6 DEF TextInv, Shows
  <2>8. QED
    BY <1>1, <1>3, <1>4, <2>1, <2>2, <2>4, <2>5, <2>7 DEF TextInv
<1>11. QED
  BY <1>8, <1>9, <1>10

\* The pointer is gone, or drawn.
LEMMA LoopEndKeepsText ==
  ASSUME TextInv, Cleared \/ Drawn
  PROVE  TextInv'
<1>1. IInv'
  BY LoopEndPreserves DEF TextInv
<1>2. UNCHANGED <<screen, text, MouseCursorBuffer, MouseCursorBufferAfter>> /\ todo = {}
  BY DEF Cleared, Drawn, renderer
<1>3. \A i : Shows(i)' <=> Shows(i)
  BY <1>2 DEF Shows
<1>4. CASE Cleared
  <2>1. /\ doing = "clear" /\ doing' = "draw" /\ Place' = MousePosition'
        /\ todo' = Covered(Place') /\ Painted = {} /\ Painted' = {}
    BY <1>2, <1>4 DEF Cleared, Place, Painted, mouse
  <2>2. \A i : Bare(i)
    BY <2>1 DEF Bare
  <2>3. QED
    BY <1>1, <1>3, <2>1, <2>2 DEF TextInv
<1>5. CASE Drawn
  <2>1. /\ doing = "draw" /\ doing' = "idle" /\ Place' = Place /\ Painted' = Painted
    BY <1>2, <1>5 DEF Drawn, Place, Painted
  <2>2. \A p \in Painted : Restorable(Place, p)'
    BY <1>2, <2>1 DEF TextInv, Restorable, Kept, Shows, Pix
  <2>3. \A i : Bare(i)' => Bare(i)
    BY <2>1 DEF Bare, Pix
  <2>4. QED
    BY <1>1, <1>3, <2>1, <2>2, <2>3 DEF TextInv
<1>6. QED
  BY <1>4, <1>5

\* Every step keeps the text.
LEMMA NextKeepsText == TextInv /\ [CursorNext]_cursorVars => TextInv'
<1>1. SUFFICES ASSUME TextInv, [CursorNext]_cursorVars PROVE TextInv'
  OBVIOUS
<1>2. CASE UNCHANGED cursorVars
  <2>1. /\ UNCHANGED <<screen, ClearColor, MouseDrawn, MouseCursorBuffer, MouseCursorBufferAfter>>
        /\ UNCHANGED <<MousePosition, MousePositionOLD, doing, todo, text>>
    BY <1>2 DEF cursorVars, renderer, mouse
  <2>2. IInv'
    BY <1>1, <1>2, NextPreserves DEF TextInv
  <2>3. Place' = Place /\ Painted' = Painted /\ First' = First
    BY <2>1 DEF Place, Painted, First
  <2>4. QED
    BY <1>1, <2>1, <2>2, <2>3 DEF TextInv, Restorable, Kept, Shows, Bare, Pix
<1>3. QED
  BY <1>1, <1>2, KeyKeepsText, PacketKeepsText, ClearKeepsText, DrawKeepsText,
     LoopEndKeepsText DEF CursorNext

\* Where the pointer is not, the screen shows the text, whatever the mouse
\* reports, whatever is typed or erased between two accesses of the main loop,
\* and whatever the constructor left in the renderer (BasicRenderer.c:93-147):
\* no pixel loses its text but the ones marked Unknown.
THEOREM NoTrace == CursorSpec => []PointerLeavesNoTrace
<1>1. TextInv => PointerLeavesNoTrace
  <2>1. SUFFICES ASSUME TextInv, doing = "idle", NEW i \in Pixels,
                        ~(MouseDrawn /\ i \in Under(MousePositionOLD))
                 PROVE  Shows(i)
    BY DEF PointerLeavesNoTrace, Shows
  <2>2. Bare(i)
    BY <2>1 DEF Bare, Painted, Place, Under
  <2>3. QED
    BY <2>1, <2>2 DEF TextInv
<1>2. QED
  BY <1>1, InitText, NextKeepsText, PTL DEF CursorSpec
===============================================================================
