------------------------------- MODULE PS2Mouse -------------------------------
(***************************************************************************)
(* The mouse driver of kernel/src/userinput/mouse.c: the interrupt handler *)
(* collects the bytes the mouse sends into MousePacket, and kernel.c's     *)
(* main loop (line 130) polls ProcessMousePacket, which reads the same     *)
(* buffer and writes to it.  Nothing but the flag MousePacketReady is      *)
(* between the two, and interrupts stay enabled throughout.                *)
(*                                                                         *)
(* The handler runs to its end before the main loop goes on; the main loop *)
(* can be interrupted between any two of its accesses to the shared data.  *)
(* None of the shared data is volatile or atomic, so that the compiler may *)
(* move the loads in ProcessMousePacket: MainOrders holds the order of the *)
(* source and the one of an -O3 build, and a run starts with either.       *)
(*                                                                         *)
(* A byte is represented by its number in what the mouse sends, modulo     *)
(* Window: byte n is byte n % packetSize of its packet.  Byte 0 has bit 3  *)
(* set; the other bytes may or may not.                                    *)
(***************************************************************************)
EXTENDS Integers, Sequences

CONSTANTS
  PacketSizes,  \* bytes in a packet of the mouse: 3, or 4 with a wheel
  Packets,      \* bytes are numbered through this many packets, then from 0
  Acks          \* acknowledgements InitPS2Mouse may leave unread

ASSUME PS2MouseAssumption ==
  /\ PacketSizes \subseteq {3, 4}
  /\ Packets \in Nat \ {0}
  /\ Acks \subseteq Nat

\* The accesses of ProcessMousePacket behind its test of the flag.
MainOrders ==
  { <<"clear", "load0", "load1", "store1", "load2", "store2", "draw", "done">>,
    <<"load0", "load1", "clear", "store1", "load2", "store2", "draw", "done">> }

VARIABLES
  packetSize,        \* of this mouse
  sent,              \* number of the next byte
  acks,              \* unread acknowledgements, in front of the first byte
  MouseCycle, MousePacket, MousePacketReady,
  order,             \* the order of the accesses in this build
  pc,                \* 0 in the main loop, else the index in order
  negative,          \* signs of x and y in the byte 0 the main loop loaded
  loaded,            \* the bytes the main loop loaded
  overlap,           \* the packet in the buffer was begun while the main loop
                     \* was still at work on the one before
  overtaken,         \* the packet the main loop works on overlaps another
  missed             \* a byte was dropped because a packet was ready, or an
                     \* acknowledgement came in front of the first

device == <<packetSize, sent, acks>>
shared == <<MouseCycle, MousePacket, MousePacketReady>>
main   == <<order, pc, negative, loaded>>
vars   == <<device, shared, main, overlap, overtaken, missed>>

Window == Packets * packetSize

\* A byte in the buffer: its number, or a negative one when it is none of the
\* mouse's data; and whether the main loop replaced it by 256 minus it.
Byte(n)  == [n |-> n, negated |-> FALSE]
Ack      == Byte(-1)
Garbage  == Byte(-2)
Bytes    == [n : -2 .. Window - 1, negated : BOOLEAN]

NoSigns       == <<FALSE, FALSE>>
NothingLoaded == [i \in 0 .. 2 |-> Garbage]

Following(n) == (n + 1) % Window
Position(n)  == n % packetSize

\* MousePacket is zeroed.  Acks left in the controller are read first.
Init == /\ packetSize \in PacketSizes
        /\ sent = 0
        /\ acks \in Acks
        /\ MouseCycle = 0
        /\ MousePacket = [i \in 0 .. 3 |-> Garbage]
        /\ MousePacketReady = FALSE
        /\ order \in MainOrders
        /\ pc = 0
        /\ negative = NoSigns
        /\ loaded = NothingLoaded
        /\ overlap = FALSE
        /\ overtaken = FALSE
        /\ missed = (acks > 0)

-----------------------------------------------------------------------------
(* Mutants: what the definitions of the same names, less the part behind   *)
(* the underscore, would be with a bug in the driver.                      *)

\* case 3 counts on as the other cases do.
NextCycle_Counts == MouseCycle + 1

\* Packets of three bytes.
NextCycle_Three == (MouseCycle + 1) % 3

\* No case looks at the flag.
Dropped_Never == FALSE

\* The test of bit 3 is inverted.
OutOfSync_Inverted(sync) == MouseCycle = 0 /\ sync

-----------------------------------------------------------------------------
(* The interrupt.                                                          *)

\* Every case of the switch drops its byte while a packet is ready.
Dropped == MousePacketReady

\* A byte whose bit 3 (sync) is 0 is no first byte.
OutOfSync(sync) == MouseCycle = 0 /\ ~sync

\* The case for the next byte: case 3 starts over.
NextCycle == IF MouseCycle = 3 THEN 0 ELSE MouseCycle + 1

HandlePS2Mouse(data, sync) ==
  IF Dropped
  THEN missed' = TRUE /\ UNCHANGED <<shared, overlap, overtaken>>
  ELSE IF OutOfSync(sync)
  THEN UNCHANGED <<shared, overlap, overtaken, missed>>
  ELSE /\ MousePacket' = [MousePacket EXCEPT ![MouseCycle] = data]
       /\ MousePacketReady' = (MousePacketReady \/ MouseCycle = 3)
       /\ MouseCycle' = NextCycle
       /\ overlap' = (IF MouseCycle = 0 THEN pc # 0 ELSE overlap)
       /\ overtaken' = (overtaken \/ pc # 0)
       /\ UNCHANGED missed

\* An acknowledgement, 0xfa, has bit 3 set.
AckInterrupt ==
  /\ acks > 0
  /\ acks' = acks - 1
  /\ HandlePS2Mouse(Ack, TRUE)
  /\ UNCHANGED <<packetSize, sent, main>>

MouseInterrupt ==
  /\ acks = 0
  /\ sent' = Following(sent)
  /\ \E sync \in {TRUE} \cup {Position(sent) = 0} : HandlePS2Mouse(Byte(sent), sync)
  /\ UNCHANGED <<packetSize, acks, main>>

-----------------------------------------------------------------------------
(* The main loop.                                                          *)

\* ProcessMousePacket is called; it returns at once if no packet is ready.
Poll == /\ pc = 0
        /\ MousePacketReady
        /\ pc' = 1
        /\ overtaken' = overlap
        /\ UNCHANGED <<device, shared, order, negative, loaded, overlap, missed>>

At(access) == pc > 0 /\ order[pc] = access

Advance == pc' = (IF pc = Len(order) THEN 0 ELSE pc + 1)

\* The assignment of FALSE at the start.
Clear == /\ At("clear")
         /\ MousePacketReady' = FALSE
         /\ Advance
         /\ UNCHANGED <<device, MouseCycle, MousePacket, order, negative, loaded,
                        overlap, overtaken, missed>>

\* The assignment of FALSE at the end; the locals go out of scope.
Done == /\ At("done")
        /\ MousePacketReady' = FALSE
        /\ negative' = NoSigns /\ loaded' = NothingLoaded
        /\ overtaken' = FALSE
        /\ Advance
        /\ UNCHANGED <<device, MouseCycle, MousePacket, order, overlap, missed>>

\* The byte the signs are in, which decides the branches.
Load0 == /\ At("load0")
         /\ loaded' = [loaded EXCEPT ![0] = MousePacket[0]]
         /\ negative' \in BOOLEAN \X BOOLEAN
         /\ Advance
         /\ UNCHANGED <<device, shared, order, overlap, overtaken, missed>>

Load(i, access) ==
  /\ At(access)
  /\ loaded' = [loaded EXCEPT ![i] = MousePacket[i]]
  /\ Advance
  /\ UNCHANGED <<device, shared, order, negative, overlap, overtaken, missed>>

\* A negative movement is written back: MousePacket[i] = 256 - MousePacket[i],
\* of the value that was loaded.
Store(i, access) ==
  /\ At(access)
  /\ MousePacket' = IF negative[i]
                    THEN [MousePacket EXCEPT
                            ![i] = [n |-> loaded[i].n, negated |-> ~loaded[i].negated]]
                    ELSE MousePacket
  /\ Advance
  /\ UNCHANGED <<device, MouseCycle, MousePacketReady, order, negative, loaded,
                 overlap, overtaken, missed>>

\* The cursor is moved and drawn from what was loaded.
Draw == /\ At("draw")
        /\ Advance
        /\ UNCHANGED <<device, shared, order, negative, loaded, overlap, overtaken, missed>>

Main == \/ Poll \/ Clear \/ Load0 \/ Draw \/ Done
        \/ Load(1, "load1") \/ Load(2, "load2")
        \/ Store(1, "store1") \/ Store(2, "store2")

Next == AckInterrupt \/ MouseInterrupt \/ Main

\* The main loop never blocks and interrupts return; Fairness assumes nothing
\* of the mouse.
Fairness == WF_vars(Main)

Spec == Init /\ [][Next]_vars /\ Fairness

\* A mouse that is moved over and over again.
MovingSpec == Spec /\ WF_vars(AckInterrupt \/ MouseInterrupt)

-----------------------------------------------------------------------------
\* The types of the driver's state.
TypeOK ==
  /\ packetSize \in PacketSizes /\ sent \in 0 .. Window - 1 /\ acks \in Nat
  /\ MouseCycle \in 0 .. 3
  /\ MousePacket \in [0 .. 3 -> Bytes]
  /\ MousePacketReady \in BOOLEAN
  /\ order \in MainOrders /\ pc \in 0 .. Len(order)
  /\ negative \in BOOLEAN \X BOOLEAN
  /\ loaded \in [0 .. 2 -> Bytes]
  /\ overlap \in BOOLEAN /\ overtaken \in BOOLEAN /\ missed \in BOOLEAN

\* b and c are bytes the mouse sent one after the other, as it sent them.
Consecutive(b, c) ==
  /\ b.n \in Nat /\ c.n = Following(b.n)
  /\ ~b.negated /\ ~c.negated

\* The main loop draws three consecutive bytes of what the mouse sent, in either
\* order of its loads, unless the handler stored a byte of the next packet in
\* the meantime or the packet was begun too early.  With a mouse that sends 4
\* bytes they are of one packet until a byte is missed; after that, and with a
\* mouse of 3 bytes, they may be the end of one packet and the start of another.
DrawnPacketIsWhole ==
  At("draw") /\ ~overtaken =>
    /\ \A i \in 0 .. 1 : loaded[i].n \in Nat => Consecutive(loaded[i], loaded[i + 1])
    /\ packetSize = 4 /\ ~missed /\ loaded[0].n \in Nat => Position(loaded[0].n) = 0

\* With a mouse that sends 4 bytes and no acknowledgement left over, the
\* handler knows which byte of a packet it is given until the first byte is
\* dropped because the main loop was late: bit 3 alone never misleads it.
InSyncUntilAByteIsMissed ==
  packetSize = 4 /\ ~missed => MouseCycle = Position(sent)

\* As long as the mouse is moved the cursor is drawn again and again, however
\* often the handler lost its place in the stream.
CursorKeepsMoving == []<>At("draw")

=============================================================================
