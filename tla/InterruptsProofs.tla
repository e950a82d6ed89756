-------------------------- MODULE InterruptsProofs --------------------------
(***************************************************************************)
(* Theorems about Interrupts, for every configuration byte the firmware    *)
(* may leave, and about the arithmetic of PIT.                             *)
(*                                                                         *)
(* IInv says what holds before each of the 34 accesses of the thread in    *)
(* _start, and in each handler: what both PICs expect and have, what is in *)
(* service, whose byte the output buffer holds, and how many bytes for the *)
(* mouse and acknowledgements of it are still on their way.                *)
(***************************************************************************)
EXTENDS Interrupts, SequenceTheorems, TLAPS

-----------------------------------------------------------------------------
(* The code as sequences.                                                  *)

\* Sequence c is s followed by t.
Joins(c, s, t) ==
  /\ Len(c) = Len(s) + Len(t)
  /\ \A i \in 1 .. Len(s) : c[i] = s[i]
  /\ \A i \in 1 .. Len(t) : c[Len(s) + i] = t[i]

\* Two sequences joined.
LEMMA Concat ==
  ASSUME NEW S, NEW s \in Seq(S), NEW t \in Seq(S)
  PROVE  s \o t \in Seq(S) /\ Joins(s \o t, s, t)
BY ConcatProperties DEF Joins

\* Every access of the kernel's thread.
Accesses ==
  { Outb("PIC1_COMMAND", "ICW1"), Outb("PIC2_COMMAND", "ICW1"),
    Outb("PIC1_DATA", 32), Outb("PIC2_DATA", 40), Outb("PIC1_DATA", 4), Outb("PIC2_DATA", 2),
    Outb("PIC1_DATA", "8086"), Outb("PIC2_DATA", "8086"),
    Outb("PIC1_DATA", Lines), Outb("PIC2_DATA", Lines),
    Outb("PIC1_DATA", 3 .. 7), Outb("PIC2_DATA", Lines \ {4}),
    Outb("0x64", "aux on"), Outb("0x64", "read config"), Outb("0x64", "write config"),
    Outb("0x64", "to mouse"), Outb("0x60", "status"), Outb("0x60", "defaults"),
    Outb("0x60", "enable"), Do("MouseWait"), Do("MouseWaitInput"), Do("sti"),
    Inb("status"), Inb("ack") }

\* The accesses of each function, one by one.
LEMMA RemapPICIs ==
  /\ RemapPIC \in Seq(Accesses) /\ Len(RemapPIC) = 10
  /\ RemapPIC[1] = Outb("PIC1_COMMAND", "ICW1") /\ RemapPIC[2] = Outb("PIC2_COMMAND", "ICW1")
  /\ RemapPIC[3] = Outb("PIC1_DATA", 32)        /\ RemapPIC[4] = Outb("PIC2_DATA", 40)
  /\ RemapPIC[5] = Outb("PIC1_DATA", 4)         /\ RemapPIC[6] = Outb("PIC2_DATA", 2)
  /\ RemapPIC[7] = Outb("PIC1_DATA", "8086")    /\ RemapPIC[8] = Outb("PIC2_DATA", "8086")
  /\ RemapPIC[9] = Outb("PIC1_DATA", Lines)     /\ RemapPIC[10] = Outb("PIC2_DATA", Lines)
BY DEF RemapPIC, Accesses

\* MouseWrite, for both bytes InitPS2Mouse sends.
LEMMA MouseWriteIs ==
  ASSUME NEW v \in {"defaults", "enable"}
  PROVE  /\ MouseWrite(v) \in Seq(Accesses) /\ Len(MouseWrite(v)) = 4
         /\ MouseWrite(v)[1] = Do("MouseWait") /\ MouseWrite(v)[2] = Outb("0x64", "to mouse")
         /\ MouseWrite(v)[3] = Do("MouseWait") /\ MouseWrite(v)[4] = Outb("0x60", v)
<1>1. CASE v = "defaults"
  BY <1>1 DEF MouseWrite, Accesses
<1>2. CASE v = "enable"
  BY <1>2 DEF MouseWrite, Accesses
<1>3. QED
  BY <1>1, <1>2

\* MouseRead.
LEMMA MouseReadIs ==
  /\ MouseRead \in Seq(Accesses) /\ Len(MouseRead) = 2
  /\ MouseRead[1] = Do("MouseWaitInput") /\ MouseRead[2] = Inb("ack")
BY DEF MouseRead, Accesses

\* The part of InitPS2Mouse before it writes to the mouse.
Configure ==
  << Outb("0x64", "aux on"), Do("MouseWait"), Outb("0x64", "read config"),
     Do("MouseWaitInput"), Inb("status"),
     Do("MouseWait"), Outb("0x64", "write config"), Do("MouseWait"), Outb("0x60", "status") >>

\* Configure.
LEMMA ConfigureIs ==
  /\ Configure \in Seq(Accesses) /\ Len(Configure) = 9
  /\ Configure[1] = Outb("0x64", "aux on")       /\ Configure[2] = Do("MouseWait")
  /\ Configure[3] = Outb("0x64", "read config")  /\ Configure[4] = Do("MouseWaitInput")
  /\ Configure[5] = Inb("status")                /\ Configure[6] = Do("MouseWait")
  /\ Configure[7] = Outb("0x64", "write config") /\ Configure[8] = Do("MouseWait")
  /\ Configure[9] = Outb("0x60", "status")
BY DEF Configure, Accesses

\* The masks and sti.
LEMMA EndIs ==
  /\ Unmask \in Seq(Accesses) /\ Len(Unmask) = 2
  /\ Unmask[1] = Outb("PIC1_DATA", 3 .. 7) /\ Unmask[2] = Outb("PIC2_DATA", Lines \ {4})
  /\ <<Do("sti")>> \in Seq(Accesses) /\ Len(<<Do("sti")>>) = 1
  /\ <<Do("sti")>>[1] = Do("sti")
BY DEF Unmask, Accesses

\* InitPS2Mouse, access by access.
LEMMA InitPS2MouseIs ==
  /\ InitPS2Mouse \in Seq(Accesses) /\ Len(InitPS2Mouse) = 21
  /\ InitPS2Mouse[1] = Outb("0x64", "aux on")        /\ InitPS2Mouse[2] = Do("MouseWait")
  /\ InitPS2Mouse[3] = Outb("0x64", "read config")   /\ InitPS2Mouse[4] = Do("MouseWaitInput")
  /\ InitPS2Mouse[5] = Inb("status")                 /\ InitPS2Mouse[6] = Do("MouseWait")
  /\ InitPS2Mouse[7] = Outb("0x64", "write config")  /\ InitPS2Mouse[8] = Do("MouseWait")
  /\ InitPS2Mouse[9] = Outb("0x60", "status")        /\ InitPS2Mouse[10] = Do("MouseWait")
  /\ InitPS2Mouse[11] = Outb("0x64", "to mouse")     /\ InitPS2Mouse[12] = Do("MouseWait")
  /\ InitPS2Mouse[13] = Outb("0x60", "defaults")     /\ InitPS2Mouse[14] = Do("MouseWaitInput")
  /\ InitPS2Mouse[15] = Inb("ack")                   /\ InitPS2Mouse[16] = Do("MouseWait")
  /\ InitPS2Mouse[17] = Outb("0x64", "to mouse")     /\ InitPS2Mouse[18] = Do("MouseWait")
  /\ InitPS2Mouse[19] = Outb("0x60", "enable")       /\ InitPS2Mouse[20] = Do("MouseWaitInput")
  /\ InitPS2Mouse[21] = Inb("ack")
<1> DEFINE a == MouseWrite("defaults")
           b == MouseWrite("enable")
           c == Configure \o a
           d == c \o MouseRead
           e == d \o b
<1>1. /\ a \in Seq(Accesses) /\ Len(a) = 4
      /\ a[1] = Do("MouseWait") /\ a[2] = Outb("0x64", "to mouse")
      /\ a[3] = Do("MouseWait") /\ a[4] = Outb("0x60", "defaults")
  BY MouseWriteIs
<1>2. /\ b \in Seq(Accesses) /\ Len(b) = 4
      /\ b[1] = Do("MouseWait") /\ b[2] = Outb("0x64", "to mouse")
      /\ b[3] = Do("MouseWait") /\ b[4] = Outb("0x60", "enable")
  BY MouseWriteIs
<1>3. InitPS2Mouse = e \o MouseRead
  BY DEF InitPS2Mouse, Configure
<1> HIDE DEF a, b, c, d, e
<1>4. /\ c \in Seq(Accesses) /\ Len(c) = 13
      /\ \A i \in 1 .. 9 : c[i] = Configure[i]
      /\ c[10] = a[1] /\ c[11] = a[2] /\ c[12] = a[3] /\ c[13] = a[4]
  <2>1. Configure \in Seq(Accesses) /\ a \in Seq(Accesses) /\ Len(Configure) = 9 /\ Len(a) = 4
    BY <1>1, ConfigureIs
  <2>2. c \in Seq(Accesses) /\ Joins(c, Configure, a)
    BY <2>1, Concat DEF c
  <2>3. QED
    BY <2>1, <2>2 DEF Joins
<1>5. /\ d \in Seq(Accesses) /\ Len(d) = 15
      /\ \A i \in 1 .. 13 : d[i] = c[i]
      /\ d[14] = MouseRead[1] /\ d[15] = MouseRead[2]
  <2>1. c \in Seq(Accesses) /\ MouseRead \in Seq(Accesses) /\ Len(c) = 13 /\ Len(MouseRead) = 2
    BY <1>4, MouseReadIs
  <2>2. d \in Seq(Accesses) /\ Joins(d, c, MouseRead)
    BY <2>1, Concat DEF d
  <2>3. QED
    BY <2>1, <2>2 DEF Joins
<1>6. /\ e \in Seq(Accesses) /\ Len(e) = 19
      /\ \A i \in 1 .. 15 : e[i] = d[i]
      /\ e[16] = b[1] /\ e[17] = b[2] /\ e[18] = b[3] /\ e[19] = b[4]
  <2>1. d \in Seq(Accesses) /\ b \in Seq(Accesses) /\ Len(d) = 15 /\ Len(b) = 4
    BY <1>2, <1>5
  <2>2. e \in Seq(Accesses) /\ Joins(e, d, b)
    BY <2>1, Concat DEF e
  <2>3. QED
    BY <2>1, <2>2 DEF Joins
<1>7. /\ InitPS2Mouse \in Seq(Accesses) /\ Len(InitPS2Mouse) = 21
      /\ \A i \in 1 .. 19 : InitPS2Mouse[i] = e[i]
      /\ InitPS2Mouse[20] = MouseRead[1] /\ InitPS2Mouse[21] = MouseRead[2]
  <2>1. e \in Seq(Accesses) /\ MouseRead \in Seq(Accesses) /\ Len(e) = 19 /\ Len(MouseRead) = 2
    BY <1>6, MouseReadIs
  <2>2. InitPS2Mouse \in Seq(Accesses) /\ Joins(InitPS2Mouse, e, MouseRead)
    BY <2>1, Concat, <1>3
  <2>3. QED
    BY <2>1, <2>2 DEF Joins
<1>8. /\ InitPS2Mouse[10] = a[1] /\ InitPS2Mouse[11] = a[2]
      /\ InitPS2Mouse[12] = a[3] /\ InitPS2Mouse[13] = a[4]
  BY <1>4, <1>5, <1>6, <1>7
<1>9. /\ InitPS2Mouse[14] = MouseRead[1] /\ InitPS2Mouse[15] = MouseRead[2]
       /\ InitPS2Mouse[16] = b[1] /\ InitPS2Mouse[17] = b[2]
       /\ InitPS2Mouse[18] = b[3] /\ InitPS2Mouse[19] = b[4]
  BY <1>5, <1>6, <1>7
<1>10. /\ InitPS2Mouse[1] = Configure[1] /\ InitPS2Mouse[2] = Configure[2]
       /\ InitPS2Mouse[3] = Configure[3] /\ InitPS2Mouse[4] = Configure[4]
       /\ InitPS2Mouse[5] = Configure[5] /\ InitPS2Mouse[6] = Configure[6]
       /\ InitPS2Mouse[7] = Configure[7] /\ InitPS2Mouse[8] = Configure[8]
       /\ InitPS2Mouse[9] = Configure[9]
  BY <1>4, <1>5, <1>6, <1>7
<1>11. QED
  BY <1>1, <1>2, <1>7, <1>8, <1>9, <1>10, ConfigureIs, MouseReadIs

\* The thread in _start, access by access: line 113 is access 1, sti the last.
LEMMA StartIs ==
  /\ Start \in Seq(Accesses) /\ Len(Start) = 34
  /\ Start[1] = Outb("PIC1_COMMAND", "ICW1")     /\ Start[2] = Outb("PIC2_COMMAND", "ICW1")
  /\ Start[3] = Outb("PIC1_DATA", 32)            /\ Start[4] = Outb("PIC2_DATA", 40)
  /\ Start[5] = Outb("PIC1_DATA", 4)             /\ Start[6] = Outb("PIC2_DATA", 2)
  /\ Start[7] = Outb("PIC1_DATA", "8086")        /\ Start[8] = Outb("PIC2_DATA", "8086")
  /\ Start[9] = Outb("PIC1_DATA", Lines)         /\ Start[10] = Outb("PIC2_DATA", Lines)
  /\ Start[11] = Outb("0x64", "aux on")          /\ Start[12] = Do("MouseWait")
  /\ Start[13] = Outb("0x64", "read config")     /\ Start[14] = Do("MouseWaitInput")
  /\ Start[15] = Inb("status")                   /\ Start[16] = Do("MouseWait")
  /\ Start[17] = Outb("0x64", "write config")    /\ Start[18] = Do("MouseWait")
  /\ Start[19] = Outb("0x60", "status")          /\ Start[20] = Do("MouseWait")
  /\ Start[21] = Outb("0x64", "to mouse")        /\ Start[22] = Do("MouseWait")
  /\ Start[23] = Outb("0x60", "defaults")        /\ Start[24] = Do("MouseWaitInput")
  /\ Start[25] = Inb("ack")                      /\ Start[26] = Do("MouseWait")
  /\ Start[27] = Outb("0x64", "to mouse")        /\ Start[28] = Do("MouseWait")
  /\ Start[29] = Outb("0x60", "enable")          /\ Start[30] = Do("MouseWaitInput")
  /\ Start[31] = Inb("ack")                      /\ Start[32] = Outb("PIC1_DATA", 3 .. 7)
  /\ Start[33] = Outb("PIC2_DATA", Lines \ {4})  /\ Start[34] = Do("sti")
<1> DEFINE a == RemapPIC \o InitPS2Mouse
           b == a \o Unmask
           sti == <<Do("sti")>>
<1>1. Start = b \o sti
  BY DEF Start
<1>2. sti \in Seq(Accesses) /\ Len(sti) = 1 /\ sti[1] = Do("sti")
  BY EndIs
<1> HIDE DEF a, b, sti
<1>3. /\ a \in Seq(Accesses) /\ Len(a) = 31
      /\ \A i \in 1 .. 10 : a[i] = RemapPIC[i]
      /\ a[11] = InitPS2Mouse[1] /\ a[12] = InitPS2Mouse[2] /\ a[13] = InitPS2Mouse[3]
      /\ a[14] = InitPS2Mouse[4] /\ a[15] = InitPS2Mouse[5] /\ a[16] = InitPS2Mouse[6]
      /\ a[17] = InitPS2Mouse[7] /\ a[18] = InitPS2Mouse[8] /\ a[19] = InitPS2Mouse[9]
      /\ a[20] = InitPS2Mouse[10] /\ a[21] = InitPS2Mouse[11] /\ a[22] = InitPS2Mouse[12]
      /\ a[23] = InitPS2Mouse[13] /\ a[24] = InitPS2Mouse[14] /\ a[25] = InitPS2Mouse[15]
      /\ a[26] = InitPS2Mouse[16] /\ a[27] = InitPS2Mouse[17] /\ a[28] = InitPS2Mouse[18]
      /\ a[29] = InitPS2Mouse[19] /\ a[30] = InitPS2Mouse[20] /\ a[31] = InitPS2Mouse[21]
  <2>1. /\ RemapPIC \in Seq(Accesses) /\ InitPS2Mouse \in Seq(Accesses)
        /\ Len(RemapPIC) = 10 /\ Len(InitPS2Mouse) = 21
    BY RemapPICIs, InitPS2MouseIs
  <2>2. a \in Seq(Accesses) /\ Joins(a, RemapPIC, InitPS2Mouse)
    BY <2>1, Concat DEF a
  <2>3. QED
    BY <2>1, <2>2 DEF Joins
<1>4. /\ b \in Seq(Accesses) /\ Len(b) = 33
      /\ \A i \in 1 .. 31 : b[i] = a[i]
      /\ b[32] = Unmask[1] /\ b[33] = Unmask[2]
  <2>1. a \in Seq(Accesses) /\ Unmask \in Seq(Accesses) /\ Len(a) = 31 /\ Len(Unmask) = 2
    BY <1>3, EndIs
  <2>2. b \in Seq(Accesses) /\ Joins(b, a, Unmask)
    BY <2>1, Concat DEF b
  <2>3. QED
    BY <2>1, <2>2 DEF Joins
<1>5. /\ Start \in Seq(Accesses) /\ Len(Start) = 34
      /\ \A i \in 1 .. 33 : Start[i] = b[i]
      /\ Start[34] = sti[1]
  <2>1. b \in Seq(Accesses) /\ sti \in Seq(Accesses) /\ Len(b) = 33 /\ Len(sti) = 1
    BY <1>2, <1>4
  <2>2. Start \in Seq(Accesses) /\ Joins(Start, b, sti)
    BY <2>1, Concat, <1>1
  <2>3. QED
    BY <2>1, <2>2 DEF Joins
<1>6. /\ Start[1] = RemapPIC[1] /\ Start[2] = RemapPIC[2] /\ Start[3] = RemapPIC[3]
      /\ Start[4] = RemapPIC[4] /\ Start[5] = RemapPIC[5] /\ Start[6] = RemapPIC[6]
      /\ Start[7] = RemapPIC[7] /\ Start[8] = RemapPIC[8] /\ Start[9] = RemapPIC[9]
      /\ Start[10] = RemapPIC[10]
  BY <1>3, <1>4, <1>5
<1>7. /\ Start[11] = InitPS2Mouse[1] /\ Start[12] = InitPS2Mouse[2] /\ Start[13] = InitPS2Mouse[3]
      /\ Start[14] = InitPS2Mouse[4] /\ Start[15] = InitPS2Mouse[5] /\ Start[16] = InitPS2Mouse[6]
      /\ Start[17] = InitPS2Mouse[7] /\ Start[18] = InitPS2Mouse[8] /\ Start[19] = InitPS2Mouse[9]
      /\ Start[20] = InitPS2Mouse[10] /\ Start[21] = InitPS2Mouse[11] /\ Start[22] = InitPS2Mouse[12]
      /\ Start[23] = InitPS2Mouse[13] /\ Start[24] = InitPS2Mouse[14] /\ Start[25] = InitPS2Mouse[15]
      /\ Start[26] = InitPS2Mouse[16] /\ Start[27] = InitPS2Mouse[17] /\ Start[28] = InitPS2Mouse[18]
      /\ Start[29] = InitPS2Mouse[19] /\ Start[30] = InitPS2Mouse[20] /\ Start[31] = InitPS2Mouse[21]
  BY <1>3, <1>4, <1>5
<1>8. /\ Start[32] = Unmask[1] /\ Start[33] = Unmask[2]
  BY <1>4, <1>5
<1>9. QED
  BY <1>2, <1>5, <1>6, <1>7, <1>8, RemapPICIs, InitPS2MouseIs, EndIs

\* What is left of Start before access n.
Rest(n) == [i \in 1 .. 35 - n |-> Start[i + n - 1]]

\* Each access takes one from what is left.
LEMMA RestIs ==
  /\ Rest(1) = Start /\ Rest(35) = <<>>
  /\ \A n \in 1 .. 34 : /\ Rest(n) # <<>> /\ Head(Rest(n)) = Start[n]
                        /\ Tail(Rest(n)) = Rest(n + 1)
<1>1. Rest(1) = Start
  <2>1. Start \in Seq(Accesses) /\ Len(Start) = 34
    BY StartIs
  <2>2. Start = [i \in 1 .. 34 |-> Start[i]]
    BY <2>1
  <2>3. QED
    BY <2>2 DEF Rest
<1>2. Rest(35) = <<>>
  <2>1. Start \in Seq(Accesses) /\ Len(Start) = 34
    BY StartIs
  <2>2. Rest(35) \in Seq(Accesses) /\ Len(Rest(35)) = 0
    BY <2>1 DEF Rest
  <2> DEFINE r == Rest(35)
  <2> HIDE DEF r
  <2>3. r \in Seq(Accesses) /\ Len(r) = 0
    BY <2>2 DEF r
  <2>4. r = <<>>
    BY <2>3
  <2>5. QED
    BY <2>4 DEF r
<1>3. ASSUME NEW n \in 1 .. 34
      PROVE  /\ Rest(n) # <<>> /\ Head(Rest(n)) = Start[n]
             /\ Tail(Rest(n)) = Rest(n + 1)
  <2>1. Start \in Seq(Accesses) /\ Len(Start) = 34
    BY StartIs
  <2>2. Rest(n) \in Seq(Accesses) /\ Len(Rest(n)) = 35 - n
    <3> DEFINE k == 35 - n
    <3>1. k \in Nat /\ \A i \in 1 .. k : Start[i + n - 1] \in Accesses
      <4>1. \A j \in 1 .. 34 : Start[j] \in Accesses
        BY <2>1, ElementOfSeq
      <4>2. k \in Nat /\ \A i \in 1 .. k : i + n - 1 \in 1 .. 34
        OBVIOUS
      <4>3. QED
        BY <4>1, <4>2
    <3>2. Rest(n) = [i \in 1 .. k |-> Start[i + n - 1]]
      BY DEF Rest
    <3> HIDE DEF k
    <3>3. Rest(n) \in Seq(Accesses) /\ Len(Rest(n)) = k
      <4>1. Rest(n) \in [1 .. k -> Accesses]
        BY <3>1, <3>2
      <4>2. QED
        BY <3>1, <4>1
    <3>4. QED
      BY <3>3 DEF k
  <2>3. Rest(n) # <<>> /\ Head(Rest(n)) = Start[n]
    BY <2>2 DEF Rest
  <2>4. Tail(Rest(n)) = Rest(n + 1)
    <3>1. Tail(Rest(n)) = [i \in 1 .. 34 - n |-> Rest(n)[i + 1]]
      <4> DEFINE r == Rest(n)
                 k == 34 - n
      <4>1. k \in Nat /\ 35 - n = k + 1
        OBVIOUS
      <4> HIDE DEF r, k
      <4>2. r \in Seq(Accesses) /\ Len(r) = k + 1
        BY <2>2, <4>1 DEF r
      <4>3. r # <<>>
        BY <4>1, <4>2
      <4>4. /\ Tail(r) \in Seq(Accesses) /\ Len(Tail(r)) = Len(r) - 1
            /\ \A i \in 1 .. Len(Tail(r)) : Tail(r)[i] = r[i + 1]
        BY <4>2, <4>3, HeadTailProperties
      <4> DEFINE q == Tail(r)
      <4>5. /\ q \in Seq(Accesses) /\ Len(q) = k
            /\ \A i \in 1 .. Len(q) : q[i] = r[i + 1]
        BY <4>1, <4>2, <4>4
      <4> HIDE DEF q
      <4>6. q = [i \in 1 .. k |-> q[i]]
        BY <4>1, <4>5
      <4>7. q = [i \in 1 .. k |-> r[i + 1]]
        BY <4>5, <4>6
      <4>8. QED
        BY <4>7 DEF r, k, q
    <3>2. \A i \in 1 .. 34 - n : Rest(n)[i + 1] = Start[i + n]
      BY DEF Rest
    <3>3. Rest(n + 1) = [i \in 1 .. 34 - n |-> Start[i + n]]
      BY DEF Rest
    <3>4. QED
      BY <3>1, <3>2, <3>3
  <2>5. QED
    BY <2>3, <2>4
<1>4. QED
  BY <1>1, <1>2, <1>3

-----------------------------------------------------------------------------
(* The inductive invariant.                                                *)

\* The accesses before which _start waits for a byte to be taken or to arrive.
Waits == {12, 14, 18, 20, 22, 24, 28, 30}

\* Access n of Start writes value to port.
Writes(n, port, value) ==
  Start[n].op = "outb" /\ Start[n].port = port /\ Start[n].value = value

KBCInputs ==
  [port : {"0x64"}, value : {"aux on", "read config", "write config", "to mouse"}]
    \cup [port : {"0x60"}, value : {"status", "defaults", "enable"}] \cup {Nothing}

\* What is left of a handler.
Handlers == { <<>>, Handler("PIT"), Handler("keyboard"), Handler("mouse"),
              PIC_EndSlave, PIC_EndMaster }

PICs == {"master", "slave"}
PICStates == [expects : {"OCW1", "ICW2", "ICW3", "ICW4"}, offset : Nat, wiring : Nat,
              imr : SUBSET Lines]

Shape ==
  /\ TypeOK
  /\ pic \in [PICs -> PICStates]
  /\ isr \in [PICs -> SUBSET (0 .. 4)]
  /\ handler \in Handlers
  /\ input \in KBCInputs

\* The PICs before access n: what they expect, and the vectors they have.
Chips(n) ==
  /\ pic.master.expects = CASE n \in {2, 3} -> "ICW2"
                            [] n \in {4, 5} -> "ICW3"
                            [] n \in {6, 7} -> "ICW4"
                            [] OTHER        -> "OCW1"
  /\ pic.slave.expects = CASE n \in {3, 4} -> "ICW2"
                           [] n \in {5, 6} -> "ICW3"
                           [] n \in {7, 8} -> "ICW4"
                           [] OTHER        -> "OCW1"
  /\ pic.master.offset = IF n <= 3 THEN 8 ELSE 32
  /\ pic.slave.offset = IF n <= 4 THEN 112 ELSE 40

\* One interrupt is in service while its handler runs, and none without: a
\* handler ends it at both PICs, or at the master alone if it is its own.
Served ==
  /\ handler = <<>> => isr = [master |-> {}, slave |-> {}]
  /\ handler # <<>> => \E i \in 0 .. 2 : isr.master = {i}
  /\ isr.slave # {} => handler \in {Handler("mouse"), PIC_EndSlave}

\* Acknowledgements that may still reach a handler: at most two, because two
\* bytes are sent to the mouse.
Unsent(n) == (IF n <= 23 THEN 1 ELSE 0) + (IF n <= 29 THEN 1 ELSE 0)
OnTheWay  == IF input.value \in {"defaults", "enable"} THEN 1 ELSE 0
Unread    == IF output = "ack" THEN 1 ELSE 0

Acks(n) ==
  /\ acks + Unsent(n) + OnTheWay + Unread + strays <= 2
  /\ input.value = "status" => n <= 21
  /\ awaits = "mouse" \/ input.value = "to mouse" => n > 21

\* A request has its byte in the output buffer, and so has a handler that reads.
Mine ==
  ~keeps =>
    /\ irr \subseteq {"timer"} \cup Line(output, config)
    /\ handler # <<>> =>
         /\ Head(handler) = Inb("mouse")    => output \in {"movement", "ack"}
         /\ Head(handler) = Inb("keyboard") => output \in {"keyboard", "controller"}

\* The controller has taken what was written before access m.
Taken(n, m) == n > m \/ (n = m /\ input = Nothing)

\* InitPS2Mouse before access n if nothing came in its way.
Undisturbed(n) ==
  /\ input # Nothing => n \in Waits /\ Writes(n - 1, input.port, input.value)
  /\ config = IF Taken(n, 20) THEN (firmware \ {"auxOff"}) \cup {"auxIRQ"}
              ELSE IF Taken(n, 12) THEN firmware \ {"auxOff"} ELSE firmware
  /\ n \in 16 .. 20 => status = (firmware \ {"auxOff"}) \cup {"auxIRQ"}
  /\ awaits = IF Taken(n, 18) /\ ~Taken(n, 20) THEN "config"
              ELSE IF \/ Taken(n, 22) /\ ~Taken(n, 24)
                      \/ Taken(n, 28) /\ ~Taken(n, 30) THEN "mouse"
              ELSE "keyboard"
  /\ output \in CASE n = 14 /\ input = Nothing       -> {"empty", "controller"}
                  [] n = 15                          -> {"controller"}
                  [] n \in {24, 30} /\ input = Nothing -> {"empty", "ack"}
                  [] n \in {25, 31}                  -> {"ack"}
                  [] n >= 32                         -> {"empty", "keyboard", "movement"}
                  [] OTHER                           -> {"empty"}
  /\ reply <=> (n = 14 /\ input = Nothing /\ output = "empty")
  /\ acks = IF n \in {24, 30} /\ input = Nothing /\ output = "empty" THEN 1 ELSE 0
  /\ Taken(n, 30) => streaming
  /\ strays = 0

\* Before access n.
Before(n) ==
  /\ kernel = Rest(n)
  /\ n <= 34 => handler = <<>> /\ strays = 0
  /\ Chips(n) /\ Acks(n)
  /\ ~disturbed => Undisturbed(n)

IInv ==
  /\ Shape /\ Served /\ Mine
  /\ \E n \in 1 .. 35 : Before(n)

-----------------------------------------------------------------------------
\* Sequence c is a followed by t.
Starts(c, a, t) == c # <<>> /\ Head(c) = a /\ Tail(c) = t

\* An access before a sequence.
LEMMA Prefixed ==
  ASSUME NEW S, NEW a \in S, NEW t \in Seq(S)
  PROVE  Starts(<<a>> \o t, a, t)
<1> DEFINE s == <<a>>
           c == s \o t
<1>1. s \in Seq(S) /\ Len(s) = 1 /\ s[1] = a
  OBVIOUS
<1> HIDE DEF s
<1>2. c \in Seq(S) /\ Joins(c, s, t)
  BY <1>1, Concat
<1> HIDE DEF c
<1>3. /\ Len(t) \in Nat /\ Len(c) = 1 + Len(t) /\ c[1] = a
      /\ \A i \in 1 .. Len(t) : c[1 + i] = t[i]
  BY <1>1, <1>2 DEF Joins
<1>4. c # <<>> /\ Head(c) = a
  BY <1>2, <1>3
<1>5. Tail(c) = t
  <2>1. Tail(c) \in Seq(S) /\ Len(Tail(c)) = Len(t)
    BY <1>2, <1>3
  <2>2. \A i \in 1 .. Len(Tail(c)) : Tail(c)[i] = t[i]
    BY <1>2, <1>3, <2>1
  <2> DEFINE u == Tail(c)
  <2> HIDE DEF u
  <2>3. u = t
    <3>1. u \in Seq(S) /\ Len(u) = Len(t) /\ \A i \in 1 .. Len(u) : u[i] = t[i]
      BY <2>1, <2>2 DEF u
    <3>2. QED
      BY <3>1, SeqEqual
  <2>4. QED
    BY <2>3 DEF u
<1>6. QED
  BY <1>4, <1>5 DEF Starts, c, s

\* The handlers, access by access.
LEMMA HandlersAre ==
  /\ /\ PIC_EndMaster # <<>> /\ Head(PIC_EndMaster) = Outb("PIC1_COMMAND", "EOI")
     /\ Tail(PIC_EndMaster) = <<>>
  /\ /\ PIC_EndSlave # <<>> /\ Head(PIC_EndSlave) = Outb("PIC2_COMMAND", "EOI")
     /\ Tail(PIC_EndSlave) = PIC_EndMaster
  /\ /\ Handler("PIT") # <<>> /\ Head(Handler("PIT")) = Do("Tick")
     /\ Tail(Handler("PIT")) = PIC_EndMaster
  /\ /\ Handler("keyboard") # <<>> /\ Head(Handler("keyboard")) = Inb("keyboard")
     /\ Tail(Handler("keyboard")) = PIC_EndMaster
  /\ /\ Handler("mouse") # <<>> /\ Head(Handler("mouse")) = Inb("mouse")
     /\ Tail(Handler("mouse")) = PIC_EndSlave
<1>1. /\ PIC_EndMaster # <<>> /\ Head(PIC_EndMaster) = Outb("PIC1_COMMAND", "EOI")
      /\ Tail(PIC_EndMaster) = <<>>
  BY DEF PIC_EndMaster
<1>2. /\ PIC_EndSlave # <<>> /\ Head(PIC_EndSlave) = Outb("PIC2_COMMAND", "EOI")
      /\ Tail(PIC_EndSlave) = PIC_EndMaster
  BY DEF PIC_EndMaster, PIC_EndSlave
<1>3. /\ Handler("PIT") = <<Do("Tick")>> \o PIC_EndMaster
      /\ Handler("keyboard") = <<Inb("keyboard")>> \o PIC_EndMaster
      /\ Handler("mouse") = <<Inb("mouse")>> \o PIC_EndSlave
  BY DEF Handler
<1> DEFINE S == {Do("Tick"), Inb("keyboard"), Inb("mouse"), Outb("PIC1_COMMAND", "EOI"),
                 Outb("PIC2_COMMAND", "EOI")}
<1>4. /\ PIC_EndMaster \in Seq(S) /\ PIC_EndSlave \in Seq(S)
      /\ Do("Tick") \in S /\ Inb("keyboard") \in S /\ Inb("mouse") \in S
  BY DEF PIC_EndMaster, PIC_EndSlave
<1> HIDE DEF S
<1>5. /\ Starts(Handler("PIT"), Do("Tick"), PIC_EndMaster)
      /\ Starts(Handler("keyboard"), Inb("keyboard"), PIC_EndMaster)
      /\ Starts(Handler("mouse"), Inb("mouse"), PIC_EndSlave)
  BY <1>3, <1>4, Prefixed
<1>6. QED
  BY <1>1, <1>2, <1>5 DEF Starts

\* What an access is.
LEMMA Fields ==
  /\ \A p, v : Outb(p, v).op = "outb" /\ Outb(p, v).port = p /\ Outb(p, v).value = v
  /\ \A op : Do(op).op = op
  /\ \A x : Inb(x).op = "inb" /\ Inb(x).into = x
BY DEF Outb, Do, Inb

\* An outb writes.
LEMMA WritesIs == ASSUME NEW n, NEW p, NEW v, Start[n] = Outb(p, v) PROVE Writes(n, p, v)
BY Fields DEF Writes

\* What Start writes.
LEMMA PICWrites ==
  /\ Writes(1, "PIC1_COMMAND", "ICW1") /\ Writes(2, "PIC2_COMMAND", "ICW1")
  /\ Writes(3, "PIC1_DATA", 32)        /\ Writes(4, "PIC2_DATA", 40)
  /\ Writes(5, "PIC1_DATA", 4)         /\ Writes(6, "PIC2_DATA", 2)
  /\ Writes(7, "PIC1_DATA", "8086")    /\ Writes(8, "PIC2_DATA", "8086")
  /\ Writes(9, "PIC1_DATA", Lines)     /\ Writes(10, "PIC2_DATA", Lines)
  /\ Writes(32, "PIC1_DATA", 3 .. 7)   /\ Writes(33, "PIC2_DATA", Lines \ {4})
<1>1. Writes(1, "PIC1_COMMAND", "ICW1") /\ Writes(2, "PIC2_COMMAND", "ICW1")
  BY StartIs, WritesIs
<1>2. Writes(3, "PIC1_DATA", 32) /\ Writes(4, "PIC2_DATA", 40)
  BY StartIs, WritesIs
<1>3. Writes(5, "PIC1_DATA", 4) /\ Writes(6, "PIC2_DATA", 2)
  BY StartIs, WritesIs
<1>4. Writes(7, "PIC1_DATA", "8086") /\ Writes(8, "PIC2_DATA", "8086")
  BY StartIs, WritesIs
<1>5. Writes(9, "PIC1_DATA", Lines) /\ Writes(10, "PIC2_DATA", Lines)
  BY StartIs, WritesIs
<1>6. Writes(32, "PIC1_DATA", 3 .. 7) /\ Writes(33, "PIC2_DATA", Lines \ {4})
  BY StartIs, WritesIs
<1>7. QED
  BY <1>1, <1>2, <1>3, <1>4, <1>5, <1>6

\* What it writes to the keyboard controller.
LEMMA KBCWrites11 == Writes(11, "0x64", "aux on")
BY StartIs, WritesIs

LEMMA KBCWrites13 == Writes(13, "0x64", "read config")
BY StartIs, WritesIs

LEMMA KBCWrites17 == Writes(17, "0x64", "write config")
BY StartIs, WritesIs

LEMMA KBCWrites19 == Writes(19, "0x60", "status")
BY StartIs, WritesIs

LEMMA KBCWrites21 == Writes(21, "0x64", "to mouse")
BY StartIs, WritesIs

LEMMA KBCWrites23 == Writes(23, "0x60", "defaults")
BY StartIs, WritesIs

LEMMA KBCWrites27 == Writes(27, "0x64", "to mouse")
BY StartIs, WritesIs

LEMMA KBCWrites29 == Writes(29, "0x60", "enable")
BY StartIs, WritesIs

\* Which accesses of Start are which.
LEMMA Ops ==
  ASSUME NEW n \in 1 .. 34
  PROVE  /\ Start[n].op \in {"outb", "MouseWait", "MouseWaitInput", "inb", "sti"}
         /\ Start[n].op = "sti" => n = 34
         /\ Start[n].op = "MouseWait" => n \in {12, 16, 18, 20, 22, 26, 28}
         /\ Start[n].op = "MouseWaitInput" => n \in {14, 24, 30}
         /\ Start[n].op = "inb" => n \in {15, 25, 31}
         /\ Start[n].op = "outb" =>
              \/ n \in (1 .. 10) \cup {32, 33}
              \/ n \in {11, 13, 17, 19, 21, 23, 27, 29} /\ Start[n].port \in {"0x60", "0x64"}
<1>1. n \in (1 .. 10) \cup {32, 33} => Start[n].op = "outb"
  BY PICWrites DEF Writes
<1>2. n \in {11, 13, 17, 19, 21, 23, 27, 29} =>
        Start[n].op = "outb" /\ Start[n].port \in {"0x60", "0x64"}
  <2>1. n = 11 => Start[n].op = "outb" /\ Start[n].port = "0x64"
    BY KBCWrites11 DEF Writes
  <2>2. n = 13 => Start[n].op = "outb" /\ Start[n].port = "0x64"
    BY KBCWrites13 DEF Writes
  <2>3. n = 17 => Start[n].op = "outb" /\ Start[n].port = "0x64"
    BY KBCWrites17 DEF Writes
  <2>4. n = 19 => Start[n].op = "outb" /\ Start[n].port = "0x60"
    BY KBCWrites19 DEF Writes
  <2>5. n = 21 => Start[n].op = "outb" /\ Start[n].port = "0x64"
    BY KBCWrites21 DEF Writes
  <2>6. n = 23 => Start[n].op = "outb" /\ Start[n].port = "0x60"
    BY KBCWrites23 DEF Writes
  <2>7. n = 27 => Start[n].op = "outb" /\ Start[n].port = "0x64"
    BY KBCWrites27 DEF Writes
  <2>8. n = 29 => Start[n].op = "outb" /\ Start[n].port = "0x60"
    BY KBCWrites29 DEF Writes
  <2>9. QED
    BY <2>1, <2>2, <2>3, <2>4, <2>5, <2>6, <2>7, <2>8
<1>3. n \in {12, 16, 18, 20, 22, 26, 28} => Start[n].op = "MouseWait"
  <2>1. n \in {12, 16, 18, 20, 22, 26, 28} => Start[n] = Do("MouseWait")
    BY StartIs
  <2>2. QED
    BY <2>1, Fields
<1>4. n \in {14, 24, 30} => Start[n].op = "MouseWaitInput"
  <2>1. n \in {14, 24, 30} => Start[n] = Do("MouseWaitInput")
    BY StartIs
  <2>2. QED
    BY <2>1, Fields
<1>5. n \in {15, 25, 31} => Start[n].op = "inb"
  <2>1. n \in {15, 25, 31} => Start[n] = Inb(IF n = 15 THEN "status" ELSE "ack")
    BY StartIs
  <2>2. QED
    BY <2>1, Fields
<1>6. n = 34 => Start[n].op = "sti"
  <2>1. n = 34 => Start[n] = Do("sti")
    BY StartIs
  <2>2. QED
    BY <2>1, Fields
<1>7. QED
  BY <1>1, <1>2, <1>3, <1>4, <1>5, <1>6

-----------------------------------------------------------------------------
\* Where a step of the code is: at access n of _start, or in a handler.
LEMMA Position ==
  ASSUME IInv, Current # <<>>, Advance
  PROVE  \/ /\ handler = <<>> /\ handler' = <<>>
            /\ \E n \in 1 .. 34 : /\ Before(n) /\ Head(Current) = Start[n]
                                  /\ kernel' = Rest(n + 1)
         \/ /\ handler # <<>> /\ Head(Current) = Head(handler) /\ Before(35)
            /\ handler' = Tail(handler) /\ kernel' = Rest(35)
<1>1. PICK n \in 1 .. 35 : Before(n)
  BY DEF IInv
<1>2. CASE handler = <<>>
  <2>1. Current = Rest(n) /\ n \in 1 .. 34
    BY <1>1, <1>2, RestIs DEF Current, Before
  <2>2. Head(Current) = Start[n] /\ Tail(kernel) = Rest(n + 1)
    BY <1>1, <2>1, RestIs DEF Before
  <2>3. QED
    BY <1>1, <1>2, <2>1, <2>2 DEF Advance
<1>3. CASE handler # <<>>
  <2>1. n = 35
    BY <1>1, <1>3 DEF Before
  <2>2. QED
    BY <1>1, <1>3, <2>1 DEF Advance, Current, Before
<1>4. QED
  BY <1>2, <1>3

\* What a handler that runs has still to do.
LEMMA InHandler ==
  ASSUME IInv, handler # <<>>
  PROVE  \/ handler = Handler("PIT") /\ Head(handler) = Do("Tick") /\ Tail(handler) = PIC_EndMaster
         \/ /\ handler = Handler("keyboard") /\ Head(handler) = Inb("keyboard")
            /\ Tail(handler) = PIC_EndMaster
         \/ /\ handler = Handler("mouse") /\ Head(handler) = Inb("mouse")
            /\ Tail(handler) = PIC_EndSlave
         \/ /\ handler = PIC_EndSlave /\ Head(handler) = Outb("PIC2_COMMAND", "EOI")
            /\ Tail(handler) = PIC_EndMaster
         \/ /\ handler = PIC_EndMaster /\ Head(handler) = Outb("PIC1_COMMAND", "EOI")
            /\ Tail(handler) = <<>>
BY HandlersAre DEF IInv, Shape, Handlers

\* Interrupts come when nothing is left of _start and no handler runs.
LEMMA WhenEnabled ==
  ASSUME IInv, Enabled
  PROVE  Before(35) /\ handler = <<>> /\ kernel = <<>>
<1>1. PICK n \in 1 .. 35 : Before(n)
  BY DEF IInv
<1>2. n = 35
  <2>1. kernel = Rest(n) /\ kernel = <<>>
    BY <1>1 DEF Enabled, Before
  <2>2. n \in 1 .. 34 => Rest(n) # <<>>
    BY RestIs
  <2>3. QED
    BY <2>1, <2>2
<1>3. QED
  BY <1>1, <1>2 DEF Enabled

\* What IInv is made of.
LEMMA Reached ==
  ASSUME Shape', Served', Mine', NEW m \in 1 .. 35, Before(m)'
  PROVE  IInv'
BY DEF IInv

\* Steps that neither write to the mouse nor take what is written.
LEMMA AcksStay ==
  ASSUME Shape, Shape', NEW n \in 1 .. 34, n # 21, Acks(n), UNCHANGED <<awaits, input, acks>>,
         Unread' + strays' <= Unread + strays
  PROVE  Acks(n + 1)'
<1> DEFINE m == n + 1
<1>1. acks \in Int /\ strays \in Int /\ strays' \in Int
  BY DEF Shape, TypeOK
<1>2. (n > 21 => m > 21) /\ (n <= 21 => m <= 21)
  OBVIOUS
<1>3. Unsent(m) <= Unsent(n) /\ Unsent(m) \in Int /\ Unsent(n) \in Int
  BY DEF Unsent
<1> HIDE DEF m
<1>4. Acks(m)'
  <2>1. (acks + Unsent(m) + OnTheWay + Unread + strays <= 2)'
    <3>1. OnTheWay \in Int /\ OnTheWay' = OnTheWay /\ Unread \in Int /\ Unread' \in Int
      BY DEF OnTheWay, Unread
    <3>2. acks + Unsent(n) + OnTheWay + Unread + strays <= 2 /\ acks' = acks
      BY DEF Acks
    <3>3. \A a, s, u, o, r, x, s2, r2 \in Int :
            a + u + o + r + s <= 2 /\ x <= u /\ r2 + s2 <= r + s => a + x + o + r2 + s2 <= 2
      OBVIOUS
    <3>4. acks + Unsent(m) + OnTheWay + Unread' + strays' <= 2
      BY <1>1, <1>3, <3>1, <3>2, <3>3
    <3>5. QED
      BY <3>1, <3>2, <3>4
  <2>2. QED
    BY <1>2, <2>1 DEF Acks
<1>5. QED
  BY <1>4 DEF m

\* sti is access 34, and the last.
LEMMA StiOK == IInv /\ Sti => IInv'
<1> SUFFICES ASSUME IInv, Sti PROVE IInv'
  OBVIOUS
<1>1. /\ Current # <<>> /\ Head(Current).op = "sti" /\ Advance /\ status' = {}
      /\ UNCHANGED <<sleeper, pics, fixed, input, awaits, config, output, devices, history>>
  BY DEF Sti, At
<1>2. /\ handler = <<>> /\ handler' = <<>> /\ Before(34) /\ kernel' = Rest(35)
  <2>1. CASE handler # <<>>
    BY <1>1, <2>1, InHandler, Position, Fields
  <2>2. CASE handler = <<>>
    <3>1. PICK n \in 1 .. 34 : Before(n) /\ Head(Current) = Start[n] /\ kernel' = Rest(n + 1)
      BY <1>1, <2>2, Position
    <3>2. n = 34
      BY <1>1, <3>1, Ops
    <3>3. QED
      BY <1>1, <2>2, <3>1, <3>2, Position
  <2>3. QED
    BY <2>1, <2>2
<1>3. Shape /\ Served /\ Mine
  BY DEF IInv
<1>4. Shape'
  BY <1>1, <1>2, <1>3 DEF Shape, TypeOK, Handlers, sleeper, pics, fixed, devices, history
<1>5. Served' /\ Mine'
  BY <1>1, <1>2, <1>3 DEF Served, Mine, Line, pics, fixed
<1>6. Chips(35)' /\ Acks(35)'
  BY <1>1, <1>2, <1>3 DEF Before, Chips, Acks, Unsent, OnTheWay, Unread, pics, devices, history,
    Shape, TypeOK
<1>7. ~disturbed' => Undisturbed(35)'
  BY <1>1, <1>2 DEF Before, Undisturbed, Taken, Waits, devices, history, fixed
<1>8. Before(35)'
  BY <1>2, <1>6, <1>7 DEF Before
<1>9. QED
  BY <1>4, <1>5, <1>8, Reached

\* MouseWait waits in InitPS2Mouse only.
LEMMA MouseWaitOK == IInv /\ MouseWait => IInv'
<1> SUFFICES ASSUME IInv, MouseWait PROVE IInv'
  OBVIOUS
<1>1. /\ Current # <<>> /\ Head(Current).op = "MouseWait" /\ Advance
      /\ disturbed' = (disturbed \/ input # Nothing)
      /\ UNCHANGED <<sleeper, status, pics, fixed, input, awaits, config, output, devices, strays>>
  BY DEF MouseWait, At
<1>2. PICK n \in {12, 16, 18, 20, 22, 26, 28} :
        handler = <<>> /\ handler' = <<>> /\ Before(n) /\ kernel' = Rest(n + 1)
  <2>1. CASE handler # <<>>
    BY <1>1, <2>1, InHandler, Position, Fields
  <2>2. CASE handler = <<>>
    <3>1. PICK n \in 1 .. 34 : Before(n) /\ Head(Current) = Start[n] /\ kernel' = Rest(n + 1)
      BY <1>1, <2>2, Position
    <3>2. n \in {12, 16, 18, 20, 22, 26, 28}
      BY <1>1, <3>1, Ops
    <3>3. QED
      BY <1>1, <2>2, <3>1, <3>2, Position
  <2>3. QED
    BY <2>1, <2>2
<1>3. Shape /\ Served /\ Mine
  BY DEF IInv
<1>4. Shape'
  BY <1>1, <1>2, <1>3 DEF Shape, TypeOK, Handlers, sleeper, pics, fixed, devices
<1>5. Served' /\ Mine'
  <2>1. Served'
    BY <1>1, <1>2, <1>3 DEF Served, pics
  <2>2. Mine'
    BY <1>1, <1>2, <1>3 DEF Mine, Line, pics, fixed
  <2>3. QED
    BY <2>1, <2>2
<1>6. Chips(n + 1)'
  <2>1. /\ pic.master.expects = "OCW1" /\ pic.slave.expects = "OCW1"
        /\ pic.master.offset = 32 /\ pic.slave.offset = 40
    <3>1. Chips(n) /\ n \in Int /\ n > 8
      BY <1>2 DEF Before
    <3>2. QED
      BY <3>1 DEF Chips
  <2>2. pic' = pic
    BY <1>1 DEF pics
  <2>3. QED
    BY <2>1, <2>2 DEF Chips
<1>7. Acks(n + 1)'
  <2>1. /\ Acks(n) /\ n \in 1 .. 34 /\ n # 21
        /\ UNCHANGED <<awaits, input, acks>> /\ Unread' = Unread /\ strays' = strays
    BY <1>1, <1>2 DEF Before, devices, Unread
  <2>2. Unread \in Int /\ strays \in Int
    BY <1>3 DEF Unread, Shape, TypeOK
  <2>3. QED
    BY <1>3, <1>4, <2>1, <2>2, AcksStay
<1>8. ASSUME ~disturbed' PROVE Undisturbed(n + 1)'
  <2>1. Undisturbed(n) /\ input = Nothing
    BY <1>1, <1>2, <1>8 DEF Before
  <2>2. UNCHANGED <<input, awaits, config, firmware, status, output, reply, acks, streaming, strays>>
    BY <1>1 DEF devices, fixed
  <2>3. QED
    BY <2>1, <2>2 DEF Undisturbed, Taken, Waits
<1>9. Before(n + 1)'
  BY <1>1, <1>2, <1>6, <1>7, <1>8 DEF Before
<1>10. n + 1 \in 1 .. 35
  OBVIOUS
<1>11. QED
  BY <1>4, <1>5, <1>9, <1>10, Reached

\* MouseWaitInput waits in InitPS2Mouse only.
LEMMA MouseWaitInputOK == IInv /\ MouseWaitInput => IInv'
<1> SUFFICES ASSUME IInv, MouseWaitInput PROVE IInv'
  OBVIOUS
<1>1. /\ Current # <<>> /\ Head(Current).op = "MouseWaitInput" /\ Advance
      /\ disturbed' = (disturbed \/ output = "empty")
      /\ UNCHANGED <<sleeper, status, pics, fixed, input, awaits, config, output, devices, strays>>
  BY DEF MouseWaitInput, At
<1>2. PICK n \in {14, 24, 30} :
        handler = <<>> /\ handler' = <<>> /\ Before(n) /\ kernel' = Rest(n + 1)
  <2>1. CASE handler # <<>>
    BY <1>1, <2>1, InHandler, Position, Fields
  <2>2. CASE handler = <<>>
    <3>1. PICK n \in 1 .. 34 : Before(n) /\ Head(Current) = Start[n] /\ kernel' = Rest(n + 1)
      BY <1>1, <2>2, Position
    <3>2. n \in {14, 24, 30}
      BY <1>1, <3>1, Ops
    <3>3. QED
      BY <1>1, <2>2, <3>1, <3>2, Position
  <2>3. QED
    BY <2>1, <2>2
<1>3. Shape /\ Served /\ Mine
  BY DEF IInv
<1>4. Shape'
  BY <1>1, <1>2, <1>3 DEF Shape, TypeOK, Handlers, sleeper, pics, fixed, devices
<1>5. Served' /\ Mine'
  BY <1>1, <1>2, <1>3 DEF Served, Mine, Line, pics, fixed
<1>6. Chips(n + 1)'
  BY <1>1, <1>2 DEF Before, Chips, pics
<1>7. Acks(n + 1)'
  <2>1. /\ Acks(n) /\ n \in 1 .. 34 /\ n # 21
        /\ UNCHANGED <<awaits, input, acks>> /\ Unread' = Unread /\ strays' = strays
    BY <1>1, <1>2 DEF Before, devices, Unread
  <2>2. Unread \in Int /\ strays \in Int
    BY <1>3 DEF Unread, Shape, TypeOK
  <2>3. QED
    BY <1>3, <1>4, <2>1, <2>2, AcksStay
<1>8. ASSUME ~disturbed' PROVE Undisturbed(n + 1)'
  <2>1. Undisturbed(n) /\ output # "empty"
    BY <1>1, <1>2, <1>8 DEF Before
  <2>2. UNCHANGED <<input, awaits, config, firmware, status, output, reply, acks, streaming, strays>>
    BY <1>1 DEF devices, fixed
  <2>3. QED
    BY <2>1, <2>2 DEF Undisturbed, Taken, Waits
<1>9. Before(n + 1)'
  BY <1>1, <1>2, <1>6, <1>7, <1>8 DEF Before
<1>10. n + 1 \in 1 .. 35
  OBVIOUS
<1>11. QED
  BY <1>4, <1>5, <1>9, <1>10, Reached

\* Tick is the first of what PITInt_Handler does.
LEMMA TickOK == IInv /\ TickStep => IInv'
<1> SUFFICES ASSUME IInv, TickStep PROVE IInv'
  OBVIOUS
<1>1. /\ Current # <<>> /\ Head(Current).op = "Tick" /\ Advance /\ left' = Tick(left)
      /\ UNCHANGED <<thread, status, pics, fixed, input, awaits, config, output, devices, history>>
  BY DEF TickStep, At
<1>2. /\ handler = Handler("PIT") /\ handler' = PIC_EndMaster /\ Before(35) /\ kernel' = Rest(35)
  <2>1. CASE handler # <<>>
    BY <1>1, <2>1, InHandler, Position, Fields
  <2>2. CASE handler = <<>>
    BY <1>1, <2>2, Position, Ops
  <2>3. QED
    BY <2>1, <2>2
<1>3. Shape /\ Served /\ Mine
  BY DEF IInv
<1>4. Shape'
  BY <1>1, <1>2, <1>3 DEF Shape, TypeOK, Handlers, Tick, pics, fixed, devices, history
<1>5. Served'
  BY <1>1, <1>2, <1>3, HandlersAre, Fields DEF Served, pics
<1>6. Mine'
  BY <1>1, <1>2, <1>3, HandlersAre, Fields DEF Mine, Line, pics, fixed
<1>7. Chips(35)' /\ Acks(35)' /\ (~disturbed' => Undisturbed(35)')
  BY <1>1, <1>2 DEF Before, Chips, Acks, Unsent, OnTheWay, Unread, Undisturbed, Taken, Waits,
    pics, devices, history, fixed
<1>8. Before(35)'
  BY <1>2, <1>7 DEF Before
<1>9. QED
  BY <1>4, <1>5, <1>6, <1>8, Reached

-----------------------------------------------------------------------------
\* A byte at a PIC's data port leaves the other PIC alone.
LEMMA ProgramsOne ==
  ASSUME Shape, NEW c \in PICs, NEW v, pic' = [pic EXCEPT ![c] = Programmed(@, v)]
  PROVE  /\ pic'[c] = Programmed(pic[c], v)
         /\ \A d \in PICs : d # c => pic'[d] = pic[d]
         /\ DOMAIN pic' = PICs /\ pic' = [d \in PICs |-> pic'[d]]
         /\ pic[c] \in PICStates
BY DEF Shape

\* What a PIC does with a byte at its data port.
LEMMA ProgrammedIs ==
  ASSUME NEW p \in PICStates, NEW v
  PROVE  /\ p.expects = "ICW2" => /\ Programmed(p, v).expects = "ICW3"
                                  /\ Programmed(p, v).offset = v
                                  /\ v \in Nat => Programmed(p, v) \in PICStates
         /\ p.expects = "ICW3" => /\ Programmed(p, v).expects = "ICW4"
                                  /\ Programmed(p, v).offset = p.offset
                                  /\ v \in Nat => Programmed(p, v) \in PICStates
         /\ p.expects = "ICW4" => /\ Programmed(p, v).expects = "OCW1"
                                  /\ Programmed(p, v).offset = p.offset
                                  /\ Programmed(p, v) \in PICStates
         /\ p.expects = "OCW1" => /\ Programmed(p, v).expects = "OCW1"
                                  /\ Programmed(p, v).offset = p.offset
                                  /\ v \subseteq Lines => Programmed(p, v) \in PICStates
BY DEF Programmed, PICStates

\* The PICs as RemapPIC leaves them.
Ready == /\ pic.master.expects = "OCW1" /\ pic.slave.expects = "OCW1"
         /\ pic.master.offset = 32 /\ pic.slave.offset = 40

\* From access 9 on the PICs stay as they are but for their masks.
LEMMA Late == \A n \in 9 .. 35 : (Chips(n) <=> Ready) /\ (Chips(n)' <=> Ready')
BY DEF Chips, Ready

\* A byte of RemapPIC, or a mask, at a data port.
LEMMA Programs ==
  ASSUME Shape, NEW n \in (3 .. 10) \cup {32, 33}, Chips(n),
         pic' = [pic EXCEPT ![Chip(Start[n].port)] = Programmed(@, Start[n].value)]
  PROVE  Chips(n + 1)' /\ pic' \in [PICs -> PICStates]
<1>1. CASE n = 3
  <2>1. pic' = [pic EXCEPT !["master"] = Programmed(@, 32)]
    BY <1>1, PICWrites DEF Writes, Chip
  <2>2. /\ pic'["master"] = Programmed(pic["master"], 32) /\ pic'["slave"] = pic["slave"]
        /\ pic' = [d \in PICs |-> pic'[d]] /\ pic["master"] \in PICStates
    BY <2>1, ProgramsOne DEF PICs
  <2>3. QED
    BY <1>1, <2>2, ProgrammedIs DEF Chips, Shape, PICs, Lines
<1>2. CASE n = 4
  <2>1. pic' = [pic EXCEPT !["slave"] = Programmed(@, 40)]
    BY <1>2, PICWrites DEF Writes, Chip
  <2>2. /\ pic'["slave"] = Programmed(pic["slave"], 40) /\ pic'["master"] = pic["master"]
        /\ pic' = [d \in PICs |-> pic'[d]] /\ pic["slave"] \in PICStates
    BY <2>1, ProgramsOne DEF PICs
  <2>3. QED
    BY <1>2, <2>2, ProgrammedIs DEF Chips, Shape, PICs, Lines
<1>3. CASE n = 5
  <2>1. pic' = [pic EXCEPT !["master"] = Programmed(@, 4)]
    BY <1>3, PICWrites DEF Writes, Chip
  <2>2. /\ pic'["master"] = Programmed(pic["master"], 4) /\ pic'["slave"] = pic["slave"]
        /\ pic' = [d \in PICs |-> pic'[d]] /\ pic["master"] \in PICStates
    BY <2>1, ProgramsOne DEF PICs
  <2>3. QED
    BY <1>3, <2>2, ProgrammedIs DEF Chips, Shape, PICs, Lines
<1>4. CASE n = 6
  <2>1. pic' = [pic EXCEPT !["slave"] = Programmed(@, 2)]
    BY <1>4, PICWrites DEF Writes, Chip
  <2>2. /\ pic'["slave"] = Programmed(pic["slave"], 2) /\ pic'["master"] = pic["master"]
        /\ pic' = [d \in PICs |-> pic'[d]] /\ pic["slave"] \in PICStates
    BY <2>1, ProgramsOne DEF PICs
  <2>3. QED
    BY <1>4, <2>2, ProgrammedIs DEF Chips, Shape, PICs, Lines
<1>5. CASE n = 7
  <2>1. pic' = [pic EXCEPT !["master"] = Programmed(@, "8086")]
    BY <1>5, PICWrites DEF Writes, Chip
  <2>2. /\ pic'["master"] = Programmed(pic["master"], "8086") /\ pic'["slave"] = pic["slave"]
        /\ pic' = [d \in PICs |-> pic'[d]] /\ pic["master"] \in PICStates
    BY <2>1, ProgramsOne DEF PICs
  <2>3. QED
    BY <1>5, <2>2, ProgrammedIs DEF Chips, Shape, PICs, Lines
<1>6. CASE n = 8
  <2>1. pic' = [pic EXCEPT !["slave"] = Programmed(@, "8086")]
    BY <1>6, PICWrites DEF Writes, Chip
  <2>2. /\ pic'["slave"] = Programmed(pic["slave"], "8086") /\ pic'["master"] = pic["master"]
        /\ pic' = [d \in PICs |-> pic'[d]] /\ pic["slave"] \in PICStates
    BY <2>1, ProgramsOne DEF PICs
  <2>3. QED
    BY <1>6, <2>2, ProgrammedIs DEF Chips, Shape, PICs, Lines
<1>7. CASE n = 9
  <2>1. pic' = [pic EXCEPT !["master"] = Programmed(@, Lines)]
    BY <1>7, PICWrites DEF Writes, Chip
  <2>2. /\ pic'["master"] = Programmed(pic["master"], Lines) /\ pic'["slave"] = pic["slave"]
        /\ pic' = [d \in PICs |-> pic'[d]] /\ pic["master"] \in PICStates
    BY <2>1, ProgramsOne DEF PICs
  <2>3. Lines \subseteq Lines
    BY DEF Lines
  <2>4. Ready /\ (Ready' => Chips(n + 1)')
    BY <1>7, Late
  <2>5. /\ pic'["master"].expects = "OCW1" /\ pic'["master"].offset = pic["master"].offset
        /\ pic'["master"] \in PICStates
    BY <2>2, <2>3, <2>4, ProgrammedIs DEF Ready
  <2>6. QED
    BY <2>2, <2>4, <2>5 DEF Ready, Shape, PICs
<1>8. CASE n = 10
  <2>1. pic' = [pic EXCEPT !["slave"] = Programmed(@, Lines)]
    BY <1>8, PICWrites DEF Writes, Chip
  <2>2. /\ pic'["slave"] = Programmed(pic["slave"], Lines) /\ pic'["master"] = pic["master"]
        /\ pic' = [d \in PICs |-> pic'[d]] /\ pic["slave"] \in PICStates
    BY <2>1, ProgramsOne DEF PICs
  <2>3. Lines \subseteq Lines
    BY DEF Lines
  <2>4. Ready /\ (Ready' => Chips(n + 1)')
    BY <1>8, Late
  <2>5. /\ pic'["slave"].expects = "OCW1" /\ pic'["slave"].offset = pic["slave"].offset
        /\ pic'["slave"] \in PICStates
    BY <2>2, <2>3, <2>4, ProgrammedIs DEF Ready
  <2>6. QED
    BY <2>2, <2>4, <2>5 DEF Ready, Shape, PICs
<1>9. CASE n = 32
  <2>1. pic' = [pic EXCEPT !["master"] = Programmed(@, 3 .. 7)]
    BY <1>9, PICWrites DEF Writes, Chip
  <2>2. /\ pic'["master"] = Programmed(pic["master"], 3 .. 7) /\ pic'["slave"] = pic["slave"]
        /\ pic' = [d \in PICs |-> pic'[d]] /\ pic["master"] \in PICStates
    BY <2>1, ProgramsOne DEF PICs
  <2>3. 3 .. 7 \subseteq Lines
    BY DEF Lines
  <2>4. Ready /\ (Ready' => Chips(n + 1)')
    BY <1>9, Late
  <2>5. /\ pic'["master"].expects = "OCW1" /\ pic'["master"].offset = pic["master"].offset
        /\ pic'["master"] \in PICStates
    BY <2>2, <2>3, <2>4, ProgrammedIs DEF Ready
  <2>6. QED
    BY <2>2, <2>4, <2>5 DEF Ready, Shape, PICs
<1>10. CASE n = 33
  <2>1. pic' = [pic EXCEPT !["slave"] = Programmed(@, Lines \ {4})]
    BY <1>10, PICWrites DEF Writes, Chip
  <2>2. /\ pic'["slave"] = Programmed(pic["slave"], Lines \ {4}) /\ pic'["master"] = pic["master"]
        /\ pic' = [d \in PICs |-> pic'[d]] /\ pic["slave"] \in PICStates
    BY <2>1, ProgramsOne DEF PICs
  <2>3. Lines \ {4} \subseteq Lines
    BY DEF Lines
  <2>4. Ready /\ (Ready' => Chips(n + 1)')
    BY <1>10, Late
  <2>5. /\ pic'["slave"].expects = "OCW1" /\ pic'["slave"].offset = pic["slave"].offset
        /\ pic'["slave"] \in PICStates
    BY <2>2, <2>3, <2>4, ProgrammedIs DEF Ready
  <2>6. QED
    BY <2>2, <2>4, <2>5 DEF Ready, Shape, PICs
<1>11. QED
  BY <1>1, <1>2, <1>3, <1>4, <1>5, <1>6, <1>7, <1>8, <1>9, <1>10

\* ICW1 keeps the offset until ICW2 comes.
LEMMA ResetIs ==
  ASSUME NEW p \in PICStates
  PROVE  Reset(p).expects = "ICW2" /\ Reset(p).offset = p.offset /\ Reset(p) \in PICStates
BY DEF Reset, PICStates

\* A command of RemapPIC: the PIC is set up anew, and nothing was in service.
LEMMA Resets ==
  ASSUME Shape, NEW n \in {1, 2}, Chips(n),
         pic' = [pic EXCEPT ![Chip(Start[n].port)] = Reset(@)]
  PROVE  Chips(n + 1)' /\ pic' \in [PICs -> PICStates]
<1>1. CASE n = 1
  <2>1. pic' = [pic EXCEPT !["master"] = Reset(@)]
    BY <1>1, PICWrites DEF Writes, Chip
  <2>2. /\ pic'["master"] = Reset(pic["master"]) /\ pic'["slave"] = pic["slave"]
        /\ pic' = [d \in PICs |-> pic'[d]] /\ pic["master"] \in PICStates
    BY <2>1 DEF PICs, Shape
  <2>3. /\ pic'["master"].expects = "ICW2" /\ pic'["master"].offset = pic["master"].offset
        /\ pic'["master"] \in PICStates
    BY <2>2, ResetIs
  <2>4. QED
    BY <1>1, <2>2, <2>3 DEF Chips, Shape, PICs
<1>2. CASE n = 2
  <2>1. pic' = [pic EXCEPT !["slave"] = Reset(@)]
    BY <1>2, PICWrites DEF Writes, Chip
  <2>2. /\ pic'["slave"] = Reset(pic["slave"]) /\ pic'["master"] = pic["master"]
        /\ pic' = [d \in PICs |-> pic'[d]] /\ pic["slave"] \in PICStates
    BY <2>1 DEF PICs, Shape
  <2>3. /\ pic'["slave"].expects = "ICW2" /\ pic'["slave"].offset = pic["slave"].offset
        /\ pic'["slave"] \in PICStates
    BY <2>2, ResetIs
  <2>4. QED
    BY <1>2, <2>2, <2>3 DEF Chips, Shape, PICs
<1>3. QED
  BY <1>1, <1>2

\* The first of one interrupt.
LEMMA MinOne == ASSUME NEW i \in Int PROVE Min({i}) = i
BY DEF Min

\* Before the first byte to the keyboard controller.
Untouched ==
  /\ input = Nothing /\ config = firmware /\ awaits = "keyboard" /\ output = "empty"
  /\ ~reply /\ acks = 0 /\ strays = 0

\* Nothing came in the way before access 12 if nothing is there.
LEMMA Early ==
  \A n \in 1 .. 11 : (Undisturbed(n) <=> Untouched) /\ (Undisturbed(n)' <=> Untouched')
BY DEF Undisturbed, Untouched, Taken, Waits

\* An access of RemapPIC, or a mask.
LEMMA OutPICStart == IInv /\ OutPIC /\ handler = <<>> => IInv'
<1> SUFFICES ASSUME IInv, OutPIC, handler = <<>> PROVE IInv'
  OBVIOUS
<1>1. /\ Current # <<>> /\ Head(Current).op = "outb" /\ Advance
      /\ Head(Current).port \in {"PIC1_COMMAND", "PIC1_DATA", "PIC2_COMMAND", "PIC2_DATA"}
      /\ UNCHANGED <<sleeper, status, fixed, input, awaits, config, output, devices, history>>
  BY DEF OutPIC, At
<1>2. PICK n \in (1 .. 10) \cup {32, 33} :
        handler' = <<>> /\ Before(n) /\ kernel' = Rest(n + 1) /\ Head(Current) = Start[n]
  <2>1. PICK n \in 1 .. 34 : /\ Before(n) /\ Head(Current) = Start[n]
                             /\ kernel' = Rest(n + 1) /\ handler' = <<>>
    BY <1>1, Position
  <2>2. n \in (1 .. 10) \cup {32, 33}
    BY <1>1, <2>1, Ops
  <2>3. QED
    BY <2>1, <2>2
<1>3. /\ Shape /\ Served /\ Mine /\ isr = [master |-> {}, slave |-> {}]
  BY DEF IInv, Served
<1>4. /\ Chips(n + 1)' /\ pic' \in [PICs -> PICStates]
      /\ isr' = isr /\ irr' \subseteq irr
  <2>1. CASE n \in {1, 2}
    <3>1. /\ Start[n].port \in {"PIC1_COMMAND", "PIC2_COMMAND"} /\ Start[n].value = "ICW1"
      BY <2>1, PICWrites DEF Writes
    <3>2. /\ pic' = [pic EXCEPT ![Chip(Start[n].port)] = Reset(@)]
          /\ isr' = [isr EXCEPT ![Chip(Start[n].port)] = {}]
          /\ irr' \subseteq irr
      BY <1>2, <3>1 DEF OutPIC
    <3>3. isr' = isr
      <4>1. Chip(Start[n].port) \in {"master", "slave"}
        BY DEF Chip
      <4>2. isr[Chip(Start[n].port)] = {} /\ isr \in [PICs -> SUBSET (0 .. 4)]
        BY <1>3, <4>1 DEF Shape
      <4>3. QED
        BY <3>2, <4>1, <4>2 DEF PICs
    <3>4. QED
      BY <1>2, <1>3, <2>1, <3>2, <3>3, Resets DEF Before
  <2>2. CASE n \in (3 .. 10) \cup {32, 33}
    <3>1. Start[n].port \in {"PIC1_DATA", "PIC2_DATA"}
      BY <2>2, PICWrites DEF Writes
    <3>2. /\ pic' = [pic EXCEPT ![Chip(Start[n].port)] = Programmed(@, Start[n].value)]
          /\ UNCHANGED <<irr, isr>>
      BY <1>2, <3>1 DEF OutPIC
    <3>3. QED
      BY <1>2, <1>3, <2>2, <3>2, Programs DEF Before
  <2>3. QED
    BY <1>2, <2>1, <2>2
<1>5. Shape'
  <2>1. pic'.master.offset \in {8, 32} /\ pic'.slave.offset \in {112, 40}
    BY <1>4 DEF Chips
  <2>2. \A chip \in {"master", "slave"} : pic'[chip].imr \subseteq Lines
    BY <1>4 DEF PICs, PICStates
  <2>3. TypeOK'
    BY <1>1, <1>3, <1>4, <2>1, <2>2 DEF Shape, TypeOK, sleeper, fixed, devices, history
  <2>4. QED
    BY <1>1, <1>2, <1>3, <1>4, <2>3 DEF Shape, Handlers
<1>6. Served' /\ Mine'
  BY <1>1, <1>2, <1>3, <1>4 DEF Served, Mine, Line, fixed
<1>7. Acks(n + 1)'
  <2>1. /\ Acks(n) /\ n \in 1 .. 34 /\ n # 21
        /\ UNCHANGED <<awaits, input, acks>> /\ Unread' = Unread /\ strays' = strays
    BY <1>1, <1>2 DEF Before, devices, history, Unread
  <2>2. Unread \in Int /\ strays \in Int
    BY <1>3 DEF Unread, Shape, TypeOK
  <2>3. Unread' + strays' <= Unread + strays
    BY <2>1, <2>2
  <2>4. QED
    BY <1>3, <1>5, <2>1, <2>3, AcksStay
<1>8. ASSUME ~disturbed' PROVE Undisturbed(n + 1)'
  <2>1. Undisturbed(n)
    BY <1>1, <1>2, <1>8 DEF Before, history
  <2>2. UNCHANGED <<input, awaits, config, firmware, status, output, reply, acks, streaming, strays>>
    BY <1>1 DEF devices, fixed, history
  <2>3. CASE n \in 1 .. 10
    <3>1. Untouched
      BY <2>1, <2>3, Early
    <3>2. Untouched' /\ n + 1 \in 1 .. 11
      BY <2>2, <2>3, <3>1 DEF Untouched
    <3>3. QED
      BY <3>2, Early
  <2>4. CASE n \in {32, 33}
    <3>1. CASE n = 32
      BY <2>1, <2>2, <3>1 DEF Undisturbed, Taken, Waits
    <3>2. CASE n = 33
      BY <2>1, <2>2, <3>2 DEF Undisturbed, Taken, Waits
    <3>3. QED
      BY <2>4, <3>1, <3>2
  <2>5. QED
    BY <2>3, <2>4
<1>9. Before(n + 1)'
  BY <1>1, <1>2, <1>4, <1>7, <1>8 DEF Before, history
<1>10. n + 1 \in 1 .. 35
  OBVIOUS
<1>11. QED
  BY <1>5, <1>6, <1>9, <1>10, Reached

\* A handler ends the interrupt in service.
LEMMA OutPICHandler == IInv /\ OutPIC /\ handler # <<>> => IInv'
<1> SUFFICES ASSUME IInv, OutPIC, handler # <<>> PROVE IInv'
  OBVIOUS
<1>1. /\ Current # <<>> /\ Head(Current).op = "outb" /\ Advance
      /\ UNCHANGED <<sleeper, status, fixed, input, awaits, config, output, devices, history>>
  BY DEF OutPIC, At
<1>2. /\ Head(Current) = Head(handler) /\ Before(35)
      /\ handler' = Tail(handler) /\ kernel' = Rest(35)
  BY <1>1, Position
<1>3. Shape /\ Served /\ Mine
  BY DEF IInv
<1>4. PICK c \in PICs :
        /\ isr' = [isr EXCEPT ![c] = IF @ = {} THEN {} ELSE @ \ {Min(@)}]
        /\ UNCHANGED <<pic, irr>>
        /\ \/ c = "slave" /\ handler = PIC_EndSlave /\ handler' = PIC_EndMaster
           \/ c = "master" /\ handler = PIC_EndMaster /\ handler' = <<>>
  <2>1. CASE /\ handler = PIC_EndSlave /\ Head(handler) = Outb("PIC2_COMMAND", "EOI")
             /\ Tail(handler) = PIC_EndMaster
    <3>1. Head(Current).port = "PIC2_COMMAND" /\ Head(Current).value = "EOI"
      BY <1>2, <2>1, Fields
    <3>2. QED
      BY <1>2, <2>1, <3>1 DEF OutPIC, Chip, PICs
  <2>2. CASE /\ handler = PIC_EndMaster /\ Head(handler) = Outb("PIC1_COMMAND", "EOI")
             /\ Tail(handler) = <<>>
    <3>1. Head(Current).port = "PIC1_COMMAND" /\ Head(Current).value = "EOI"
      BY <1>2, <2>2, Fields
    <3>2. QED
      BY <1>2, <2>2, <3>1 DEF OutPIC, Chip, PICs
  <2>3. QED
    BY <1>1, <1>2, <2>1, <2>2, InHandler, Fields
<1>5. PICK i \in 0 .. 2 : isr.master = {i}
  BY <1>3 DEF Served
<1>6. isr \in [PICs -> SUBSET (0 .. 4)] /\ isr.slave \subseteq {4}
  BY <1>3 DEF Shape, TypeOK
<1>7. /\ isr' \in [PICs -> SUBSET (0 .. 4)] /\ Served'
      /\ isr'.master \subseteq isr.master /\ isr'.slave \subseteq isr.slave
  <2>1. CASE c = "slave"
    <3>1. handler = PIC_EndSlave /\ handler' = PIC_EndMaster
      BY <1>4, <2>1
    <3>2. isr'.slave = {} /\ isr'.master = isr.master
      <4>1. isr.slave = {} \/ isr.slave = {4}
        BY <1>6
      <4>2. QED
        BY <1>4, <1>6, <2>1, <4>1, MinOne DEF PICs
    <3>3. isr' \in [PICs -> SUBSET (0 .. 4)]
      BY <1>4, <1>6
    <3>4. Served'
      BY <1>5, <3>1, <3>2, HandlersAre DEF Served
    <3>5. QED
      BY <3>2, <3>3, <3>4
  <2>2. CASE c = "master"
    <3>1. handler = PIC_EndMaster /\ handler' = <<>>
      BY <1>4, <2>2
    <3>2. isr.slave = {}
      <4>1. PIC_EndMaster # PIC_EndSlave /\ PIC_EndMaster # Handler("mouse")
        BY HandlersAre, Fields
      <4>2. QED
        BY <1>3, <3>1, <4>1 DEF Served
    <3>3. isr'.master = {} /\ isr'.slave = {}
      BY <1>4, <1>5, <1>6, <2>2, <3>2, MinOne DEF PICs
    <3>4. isr' \in [PICs -> SUBSET (0 .. 4)]
      BY <1>4, <1>6
    <3>5. isr' = [master |-> {}, slave |-> {}]
      BY <3>3, <3>4 DEF PICs
    <3>6. Served'
      BY <3>1, <3>5 DEF Served
    <3>7. QED
      BY <3>2, <3>3, <3>4, <3>6
  <2>3. QED
    BY <2>1, <2>2 DEF PICs
<1>8. Shape'
  <2>1. TypeOK'
    BY <1>1, <1>3, <1>4, <1>7 DEF Shape, TypeOK, sleeper, fixed, devices, history
  <2>2. handler' \in Handlers
    BY <1>4 DEF Handlers
  <2>3. QED
    BY <1>1, <1>3, <1>4, <1>7, <2>1, <2>2 DEF Shape
<1>9. Mine'
  <2>1. ASSUME handler' # <<>> PROVE Head(handler') = Outb("PIC1_COMMAND", "EOI")
    BY <1>4, <2>1, HandlersAre
  <2>2. QED
    BY <1>1, <1>3, <1>4, <2>1, Fields DEF Mine, Line, fixed
<1>10. Before(35)'
  <2>1. Chips(35)' /\ Acks(35)' /\ (~disturbed' => Undisturbed(35)')
    BY <1>1, <1>2, <1>4 DEF Before, Chips, Acks, Unsent, OnTheWay, Unread, Undisturbed, Taken,
      Waits, devices, history, fixed
  <2>2. QED
    BY <1>2, <2>1 DEF Before
<1>11. QED
  BY <1>7, <1>8, <1>9, <1>10, Reached

-----------------------------------------------------------------------------
\* A write to the keyboard controller; what it has not taken is lost.
LEMMA OutKBCOK == IInv /\ OutKBC => IInv'
<1> SUFFICES ASSUME IInv, OutKBC PROVE IInv'
  OBVIOUS
<1>1. /\ Current # <<>> /\ Head(Current).op = "outb" /\ Advance
      /\ Head(Current).port \in {"0x60", "0x64"}
      /\ input' = [port |-> Head(Current).port, value |-> Head(Current).value]
      /\ UNCHANGED <<sleeper, status, pics, fixed, awaits, config, output, devices, history>>
  BY DEF OutKBC, At
<1>2. PICK n \in {11, 13, 17, 19, 21, 23, 27, 29} :
        /\ handler = <<>> /\ handler' = <<>>
        /\ Before(n) /\ kernel' = Rest(n + 1) /\ Head(Current) = Start[n]
  <2>1. CASE handler # <<>>
    BY <1>1, <2>1, InHandler, Position, Fields
  <2>2. CASE handler = <<>>
    <3>1. PICK n \in 1 .. 34 : /\ Before(n) /\ Head(Current) = Start[n]
                               /\ kernel' = Rest(n + 1) /\ handler' = <<>>
      BY <1>1, <2>2, Position
    <3>2. n \notin (1 .. 10) \cup {32, 33}
      BY <1>1, <3>1, PICWrites DEF Writes
    <3>3. n \in {11, 13, 17, 19, 21, 23, 27, 29}
      BY <1>1, <3>1, <3>2, Ops
    <3>4. QED
      BY <2>2, <3>1, <3>3
  <2>3. QED
    BY <2>1, <2>2
<1>3. Shape /\ Served /\ Mine
  BY DEF IInv
<1>4. /\ input'.port = Start[n].port /\ input'.value = Start[n].value
      /\ input' = [port |-> Start[n].port, value |-> Start[n].value]
  BY <1>1, <1>2
<1>5. /\ n = 11 => Start[n].port = "0x64" /\ Start[n].value = "aux on"
      /\ n = 13 => Start[n].port = "0x64" /\ Start[n].value = "read config"
      /\ n = 17 => Start[n].port = "0x64" /\ Start[n].value = "write config"
      /\ n = 19 => Start[n].port = "0x60" /\ Start[n].value = "status"
      /\ n \in {21, 27} => Start[n].port = "0x64" /\ Start[n].value = "to mouse"
      /\ n = 23 => Start[n].port = "0x60" /\ Start[n].value = "defaults"
      /\ n = 29 => Start[n].port = "0x60" /\ Start[n].value = "enable"
  <2>1. n = 11 => Start[n].port = "0x64" /\ Start[n].value = "aux on"
    BY KBCWrites11 DEF Writes
  <2>2. n = 13 => Start[n].port = "0x64" /\ Start[n].value = "read config"
    BY KBCWrites13 DEF Writes
  <2>3. n = 17 => Start[n].port = "0x64" /\ Start[n].value = "write config"
    BY KBCWrites17 DEF Writes
  <2>4. n = 19 => Start[n].port = "0x60" /\ Start[n].value = "status"
    BY KBCWrites19 DEF Writes
  <2>5. n = 21 => Start[n].port = "0x64" /\ Start[n].value = "to mouse"
    BY KBCWrites21 DEF Writes
  <2>6. n = 23 => Start[n].port = "0x60" /\ Start[n].value = "defaults"
    BY KBCWrites23 DEF Writes
  <2>7. n = 27 => Start[n].port = "0x64" /\ Start[n].value = "to mouse"
    BY KBCWrites27 DEF Writes
  <2>8. n = 29 => Start[n].port = "0x60" /\ Start[n].value = "enable"
    BY KBCWrites29 DEF Writes
  <2>9. QED
    BY <2>1, <2>2, <2>3, <2>4, <2>5, <2>6, <2>7, <2>8
<1>6. Shape'
  <2>1. input' \in KBCInputs
    BY <1>2, <1>4, <1>5 DEF KBCInputs
  <2>2. TypeOK'
    BY <1>1, <1>3 DEF Shape, TypeOK, sleeper, pics, fixed, devices, history
  <2>3. QED
    BY <1>1, <1>2, <1>3, <2>1, <2>2 DEF Shape, Handlers, pics
<1>7. Served' /\ Mine'
  BY <1>1, <1>2, <1>3 DEF Served, Mine, Line, pics, fixed
<1>8. Chips(n + 1)'
  <2>1. n \in 9 .. 35 /\ n + 1 \in 9 .. 35
    BY <1>2
  <2>2. Ready
    BY <1>2, <2>1, Late DEF Before
  <2>3. Ready'
    BY <1>1, <2>2 DEF Ready, pics
  <2>4. QED
    BY <2>1, <2>3, Late
<1>9. Acks(n + 1)'
  <2>1. /\ acks + Unsent(n) + OnTheWay + Unread + strays <= 2
        /\ awaits = "mouse" => n > 21
    BY <1>2 DEF Before, Acks
  <2>2. /\ acks \in Int /\ strays \in Int /\ Unread \in Int /\ OnTheWay \in {0, 1}
        /\ acks' = acks /\ strays' = strays /\ Unread' = Unread /\ awaits' = awaits
    BY <1>1, <1>3 DEF Shape, TypeOK, devices, history, Unread, OnTheWay
  <2>3. /\ Unsent(n + 1) + OnTheWay' <= Unsent(n)
        /\ Unsent(n + 1) \in Int /\ Unsent(n) \in Int /\ OnTheWay' \in Int
    <3>1. OnTheWay' = IF n \in {23, 29} THEN 1 ELSE 0
      BY <1>2, <1>4, <1>5 DEF OnTheWay
    <3>2. Unsent(n + 1) + (IF n \in {23, 29} THEN 1 ELSE 0) <= Unsent(n)
          /\ Unsent(n + 1) \in Int /\ Unsent(n) \in Int
      BY DEF Unsent
    <3>3. QED
      BY <3>1, <3>2
  <2>4. acks + Unsent(n + 1) + OnTheWay' + Unread + strays <= 2
    BY <2>1, <2>2, <2>3
  <2>5. /\ input'.value = "status" => n + 1 <= 21
        /\ input'.value = "to mouse" => n + 1 > 21
        /\ n > 21 => n + 1 > 21
    <3>1. (input'.value = "status" => n = 19) /\ (input'.value = "to mouse" => n \in {21, 27})
      BY <1>4, <1>5
    <3>2. (n = 19 => n + 1 <= 21) /\ (n \in {21, 27} => n + 1 > 21) /\ (n > 21 => n + 1 > 21)
      OBVIOUS
    <3>3. QED
      BY <3>1, <3>2
  <2>6. QED
    BY <2>1, <2>2, <2>4, <2>5 DEF Acks
<1>10. ASSUME ~disturbed' PROVE Undisturbed(n + 1)'
  <2>1. Undisturbed(n)
    BY <1>1, <1>2, <1>10 DEF Before, history
  <2>2. UNCHANGED <<awaits, config, firmware, status, output, reply, acks, streaming, strays>>
    BY <1>1 DEF devices, fixed, history
  <2>3. /\ n + 1 \in Waits /\ input' # Nothing
        /\ Writes(n + 1 - 1, input'.port, input'.value)
    <3>1. n + 1 \in Waits
      BY DEF Waits
    <3>2. Writes(n + 1 - 1, input'.port, input'.value)
      <4>1. Start[n].op = "outb" /\ n + 1 - 1 = n
        BY <1>1, <1>2
      <4>2. QED
        BY <1>4, <4>1 DEF Writes
    <3>3. input' # Nothing
      <4>1. input'.port # "none" /\ Nothing.port = "none"
        BY <1>1 DEF Nothing
      <4>2. QED
        BY <4>1
    <3>4. QED
      BY <1>4, <3>1, <3>2, <3>3
  <2>4. QED
    BY <2>1, <2>2, <2>3 DEF Undisturbed, Taken, Waits
<1>11. Before(n + 1)'
  BY <1>1, <1>2, <1>8, <1>9, <1>10 DEF Before, history
<1>12. n + 1 \in 1 .. 35
  OBVIOUS
<1>13. QED
  BY <1>6, <1>7, <1>11, <1>12, Reached

-----------------------------------------------------------------------------
\* Requests follow the output buffer.
LEMMA FollowIs ==
  ASSUME Shape, Mine, NEW b, NEW c, Follow(b, c)
  PROVE  /\ irr' \subseteq {"timer", "kbd", "aux"}
         /\ ~keeps => irr' \subseteq {"timer"} \cup Line(b, c)
<1>1. Line(b, c) \subseteq {"kbd", "aux"} /\ irr \subseteq {"timer", "kbd", "aux"}
  BY DEF Line, Source, Shape, TypeOK
<1>2. ~keeps => irr \subseteq {"timer"} \cup Line(output, config)
  BY DEF Mine
<1>3. QED
  BY <1>1, <1>2 DEF Follow

\* Polling.
LEMMA InStart == IInv /\ In /\ handler = <<>> => IInv'
<1> SUFFICES ASSUME IInv, In, handler = <<>> PROVE IInv'
  OBVIOUS
<1>1. /\ Current # <<>> /\ Head(Current).op = "inb" /\ Advance
      /\ output' = "empty" /\ Follow("empty", config)
      /\ UNCHANGED <<sleeper, pic, isr, fixed, input, awaits, config, devices>>
  BY DEF In, At
<1>2. PICK n \in {15, 25, 31} :
        handler' = <<>> /\ Before(n) /\ kernel' = Rest(n + 1) /\ Head(Current) = Start[n]
  <2>1. PICK n \in 1 .. 34 : /\ Before(n) /\ Head(Current) = Start[n]
                             /\ kernel' = Rest(n + 1) /\ handler' = <<>>
    BY <1>1, Position
  <2>2. n \in {15, 25, 31}
    BY <1>1, <2>1, Ops
  <2>3. QED
    BY <2>1, <2>2
<1>3. Shape /\ Served /\ Mine
  BY DEF IInv
<1>4. Head(Current).into = IF n = 15 THEN "status" ELSE "ack"
  <2>1. Start[n] = Inb(IF n = 15 THEN "status" ELSE "ack")
    BY StartIs
  <2>2. QED
    BY <1>2, <2>1, Fields
<1>5. /\ strays' = strays
      /\ n = 15 => /\ \E c \in (IF output = "controller" THEN {config} ELSE SUBSET Bits) :
                        status' = c \cup {"auxIRQ"}
                   /\ disturbed' = (disturbed \/ output # "controller")
      /\ n # 15 => UNCHANGED <<status, disturbed>>
  BY <1>4 DEF In
<1>6. Shape'
  <2>1. status' \subseteq Bits /\ disturbed' \in BOOLEAN
    <3>1. /\ config \subseteq Bits /\ status \subseteq Bits /\ disturbed \in BOOLEAN
          /\ "auxIRQ" \in Bits
      BY <1>3 DEF Shape, TypeOK, Bits
    <3>2. CASE n = 15
      <4>1. PICK c \in SUBSET Bits : status' = c \cup {"auxIRQ"}
        BY <1>5, <3>1, <3>2
      <4>2. disturbed' = (disturbed \/ output # "controller")
        BY <1>5, <3>2
      <4>3. QED
        BY <3>1, <4>1, <4>2
    <3>3. CASE n # 15
      BY <1>5, <3>1, <3>3
    <3>4. QED
      BY <3>2, <3>3
  <2>2. irr' \subseteq {"timer", "kbd", "aux"}
    BY <1>1, <1>3, FollowIs
  <2>3. TypeOK'
    BY <1>1, <1>3, <1>5, <2>1, <2>2 DEF Shape, TypeOK, sleeper, fixed, devices
  <2>4. QED
    BY <1>1, <1>2, <1>3, <2>3 DEF Shape, Handlers
<1>7. Served'
  BY <1>1, <1>2, <1>3 DEF Served
<1>8. Mine'
  <2>1. ~keeps => irr' \subseteq {"timer"} \cup Line("empty", config)
    BY <1>1, <1>3, FollowIs
  <2>2. QED
    BY <1>1, <1>2, <2>1 DEF Mine, fixed
<1>9. Chips(n + 1)'
  <2>1. n \in 9 .. 35 /\ n + 1 \in 9 .. 35
    BY <1>2
  <2>2. Ready
    BY <1>2, <2>1, Late DEF Before
  <2>3. Ready'
    BY <1>1, <2>2 DEF Ready
  <2>4. QED
    BY <2>1, <2>3, Late
<1>10. Acks(n + 1)'
  <2>1. Unread' + strays' <= Unread + strays
    BY <1>1, <1>3, <1>5 DEF Unread, Shape, TypeOK
  <2>2. Acks(n) /\ n \in 1 .. 34 /\ n # 21 /\ UNCHANGED <<awaits, input, acks>>
    BY <1>1, <1>2 DEF Before, devices
  <2>3. QED
    BY <1>3, <1>6, <2>1, <2>2, AcksStay
<1>11. ASSUME ~disturbed' PROVE Undisturbed(n + 1)'
  <2>1. Undisturbed(n) /\ (n = 15 => output = "controller" /\ status' = config \cup {"auxIRQ"})
    <3>1. ~disturbed /\ (n = 15 => output = "controller")
      <4>1. n = 15 => disturbed' = (disturbed \/ output # "controller")
        BY <1>5
      <4>2. n # 15 => disturbed' = disturbed
        BY <1>5
      <4>3. CASE n = 15
        BY <1>11, <4>1, <4>3
      <4>4. CASE n # 15
        BY <1>11, <4>2, <4>4
      <4>5. QED
        BY <4>3, <4>4
    <3>2. n = 15 => \E c \in {config} : status' = c \cup {"auxIRQ"}
      BY <1>5, <3>1
    <3>3. QED
      BY <1>2, <3>1, <3>2 DEF Before
  <2>2. /\ UNCHANGED <<awaits, config, firmware, input, reply, acks, streaming, strays>>
        /\ output' = "empty" /\ (n # 15 => status' = status)
    BY <1>1, <1>5 DEF devices, fixed
  <2>3. CASE n = 15
    BY <2>1, <2>2, <2>3 DEF Undisturbed, Taken, Waits
  <2>4. CASE n = 25
    BY <2>1, <2>2, <2>4 DEF Undisturbed, Taken, Waits
  <2>5. CASE n = 31
    BY <2>1, <2>2, <2>5 DEF Undisturbed, Taken, Waits
  <2>6. QED
    BY <2>3, <2>4, <2>5
<1>12. Before(n + 1)'
  BY <1>2, <1>5, <1>9, <1>10, <1>11 DEF Before
<1>13. n + 1 \in 1 .. 35
  OBVIOUS
<1>14. QED
  BY <1>6, <1>7, <1>8, <1>12, <1>13, Reached

\* A handler reads.
LEMMA InHandlerOK == IInv /\ In /\ handler # <<>> => IInv'
<1> SUFFICES ASSUME IInv, In, handler # <<>> PROVE IInv'
  OBVIOUS
<1>1. /\ Current # <<>> /\ Head(Current).op = "inb" /\ Advance
      /\ output' = "empty" /\ Follow("empty", config)
      /\ UNCHANGED <<sleeper, pic, isr, fixed, input, awaits, config, devices>>
  BY DEF In, At
<1>2. /\ Head(Current) = Head(handler) /\ Before(35)
      /\ handler' = Tail(handler) /\ kernel' = Rest(35)
  BY <1>1, Position
<1>3. Shape /\ Served /\ Mine
  BY DEF IInv
<1>4. \/ /\ handler = Handler("keyboard") /\ handler' = PIC_EndMaster
         /\ Head(handler) = Inb("keyboard")
      \/ /\ handler = Handler("mouse") /\ handler' = PIC_EndSlave
         /\ Head(handler) = Inb("mouse")
  BY <1>1, <1>2, InHandler, Fields
<1>5. /\ UNCHANGED <<status, disturbed>>
      /\ strays' = IF /\ handler = Handler("mouse") /\ output # "movement"
                      /\ ~keeps /\ strays < StrayBound
                   THEN strays + 1 ELSE strays
  <2>1. \/ handler = Handler("keyboard") /\ Head(Current).into = "keyboard"
        \/ handler = Handler("mouse") /\ Head(Current).into = "mouse"
    BY <1>2, <1>4, Fields
  <2>2. Handler("keyboard") # Handler("mouse")
    BY HandlersAre, Fields
  <2>3. QED
    BY <2>1, <2>2 DEF In
<1>6. Unread' + strays' <= Unread + strays
  <2>1. strays \in Int /\ Unread' = 0 /\ Unread \in {0, 1}
    BY <1>1, <1>3 DEF Shape, TypeOK, Unread
  <2>2. CASE strays' = strays
    BY <2>1, <2>2
  <2>3. CASE handler = Handler("mouse") /\ output # "movement" /\ ~keeps /\ strays' = strays + 1
    <3>1. Head(handler) = Inb("mouse")
      BY <2>3, HandlersAre
    <3>2. output = "ack"
      BY <1>3, <2>3, <3>1 DEF Mine
    <3>3. QED
      BY <2>1, <2>3, <3>2 DEF Unread
  <2>4. QED
    BY <1>5, <2>2, <2>3
<1>7. handler' \in {PIC_EndMaster, PIC_EndSlave} /\ handler' # <<>>
  BY <1>4, HandlersAre
<1>8. Shape'
  <2>1. irr' \subseteq {"timer", "kbd", "aux"}
    BY <1>1, <1>3, FollowIs
  <2>2. strays' \in 0 .. StrayBound
    BY <1>3, <1>5, InterruptsAssumption DEF Shape, TypeOK
  <2>3. TypeOK'
    BY <1>1, <1>3, <1>5, <2>1, <2>2 DEF Shape, TypeOK, sleeper, fixed, devices
  <2>4. QED
    BY <1>1, <1>3, <1>7, <2>3 DEF Shape, Handlers
<1>9. Served'
  <2>1. Handler("keyboard") \notin {Handler("mouse"), PIC_EndSlave}
    BY HandlersAre, Fields
  <2>2. QED
    BY <1>1, <1>3, <1>4, <1>7, <2>1 DEF Served
<1>10. Mine'
  <2>1. ~keeps => irr' \subseteq {"timer"} \cup Line("empty", config)
    BY <1>1, <1>3, FollowIs
  <2>2. Head(handler') # Inb("mouse") /\ Head(handler') # Inb("keyboard")
    BY <1>7, HandlersAre, Fields
  <2>3. QED
    BY <1>1, <2>1, <2>2 DEF Mine, fixed
<1>11. Chips(35)' /\ Acks(35)'
  <2>1. Chips(35)'
    BY <1>1, <1>2 DEF Before, Chips
  <2>2. /\ acks + Unsent(35) + OnTheWay + Unread + strays <= 2
        /\ acks \in Int /\ Unsent(35) = 0 /\ OnTheWay \in Int /\ Unread \in Int
        /\ strays \in Int /\ strays' \in Int /\ Unread' \in Int
        /\ acks' = acks /\ OnTheWay' = OnTheWay
    BY <1>1, <1>2, <1>3, <1>8 DEF Before, Acks, Shape, TypeOK, Unsent, OnTheWay, Unread, devices
  <2>3. acks' + Unsent(35) + OnTheWay' + Unread' + strays' <= 2
    <3>1. \A a, o, u, s, u2, s2 \in Int :
            a + 0 + o + u + s <= 2 /\ u2 + s2 <= u + s => a + 0 + o + u2 + s2 <= 2
      OBVIOUS
    <3>2. acks + 0 + OnTheWay + Unread' + strays' <= 2
      BY <1>6, <2>2, <3>1
    <3>3. QED
      BY <2>2, <3>2
  <2>4. QED
    BY <1>1, <1>2, <2>1, <2>3 DEF Before, Acks
<1>12. ASSUME ~disturbed' PROVE Undisturbed(35)'
  <2>1. Undisturbed(35)
    BY <1>2, <1>5, <1>12 DEF Before
  <2>2. strays' = strays
    <3>1. output # "ack"
      BY <2>1 DEF Undisturbed
    <3>2. ASSUME handler = Handler("mouse"), ~keeps PROVE output \in {"movement", "ack"}
      BY <1>3, <3>2, HandlersAre DEF Mine
    <3>3. QED
      BY <1>5, <3>1, <3>2
  <2>3. UNCHANGED <<awaits, config, firmware, input, reply, acks, streaming>>
    BY <1>1 DEF devices, fixed
  <2>4. QED
    BY <1>1, <2>1, <2>2, <2>3 DEF Undisturbed, Taken, Waits
<1>13. Before(35)'
  BY <1>2, <1>11, <1>12 DEF Before
<1>14. QED
  BY <1>8, <1>9, <1>10, <1>13, Reached

-----------------------------------------------------------------------------
\* What waits for the controller if nothing came in the way.
LEMMA Pending ==
  ASSUME NEW n \in 1 .. 35, Undisturbed(n), input # Nothing
  PROVE  \/ n = 12 /\ input.port = "0x64" /\ input.value = "aux on"
         \/ n = 14 /\ input.port = "0x64" /\ input.value = "read config"
         \/ n = 18 /\ input.port = "0x64" /\ input.value = "write config"
         \/ n = 20 /\ input.port = "0x60" /\ input.value = "status"
         \/ n \in {22, 28} /\ input.port = "0x64" /\ input.value = "to mouse"
         \/ n = 24 /\ input.port = "0x60" /\ input.value = "defaults"
         \/ n = 30 /\ input.port = "0x60" /\ input.value = "enable"
<1>1. n \in {12, 14, 18, 20, 22, 24, 28, 30} /\ Writes(n - 1, input.port, input.value)
  BY DEF Undisturbed, Waits
<1>2. n = 12 => input.port = "0x64" /\ input.value = "aux on"
  <2>1. n = 12 => Writes(11, input.port, input.value)
    BY <1>1
  <2>2. QED
    BY <2>1, KBCWrites11 DEF Writes
<1>3. n = 14 => input.port = "0x64" /\ input.value = "read config"
  <2>1. n = 14 => Writes(13, input.port, input.value)
    BY <1>1
  <2>2. QED
    BY <2>1, KBCWrites13 DEF Writes
<1>4. n = 18 => input.port = "0x64" /\ input.value = "write config"
  <2>1. n = 18 => Writes(17, input.port, input.value)
    BY <1>1
  <2>2. QED
    BY <2>1, KBCWrites17 DEF Writes
<1>5. n = 20 => input.port = "0x60" /\ input.value = "status"
  <2>1. n = 20 => Writes(19, input.port, input.value)
    BY <1>1
  <2>2. QED
    BY <2>1, KBCWrites19 DEF Writes
<1>6. n = 22 => input.port = "0x64" /\ input.value = "to mouse"
  <2>1. n = 22 => Writes(21, input.port, input.value)
    BY <1>1
  <2>2. QED
    BY <2>1, KBCWrites21 DEF Writes
<1>7. n = 24 => input.port = "0x60" /\ input.value = "defaults"
  <2>1. n = 24 => Writes(23, input.port, input.value)
    BY <1>1
  <2>2. QED
    BY <2>1, KBCWrites23 DEF Writes
<1>8. n = 28 => input.port = "0x64" /\ input.value = "to mouse"
  <2>1. n = 28 => Writes(27, input.port, input.value)
    BY <1>1
  <2>2. QED
    BY <2>1, KBCWrites27 DEF Writes
<1>9. n = 30 => input.port = "0x60" /\ input.value = "enable"
  <2>1. n = 30 => Writes(29, input.port, input.value)
    BY <1>1
  <2>2. QED
    BY <2>1, KBCWrites29 DEF Writes
<1>10. QED
  BY <1>1, <1>2, <1>3, <1>4, <1>5, <1>6, <1>7, <1>8, <1>9

\* The state then.
LEMMA PendingState ==
  ASSUME NEW n \in 1 .. 35, Undisturbed(n), input # Nothing
  PROVE  /\ output = "empty" /\ ~reply /\ acks = 0 /\ strays = 0
         /\ config = IF n > 20 THEN (firmware \ {"auxOff"}) \cup {"auxIRQ"}
                     ELSE IF n > 12 THEN firmware \ {"auxOff"} ELSE firmware
         /\ n \in {18, 20} => status = (firmware \ {"auxOff"}) \cup {"auxIRQ"}
         /\ awaits = IF n = 20 THEN "config" ELSE IF n \in {24, 30} THEN "mouse" ELSE "keyboard"
<1>1. n \in {12, 14, 18, 20, 22, 24, 28, 30}
  BY DEF Undisturbed, Waits
<1>2. output = "empty" /\ ~reply /\ acks = 0 /\ strays = 0
  BY <1>1 DEF Undisturbed
<1>3. config = IF n > 20 THEN (firmware \ {"auxOff"}) \cup {"auxIRQ"}
               ELSE IF n > 12 THEN firmware \ {"auxOff"} ELSE firmware
  BY <1>1 DEF Undisturbed, Taken
<1>4. n \in {18, 20} => status = (firmware \ {"auxOff"}) \cup {"auxIRQ"}
  BY DEF Undisturbed
<1>5. awaits = IF n = 20 THEN "config" ELSE IF n \in {24, 30} THEN "mouse" ELSE "keyboard"
  BY <1>1 DEF Undisturbed, Taken
<1>6. QED
  BY <1>2, <1>3, <1>4, <1>5

\* The state after it was taken.
LEMMA TakenState ==
  ASSUME NEW n \in {12, 14, 18, 20, 22, 24, 28, 30}, input' = Nothing,
         output' = "empty", strays' = 0, reply' <=> n = 14,
         acks' = IF n \in {24, 30} THEN 1 ELSE 0,
         config' = IF n >= 20 THEN (firmware' \ {"auxOff"}) \cup {"auxIRQ"}
                   ELSE firmware' \ {"auxOff"},
         n \in {18, 20} => status' = (firmware' \ {"auxOff"}) \cup {"auxIRQ"},
         awaits' = IF n = 18 THEN "config" ELSE IF n \in {22, 28} THEN "mouse" ELSE "keyboard",
         n = 30 => streaming'
  PROVE  Undisturbed(n)'
BY DEF Undisturbed, Taken, Waits

\* What Acks is about.
LEMMA Counted ==
  ASSUME IInv, NEW n \in 1 .. 35, Before(n)
  PROVE  /\ acks + Unsent(n) + OnTheWay + Unread + strays <= 2
         /\ acks \in Nat /\ Unsent(n) \in Nat /\ OnTheWay \in {0, 1} /\ Unread \in {0, 1}
         /\ strays \in Nat
<1>1. acks \in Nat /\ strays \in Nat
  BY InterruptsAssumption DEF IInv, Shape, TypeOK
<1>2. Unsent(n) \in Nat /\ OnTheWay \in {0, 1} /\ Unread \in {0, 1}
  BY DEF Unsent, OnTheWay, Unread
<1>3. QED
  BY <1>1, <1>2 DEF Before, Acks

\* What is taken is no longer on its way.
LEMMA NothingOnTheWay == input' = Nothing => OnTheWay' = 0
BY DEF Nothing, OnTheWay

\* The controller takes a command.
LEMMA TakeCommandOK == IInv /\ input # Nothing /\ TakeCommand => IInv'
<1> SUFFICES ASSUME IInv, input # Nothing, TakeCommand PROVE IInv'
  OBVIOUS
<1>1. /\ input.port = "0x64" /\ input' = Nothing
      /\ config' = (IF input.value = "aux on" THEN config \ {"auxOff"} ELSE config)
      /\ reply' = (reply \/ input.value = "read config")
      /\ awaits' = CASE input.value = "write config" -> "config"
                     [] input.value = "to mouse"     -> "mouse"
                     [] OTHER                        -> "keyboard"
      /\ UNCHANGED <<code, sleeper, status, pics, fixed, output, acks, streaming, history>>
  BY DEF TakeCommand
<1>2. PICK n \in 1 .. 35 : Before(n)
  BY DEF IInv
<1>3. Shape /\ Served /\ Mine
  BY DEF IInv
<1>4. Shape'
  <2>1. config' \subseteq Bits /\ reply' \in BOOLEAN /\ awaits' \in {"keyboard", "config", "mouse"}
    BY <1>1, <1>3 DEF Shape, TypeOK
  <2>2. TypeOK'
    BY <1>1, <1>3, <2>1 DEF Shape, TypeOK, sleeper, pics, fixed, history
  <2>3. QED
    BY <1>1, <1>3, <2>2 DEF Shape, KBCInputs, code, pics
<1>5. Served' /\ Mine'
  <2>1. Line(output, config') = Line(output, config)
    BY <1>1 DEF Line, IRQBit, Source
  <2>2. Mine'
    BY <1>1, <1>3, <2>1 DEF Mine, Line, code, pics, fixed
  <2>3. QED
    BY <1>1, <1>3, <2>2 DEF Served, code, pics
<1>6. Chips(n)'
  BY <1>1, <1>2 DEF Before, Chips, pics
<1>7. Acks(n)'
  <2>1. /\ acks + Unsent(n) + OnTheWay + Unread + strays <= 2
        /\ acks \in Nat /\ Unsent(n) \in Nat /\ Unread \in {0, 1} /\ strays \in Nat
        /\ OnTheWay \in {0, 1} /\ OnTheWay' = 0
        /\ acks' = acks /\ Unread' = Unread /\ strays' = strays
    <3>1. acks' = acks /\ Unread' = Unread /\ strays' = strays
      BY <1>1 DEF Unread, history
    <3>2. QED
      BY <1>1, <1>2, <3>1, Counted, NothingOnTheWay
  <2>2. acks' + Unsent(n) + OnTheWay' + Unread' + strays' <= 2
    BY <2>1
  <2>3. awaits' = "mouse" => n > 21
    BY <1>1, <1>2 DEF Before, Acks
  <2>4. QED
    BY <1>1, <2>2, <2>3 DEF Acks, Nothing
<1>8. ASSUME ~disturbed' PROVE Undisturbed(n)'
  <2>1. Undisturbed(n)
    BY <1>1, <1>2, <1>8 DEF Before, history
  <2>2. UNCHANGED <<firmware, status, output, acks, streaming, strays>>
    BY <1>1 DEF fixed, history
  <2>3. \/ n = 12 /\ input.value = "aux on"
        \/ n = 14 /\ input.value = "read config"
        \/ n = 18 /\ input.value = "write config"
        \/ n \in {22, 28} /\ input.value = "to mouse"
    BY <1>1, <2>1, Pending
  <2>4. /\ config = IF n > 20 THEN (firmware \ {"auxOff"}) \cup {"auxIRQ"}
                    ELSE IF n > 12 THEN firmware \ {"auxOff"} ELSE firmware
        /\ ~reply
    BY <2>1, PendingState
  <2>5. /\ config' = IF n >= 20 THEN (firmware \ {"auxOff"}) \cup {"auxIRQ"}
                     ELSE firmware \ {"auxOff"}
        /\ reply' <=> n = 14
        /\ awaits' = IF n = 18 THEN "config" ELSE IF n \in {22, 28} THEN "mouse" ELSE "keyboard"
    <3>1. CASE n = 12 /\ input.value = "aux on"
      <4>1. config' = config \ {"auxOff"} /\ ~reply' /\ awaits' = "keyboard"
        BY <1>1, <2>4, <3>1
      <4>2. n = 12
        BY <3>1
      <4>3. config' = config \ {"auxOff"}
        BY <4>1
      <4>4. config' = IF n >= 20 THEN (firmware \ {"auxOff"}) \cup {"auxIRQ"}
                      ELSE firmware \ {"auxOff"}
        BY <2>4, <4>2, <4>3
      <4>5. n # 14 /\ n # 18 /\ n \notin {22, 28}
        BY <4>2
      <4>6. QED
        BY <4>1, <4>4, <4>5, Zenon
    <3>2. CASE n = 14 /\ input.value = "read config"
      <4>1. config' = config /\ reply' /\ awaits' = "keyboard"
        BY <1>1, <2>4, <3>2
      <4>2. n = 14
        BY <3>2
      <4>3. config' = config
        BY <4>1
      <4>4. config' = IF n >= 20 THEN (firmware \ {"auxOff"}) \cup {"auxIRQ"}
                      ELSE firmware \ {"auxOff"}
        BY <2>4, <4>2, <4>3
      <4>5. n = 14 /\ n # 18 /\ n \notin {22, 28}
        BY <4>2
      <4>6. QED
        BY <4>1, <4>4, <4>5, Zenon
    <3>3. CASE n = 18 /\ input.value = "write config"
      <4>1. config' = config /\ ~reply' /\ awaits' = "config"
        BY <1>1, <2>4, <3>3
      <4>2. n = 18
        BY <3>3
      <4>3. config' = config
        BY <4>1
      <4>4. config' = IF n >= 20 THEN (firmware \ {"auxOff"}) \cup {"auxIRQ"}
                      ELSE firmware \ {"auxOff"}
        BY <2>4, <4>2, <4>3
      <4>5. n # 14 /\ n = 18
        BY <4>2
      <4>6. QED
        BY <4>1, <4>4, <4>5, Zenon
    <3>4. CASE n \in {22, 28} /\ input.value = "to mouse"
      <4>1. config' = config /\ ~reply' /\ awaits' = "mouse"
        BY <1>1, <2>4, <3>4
      <4>2. n \in {22, 28}
        BY <3>4
      <4>3. config' = config
        BY <4>1
      <4>4. config' = IF n >= 20 THEN (firmware \ {"auxOff"}) \cup {"auxIRQ"}
                      ELSE firmware \ {"auxOff"}
        BY <2>4, <4>2, <4>3
      <4>5. n # 14 /\ n # 18 /\ n \in {22, 28}
        BY <4>2
      <4>6. QED
        BY <4>1, <4>4, <4>5, Zenon
    <3>5. QED
      BY <2>3, <3>1, <3>2, <3>3, <3>4
  <2>6. /\ output' = "empty" /\ strays' = 0 /\ acks' = 0
        /\ n = 18 => status' = (firmware' \ {"auxOff"}) \cup {"auxIRQ"}
    <3>1. /\ output = "empty" /\ strays = 0 /\ acks = 0
          /\ n = 18 => status = (firmware \ {"auxOff"}) \cup {"auxIRQ"}
      BY <2>1, PendingState
    <3>2. QED
      BY <2>2, <3>1
  <2>7. n \in {12, 14, 18, 22, 28}
    <3>1. n = 12 \/ n = 14 \/ n = 18 \/ n \in {22, 28}
      BY <2>3
    <3>2. QED
      BY <3>1
  <2>8. /\ n \in {12, 14, 18, 20, 22, 24, 28, 30}
        /\ n \notin {24, 30} /\ n # 30 /\ n # 20
    BY <2>7
  <2>9. n \in {18, 20} => status' = (firmware' \ {"auxOff"}) \cup {"auxIRQ"}
    BY <2>6, <2>8
  <2>10. acks' = IF n \in {24, 30} THEN 1 ELSE 0
    BY <2>6, <2>8
  <2>11. config' = IF n >= 20 THEN (firmware' \ {"auxOff"}) \cup {"auxIRQ"}
                   ELSE firmware' \ {"auxOff"}
    BY <2>2, <2>5
  <2>12. QED
    BY <1>1, <2>5, <2>6, <2>8, <2>9, <2>10, <2>11, TakenState
<1>9. Before(n)'
  BY <1>1, <1>2, <1>6, <1>7, <1>8 DEF Before, code, history
<1>10. QED
  BY <1>2, <1>4, <1>5, <1>9, Reached

\* The controller, or the mouse, takes a byte.
LEMMA TakeDataOK == IInv /\ input # Nothing /\ TakeData => IInv'
<1> SUFFICES ASSUME IInv, input # Nothing, TakeData PROVE IInv'
  OBVIOUS
<1>1. /\ input.port = "0x60" /\ input' = Nothing /\ awaits' = "keyboard"
      /\ config' = (IF awaits = "config" THEN AsConfig(input.value) ELSE config)
      /\ Follow(output, config')
      /\ UNCHANGED <<code, sleeper, status, pic, isr, fixed, output, reply, history>>
  BY DEF TakeData
<1>2. IF awaits = "mouse" /\ "auxOff" \notin config
      THEN /\ acks' \in {1, acks + 1}
           /\ streaming' = CASE input.value = "defaults" -> FALSE
                             [] input.value = "enable"   -> TRUE
                             [] OTHER                    -> streaming
      ELSE UNCHANGED <<acks, streaming>>
  BY DEF TakeData
<1>3. PICK n \in 1 .. 35 : Before(n)
  BY DEF IInv
<1>4. Shape /\ Served /\ Mine
  BY DEF IInv
<1>5. input.value \in {"status", "defaults", "enable"}
  BY <1>1, <1>4 DEF Shape, KBCInputs
<1>6. /\ acks' + Unsent(n) + OnTheWay' + Unread' + strays' <= 2
      /\ acks' \in Nat
  <2>1. /\ acks + Unsent(n) + OnTheWay + Unread + strays <= 2
        /\ acks \in Nat /\ Unsent(n) \in Nat /\ Unread \in {0, 1} /\ strays \in Nat
        /\ OnTheWay \in {0, 1} /\ OnTheWay' = 0
        /\ Unread' = Unread /\ strays' = strays
    <3>1. Unread' = Unread /\ strays' = strays
      BY <1>1 DEF Unread, history
    <3>2. QED
      BY <1>1, <1>3, <3>1, Counted, NothingOnTheWay
  <2>2. CASE acks' = acks
    BY <2>1, <2>2
  <2>3. CASE acks' \in {1, acks + 1} /\ awaits = "mouse"
    <3>1. OnTheWay = 1
      <4>1. input.value # "status"
        BY <1>3, <2>3 DEF Before, Acks
      <4>2. QED
        BY <1>5, <4>1 DEF OnTheWay
    <3>2. acks' \in Nat /\ acks' <= acks + 1
      BY <2>1, <2>3
    <3>3. QED
      BY <2>1, <3>1, <3>2
  <2>4. QED
    BY <1>2, <2>2, <2>3
<1>7. Shape'
  <2>1. config' \subseteq Bits
    BY <1>1, <1>4 DEF Shape, TypeOK, AsConfig, Bits
  <2>2. irr' \subseteq {"timer", "kbd", "aux"}
    BY <1>1, <1>4, FollowIs
  <2>3. acks' \in 0 .. 2
    <3>1. /\ Unsent(n) \in Nat /\ OnTheWay' \in Nat /\ Unread' \in Nat /\ strays' \in Nat
      BY <1>1, <1>4 DEF Unsent, OnTheWay, Unread, Shape, TypeOK, history
    <3>2. QED
      BY <1>6, <3>1
  <2>4. streaming' \in BOOLEAN
    BY <1>2, <1>4 DEF Shape, TypeOK
  <2>5. TypeOK'
    BY <1>1, <1>4, <2>1, <2>2, <2>3, <2>4 DEF Shape, TypeOK, sleeper, fixed, history
  <2>6. QED
    BY <1>1, <1>4, <2>5 DEF Shape, KBCInputs, code
<1>8. Served'
  BY <1>1, <1>4 DEF Served, code
<1>9. Mine'
  <2>1. ~keeps => irr' \subseteq {"timer"} \cup Line(output, config')
    BY <1>1, <1>4, FollowIs
  <2>2. QED
    BY <1>1, <1>4, <2>1 DEF Mine, code, fixed
<1>10. Chips(n)' /\ Acks(n)'
  BY <1>1, <1>3, <1>6 DEF Before, Chips, Acks, Nothing
<1>11. ASSUME ~disturbed' PROVE Undisturbed(n)'
  <2>1. Undisturbed(n)
    BY <1>1, <1>3, <1>11 DEF Before, history
  <2>2. UNCHANGED <<firmware, status, output, reply, strays>>
    BY <1>1 DEF fixed, history
  <2>3. \/ n = 20 /\ input.value = "status"
        \/ n = 24 /\ input.value = "defaults"
        \/ n = 30 /\ input.value = "enable"
    BY <1>1, <2>1, Pending
  <2>4. /\ config' = (firmware \ {"auxOff"}) \cup {"auxIRQ"}
        /\ acks' = IF n \in {24, 30} THEN 1 ELSE 0
        /\ n = 30 => streaming'
    <3>1. CASE n = 20 /\ input.value = "status"
      <4>1. /\ awaits = "config" /\ acks = 0
            /\ status = (firmware \ {"auxOff"}) \cup {"auxIRQ"}
        BY <2>1, <3>1, PendingState
      <4>2. config' = status /\ acks' = 0
        BY <1>1, <1>2, <3>1, <4>1 DEF AsConfig
      <4>3. QED
        BY <3>1, <4>1, <4>2
    <3>2. CASE n \in {24, 30}
      <4>1. /\ awaits = "mouse" /\ acks = 0
            /\ config = (firmware \ {"auxOff"}) \cup {"auxIRQ"}
        BY <2>1, <3>2, PendingState
      <4>2. "auxOff" \notin config /\ config' = config
        BY <1>1, <4>1
      <4>3. acks' = 1
        BY <1>2, <4>1, <4>2
      <4>4. n = 30 => input.value = "enable"
        BY <2>3, <3>2
      <4>5. input.value = "enable" => streaming'
        <5>1. streaming' = CASE input.value = "defaults" -> FALSE
                             [] input.value = "enable"   -> TRUE
                             [] OTHER                    -> streaming
          BY <1>2, <4>1, <4>2
        <5>2. QED
          BY <5>1
      <4>6. n = 30 => streaming'
        BY <4>4, <4>5
      <4>7. QED
        BY <3>2, <4>1, <4>2, <4>3, <4>6
    <3>3. QED
      BY <2>3, <3>1, <3>2
  <2>5. /\ output' = "empty" /\ strays' = 0 /\ ~reply'
        /\ n = 20 => status' = (firmware' \ {"auxOff"}) \cup {"auxIRQ"}
    BY <2>1, <2>2, PendingState
  <2>6. QED
    BY <1>1, <2>2, <2>3, <2>4, <2>5, TakenState
<1>12. Before(n)'
  BY <1>1, <1>3, <1>10, <1>11 DEF Before, code, history
<1>13. QED
  BY <1>3, <1>7, <1>8, <1>9, <1>12, Reached

-----------------------------------------------------------------------------
\* An interrupt is delivered through the gate of its own device.
LEMMA DeliverOK == ASSUME NEW i \in 0 .. 2 PROVE IInv /\ Deliver(i) => IInv'
<1> SUFFICES ASSUME IInv, Deliver(i) PROVE IInv'
  OBVIOUS
<1>1. /\ Enabled /\ i \in Requests
      /\ isr' = [master |-> isr.master \cup {i}, slave |-> IF i = 2 THEN {4} ELSE isr.slave]
      /\ irr' = irr \ {<<"timer", "kbd", "aux">>[i + 1]}
      /\ handler' = Handler(Gate(Vector(i)))
      /\ thread' = IF thread = "hlt" THEN "test" ELSE thread
      /\ UNCHANGED <<kernel, left, status, pic, fixed, input, awaits, config, output,
                     devices, history>>
  BY DEF Deliver
<1>2. Before(35) /\ handler = <<>> /\ kernel = <<>>
  BY <1>1, WhenEnabled
<1>3. Shape /\ Served /\ Mine /\ isr = [master |-> {}, slave |-> {}]
  BY <1>2 DEF IInv, Served
<1>4. \/ i = 0 /\ handler' = Handler("PIT")
      \/ i = 1 /\ handler' = Handler("keyboard") /\ "kbd" \in irr
      \/ i = 2 /\ handler' = Handler("mouse") /\ "aux" \in irr
  <2>1. pic.master.offset = 32 /\ pic.slave.offset = 40
    BY <1>2 DEF Before, Chips
  <2>2. CASE i = 0
    <3>1. Vector(i) = 32
      BY <2>1, <2>2 DEF Vector
    <3>2. QED
      BY <1>1, <2>2, <3>1 DEF Gate
  <2>3. CASE i = 1
    <3>1. Vector(i) = 33
      BY <2>1, <2>3 DEF Vector
    <3>2. "kbd" \in irr
      BY <1>1, <2>3 DEF Requests
    <3>3. QED
      BY <1>1, <2>3, <3>1, <3>2 DEF Gate
  <2>4. CASE i = 2
    <3>1. Vector(i) = 44
      BY <2>1, <2>4 DEF Vector
    <3>2. "aux" \in irr
      BY <1>1, <2>4 DEF Requests, SlaveRequests
    <3>3. QED
      BY <1>1, <2>4, <3>1, <3>2 DEF Gate
  <2>5. QED
    BY <2>2, <2>3, <2>4
<1>5. isr'.master = {i} /\ isr'.slave = (IF i = 2 THEN {4} ELSE {})
  BY <1>1, <1>3
<1>6. irr' \subseteq irr
  BY <1>1
<1>7. Shape'
  <2>1. isr' \in [PICs -> SUBSET (0 .. 4)]
    <3>1. isr' = [master |-> {i}, slave |-> IF i = 2 THEN {4} ELSE {}]
      BY <1>1, <1>3
    <3>2. {i} \in SUBSET (0 .. 4) /\ (IF i = 2 THEN {4} ELSE {}) \in SUBSET (0 .. 4)
      OBVIOUS
    <3>3. QED
      BY <3>1, <3>2 DEF PICs
  <2>2. thread' \in {"out", "test", "halting", "hlt"}
    BY <1>1, <1>3 DEF Shape, TypeOK
  <2>3. TypeOK'
    BY <1>1, <1>3, <1>5, <1>6, <2>2 DEF Shape, TypeOK, fixed, devices, history
  <2>4. handler' \in Handlers
    BY <1>4 DEF Handlers
  <2>5. QED
    BY <1>1, <1>3, <2>1, <2>3, <2>4 DEF Shape
<1>8. Served'
  <2>1. handler' # <<>>
    BY <1>4, HandlersAre
  <2>2. isr'.slave # {} => handler' = Handler("mouse")
    BY <1>4, <1>5
  <2>3. QED
    BY <1>5, <2>1, <2>2 DEF Served
<1>9. Mine'
  <2>1. ASSUME ~keeps, "aux" \in irr PROVE output \in {"movement", "ack"}
    BY <1>3, <2>1 DEF Mine, Line, Source
  <2>2. ASSUME ~keeps, "kbd" \in irr PROVE output \in {"keyboard", "controller"}
    BY <1>3, <2>2 DEF Mine, Line, Source, Shape, TypeOK, Sources
  <2>3. /\ Head(handler') = Inb("mouse") => handler' = Handler("mouse") /\ "aux" \in irr
        /\ Head(handler') = Inb("keyboard") => handler' = Handler("keyboard") /\ "kbd" \in irr
    BY <1>4, HandlersAre, Fields
  <2>4. ~keeps => irr' \subseteq {"timer"} \cup Line(output, config)
    BY <1>3, <1>6 DEF Mine
  <2>5. QED
    BY <1>1, <2>1, <2>2, <2>3, <2>4 DEF Mine, Line, fixed
<1>10. Before(35)'
  <2>1. Chips(35)' /\ Acks(35)' /\ (~disturbed' => Undisturbed(35)')
    BY <1>1, <1>2 DEF Before, Chips, Acks, Unsent, OnTheWay, Unread, Undisturbed, Taken,
      Waits, devices, history, fixed
  <2>2. QED
    BY <1>1, <1>2, <2>1 DEF Before
<1>11. QED
  BY <1>7, <1>8, <1>9, <1>10, Reached

\* Steps that change nothing IInv speaks of but the sleeper and the timer's request.
LEMMA AsideOK ==
  ASSUME IInv,
         UNCHANGED <<code, status, pic, isr, fixed, input, awaits, config, output,
                     devices, history>>,
         thread' \in {"out", "test", "halting", "hlt"}, left' \in Nat,
         irr' = irr \/ irr' = irr \cup {"timer"}
  PROVE  IInv'
<1>1. Shape /\ Served /\ Mine
  BY DEF IInv
<1>2. irr \subseteq irr' /\ irr' \subseteq irr \cup {"timer"}
  OBVIOUS
<1>3. Shape'
  <2>1. TypeOK'
    BY <1>1, <1>2 DEF Shape, TypeOK, fixed, devices, history
  <2>2. QED
    BY <1>1, <2>1 DEF Shape, code
<1>4. Served' /\ Mine'
  BY <1>1, <1>2 DEF Served, Mine, Line, code, fixed
<1>5. PICK n \in 1 .. 35 : Before(n)
  BY DEF IInv
<1>6. Before(n)'
  <2>1. Chips(n)' /\ Acks(n)'
    BY <1>5 DEF Before, Chips, Acks, Unsent, OnTheWay, Unread, devices, history
  <2>2. ~disturbed' => Undisturbed(n)'
    BY <1>5 DEF Before, Undisturbed, Taken, devices, history, fixed
  <2>3. QED
    BY <1>5, <2>1, <2>2 DEF Before, code, history
<1>7. QED
  BY <1>3, <1>4, <1>5, <1>6, Reached

\* A thread goes to sleep.
LEMMA SleepdOK == IInv /\ Sleepd => IInv'
<1> SUFFICES ASSUME IInv, Sleepd PROVE IInv'
  OBVIOUS
<1>1. thread' = "test" /\ left' \in Ticks
      /\ UNCHANGED <<code, status, pics, fixed, input, awaits, config, output, devices, history>>
  BY DEF Sleepd, SleepStep
<1>2. left' \in Nat
  BY <1>1, InterruptsAssumption
<1>3. QED
  BY <1>1, <1>2, AsideOK DEF pics

\* It looks at the time, or halts.
LEMMA TestOK == IInv /\ (Test \/ Halt) => IInv'
<1> SUFFICES ASSUME IInv, Test \/ Halt PROVE IInv'
  OBVIOUS
<1>1. thread' \in {"out", "test", "halting", "hlt"} /\ left' = left
      /\ UNCHANGED <<code, status, pics, fixed, input, awaits, config, output, devices, history>>
  BY DEF Test, Halt, SleepStep
<1>2. left' \in Nat
  BY <1>1 DEF IInv, Shape, TypeOK
<1>3. QED
  BY <1>1, <1>2, AsideOK DEF pics

\* The timer requests.
LEMMA TimerEdgeOK == IInv /\ TimerEdge => IInv'
<1> SUFFICES ASSUME IInv, TimerEdge PROVE IInv'
  OBVIOUS
<1>1. irr' = irr \cup {"timer"} /\ thread' = thread /\ left' = left
      /\ UNCHANGED <<code, status, pic, isr, fixed, input, awaits, config, output, devices, history>>
  BY DEF TimerEdge, sleeper
<1>2. thread' \in {"out", "test", "halting", "hlt"} /\ left' \in Nat
  BY <1>1 DEF IInv, Shape, TypeOK
<1>3. QED
  BY <1>1, <1>2, AsideOK

-----------------------------------------------------------------------------
\* A byte gets into the output buffer, and its request with it.
LEMMA Filled ==
  ASSUME IInv, NEW byte \in Sources, Fill(byte),
         acks' \in 0 .. 2, {reply', streaming', disturbed'} \subseteq BOOLEAN,
         NEW n \in 1 .. 35, Before(n), Acks(n)', ~disturbed' => Undisturbed(n)'
  PROVE  IInv'
<1>1. /\ output = "empty" /\ output' = byte /\ Follow(byte, config)
      /\ UNCHANGED <<code, sleeper, status, pic, isr, fixed, input, awaits, config, strays>>
  BY DEF Fill
<1>2. Shape /\ Served /\ Mine
  BY DEF IInv
<1>3. Shape'
  <2>1. irr' \subseteq {"timer", "kbd", "aux"}
    BY <1>1, <1>2, FollowIs
  <2>2. TypeOK'
    BY <1>1, <1>2, <2>1 DEF Shape, TypeOK, sleeper, fixed
  <2>3. QED
    BY <1>1, <1>2, <2>2 DEF Shape, code
<1>4. Served'
  BY <1>1, <1>2 DEF Served, code
<1>5. Mine'
  <2>1. ~keeps => irr' \subseteq {"timer"} \cup Line(byte, config)
    BY <1>1, <1>2, FollowIs
  <2>2. ~keeps /\ handler # <<>> =>
          Head(handler) # Inb("mouse") /\ Head(handler) # Inb("keyboard")
    BY <1>1, <1>2 DEF Mine
  <2>3. QED
    BY <1>1, <2>1, <2>2 DEF Mine, code, fixed
<1>6. Before(n)'
  BY <1>1 DEF Before, Chips, code
<1>7. QED
  BY <1>3, <1>4, <1>5, <1>6, Reached

\* The sum that Acks bounds, when a byte gets into the output buffer.
LEMMA AcksAfter ==
  ASSUME IInv, NEW n \in 1 .. 35, Before(n), UNCHANGED <<input, awaits, strays>>,
         acks' \in Nat, acks' + Unread' <= acks + Unread
  PROVE  Acks(n)' /\ acks' \in 0 .. 2
<1>1. /\ acks + Unsent(n) + OnTheWay + Unread + strays <= 2
      /\ acks \in Nat /\ Unsent(n) \in Nat /\ OnTheWay \in Nat /\ Unread \in Nat /\ strays \in Nat
  BY Counted
<1>2. OnTheWay' = OnTheWay /\ strays' = strays /\ Unread' \in Nat
  BY DEF OnTheWay, Unread
<1>3. \A a, r, a2, r2, u, o, s \in Nat :
        a + u + o + r + s <= 2 /\ a2 + r2 <= a + r => a2 + u + o + r2 + s <= 2 /\ a2 <= 2
  OBVIOUS
<1>4. acks' + Unsent(n) + OnTheWay + Unread' + strays <= 2 /\ acks' <= 2
  BY <1>1, <1>2, <1>3
<1>5. (acks + Unsent(n) + OnTheWay + Unread + strays <= 2)'
  BY <1>2, <1>4 DEF Unsent
<1>6. /\ (input.value = "status" => n <= 21)'
      /\ (awaits = "mouse" \/ input.value = "to mouse" => n > 21)'
  <2>1. Acks(n) /\ input' = input /\ awaits' = awaits
    BY DEF Before
  <2>2. QED
    BY <2>1 DEF Acks
<1>7. acks' \in 0 .. 2
  BY <1>4
<1>8. Acks(n)'
  BY <1>5, <1>6 DEF Acks
<1>9. QED
  BY <1>7, <1>8

\* While InitPS2Mouse has something to read, its last access to port 0x60 is ahead.
LEMMA StillReads ==
  ASSUME NEW n \in 1 .. 31, kernel = Rest(n)
  PROVE  Initializing
<1>1. 32 - n \in 1 .. 35 - n /\ (32 - n) + n - 1 = 31
  OBVIOUS
<1>2. 32 - n \in DOMAIN kernel /\ kernel[32 - n] = Start[31]
  BY <1>1 DEF Rest
<1>3. Start[31].op = "inb"
  <2>1. Start[31] = Inb("ack")
    BY StartIs
  <2>2. QED
    BY <2>1, Fields
<1>4. QED
  BY <1>2, <1>3 DEF Initializing

\* A byte of the keyboard or a movement of the mouse.
LEMMA Unasked ==
  ASSUME IInv, NEW byte \in {"keyboard", "movement"}, Fill(byte), UNCHANGED devices,
         disturbed' = (disturbed \/ Initializing)
  PROVE  IInv'
<1>1. /\ output = "empty" /\ output' = byte
      /\ UNCHANGED <<code, status, fixed, input, awaits, config, strays>>
  BY DEF Fill
<1>2. PICK n \in 1 .. 35 : Before(n)
  BY DEF IInv
<1>3. Acks(n)' /\ acks' \in 0 .. 2
  <2>1. acks' \in Nat /\ acks' + Unread' <= acks + Unread
    BY <1>1 DEF IInv, Shape, TypeOK, Unread, devices
  <2>2. QED
    BY <1>1, <1>2, <2>1, AcksAfter
<1>4. ASSUME ~disturbed' PROVE Undisturbed(n)'
  <2>1. ~disturbed /\ ~Initializing
    <3>1. (disturbed \/ Initializing) => disturbed'
      OBVIOUS
    <3>2. QED
      BY <1>4, <3>1
  <2>2. Undisturbed(n) /\ kernel = Rest(n)
    BY <1>2, <2>1 DEF Before
  <2>3. n \notin 1 .. 31
    BY <2>1, <2>2, StillReads
  <2>4. n >= 32
    BY <2>3
  <2>5. QED
    BY <1>1, <2>2, <2>4 DEF Undisturbed, Taken, Waits, fixed, devices
<1>5. {reply', streaming', disturbed'} \subseteq BOOLEAN
  BY DEF IInv, Shape, TypeOK, devices
<1>6. byte \in Sources
  BY DEF Sources
<1>7. QED
  BY <1>2, <1>3, <1>4, <1>5, <1>6, Filled

\* A key.
LEMMA KeyOK == IInv /\ Key => IInv'
BY Unasked DEF Key

\* A movement of the mouse.
LEMMA MovementOK == IInv /\ Movement => IInv'
BY Unasked DEF Movement

\* The controller's configuration byte comes before access 15, or in the way.
LEMMA ReplyOK == IInv /\ Reply => IInv'
<1> SUFFICES ASSUME IInv, Reply PROVE IInv'
  OBVIOUS
<1>1. /\ output = "empty" /\ output' = "controller" /\ reply /\ reply' = FALSE
      /\ UNCHANGED <<code, status, fixed, input, awaits, config, strays, acks, streaming, disturbed>>
  BY DEF Reply, Fill
<1>2. PICK n \in 1 .. 35 : Before(n)
  BY DEF IInv
<1>3. Acks(n)' /\ acks' \in 0 .. 2
  <2>1. acks' \in Nat /\ acks' + Unread' <= acks + Unread
    BY <1>1 DEF IInv, Shape, TypeOK, Unread
  <2>2. QED
    BY <1>1, <1>2, <2>1, AcksAfter
<1>4. ASSUME ~disturbed' PROVE Undisturbed(n)'
  <2>1. Undisturbed(n)
    BY <1>1, <1>2, <1>4 DEF Before
  <2>2. n = 14 /\ input = Nothing
    BY <1>1, <2>1 DEF Undisturbed
  <2>3. QED
    BY <1>1, <2>1, <2>2 DEF Undisturbed, Taken, Waits, fixed
<1>5. {reply', streaming', disturbed'} \subseteq BOOLEAN
  BY <1>1 DEF IInv, Shape, TypeOK
<1>6. "controller" \in Sources /\ Fill("controller")
  BY DEF Sources, Reply
<1>7. QED
  BY <1>2, <1>3, <1>4, <1>5, <1>6, Filled

\* An acknowledgement comes before access 25 or 31, or in the way.
LEMMA AcknowledgeOK == IInv /\ Acknowledge => IInv'
<1> SUFFICES ASSUME IInv, Acknowledge PROVE IInv'
  OBVIOUS
<1>1. /\ output = "empty" /\ output' = "ack" /\ acks > 0 /\ acks' = acks - 1
      /\ UNCHANGED <<code, status, fixed, input, awaits, config, strays, reply, streaming, disturbed>>
  BY DEF Acknowledge, Fill
<1>2. PICK n \in 1 .. 35 : Before(n)
  BY DEF IInv
<1>3. Acks(n)' /\ acks' \in 0 .. 2
  <2>1. acks \in 0 .. 2 /\ Unread = 0 /\ Unread' = 1
    BY <1>1 DEF IInv, Shape, TypeOK, Unread
  <2>2. acks' \in Nat /\ acks' + Unread' <= acks + Unread
    BY <1>1, <2>1
  <2>3. QED
    BY <1>1, <1>2, <2>2, AcksAfter
<1>4. ASSUME ~disturbed' PROVE Undisturbed(n)'
  <2>1. Undisturbed(n)
    BY <1>1, <1>2, <1>4 DEF Before
  <2>2. n \in {24, 30} /\ input = Nothing /\ acks = 1
    BY <1>1, <2>1 DEF Undisturbed
  <2>3. QED
    BY <1>1, <2>1, <2>2 DEF Undisturbed, Taken, Waits, fixed
<1>5. {reply', streaming', disturbed'} \subseteq BOOLEAN
  BY <1>1 DEF IInv, Shape, TypeOK
<1>6. "ack" \in Sources /\ Fill("ack")
  BY DEF Sources, Acknowledge
<1>7. QED
  BY <1>2, <1>3, <1>4, <1>5, <1>6, Filled

-----------------------------------------------------------------------------
\* The firmware's PICs, and the byte it left.
LEMMA InitOK == Init => IInv
<1> SUFFICES ASSUME Init PROVE IInv
  OBVIOUS
<1>1. /\ kernel = Start /\ handler = <<>> /\ thread = "out" /\ left = 0 /\ status = {}
      /\ pic = [master |-> [expects |-> "OCW1", offset |-> 8, wiring |-> 4, imr |-> Lines],
                slave  |-> [expects |-> "OCW1", offset |-> 112, wiring |-> 2, imr |-> Lines]]
      /\ isr = [master |-> {}, slave |-> {}]
      /\ keeps \in BOOLEAN
      /\ input = Nothing /\ awaits = "keyboard"
      /\ config \in FirmwareConfigs /\ firmware = config
      /\ output \in {"empty", "keyboard", "movement"}
      /\ irr \subseteq {"timer"} \cup Line(output, config)
      /\ ~reply /\ acks = 0 /\ streaming \in BOOLEAN /\ reply = FALSE
      /\ disturbed = (output # "empty")
      /\ strays = 0
  BY DEF Init
<1>2. Shape
  <2>1. config \subseteq Bits
    BY <1>1, InterruptsAssumption
  <2>2. irr \subseteq {"timer", "kbd", "aux"}
    BY <1>1 DEF Line, Source
  <2>3. /\ pic \in [PICs -> PICStates]
        /\ pic.master.offset = 8 /\ pic.slave.offset = 112
        /\ pic["master"].imr = Lines /\ pic["slave"].imr = Lines
    <3>1. /\ [expects |-> "OCW1", offset |-> 8, wiring |-> 4, imr |-> Lines] \in PICStates
          /\ [expects |-> "OCW1", offset |-> 112, wiring |-> 2, imr |-> Lines] \in PICStates
      BY DEF PICStates
    <3>2. QED
      BY <1>1, <3>1 DEF PICs
  <2>4. isr \in [PICs -> SUBSET (0 .. 4)] /\ isr.master = {} /\ isr.slave = {}
    BY <1>1 DEF PICs
  <2>5. strays \in 0 .. StrayBound /\ acks \in 0 .. 2 /\ left \in Nat
    BY <1>1, InterruptsAssumption
  <2>6. /\ {keeps, reply, streaming, disturbed} \subseteq BOOLEAN
        /\ output \in Sources \cup {"empty"}
    BY <1>1 DEF Sources
  <2>7. TypeOK
    BY <1>1, <2>1, <2>2, <2>3, <2>4, <2>5, <2>6 DEF TypeOK
  <2>8. QED
    BY <1>1, <2>3, <2>4, <2>7 DEF Shape, Handlers, KBCInputs
<1>3. Served /\ Mine
  BY <1>1 DEF Served, Mine
<1>4. Before(1)
  <2>1. kernel = Rest(1)
    BY <1>1, RestIs
  <2>2. Chips(1)
    BY <1>1 DEF Chips
  <2>3. Acks(1)
    BY <1>1 DEF Acks, Unsent, OnTheWay, Unread, Nothing
  <2>4. ASSUME ~disturbed PROVE Undisturbed(1)
    <3>1. output = "empty"
      BY <1>1, <2>4
    <3>2. Untouched
      BY <1>1, <3>1 DEF Untouched
    <3>3. QED
      BY <3>2, Early
  <2>5. QED
    BY <1>1, <2>1, <2>2, <2>3, <2>4 DEF Before
<1>5. QED
  BY <1>2, <1>3, <1>4 DEF IInv

\* Every step keeps IInv.
LEMMA NextOK == IInv /\ [Next]_vars => IInv'
<1> SUFFICES ASSUME IInv, [Next]_vars PROVE IInv'
  OBVIOUS
<1>1. CASE Code
  <2>1. CASE OutPIC
    BY <2>1, OutPICStart, OutPICHandler
  <2>2. CASE In
    BY <2>2, InStart, InHandlerOK
  <2>3. QED
    BY <1>1, <2>1, <2>2, StiOK, OutKBCOK, MouseWaitOK, MouseWaitInputOK, TickOK DEF Code
<1>2. CASE Sleepd \/ Test \/ Halt \/ TimerEdge
  BY <1>2, SleepdOK, TestOK, TimerEdgeOK
<1>3. CASE \E i \in 0 .. 2 : Deliver(i)
  BY <1>3, DeliverOK
<1>4. CASE KBC \/ Devices
  BY <1>4, TakeCommandOK, TakeDataOK, ReplyOK, AcknowledgeOK, KeyOK, MovementOK DEF KBC, Devices
<1>5. CASE UNCHANGED vars
  <2>1. UNCHANGED <<code, sleeper, status, pics, fixed, input, awaits, config, output,
                    devices, history>>
    BY <1>5 DEF vars
  <2>2. thread' \in {"out", "test", "halting", "hlt"} /\ left' \in Nat /\ irr' = irr
    BY <2>1 DEF IInv, Shape, TypeOK, sleeper, pics
  <2>3. QED
    BY <2>1, <2>2, AsideOK DEF pics
<1>6. QED
  BY <1>1, <1>2, <1>3, <1>4, <1>5 DEF Next

\* IInv is inductive.
LEMMA Inductive == Spec => []IInv
BY InitOK, NextOK, PTL DEF Spec

-----------------------------------------------------------------------------
\* The types of the state.
THEOREM Types == Spec => []TypeOK
<1>1. IInv => TypeOK
  BY DEF IInv, Shape
<1>2. QED
  BY <1>1, Inductive, PTL

\* A handler finds a byte of its own device, whatever the devices and the
\* timer do between delivery and inb.
THEOREM OwnBytes == Spec => []HandlersReadTheirOwn
<1>1. IInv => HandlersReadTheirOwn
  <2> SUFFICES ASSUME IInv, ~keeps, handler # <<>>, At("inb")
               PROVE  IF Head(handler).into = "mouse" THEN output \in {"movement", "ack"}
                      ELSE output \in {"keyboard", "controller"}
    BY DEF HandlersReadTheirOwn
  <2>1. Head(handler).op = "inb"
    BY DEF At, Current
  <2>2. Head(handler) \in {Inb("mouse"), Inb("keyboard")}
    BY <2>1, InHandler, Fields
  <2>3. /\ Head(handler) = Inb("mouse")    => output \in {"movement", "ack"}
        /\ Head(handler) = Inb("keyboard") => output \in {"keyboard", "controller"}
    BY DEF IInv, Mine
  <2>4. QED
    BY <2>2, <2>3, Fields
<1>2. QED
  BY <1>1, Inductive, PTL

\* What InitPS2Mouse leaves if nothing came in its way.
THEOREM CompleteInit == Spec => []InitIsComplete
<1>1. IInv => InitIsComplete
  <2> SUFFICES ASSUME IInv, kernel = <<>>, ~disturbed
               PROVE  /\ config = (firmware \ {"auxOff"}) \cup {"auxIRQ"}
                      /\ streaming /\ acks = 0 /\ ~reply /\ strays = 0
    BY DEF InitIsComplete
  <2>1. PICK n \in 1 .. 35 : Before(n)
    BY DEF IInv
  <2>2. n = 35
    <3>1. n \in 1 .. 34 => Rest(n) # <<>>
      BY RestIs
    <3>2. QED
      BY <2>1, <3>1 DEF Before
  <2>3. Undisturbed(35)
    BY <2>1, <2>2 DEF Before
  <2>4. QED
    BY <2>3 DEF Undisturbed, Taken
<1>2. QED
  BY <1>1, Inductive, PTL

\* At most two bytes the mouse handler reads are no movements.
THEOREM FewStrays == Spec => []StraysAreFew
<1>1. IInv => StraysAreFew
  <2> SUFFICES ASSUME IInv PROVE strays <= 2
    BY DEF StraysAreFew
  <2>1. PICK n \in 1 .. 35 : Before(n)
    BY DEF IInv
  <2>2. QED
    BY <2>1, Counted
<1>2. QED
  BY <1>1, Inductive, PTL

\* Between handlers no interrupt is in service: each ends its own at the PICs
\* it came through.
THEOREM InterruptsEnd == Spec => []EveryInterruptIsEnded
<1>1. IInv => EveryInterruptIsEnded
  BY DEF IInv, Served, EveryInterruptIsEnded
<1>2. QED
  BY <1>1, Inductive, PTL

-----------------------------------------------------------------------------
(* The divisor of the timer (PIT).                                         *)

\* What division by a positive number means.
LEMMA Division ==
  ASSUME NEW a \in Nat, NEW b \in Nat \ {0}
  PROVE  a \div b \in Nat /\ b * (a \div b) <= a /\ a < b * (a \div b) + b
BY SMT

\* A number less than the modulus is its own remainder.
LEMMA Fits ==
  ASSUME NEW n \in Nat, NEW unit \in Nat \ {0}, n < unit
  PROVE  n % unit = n
BY SMT

\* Products grow with their factors.
LEMMA Product ==
  ASSUME NEW a \in Nat, NEW b \in Nat, NEW c \in Nat, NEW d \in Nat, a <= c, b <= d
  PROVE  a * b <= c * d
<1>1. (c - a) \in Nat /\ (c - a) * b \in Nat /\ (d - b) \in Nat /\ c * (d - b) \in Nat
  BY SMT
<1>2. c * d - a * b = (c - a) * b + c * (d - b)
  BY SMT
<1>3. a * b \in Nat /\ c * d \in Nat
  BY SMT
<1>4. QED
  BY <1>1, <1>2, <1>3, SMT

\* Dividing by a quotient gives at least the divisor.
LEMMA DividedTwice ==
  ASSUME NEW a \in Nat, NEW b \in Nat \ {0}, NEW q \in Nat \ {0}, b * q <= a
  PROVE  a \div q >= b
<1> DEFINE d == a \div q
<1>1. d \in Nat /\ a < q * d + q
  BY Division
<1> HIDE DEF d
<1>2. SUFFICES ASSUME d < b PROVE FALSE
  BY <1>1, SMT DEF d
<1>3. (d + 1) * q <= b * q
  BY <1>1, <1>2, Product
<1>4. QED
  BY <1>1, <1>3, SMT

\* The clock and the size of the divisor.
LEMMA Numbers == BaseFrequency \in Nat /\ DivisorBits \in Nat \ {0}
BY SMT DEF BaseFrequency, DivisorBits

\* In the timer's range the quotient is neither cut off nor raised.
LEMMA QuotientFits ==
  ASSUME NEW f \in Nat, LeastFrequency <= f, f <= GreatestFrequency,
         NEW q \in Nat, f * q <= BaseFrequency, BaseFrequency < f * q + f
  PROVE  q < DivisorBits /\ 100 <= q
<1> USE Numbers
<1> DEFINE least    == BaseFrequency \div DivisorBits
           greatest == BaseFrequency \div 100
<1>1. least \in Nat /\ BaseFrequency < DivisorBits * least + DivisorBits
  BY Division
<1>2. greatest \in Nat /\ 100 * greatest <= BaseFrequency
  BY Division, 100 \in Nat \ {0}
<1>3. least + 1 <= f /\ f <= greatest
  BY DEF LeastFrequency, GreatestFrequency
<1> HIDE DEF least, greatest
<1>4. q < DivisorBits
  <2>1. SUFFICES ASSUME DivisorBits <= q PROVE FALSE
    BY SMT
  <2>2. (least + 1) * DivisorBits <= f * q
    BY <1>1, <1>3, <2>1, Product
  <2>3. QED
    BY <1>1, <2>2, SMT
<1>5. 100 <= q
  <2>1. SUFFICES ASSUME q + 1 <= 100 PROVE FALSE
    BY SMT
  <2>2. f * (q + 1) <= greatest * 100
    BY <1>2, <1>3, <2>1, Product
  <2>3. QED
    BY <1>2, <2>2, SMT
<1>6. QED
  BY <1>4, <1>5

\* An order for a frequency in the timer's range gives at least that frequency,
\* and the next possible one: with the next greater divisor the timer would be
\* too slow (pit.c:15-21).  Outside, 18 Hz give 1588 and 12000 give 11931.
THEOREM FrequencyIsTheNextPossible ==
  ASSUME NEW f \in LeastFrequency .. GreatestFrequency
  PROVE  /\ GetFrequency(SetFrequency(f)) >= f
         /\ BaseFrequency < f * (SetFrequency(f) + 1)
<1> USE Numbers
<1>1. LeastFrequency \in Nat \ {0} /\ GreatestFrequency \in Nat
  <2>1. BaseFrequency \div DivisorBits \in Nat /\ BaseFrequency \div 100 \in Nat
    BY Division, 100 \in Nat \ {0}
  <2>2. QED
    BY <2>1 DEF LeastFrequency, GreatestFrequency
<1>2. f \in Nat \ {0} /\ LeastFrequency <= f /\ f <= GreatestFrequency
  BY <1>1
<1> DEFINE q == BaseFrequency \div f
<1>3. q \in Nat /\ f * q <= BaseFrequency /\ BaseFrequency < f * q + f
  BY <1>2, Division
<1>4. SetFrequency(f) = SetDivisor(q % DivisorBits)
  BY DEF SetFrequency
<1> HIDE DEF q
<1>5. q < DivisorBits /\ 100 <= q
  BY <1>2, <1>3, QuotientFits
<1>6. SetFrequency(f) = q
  <2>1. q % DivisorBits = q
    BY <1>3, <1>5, Fits
  <2>2. SetDivisor(q) = q
    BY <1>3, <1>5 DEF SetDivisor
  <2>3. QED
    BY <1>4, <2>1, <2>2
<1>7. BaseFrequency \div q >= f
  <2>1. q \in Nat \ {0}
    BY <1>3, <1>5
  <2>2. QED
    BY <1>2, <1>3, <2>1, DividedTwice
<1>8. BaseFrequency < f * (q + 1)
  BY <1>2, <1>3, SMT
<1>9. QED
  BY <1>6, <1>7, <1>8 DEF GetFrequency
=============================================================================
