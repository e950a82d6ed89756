------------------------------ MODULE Interrupts ------------------------------
(***************************************************************************)
(* Interrupts, from kernel.c's first write to the interrupt controllers    *)
(* (line 113) to the running system: RemapPIC, InitPS2Mouse, the masks,    *)
(* sti, the three handlers of interrupts.c, and a thread that sleeps       *)
(* (pit.c) once interrupts are on.                                         *)
(*                                                                         *)
(* What a function does is a sequence of accesses to ports, written as in  *)
(* the code; the kernel's thread and the handler that interrupts it take   *)
(* one access a step, and the devices act between any two.  External, and  *)
(* modelled from how the code uses them, are the pair of interrupt         *)
(* controllers (PIC), the keyboard controller with its one output buffer   *)
(* for keyboard, mouse and replies of its own, both devices and the timer. *)
(* A polled read takes a byte away for which an interrupt is requested:    *)
(* the request goes with it, or stays, as it does in an emulator (keeps).  *)
(***************************************************************************)
EXTENDS Integers, Sequences, FiniteSetsExt, PIT

CONSTANTS
  FirmwareConfigs,  \* configuration bytes the firmware may leave behind
  Ticks,            \* lengths of a sleep, in ticks
  StrayBound        \* where counting strays ends

Bits == {"kbdIRQ", "auxIRQ", "kbdOff", "auxOff"}

ASSUME InterruptsAssumption ==
  /\ \A c \in FirmwareConfigs : c \subseteq Bits \ {"kbdOff"} /\ "kbdIRQ" \in c
  /\ Ticks \subseteq Nat /\ StrayBound \in Nat

VARIABLES
  kernel,     \* what _start has still to do until interrupts are on
  handler,    \* what the current interrupt handler has still to do
  thread,     \* of Sleepd: "out", "test", "halting" or "hlt"
  left,       \* StartTime + seconds - TimeSinceBoot, in ticks
  status,     \* local variable of InitPS2Mouse
  pic, irr, isr,  \* set-up of both PICs, requests, interrupts in service
  keeps,      \* a request outlives its cause
  input,      \* byte written to the keyboard controller and not yet taken
  awaits,     \* whom the next byte at port 0x60 is for
  config,     \* configuration byte
  output,     \* source of the byte in the output buffer
  reply,      \* the controller owes its configuration byte
  acks,       \* acknowledgements the mouse owes
  streaming,  \* the mouse reports movements
  firmware,   \* configuration byte at the start
  disturbed,  \* history: another byte, or a time limit, came in InitPS2Mouse's way
  strays      \* history: bytes the mouse handler read that are no movements;
              \* with keeps there may be any number of them

code    == <<kernel, handler>>
sleeper == <<thread, left>>
pics    == <<pic, irr, isr>>
devices == <<reply, acks, streaming>>
history == <<disturbed, strays>>
fixed   == <<keeps, firmware>>
vars == <<code, sleeper, status, pics, fixed, input, awaits, config, output,
          devices, history>>

Nothing == [port |-> "none", value |-> "none"]

-----------------------------------------------------------------------------
(* The code, as sequences of accesses.                                     *)

Do(op)             == [op |-> op]
Outb(port, value)  == [op |-> "outb", port |-> port, value |-> value]
Inb(variable)      == [op |-> "inb", into |-> variable]   \* of port 0x60

Lines == 0 .. 7

(* Mutants: what the definitions of the same names, less the part behind   *)
(* the underscore, would be with a bug in the driver.                      *)

\* Both PICs get the same vectors.
RemapPIC_OneOffset ==
  << Outb("PIC1_COMMAND", "ICW1"), Outb("PIC2_COMMAND", "ICW1"),
     Outb("PIC1_DATA", 32),        Outb("PIC2_DATA", 32),
     Outb("PIC1_DATA", 4),         Outb("PIC2_DATA", 2),
     Outb("PIC1_DATA", "8086"),    Outb("PIC2_DATA", "8086"),
     Outb("PIC1_DATA", Lines),     Outb("PIC2_DATA", Lines) >>

\* The master is not told that the slave's interrupt ended.
PIC_EndSlave_MasterForgotten == << Outb("PIC2_COMMAND", "EOI") >>

\* The acknowledgement is not read.
MouseRead_Left == << Do("MouseWaitInput") >>

\* A third command, as the 4-byte mode needs some, whose acknowledgement nobody
\* reads.
MouseWrite_Twice(value) ==
  << Do("MouseWait"), Outb("0x64", "to mouse"), Do("MouseWait"), Outb("0x60", "rate"),
     Do("MouseWait"), Outb("0x64", "to mouse"), Do("MouseWait"), Outb("0x60", value) >>

\* Tick does not count.
Tick_Stopped(ticks) == ticks

\* The gates of keyboard and mouse are exchanged.
Gate_Exchanged(vector) == CASE vector = 32 -> "PIT"
                            [] vector = 33 -> "mouse"
                            [] vector = 44 -> "keyboard"
                            [] OTHER       -> "unknown"

-----------------------------------------------------------------------------
\* The masks the firmware left are written back at the end; interrupts are
\* off, and the kernel writes its own before it turns them on.
RemapPIC ==
  << Outb("PIC1_COMMAND", "ICW1"), Outb("PIC2_COMMAND", "ICW1"),
     Outb("PIC1_DATA", 32),        Outb("PIC2_DATA", 40),
     Outb("PIC1_DATA", 4),         Outb("PIC2_DATA", 2),
     Outb("PIC1_DATA", "8086"),    Outb("PIC2_DATA", "8086"),
     Outb("PIC1_DATA", Lines),     Outb("PIC2_DATA", Lines) >>

PIC_EndMaster == << Outb("PIC1_COMMAND", "EOI") >>
PIC_EndSlave  == << Outb("PIC2_COMMAND", "EOI"), Outb("PIC1_COMMAND", "EOI") >>

MouseWrite(value) ==
  << Do("MouseWait"), Outb("0x64", "to mouse"), Do("MouseWait"), Outb("0x60", value) >>

MouseRead == << Do("MouseWaitInput"), Inb("ack") >>

InitPS2Mouse ==
  << Outb("0x64", "aux on"), Do("MouseWait"), Outb("0x64", "read config"),
     Do("MouseWaitInput"), Inb("status"),
     Do("MouseWait"), Outb("0x64", "write config"), Do("MouseWait"), Outb("0x60", "status") >>
  \o MouseWrite("defaults") \o MouseRead
  \o MouseWrite("enable") \o MouseRead

\* 0b11111000 and 0b11101111: the timer, the keyboard, the slave; the mouse.
Unmask == << Outb("PIC1_DATA", 3 .. 7), Outb("PIC2_DATA", Lines \ {4}) >>

Start == RemapPIC \o InitPS2Mouse \o Unmask \o << Do("sti") >>

\* The gates for interrupts of devices.  The page of the table is not cleared:
\* nothing is known of the others.
Gate(vector) == CASE vector = 32 -> "PIT"
                  [] vector = 33 -> "keyboard"
                  [] vector = 44 -> "mouse"
                  [] OTHER       -> "unknown"

Handler(device) ==
  CASE device = "PIT"      -> << Do("Tick") >> \o PIC_EndMaster
    [] device = "keyboard" -> << Inb("keyboard") >> \o PIC_EndMaster
    [] device = "mouse"    -> << Inb("mouse") >> \o PIC_EndSlave
    [] device = "unknown"  -> << Do("unknown") >>

-----------------------------------------------------------------------------
(* The processor.                                                          *)

Current == IF handler # <<>> THEN handler ELSE kernel
At(op)  == Current # <<>> /\ Head(Current).op = op

\* The end of a handler is its iret.
Advance == IF handler # <<>> THEN handler' = Tail(handler) /\ UNCHANGED kernel
                             ELSE kernel' = Tail(kernel) /\ UNCHANGED handler

Enabled == kernel = <<>> /\ handler = <<>>

\* InitPS2Mouse's local is gone by now.
Sti == /\ At("sti")
       /\ Advance
       /\ status' = {}
       /\ UNCHANGED <<sleeper, pics, fixed, input, awaits, config, output,
                      devices, history>>

-----------------------------------------------------------------------------
(* The interrupt controllers.                                              *)

\* What a request is for: the line of the master, or of the slave behind its
\* line 2, and the bit of the configuration byte that lets it through.
Source(byte) == IF byte \in {"ack", "movement"} THEN "aux" ELSE "kbd"
IRQBit(byte) == IF Source(byte) = "aux" THEN "auxIRQ" ELSE "kbdIRQ"

SlaveRequests == "aux" \in irr /\ 4 \notin pic.slave.imr /\ isr.slave = {}
Requests ==
  {i \in 0 .. 2 : \/ i = 0 /\ "timer" \in irr
                  \/ i = 1 /\ "kbd" \in irr
                  \/ i = 2 /\ SlaveRequests} \ pic.master.imr

Vector(i) == IF i = 2 THEN pic.slave.offset + 4 ELSE pic.master.offset + i

\* The processor takes the first request that nothing before it holds back.
Deliver(i) ==
  /\ Enabled
  /\ i \in Requests
  /\ \A j \in Requests : i <= j
  /\ \A j \in isr.master : i < j
  /\ isr' = [master |-> isr.master \cup {i},
             slave  |-> IF i = 2 THEN {4} ELSE isr.slave]
  /\ irr' = irr \ {<<"timer", "kbd", "aux">>[i + 1]}
  /\ handler' = Handler(Gate(Vector(i)))
  /\ thread' = IF thread = "hlt" THEN "test" ELSE thread
  /\ UNCHANGED <<kernel, left, status, pic, fixed, input, awaits, config, output,
                 devices, history>>

Chip(port) == IF port \in {"PIC1_COMMAND", "PIC1_DATA"} THEN "master" ELSE "slave"

\* A byte at the data port, by what the PIC expects.
Programmed(p, value) ==
  CASE p.expects = "ICW2" -> [p EXCEPT !.expects = "ICW3", !.offset = value]
    [] p.expects = "ICW3" -> [p EXCEPT !.expects = "ICW4", !.wiring = value]
    [] p.expects = "ICW4" -> [p EXCEPT !.expects = "OCW1"]
    [] OTHER              -> [p EXCEPT !.imr = value]

Reset(p) == [p EXCEPT !.expects = "ICW2", !.imr = {}]

\* ICW1 forgets requests, and an interrupt must be requested anew; EOI ends
\* the first interrupt in service.
OutPIC ==
  /\ At("outb")
  /\ Head(Current).port \in {"PIC1_COMMAND", "PIC1_DATA", "PIC2_COMMAND", "PIC2_DATA"}
  /\ LET port  == Head(Current).port
         value == Head(Current).value
         chip  == Chip(port)
     IN  IF port \in {"PIC1_DATA", "PIC2_DATA"}
         THEN pic' = [pic EXCEPT ![chip] = Programmed(@, value)] /\ UNCHANGED <<irr, isr>>
         ELSE IF value = "EOI"
         THEN /\ isr' = [isr EXCEPT ![chip] = IF @ = {} THEN {} ELSE @ \ {Min(@)}]
              /\ UNCHANGED <<pic, irr>>
         ELSE /\ pic' = [pic EXCEPT ![chip] = Reset(@)]
              /\ isr' = [isr EXCEPT ![chip] = {}]
              /\ irr' = irr \ (IF chip = "master" THEN {"timer", "kbd"} ELSE {"aux"})
  /\ Advance
  /\ UNCHANGED <<sleeper, status, fixed, input, awaits, config, output, devices, history>>

-----------------------------------------------------------------------------
(* The keyboard controller and what is behind it.                          *)

\* The request that goes with the byte in the output buffer.
Line(byte, c) == IF byte # "empty" /\ IRQBit(byte) \in c THEN {Source(byte)} ELSE {}

\* A line that rises requests an interrupt; one that falls takes the request
\* back, unless the PIC keeps it.
Follow(byte, c) ==
  LET before == Line(output, config)
      after  == Line(byte, c)
  IN  irr' = (IF keeps THEN irr ELSE irr \ (before \ after)) \cup (after \ before)

\* outb to port 0x64 or 0x60: a byte the controller has not taken is lost.
OutKBC ==
  /\ At("outb") /\ Head(Current).port \in {"0x60", "0x64"}
  /\ input' = [port |-> Head(Current).port, value |-> Head(Current).value]
  /\ Advance
  /\ UNCHANGED <<sleeper, status, pics, fixed, awaits, config, output, devices, history>>

\* The code waits until the controller has taken the last byte, or gives up.
MouseWait ==
  /\ At("MouseWait")
  /\ disturbed' = (disturbed \/ input # Nothing)
  /\ Advance
  /\ UNCHANGED <<sleeper, status, pics, fixed, input, awaits, config, output, devices, strays>>

\* It waits until there is a byte to read, or gives up.
MouseWaitInput ==
  /\ At("MouseWaitInput")
  /\ disturbed' = (disturbed \/ output = "empty")
  /\ Advance
  /\ UNCHANGED <<sleeper, status, pics, fixed, input, awaits, config, output, devices, strays>>

\* inb(0x60), whoever's byte is there.  InitPS2Mouse sets bit 1 in it; the
\* handlers pass it on to HandleKeyboard and HandlePS2Mouse.
In ==
  /\ At("inb")
  /\ LET into == Head(Current).into
     IN  /\ IF into = "status"
            THEN /\ \E c \in (IF output = "controller" THEN {config} ELSE SUBSET Bits) :
                      status' = c \cup {"auxIRQ"}
                 /\ disturbed' = (disturbed \/ output # "controller")
            ELSE UNCHANGED <<status, disturbed>>
         /\ strays' = IF /\ into = "mouse" /\ output # "movement"
                         /\ ~keeps /\ strays < StrayBound
                      THEN strays + 1 ELSE strays
  /\ output' = "empty"
  /\ Follow("empty", config)
  /\ Advance
  /\ UNCHANGED <<sleeper, pic, isr, fixed, input, awaits, config, devices>>

\* What a byte means as a configuration: 0xf6 and 0xf4 have bits 4 and 5 set.
AsConfig(value) == CASE value = "status"   -> status
                     [] value = "defaults" -> {"auxIRQ", "kbdOff", "auxOff"}
                     [] OTHER              -> {"kbdOff", "auxOff"}

\* The controller takes a command
TakeCommand ==
  /\ input.port = "0x64"
  /\ input' = Nothing
  /\ config' = IF input.value = "aux on" THEN config \ {"auxOff"} ELSE config
  /\ reply' = (reply \/ input.value = "read config")
  /\ awaits' = CASE input.value = "write config" -> "config"
                 [] input.value = "to mouse"     -> "mouse"
                 [] OTHER                        -> "keyboard"
  /\ UNCHANGED <<code, sleeper, status, pics, fixed, output, acks, streaming, history>>

\* or a byte for itself, for the mouse, or for the keyboard.  The mouse answers,
\* and forgets what it has not sent, or does not.
TakeData ==
  /\ input.port = "0x60"
  /\ input' = Nothing /\ awaits' = "keyboard"
  /\ config' = IF awaits = "config" THEN AsConfig(input.value) ELSE config
  /\ Follow(output, config')
  /\ IF awaits = "mouse" /\ "auxOff" \notin config
     THEN /\ acks' \in {1, acks + 1}
          /\ streaming' = CASE input.value = "defaults" -> FALSE
                            [] input.value = "enable"   -> TRUE
                            [] OTHER                    -> streaming
     ELSE UNCHANGED <<acks, streaming>>
  /\ UNCHANGED <<code, sleeper, status, pic, isr, fixed, output, reply, history>>

\* InitPS2Mouse has still something to read.
Initializing == \E n \in DOMAIN kernel : kernel[n].op = "inb"

\* A byte gets into the empty output buffer.
Fill(byte) ==
  /\ output = "empty"
  /\ output' = byte
  /\ Follow(byte, config)
  /\ UNCHANGED <<code, sleeper, status, pic, isr, fixed, input, awaits, config, strays>>

Reply == /\ reply /\ reply' = FALSE
         /\ Fill("controller")
         /\ UNCHANGED <<acks, streaming, disturbed>>

Key == /\ "kbdOff" \notin config
       /\ Fill("keyboard")
       /\ disturbed' = (disturbed \/ Initializing)
       /\ UNCHANGED devices

Acknowledge == /\ acks > 0 /\ acks' = acks - 1
               /\ "auxOff" \notin config
               /\ Fill("ack")
               /\ UNCHANGED <<reply, streaming, disturbed>>

Movement == /\ streaming /\ acks = 0
            /\ "auxOff" \notin config
            /\ Fill("movement")
            /\ disturbed' = (disturbed \/ Initializing)
            /\ UNCHANGED devices

-----------------------------------------------------------------------------
(* The timer, and a thread that sleeps.                                    *)

\* A period of the timer ends; if nobody took the last one's request, a tick
\* is lost.  PITInt_Handler is shorter than a period.
TimerEdge == /\ "timer" \notin irr /\ 0 \notin isr.master
             /\ irr' = irr \cup {"timer"}
             /\ UNCHANGED <<code, sleeper, status, pic, isr, fixed, input, awaits, config,
                            output, devices, history>>

\* TimeSinceBoot += 1 / GetFrequency(): a tick less is left to wait.
Tick(ticks) == IF ticks > 0 THEN ticks - 1 ELSE 0

TickStep == /\ At("Tick")
            /\ left' = Tick(left)
            /\ Advance
            /\ UNCHANGED <<thread, status, pics, fixed, input, awaits, config, output,
                           devices, history>>

SleepStep == /\ Enabled
             /\ UNCHANGED <<code, status, pics, fixed, input, awaits, config, output,
                            devices, history>>

\* Sleepd is called,
Sleepd == /\ thread = "out"
          /\ thread' = "test" /\ left' \in Ticks
          /\ SleepStep

\* looks at the time, and will halt or returns.
Test == /\ thread = "test"
        /\ thread' = IF left > 0 THEN "halting" ELSE "out"
        /\ UNCHANGED left
        /\ SleepStep

\* An interrupt delivered before hlt does not end it: hlt waits for the next.
Halt == /\ thread = "halting"
        /\ thread' = "hlt"
        /\ UNCHANGED left
        /\ SleepStep

-----------------------------------------------------------------------------
\* The firmware has turned interrupts off.  Its vectors are not the kernel's;
\* a byte may lie in the output buffer, with or without a request.
Init == /\ kernel = Start /\ handler = <<>>
        /\ thread = "out" /\ left = 0
        /\ status = {}
        /\ pic = [master |-> [expects |-> "OCW1", offset |-> 8, wiring |-> 4, imr |-> Lines],
                  slave  |-> [expects |-> "OCW1", offset |-> 112, wiring |-> 2, imr |-> Lines]]
        /\ isr = [master |-> {}, slave |-> {}]
        /\ keeps \in BOOLEAN
        /\ input = Nothing /\ awaits = "keyboard"
        /\ config \in FirmwareConfigs /\ firmware = config
        /\ output \in {"empty", "keyboard", "movement"}
        /\ irr \in SUBSET ({"timer"} \cup Line(output, config))
        /\ reply = FALSE /\ acks = 0 /\ streaming \in BOOLEAN
        /\ disturbed = (output # "empty")
        /\ strays = 0

\* The thread in _start and the handlers.
Code    == Sti \/ OutPIC \/ OutKBC \/ MouseWait \/ MouseWaitInput \/ In \/ TickStep
Devices == Key \/ Movement
KBC     == (input # Nothing /\ (TakeCommand \/ TakeData)) \/ Reply \/ Acknowledge

Next == \/ Code \/ Sleepd \/ Test \/ Halt
        \/ \E i \in 0 .. 2 : Deliver(i)
        \/ KBC \/ Devices \/ TimerEdge

\* Code runs and the timer ticks.  Its handler is shorter than its period, so
\* that over and over again it does not stand before another interrupt.
Fairness == /\ WF_vars(Code) /\ SF_vars(Test) /\ SF_vars(Halt) /\ WF_vars(TimerEdge)
            /\ WF_vars(Deliver(0)) /\ SF_vars(Deliver(1)) /\ SF_vars(Deliver(2))

Spec == Init /\ [][Next]_vars /\ Fairness

-----------------------------------------------------------------------------
Sources == {"controller", "keyboard", "ack", "movement"}

\* The types of the state.
TypeOK ==
  /\ thread \in {"out", "test", "halting", "hlt"} /\ left \in Nat
  /\ status \subseteq Bits /\ config \subseteq Bits /\ firmware \subseteq Bits
  /\ \A chip \in {"master", "slave"} : pic[chip].imr \subseteq Lines
  /\ pic.master.offset \in {8, 32} /\ pic.slave.offset \in {112, 40}
  /\ irr \subseteq {"timer", "kbd", "aux"}
  /\ isr.master \subseteq 0 .. 2 /\ isr.slave \subseteq {4}
  /\ awaits \in {"keyboard", "config", "mouse"}
  /\ output \in Sources \cup {"empty"}
  /\ acks \in 0 .. 2 /\ strays \in 0 .. StrayBound
  /\ {keeps, reply, streaming, disturbed} \subseteq BOOLEAN

\* A handler reads a byte of its own device, and there is one: with one buffer
\* for both, the byte that is there when the interrupt is delivered stays until
\* the handler reads it (interrupts.c:18-28).  PICs that keep the requests of
\* bytes InitPS2Mouse polled are the exception: there the handlers may read one
\* another's bytes for as long as both devices send.
HandlersReadTheirOwn ==
  ~keeps /\ handler # <<>> /\ At("inb") =>
    IF Head(handler).into = "mouse" THEN output \in {"movement", "ack"}
                                    ELSE output \in {"keyboard", "controller"}

\* Between handlers no interrupt is in service at either PIC: one that was would
\* hold back every later one of its priority or less (interrupts.c:69-77).
EveryInterruptIsEnded == handler = <<>> => isr = [master |-> {}, slave |-> {}]

\* If no byte came in its way and the controller answered in time, InitPS2Mouse
\* leaves a mouse that reports, a configuration with bit 1 set and all else as
\* it was, and no acknowledgement for the handler (mouse.c:153-171).
InitIsComplete ==
  kernel = <<>> /\ ~disturbed =>
    /\ config = (firmware \ {"auxOff"}) \cup {"auxIRQ"}
    /\ streaming /\ acks = 0 /\ ~reply
    /\ ~keeps => strays = 0

\* However late or disturbed InitPS2Mouse was, the mouse handler reads at most
\* two bytes that are no movements: what PS2Mouse assumes of Acks.
StraysAreFew == ~keeps => strays <= 2

\* No interrupt is lost and none stays in service: a byte in the output buffer
\* is read, if the configuration still has both requests on.
BytesAreTaken ==
  (/\ Enabled /\ output # "empty"
   /\ input = Nothing /\ {"kbdIRQ", "auxIRQ"} \subseteq config) ~> output = "empty"

\* A thread that sleeps wakes up (pit.c:27-32), although the tick it waits for may
\* come after the test of line 29 and before the hlt of line 30, which then waits
\* for another interrupt.
SleepEnds == thread = "test" ~> thread = "out"
=============================================================================
