--------------------------------- MODULE AHCI ---------------------------------
(***************************************************************************)
(* The AHCI driver of kernel/src/ahci/ahci.c on one port: it probes the    *)
(* port, stops the controller (the HBA), gives it command structures of    *)
(* its own, starts it again, and then reads and writes sectors by one      *)
(* command at a time in slot 0, polling for the end of each.               *)
(*                                                                         *)
(* The driver and the HBA run concurrently: every access of the driver to  *)
(* a register of the port, and to a structure in memory the HBA may fetch, *)
(* is a step.  The HBA is external, modelled from how the driver uses it:  *)
(* a running engine (CR, FR) follows its switch (ST, FRE) after a while,   *)
(* and a command that is issued is fetched, and answered or failed.  After *)
(* a failure (TFES) some HBAs wait for the driver to restart them, the     *)
(* command still issued; others take it back and go on.                    *)
(*                                                                         *)
(* Callers is the set of threads that call it.  The kernel has one, and    *)
(* needs to: the spin loop in front of a command (ahci.c:121) is no lock.  *)
(***************************************************************************)
EXTENDS Naturals

CONSTANTS
  Sectors, Values, Garbage,  \* of the disk; Garbage is what no one wrote
  Callers,
  SpinBound                  \* 1000000 in the code

ASSUME AHCIAssumption == SpinBound \in Nat \ {0} /\ Garbage \notin Values

VARIABLES
  port,       \* what the probe finds out: [implemented, detected, active, signature]
  restarts,   \* this HBA waits for a restart after a failure
  setup,      \* the driver's next step until the port is configured
  ST, FRE,    \* switches in PxCMD
  list,       \* whose structures PxCLB and PxFB point to
  CR, FR,     \* the engines are running (PxCMD)
  CI,         \* command 0 is issued (PxCI)
  busy,       \* BSY or DRQ in PxTFD
  TFES,       \* task file error in PxIS
  halted,     \* the HBA waits for a restart
  command,    \* the command the HBA has fetched, or NoCommand
  header,     \* header of slot 0: the command is a write
  table,      \* table of slot 0: a command, or NoCommand when it is erased
  disk, buffer,
  pc, spin, request, result,  \* of each caller
  answer                      \* what the HBA did with each caller's request

device    == <<port, restarts>>
switches  == <<ST, FRE>>
engines   == <<CR, FR>>
status    == <<CI, busy, TFES, halted>>
structs   == <<header, table>>
contents  == <<disk, buffer>>
calls     == <<pc, spin, request, result, answer>>
vars == <<device, setup, switches, list, engines, status, command, structs,
          contents, calls>>

Contents  == Values \cup {Garbage}
Requests  == [write : BOOLEAN, sector : Sectors]
Commands  == [write : BOOLEAN, sector : Sectors, caller : Callers]
NoCommand == [write |-> FALSE]

Ports == [implemented : BOOLEAN, detected : BOOLEAN, active : BOOLEAN,
          signature : {"ATA", "ATAPI", "SEMB", "PM"}]

\* The firmware may have left the port running, without commands; the device
\* may still be busy.
Init == /\ port \in Ports
        /\ restarts \in BOOLEAN
        /\ setup = "probe"
        /\ \E running \in BOOLEAN : ST = running /\ FRE = running /\ CR = running /\ FR = running
        /\ list = "firmware"
        /\ CI = FALSE /\ busy \in BOOLEAN /\ TFES = FALSE /\ halted = FALSE
        /\ command = NoCommand
        /\ header = FALSE /\ table = NoCommand
        /\ disk \in [Sectors -> Values]
        /\ buffer = [c \in Callers |-> Garbage]
        /\ pc = [c \in Callers |-> "idle"]
        /\ spin = [c \in Callers |-> 0]
        /\ request \in [Callers -> {[write |-> FALSE, sector |-> s] : s \in Sectors}]
        /\ result = [c \in Callers |-> FALSE]
        /\ answer = [c \in Callers |-> "none"]

-----------------------------------------------------------------------------
(* Mutants: what the definitions of the same names, less the part behind   *)
(* the underscore, would be with a bug in the driver.                      *)

\* Ports without a device are used as well.
AHCICheckPortType_Undetected(p) == IF p.signature = "ATA" THEN "SATA" ELSE "None"

\* StopCMD does not look at the engines.
Running_Never == FALSE

\* The spin loop goes one round too far.
Spins_TooFar(c) == busy /\ spin[c] <= SpinBound

\* The end of a command is taken from the task file's busy bit.
Issued_Busy == busy

\* The last test for TFES is left out.
Succeeded_Always == TRUE

-----------------------------------------------------------------------------
(* The port is probed and configured.                                      *)

AHCICheckPortType(p) ==
  IF ~p.detected \/ ~p.active THEN "None"
  ELSE CASE p.signature = "ATAPI" -> "SATAPI"
         [] p.signature = "ATA"   -> "SATA"
         [] OTHER                 -> p.signature

Usable(p) == p.implemented /\ AHCICheckPortType(p) \in {"SATA", "SATAPI"}

AHCIProbePorts ==
  /\ setup = "probe"
  /\ setup' = IF Usable(port) THEN "stopST" ELSE "unused"
  /\ UNCHANGED <<device, switches, list, engines, status, command, structs, contents, calls>>

\* Clearing ST takes back what was issued, and ends a halt.
StopST ==
  /\ setup = "stopST" /\ setup' = "stopFRE"
  /\ ST' = FALSE /\ CI' = FALSE /\ halted' = FALSE
  /\ UNCHANGED <<device, FRE, list, engines, busy, TFES, command, structs, contents, calls>>

StopFRE ==
  /\ setup = "stopFRE" /\ setup' = "waitFR"
  /\ FRE' = FALSE
  /\ UNCHANGED <<device, ST, list, engines, status, command, structs, contents, calls>>

Running == (setup = "waitFR" /\ FR) \/ (setup = "waitCR" /\ CR)

\* FR is read, then CR; the loop starts over as long as one of them is set.
StopWait ==
  /\ setup \in {"waitFR", "waitCR"}
  /\ setup' = IF Running THEN "waitFR" ELSE IF setup = "waitFR" THEN "waitCR" ELSE "bases"
  /\ UNCHANGED <<device, switches, list, engines, status, command, structs, contents, calls>>

\* New pages for the command list, the received FISes and the tables.
SetBases ==
  /\ setup = "bases" /\ setup' = "startWait"
  /\ list' = "driver"
  /\ header' = FALSE /\ table' = NoCommand
  /\ UNCHANGED <<device, switches, engines, status, command, contents, calls>>

StartWait ==
  /\ setup = "startWait" /\ ~CR /\ setup' = "startFRE"
  /\ UNCHANGED <<device, switches, list, engines, status, command, structs, contents, calls>>

StartFRE ==
  /\ setup = "startFRE" /\ setup' = "startST"
  /\ FRE' = TRUE
  /\ UNCHANGED <<device, ST, list, engines, status, command, structs, contents, calls>>

StartST ==
  /\ setup = "startST" /\ setup' = "done"
  /\ ST' = TRUE
  /\ UNCHANGED <<device, FRE, list, engines, status, command, structs, contents, calls>>

AHCIPortConfigure ==
  StopST \/ StopFRE \/ StopWait \/ SetBases \/ StartWait \/ StartFRE \/ StartST

-----------------------------------------------------------------------------
(* AHCIPortRead and AHCIPortWrite; they differ in the direction.           *)

\* A call begins; the caller has filled the buffer of a write.
Call(c) ==
  /\ setup = "done" /\ pc[c] = "idle"
  /\ pc' = [pc EXCEPT ![c] = "spin"]
  /\ spin' = [spin EXCEPT ![c] = 0]
  /\ answer' = [answer EXCEPT ![c] = "none"]
  /\ \E r \in Requests :
       /\ request' = [request EXCEPT ![c] = r]
       /\ \E v \in IF r.write THEN Values ELSE {buffer[c]} :
            buffer' = [buffer EXCEPT ![c] = v]
  /\ UNCHANGED <<device, setup, switches, list, engines, status, command, structs, disk, result>>

At(c, step) == pc[c] = step

GoTo(c, step) == pc' = [pc EXCEPT ![c] = step] /\ UNCHANGED result

Return(c, success) == /\ pc' = [pc EXCEPT ![c] = "idle"]
                      /\ result' = [result EXCEPT ![c] = success]

Spins(c) == busy /\ spin[c] < SpinBound

\* One round of the loop in front, or its end: the port is ready, or hung.
Spin(c) ==
  /\ At(c, "spin")
  /\ IF Spins(c)
     THEN spin' = [spin EXCEPT ![c] = @ + 1] /\ UNCHANGED <<pc, result>>
     ELSE /\ IF spin[c] = SpinBound THEN Return(c, FALSE) ELSE GoTo(c, "clear")
          /\ UNCHANGED spin
  /\ UNCHANGED <<device, setup, switches, list, engines, status, command, structs,
                 contents, request, answer>>

ClearInterrupts(c) ==
  /\ At(c, "clear") /\ GoTo(c, "header")
  /\ TFES' = FALSE
  /\ UNCHANGED <<device, setup, switches, list, engines, CI, busy, halted, command,
                 structs, contents, spin, request, answer>>

FillHeader(c) ==
  /\ At(c, "header") /\ GoTo(c, "erase")
  /\ header' = request[c].write
  /\ UNCHANGED <<device, setup, switches, list, engines, status, command, table,
                 contents, spin, request, answer>>

EraseTable(c) ==
  /\ At(c, "erase") /\ GoTo(c, "fill")
  /\ table' = NoCommand
  /\ UNCHANGED <<device, setup, switches, list, engines, status, command, header,
                 contents, spin, request, answer>>

FillTable(c) ==
  /\ At(c, "fill") /\ GoTo(c, "issue")
  /\ table' = [write |-> request[c].write, sector |-> request[c].sector, caller |-> c]
  /\ UNCHANGED <<device, setup, switches, list, engines, status, command, header,
                 contents, spin, request, answer>>

Issue(c) ==
  /\ At(c, "issue") /\ GoTo(c, "poll")
  /\ CI' = TRUE
  /\ UNCHANGED <<device, setup, switches, list, engines, busy, TFES, halted, command,
                 structs, contents, spin, request, answer>>

Issued == CI

\* The loop reads CI, then the error bit.
Poll(c) ==
  /\ \/ At(c, "poll") /\ GoTo(c, IF Issued THEN "error" ELSE "check")
     \/ At(c, "error") /\ IF TFES THEN Return(c, FALSE) ELSE GoTo(c, "poll")
  /\ UNCHANGED <<device, setup, switches, list, engines, status, command, structs,
                 contents, spin, request, answer>>

Succeeded == ~TFES

\* The error bit is read once more behind the loop.
Check(c) ==
  /\ At(c, "check") /\ Return(c, Succeeded)
  /\ UNCHANGED <<device, setup, switches, list, engines, status, command, structs,
                 contents, spin, request, answer>>

AHCIPortReadWrite(c) ==
  \/ Spin(c) \/ ClearInterrupts(c) \/ FillHeader(c) \/ EraseTable(c) \/ FillTable(c)
  \/ Issue(c) \/ Poll(c) \/ Check(c)

-----------------------------------------------------------------------------
(* The HBA and the device behind it.                                       *)

\* An engine follows its switch.
FollowST  == /\ CR # ST /\ CR' = ST
             /\ UNCHANGED <<device, setup, switches, list, FR, status, command, structs,
                            contents, calls>>

FollowFRE == /\ FR # FRE /\ FR' = FRE
             /\ UNCHANGED <<device, setup, switches, list, CR, status, command, structs,
                            contents, calls>>

\* A device that was busy with itself is ready.
Ready == /\ busy /\ command = NoCommand
         /\ busy' = FALSE
         /\ UNCHANGED <<device, setup, switches, list, engines, CI, TFES, halted, command,
                        structs, contents, calls>>

MayFetch == CR /\ ST /\ CI /\ ~halted /\ ~busy

\* The header and the table are read; a command that is none is aborted.
Fetch == /\ MayFetch
         /\ FR /\ port.detected /\ list = "driver"
         /\ command = NoCommand
         /\ command' = IF table = NoCommand \/ table.write # header
                       THEN [write |-> TRUE] ELSE table
         /\ busy' = TRUE
         /\ UNCHANGED <<device, setup, switches, list, engines, CI, TFES, halted, structs,
                        contents, calls>>

\* Where a command writes.
Transfer(v) ==
  IF command.write
  THEN disk' = [disk EXCEPT ![command.sector] = v] /\ UNCHANGED buffer
  ELSE buffer' = [buffer EXCEPT ![command.caller] = v] /\ UNCHANGED disk

\* The command is done: data first, then the status and CI.  A device with
\* the packet interface knows none of the driver's commands.
Complete ==
  /\ command \in Commands /\ port.signature = "ATA"
  /\ Transfer(IF command.write THEN buffer[command.caller] ELSE disk[command.sector])
  /\ answer' = [answer EXCEPT ![command.caller] = "performed"]
  /\ command' = NoCommand /\ busy' = FALSE /\ CI' = FALSE
  /\ UNCHANGED <<device, setup, switches, list, engines, TFES, halted, structs,
                 pc, spin, request, result>>

\* The command fails, having written all, nothing or something else.
Fail ==
  /\ command # NoCommand
  /\ IF command \in Commands
     THEN /\ \E v \in {Garbage} \cup {IF command.write THEN disk[command.sector]
                                                      ELSE buffer[command.caller]} : Transfer(v)
          /\ answer' = [answer EXCEPT ![command.caller] = "failed"]
     ELSE UNCHANGED <<contents, answer>>
  /\ command' = NoCommand /\ busy' = FALSE /\ TFES' = TRUE
  /\ CI' = restarts /\ halted' = restarts
  /\ UNCHANGED <<device, setup, switches, list, engines, structs, pc, spin, request, result>>

HBA == FollowST \/ FollowFRE \/ Ready \/ Fetch \/ Complete \/ Fail

Next == \/ AHCIProbePorts \/ AHCIPortConfigure
        \/ \E c \in Callers : Call(c) \/ AHCIPortReadWrite(c)
        \/ HBA

\* The driver's threads run, and the HBA obeys its switches and answers what
\* it fetches, if only by a failure.  A device may be busy for ever.
Fairness == /\ WF_vars(AHCIProbePorts \/ AHCIPortConfigure)
            /\ \A c \in Callers : WF_vars(AHCIPortReadWrite(c))
            /\ WF_vars(FollowST) /\ WF_vars(FollowFRE)
            /\ WF_vars(Fetch) /\ WF_vars(Complete \/ Fail)

Spec == Init /\ [][Next]_vars /\ Fairness

-----------------------------------------------------------------------------
\* The types of the driver's and the HBA's state.
TypeOK ==
  /\ port \in Ports /\ restarts \in BOOLEAN
  /\ setup \in {"probe", "unused", "stopST", "stopFRE", "waitFR", "waitCR", "bases",
                "startWait", "startFRE", "startST", "done"}
  /\ {ST, FRE, CR, FR, CI, busy, TFES, halted, header} \subseteq BOOLEAN
  /\ list \in {"firmware", "driver"}
  /\ command \in Commands \cup {NoCommand, [write |-> TRUE]}
  /\ table \in Commands \cup {NoCommand}
  /\ disk \in [Sectors -> Contents] /\ buffer \in [Callers -> Contents]
  /\ pc \in [Callers -> {"idle", "spin", "clear", "header", "erase", "fill", "issue",
                         "poll", "error", "check"}]
  /\ spin \in [Callers -> 0 .. SpinBound]
  /\ request \in [Callers -> Requests] /\ result \in [Callers -> BOOLEAN]
  /\ answer \in [Callers -> {"none", "performed", "failed"}]

\* The driver gives the HBA other structures only when both its engines have
\* stopped (ahci.c:23-46), whatever the firmware left running.
StructuresMoveWhileStopped == [][list' # list => ~CR /\ ~FR]_vars

\* The header and the table of a command stay as they are while the HBA may
\* fetch or works on it (ahci.c:131-162): calls do not run into each other
\* although one that failed returns with its command still issued.
CommandIsStable ==
  [][(header' # header \/ table' # table) => ~MayFetch /\ command = NoCommand]_vars

\* The driver implements a disk: a call's request is performed once during
\* the call if it returns true, and nothing else is written.
DiskSpec == INSTANCE Disk WITH
  phase <- [c \in Callers |-> IF pc[c] = "idle" THEN "idle"
                              ELSE IF answer[c] = "none" THEN "pending" ELSE answer[c]]
ImplementsDisk == DiskSpec!Spec

\* Configuring a port that has a device ends (ahci.c:7, 16: no bound), and one
\* without is never waited for; every call returns, unless the HBA waits to be
\* restarted.  (Then it does not: "port hung" in line 124 is only tested before
\* a command, and the loop at 165 has no bound.)
DriverGoesOn ==
  /\ <>(setup \in {"done", "unused"})
  /\ \A c \in Callers : ~At(c, "idle") ~> At(c, "idle") \/ halted
=============================================================================
