------------------------------ MODULE AHCIProofs ------------------------------
(***************************************************************************)
(* What holds of the AHCI driver for every disk, every number of rounds of *)
(* the spin loop and every HBA: its types, that the command structures     *)
(* move only while both engines are stopped, and, for the one caller the   *)
(* kernel has, that a command is stable while the HBA may look at it, and  *)
(* that the driver implements Disk.                                        *)
(*                                                                         *)
(* StructuresMoveWhileStopped needs what the driver knows of the engines   *)
(* at each step of StopCMD and StartCMD.  CommandIsStable and Disk need,   *)
(* at each step of a call, what may have become of the call before: a      *)
(* command is issued and not halted only while its caller polls.           *)
(***************************************************************************)
EXTENDS AHCI, TLAPS

\* A command, the header of one, and no command are told apart.
LEMMA CommandTypes ==
  /\ NoCommand \notin Commands /\ [write |-> TRUE] \notin Commands
  /\ [write |-> TRUE] # NoCommand
<1>1. \A k \in Commands : DOMAIN k = {"write", "sector", "caller"}
  BY DEF Commands
<1>2. "sector" \notin DOMAIN NoCommand /\ "sector" \notin DOMAIN [write |-> TRUE]
  BY DEF NoCommand
<1>3. [write |-> TRUE].write # NoCommand.write
  BY DEF NoCommand
<1>4. QED
  BY <1>1, <1>2, <1>3

\* The initial states have the types,
LEMMA TypeOKInit == Init => TypeOK
<1>1. SUFFICES ASSUME Init PROVE TypeOK
  OBVIOUS
<1>2. /\ port \in Ports /\ restarts \in BOOLEAN /\ setup = "probe"
      /\ {ST, FRE, CR, FR, CI, busy, TFES, halted, header} \subseteq BOOLEAN
      /\ list \in {"firmware", "driver"}
  BY <1>1 DEF Init
<1>3. command = NoCommand /\ table = NoCommand
  BY <1>1 DEF Init
<1>4. /\ disk \in [Sectors -> Contents] /\ buffer \in [Callers -> Contents]
      /\ spin \in [Callers -> 0 .. SpinBound]
  BY <1>1, AHCIAssumption DEF Init, Contents
<1>5. /\ result \in [Callers -> BOOLEAN]
      /\ pc = [c \in Callers |-> "idle"] /\ answer = [c \in Callers |-> "none"]
  BY <1>1 DEF Init
<1>6. request \in [Callers -> Requests]
  <2> DEFINE Reads == {[write |-> FALSE, sector |-> s] : s \in Sectors}
  <2>1. Reads \subseteq Requests
    <3>1. \A s \in Sectors : [write |-> FALSE, sector |-> s] \in Requests
      BY DEF Requests
    <3>2. QED
      BY <3>1
  <2>2. request \in [Callers -> Reads]
    BY <1>1 DEF Init
  <2> HIDE DEF Reads
  <2>3. QED
    BY <2>1, <2>2
<1>7. QED
  BY <1>2, <1>3, <1>4, <1>5, <1>6 DEF TypeOK

\* The types of what calls change, and of the rest.
CallTypes ==
  /\ pc \in [Callers -> {"idle", "spin", "clear", "header", "erase", "fill", "issue",
                         "poll", "error", "check"}]
  /\ spin \in [Callers -> 0 .. SpinBound]
  /\ request \in [Callers -> Requests] /\ result \in [Callers -> BOOLEAN]
  /\ answer \in [Callers -> {"none", "performed", "failed"}]

PortTypes ==
  /\ port \in Ports /\ restarts \in BOOLEAN
  /\ setup \in {"probe", "unused", "stopST", "stopFRE", "waitFR", "waitCR", "bases",
                "startWait", "startFRE", "startST", "done"}
  /\ {ST, FRE, CR, FR, CI, busy, TFES, halted, header} \subseteq BOOLEAN
  /\ list \in {"firmware", "driver"}
  /\ command \in Commands \cup {NoCommand, [write |-> TRUE]}
  /\ table \in Commands \cup {NoCommand}
  /\ disk \in [Sectors -> Contents]

LEMMA TypeParts == TypeOK <=> CallTypes /\ PortTypes /\ buffer \in [Callers -> Contents]
BY Zenon DEF TypeOK, CallTypes, PortTypes

\* and every step keeps them.
LEMMA TypeOKNext == TypeOK /\ [Next]_vars => TypeOK'
<1>1. SUFFICES ASSUME TypeOK, [Next]_vars PROVE TypeOK'
  OBVIOUS
<1> USE <1>1, AHCIAssumption
<1>0. /\ CallTypes /\ PortTypes /\ buffer \in [Callers -> Contents]
      /\ CallTypes' /\ PortTypes' /\ (buffer \in [Callers -> Contents])' => TypeOK'
  BY TypeParts, Zenon DEF TypeOK, CallTypes, PortTypes
<1>2. CASE AHCIProbePorts
  BY <1>2 DEF AHCIProbePorts, TypeOK, device, switches, engines, status, structs, contents, calls
<1>3. CASE AHCIPortConfigure
  <2>1. CASE StopST \/ StopFRE
    BY <2>1 DEF StopST, StopFRE, TypeOK, device, switches, engines, status, structs, contents, calls
  <2>2. CASE StopWait \/ SetBases
    BY <2>2 DEF StopWait, SetBases, TypeOK, device, switches, engines, status, structs, contents, calls
  <2>3. CASE StartWait
    BY <2>3 DEF StartWait, TypeOK, device, switches, engines, status, structs, contents, calls
  <2>4. CASE StartFRE
    BY <2>4 DEF StartFRE, TypeOK, device, switches, engines, status, structs, contents, calls
  <2>5. CASE StartST
    BY <2>5 DEF StartST, TypeOK, device, switches, engines, status, structs, contents, calls
  <2>6. QED
    BY <1>3, <2>1, <2>2, <2>3, <2>4, <2>5 DEF AHCIPortConfigure
<1>4. ASSUME NEW c \in Callers, Call(c) PROVE TypeOK'
  <2>1. PICK r \in Requests, v \in Contents :
          request' = [request EXCEPT ![c] = r] /\ buffer' = [buffer EXCEPT ![c] = v]
    BY <1>4 DEF Call, TypeOK, Contents
  <2>2. /\ pc' = [pc EXCEPT ![c] = "spin"] /\ spin' = [spin EXCEPT ![c] = 0]
        /\ answer' = [answer EXCEPT ![c] = "none"] /\ UNCHANGED result
        /\ UNCHANGED <<port, restarts, setup, ST, FRE, CR, FR, CI, busy, TFES, halted,
                       header, list, command, table, disk>>
    BY <1>4 DEF Call, device, switches, engines, status, structs
  <2>3. CallTypes'
    BY <1>0, <2>1, <2>2 DEF CallTypes
  <2>4. PortTypes'
    BY <1>0, <2>2 DEF PortTypes
  <2>5. (buffer \in [Callers -> Contents])'
    BY <1>0, <2>1
  <2>6. QED
    BY <1>0, <2>3, <2>4, <2>5
<1>5. ASSUME NEW c \in Callers, AHCIPortReadWrite(c) PROVE TypeOK'
  <2>1. CASE Spin(c)
    <3>1. spin[c] \in 0 .. SpinBound
      BY DEF TypeOK
    <3>2. /\ spin' \in [Callers -> 0 .. SpinBound]
          /\ pc' = pc \/ pc' = [pc EXCEPT ![c] = "idle"] \/ pc' = [pc EXCEPT ![c] = "clear"]
          /\ result' = result \/ result' = [result EXCEPT ![c] = FALSE]
      <4>1. CASE Spins(c)
        <5>1. spin' = [spin EXCEPT ![c] = @ + 1] /\ UNCHANGED <<pc, result>>
          BY <2>1, <4>1 DEF Spin
        <5>2. spin[c] + 1 \in 0 .. SpinBound
          BY <3>1, <4>1 DEF Spins
        <5>3. QED
          BY <5>1, <5>2 DEF TypeOK
      <4>2. CASE ~Spins(c)
        BY <2>1, <4>2 DEF Spin, Return, GoTo, TypeOK
      <4>3. QED
        BY <4>1, <4>2
    <3>3. UNCHANGED <<port, restarts, setup, ST, FRE, CR, FR, CI, busy, TFES, halted,
                      header, list, command, table, disk, buffer, request, answer>>
      BY <2>1 DEF Spin, device, switches, engines, status, structs, contents
    <3>4. CallTypes'
      BY <1>0, <3>2, <3>3 DEF CallTypes
    <3>5. PortTypes'
      BY <1>0, <3>3 DEF PortTypes
    <3>6. QED
      BY <1>0, <3>3, <3>4, <3>5
  <2>2. CASE FillTable(c)
    <3>1. /\ pc' = [pc EXCEPT ![c] = "issue"]
          /\ table' = [write |-> request[c].write, sector |-> request[c].sector, caller |-> c]
          /\ UNCHANGED <<port, restarts, setup, ST, FRE, CR, FR, CI, busy, TFES, halted,
                         header, list, command, disk, buffer, spin, request, result, answer>>
      BY <2>2 DEF FillTable, GoTo, device, switches, engines, status, contents
    <3>2. request[c] \in Requests
      BY <1>0 DEF CallTypes
    <3>3. table' \in Commands
      BY <3>1, <3>2 DEF Requests, Commands
    <3>4. CallTypes'
      BY <1>0, <3>1 DEF CallTypes
    <3>5. PortTypes'
      BY <1>0, <3>1, <3>3 DEF PortTypes
    <3>6. QED
      BY <1>0, <3>1, <3>4, <3>5
  <2>3. CASE FillHeader(c)
    <3>1. /\ pc' = [pc EXCEPT ![c] = "erase"] /\ header' = request[c].write
          /\ UNCHANGED <<port, restarts, setup, ST, FRE, CR, FR, CI, busy, TFES, halted,
                         list, command, table, disk, buffer, spin, request, result, answer>>
      BY <2>3 DEF FillHeader, GoTo, device, switches, engines, status, contents
    <3>2. request[c].write \in BOOLEAN
      BY <1>0 DEF CallTypes, Requests
    <3>3. CallTypes'
      BY <1>0, <3>1 DEF CallTypes
    <3>4. PortTypes'
      BY <1>0, <3>1, <3>2 DEF PortTypes
    <3>5. QED
      BY <1>0, <3>1, <3>3, <3>4
  <2>4. CASE ClearInterrupts(c) \/ EraseTable(c) \/ Issue(c)
    <3>1. /\ \E next \in {"header", "fill", "poll"} : pc' = [pc EXCEPT ![c] = next]
          /\ TFES' \in {TFES, FALSE} /\ table' \in {table, NoCommand} /\ CI' \in {CI, TRUE}
          /\ UNCHANGED <<port, restarts, setup, ST, FRE, CR, FR, busy, halted, header, list,
                         command, disk, buffer, spin, request, result, answer>>
      <4>1. CASE ClearInterrupts(c)
        BY <4>1 DEF ClearInterrupts, GoTo, device, switches, engines, status, structs, contents
      <4>2. CASE EraseTable(c)
        BY <4>2 DEF EraseTable, GoTo, device, switches, engines, status, structs, contents
      <4>3. CASE Issue(c)
        BY <4>3 DEF Issue, GoTo, device, switches, engines, status, structs, contents
      <4>4. QED
        BY <2>4, <4>1, <4>2, <4>3
    <3>2. CallTypes'
      BY <1>0, <3>1 DEF CallTypes
    <3>3. PortTypes'
      BY <1>0, <3>1 DEF PortTypes
    <3>4. QED
      BY <1>0, <3>1, <3>2, <3>3
  <2>5. CASE Poll(c) \/ Check(c)
    <3>1. /\ \E next \in {"error", "check", "idle", "poll"} : pc' = [pc EXCEPT ![c] = next]
          /\ result' = result \/ \E r \in BOOLEAN : result' = [result EXCEPT ![c] = r]
          /\ UNCHANGED <<port, restarts, setup, ST, FRE, CR, FR, CI, busy, TFES, halted,
                         header, list, command, table, disk, buffer, spin, request, answer>>
      <4>1. CASE Poll(c)
        BY <4>1 DEF Poll, GoTo, Return, device, switches, engines, status, structs, contents
      <4>2. CASE Check(c)
        BY <4>2 DEF Check, Succeeded, GoTo, Return,
                    device, switches, engines, status, structs, contents
      <4>3. QED
        BY <2>5, <4>1, <4>2
    <3>2. CallTypes'
      BY <1>0, <3>1 DEF CallTypes
    <3>3. PortTypes'
      BY <1>0, <3>1 DEF PortTypes
    <3>4. QED
      BY <1>0, <3>1, <3>2, <3>3
  <2>6. QED
    BY <1>5, <2>1, <2>2, <2>3, <2>4, <2>5 DEF AHCIPortReadWrite
<1>6. CASE FollowST \/ FollowFRE \/ Ready \/ Fetch
  <2>1. CASE FollowST \/ FollowFRE \/ Ready
    BY <2>1 DEF FollowST, FollowFRE, Ready, TypeOK,
                device, switches, engines, status, structs, contents, calls
  <2>2. CASE Fetch
    BY <2>2 DEF Fetch, TypeOK, device, switches, engines, status, structs, contents, calls
  <2>3. QED
    BY <1>6, <2>1, <2>2
<1>7. CASE Complete \/ Fail
  <2>1. ASSUME command \in Commands, NEW v \in Contents, Transfer(v)
        PROVE  disk' \in [Sectors -> Contents] /\ buffer' \in [Callers -> Contents]
    BY <2>1 DEF Transfer, TypeOK, Commands
  <2>2. disk' \in [Sectors -> Contents] /\ buffer' \in [Callers -> Contents]
    <3>1. CASE command \in Commands
      <4>1. /\ command.sector \in Sectors /\ disk[command.sector] \in Contents
            /\ command.caller \in Callers /\ buffer[command.caller] \in Contents
        BY <3>1 DEF TypeOK, Commands
      <4>2. \E v \in Contents : Transfer(v)
        BY <1>7, <3>1, <4>1 DEF Complete, Fail, Contents
      <4>3. QED
        BY <2>1, <3>1, <4>2
    <3>2. CASE command \notin Commands
      BY <1>7, <3>2 DEF Complete, Fail, contents, TypeOK
    <3>3. QED
      BY <3>1, <3>2
  <2>3. answer' \in [Callers -> {"none", "performed", "failed"}]
    BY <1>7 DEF Complete, Fail, TypeOK, Commands
  <2>4. {CI', halted', TFES', busy'} \subseteq BOOLEAN /\ command' = NoCommand
    BY <1>7 DEF Complete, Fail, TypeOK
  <2>5. UNCHANGED <<device, setup, switches, list, engines, structs, pc, spin, request, result>>
    BY <1>7 DEF Complete, Fail
  <2>6. QED
    BY <2>2, <2>3, <2>4, <2>5 DEF TypeOK, device, switches, engines, structs
<1>8. CASE UNCHANGED vars
  BY <1>8 DEF vars, TypeOK, device, switches, engines, status, structs, contents, calls
<1>9. QED
  BY <1>2, <1>3, <1>4, <1>5, <1>6, <1>7, <1>8 DEF Next, HBA

-----------------------------------------------------------------------------
\* What StopCMD and StartCMD have done so far.
Stopping ==
  /\ setup \in {"stopFRE", "waitFR", "waitCR", "bases", "startWait", "startFRE", "startST"} => ~ST
  /\ setup \in {"waitFR", "waitCR", "bases", "startWait", "startFRE"} => ~FRE
  /\ setup \in {"waitCR", "bases"} => ~FR
  /\ setup = "bases" => ~CR

\* StopCMD and StartCMD keep what is known of the engines.
LEMMA StoppingNext == TypeOK /\ Stopping /\ [Next]_vars => Stopping'
<1>1. SUFFICES ASSUME TypeOK, Stopping, [Next]_vars PROVE Stopping'
  OBVIOUS
<1>2. {ST, FRE, CR, FR} \subseteq BOOLEAN
  BY <1>1 DEF TypeOK
<1>3. CASE AHCIProbePorts \/ AHCIPortConfigure
  BY <1>1, <1>2, <1>3 DEF AHCIProbePorts, AHCIPortConfigure, StopST, StopFRE, StopWait, Running,
                   SetBases, StartWait, StartFRE, StartST, Stopping, switches, engines
<1>4. CASE FollowST \/ FollowFRE
  BY <1>1, <1>2, <1>4 DEF FollowST, FollowFRE, Stopping, switches
<1>5. CASE UNCHANGED <<setup, switches, engines>>
  BY <1>1, <1>5 DEF Stopping, switches, engines
<1>6. QED
  BY <1>1, <1>3, <1>4, <1>5
     DEF Next, HBA, Call, AHCIPortReadWrite, Spin, ClearInterrupts, FillHeader, EraseTable,
         FillTable, Issue, Poll, Check, Ready, Fetch, Complete, Fail, vars

\* The types of the driver's state.
THEOREM TypeCorrect == Spec => []TypeOK
BY TypeOKInit, TypeOKNext, PTL DEF Spec

\* The command list and the FIS area move only when both engines have stopped,
\* although the firmware may have left them running (ahci.c:23-46).
THEOREM MovesWhileStopped == Spec => StructuresMoveWhileStopped
<1>1. Init => Stopping
  BY DEF Init, Stopping
<1>2. TypeOK /\ Stopping /\ [Next]_vars => [list' # list => ~CR /\ ~FR]_vars
  <2>1. SUFFICES ASSUME Stopping, Next, list' # list PROVE ~CR /\ ~FR
    OBVIOUS
  <2>2. setup = "bases"
    BY <2>1 DEF Next, AHCIProbePorts, AHCIPortConfigure, StopST, StopFRE, StopWait, SetBases,
         StartWait, StartFRE, StartST, HBA, Call, AHCIPortReadWrite, Spin, ClearInterrupts,
         FillHeader, EraseTable, FillTable, Issue, Poll, Check, FollowST, FollowFRE, Ready,
         Fetch, Complete, Fail
  <2>3. QED
    BY <2>1, <2>2 DEF Stopping
<1>3. QED
  BY <1>1, <1>2, StoppingNext, TypeCorrect, PTL DEF Spec, StructuresMoveWhileStopped

-----------------------------------------------------------------------------
(* One caller.                                                             *)

\* The kernel has one thread (kernel.c starts no other).
OneCaller == \A c, d \in Callers : c = d

Before == {"idle", "spin", "clear", "header", "erase", "fill", "issue"}
Filling == {"header", "erase", "fill", "issue"}

\* The command the caller has asked for.
Asked(c) == [write |-> request[c].write, sector |-> request[c].sector, caller |-> c]

\* What a call has done so far, and what became of the one before: it may have
\* left a command issued, but then the HBA has halted.
Calling ==
  /\ setup # "done" => ~CI /\ \A c \in Callers : pc[c] = "idle"
  /\ CI /\ ~halted => ~TFES
  /\ command # NoCommand => CI /\ ~halted
  /\ \A c \in Callers :
       /\ pc[c] \in Before => ~CI \/ halted
       /\ pc[c] \in Filling => ~TFES
       /\ pc[c] = "check" => ~CI

\* No call runs at first.
LEMMA CallingInit == Init => Calling
BY DEF Init, Calling

\* What each step of a call may rely on, the others keep.
LEMMA CallingNext ==
  ASSUME OneCaller
  PROVE  TypeOK /\ Calling /\ [Next]_vars => Calling'
<1>1. SUFFICES ASSUME TypeOK, Calling, [Next]_vars PROVE Calling'
  OBVIOUS
<1>2. /\ {CI, TFES, halted, busy, restarts} \subseteq BOOLEAN
      /\ \A c \in Callers : \A step : [pc EXCEPT ![c] = step][c] = step
  BY <1>1 DEF TypeOK
<1>3. CASE AHCIProbePorts \/ AHCIPortConfigure
  BY <1>1, <1>2, <1>3
     DEF AHCIProbePorts, AHCIPortConfigure, StopST, StopFRE, StopWait, SetBases, StartWait,
         StartFRE, StartST, Calling, status, calls
<1>4. ASSUME NEW c \in Callers, Call(c) PROVE Calling'
  BY <1>1, <1>2, <1>4, OneCaller DEF Call, Calling, OneCaller, Before, Filling, status
<1>5. ASSUME NEW c \in Callers, AHCIPortReadWrite(c) PROVE Calling'
  <2>1. CASE Spin(c) \/ ClearInterrupts(c)
    BY <1>1, <1>2, <2>1, OneCaller
       DEF Spin, ClearInterrupts, At, GoTo, Return, Calling, OneCaller, Before, Filling, status
  <2>2. CASE FillHeader(c) \/ EraseTable(c) \/ FillTable(c)
    BY <1>1, <1>2, <2>2, OneCaller
       DEF FillHeader, EraseTable, FillTable, At, GoTo, Calling, OneCaller, Before, Filling, status
  <2>3. CASE Issue(c)
    BY <1>1, <1>2, <2>3, OneCaller
       DEF Issue, At, GoTo, Calling, OneCaller, Before, Filling, status
  <2>4. CASE Poll(c) \/ Check(c)
    BY <1>1, <1>2, <2>4, OneCaller
       DEF Poll, Check, Issued, At, GoTo, Return, Calling, OneCaller, Before, Filling, status
  <2>5. QED
    BY <1>5, <2>1, <2>2, <2>3, <2>4 DEF AHCIPortReadWrite
<1>6. CASE FollowST \/ FollowFRE \/ Ready
  BY <1>1, <1>6 DEF FollowST, FollowFRE, Ready, Calling, status, calls
<1>7. CASE Fetch
  BY <1>1, <1>2, <1>7 DEF Fetch, MayFetch, Calling, calls
<1>8. CASE Complete
  BY <1>1, <1>2, <1>8, CommandTypes DEF Complete, Calling
<1>9. CASE Fail
  BY <1>1, <1>2, <1>9 DEF Fail, Calling, Before, Filling
<1>10. CASE UNCHANGED vars
  BY <1>1, <1>10 DEF vars, status, calls, Calling
<1>11. QED
  BY <1>1, <1>3, <1>4, <1>5, <1>6, <1>7, <1>8, <1>9, <1>10 DEF Next, HBA

\* The structures of a command are not written while the HBA may fetch it or
\* works on it (ahci.c:131-162), whatever became of the call before.
THEOREM StableCommands ==
  ASSUME OneCaller
  PROVE  Spec => CommandIsStable
<1>1. TypeOK /\ Calling /\ Stopping /\ [Next]_vars =>
        [(header' # header \/ table' # table) => ~MayFetch /\ command = NoCommand]_vars
  <2>1. SUFFICES ASSUME TypeOK, Calling, Stopping, Next, header' # header \/ table' # table
                 PROVE  ~MayFetch /\ command = NoCommand
    OBVIOUS
  <2>2. SetBases \/ \E c \in Callers : pc[c] \in Filling
    BY <2>1 DEF Next, AHCIProbePorts, AHCIPortConfigure, StopST, StopFRE, StopWait,
         StartWait, StartFRE, StartST, HBA, Call, AHCIPortReadWrite, Spin, ClearInterrupts,
         FillHeader, EraseTable, FillTable, Issue, Poll, Check, FollowST, FollowFRE, Ready,
         Fetch, Complete, Fail, structs, At, Filling
  <2>3. CASE SetBases
    BY <2>1, <2>3 DEF SetBases, Calling, MayFetch
  <2>4. ASSUME NEW c \in Callers, pc[c] \in Filling PROVE ~MayFetch /\ command = NoCommand
    BY <2>1, <2>4 DEF Calling, Before, Filling, MayFetch
  <2>5. QED
    BY <2>2, <2>3, <2>4
<1>2. Init => Stopping
  BY DEF Init, Stopping
<1>3. QED
  BY <1>1, <1>2, StoppingNext, CallingInit, CallingNext, TypeCorrect, PTL
     DEF Spec, CommandIsStable

-----------------------------------------------------------------------------
(* The refinement of Disk.                                                 *)

Polling == {"poll", "error", "check"}

\* What the HBA has answered to the call under way.
Answering ==
  /\ \A c \in Callers :
       /\ pc[c] \in Before \ {"idle"} => answer[c] = "none"
       /\ pc[c] \in {"erase", "fill", "issue"} \cup Polling => header = request[c].write
       /\ pc[c] \in {"issue"} \cup Polling => table = Asked(c)
       /\ pc[c] \in Polling /\ TFES => answer[c] = "failed"
       /\ pc[c] \in Polling /\ CI => answer[c] # "performed"
       /\ pc[c] \in Polling /\ CI /\ ~halted => answer[c] = "none"
       /\ pc[c] \in Polling /\ ~CI /\ ~TFES => answer[c] = "performed"
       /\ command # NoCommand => command = Asked(c)

\* What a caller asks for is a command.
LEMMA AskedIsCommand ==
  ASSUME TypeOK, NEW c \in Callers
  PROVE  /\ Asked(c) \in Commands /\ Asked(c) # NoCommand
         /\ Asked(c).write = request[c].write /\ Asked(c).sector = request[c].sector
         /\ Asked(c).caller = c
<1>1. request[c] \in Requests
  BY DEF TypeOK
<1>2. Asked(c) \in Commands
  BY <1>1 DEF Asked, Requests, Commands
<1>3. QED
  BY <1>2, CommandTypes DEF Asked

\* What became of a request stays what it was until the caller is told.
LEMMA AnsweringNext ==
  ASSUME OneCaller
  PROVE  TypeOK /\ Calling /\ Answering /\ [Next]_vars => Answering'
<1>1. SUFFICES ASSUME TypeOK, Calling, Answering, [Next]_vars PROVE Answering'
  OBVIOUS
<1>2. /\ {CI, TFES, halted, busy, restarts} \subseteq BOOLEAN
      /\ \A c \in Callers : \A step : [pc EXCEPT ![c] = step][c] = step
      /\ \A c \in Callers : \A a : [answer EXCEPT ![c] = a][c] = a
  BY <1>1 DEF TypeOK
<1>3. CASE AHCIProbePorts \/ AHCIPortConfigure
  <2>1. setup # "done" /\ UNCHANGED <<command, pc, request, answer>>
    BY <1>3 DEF AHCIProbePorts, AHCIPortConfigure, StopST, StopFRE, StopWait, SetBases,
         StartWait, StartFRE, StartST, calls
  <2>2. \A c \in Callers : pc'[c] = "idle"
    BY <1>1, <2>1 DEF Calling
  <2>3. command' = NoCommand
    BY <1>1, <2>1 DEF Calling
  <2>4. QED
    BY <2>2, <2>3 DEF Answering, Before, Polling
<1>4. ASSUME NEW c \in Callers, Call(c) PROVE Answering'
  <2>1. command' = NoCommand /\ pc'[c] = "spin" /\ answer'[c] = "none"
    BY <1>1, <1>2, <1>4 DEF Call, Calling, Before, status
  <2>2. QED
    BY <2>1, OneCaller DEF OneCaller, Answering, Before, Polling
<1>5. ASSUME NEW c \in Callers, AHCIPortReadWrite(c) PROVE Answering'
  <2>1. /\ UNCHANGED <<command, request, answer>>
        /\ pc[c] \in Before => command = NoCommand
        /\ Asked(c)' = Asked(c)
    BY <1>1, <1>5 DEF AHCIPortReadWrite, Spin, ClearInterrupts, FillHeader, EraseTable,
         FillTable, Issue, Poll, Check, Calling, Asked
  <2>2. SUFFICES /\ pc'[c] \in Before \ {"idle"} => answer[c] = "none"
                 /\ pc'[c] \in {"erase", "fill", "issue"} \cup Polling => header' = request[c].write
                 /\ pc'[c] \in {"issue"} \cup Polling => table' = Asked(c)
                 /\ pc'[c] \in Polling /\ TFES' => answer[c] = "failed"
                 /\ pc'[c] \in Polling /\ CI' => answer[c] # "performed"
                 /\ pc'[c] \in Polling /\ CI' /\ ~halted' => answer[c] = "none"
                 /\ pc'[c] \in Polling /\ ~CI' /\ ~TFES' => answer[c] = "performed"
                 /\ command # NoCommand => command = Asked(c)
    BY <2>1, OneCaller DEF Answering, OneCaller
  <2>3. CASE Spin(c) \/ ClearInterrupts(c)
    BY <1>1, <1>2, <2>3 DEF Spin, ClearInterrupts, At, GoTo, Return, Answering, Before, Polling,
         structs
  <2>4. CASE FillHeader(c) \/ EraseTable(c) \/ FillTable(c)
    BY <1>1, <1>2, <2>4 DEF FillHeader, EraseTable, FillTable, At, GoTo, Answering, Asked,
         Before, Polling
  <2>5. CASE Issue(c)
    BY <1>1, <1>2, <2>5 DEF Issue, At, GoTo, Answering, Calling, Before, Filling, Polling, structs
  <2>6. CASE Poll(c) \/ Check(c)
    BY <1>1, <1>2, <2>6 DEF Poll, Check, Issued, At, GoTo, Return, Answering, Before, Polling,
         structs, status
  <2>7. QED
    BY <1>5, <2>3, <2>4, <2>5, <2>6 DEF AHCIPortReadWrite
<1>6. CASE FollowST \/ FollowFRE \/ Ready
  BY <1>1, <1>6 DEF FollowST, FollowFRE, Ready, Answering, Asked, status, structs, calls
<1>7. CASE Fetch
  <2>1. UNCHANGED <<CI, TFES, halted, structs, calls>> /\ CI /\ ~halted
    BY <1>7 DEF Fetch, MayFetch
  <2>2. ASSUME NEW c \in Callers PROVE command' = Asked(c)
    <3>1. pc[c] \in Polling
      BY <1>1, <2>1 DEF Calling, Before, Polling, TypeOK
    <3>2. table = Asked(c) /\ header = request[c].write
      BY <1>1, <3>1 DEF Answering
    <3>3. table # NoCommand /\ table.write = header
      BY <1>1, <3>2, AskedIsCommand
    <3>4. QED
      BY <1>7, <3>2, <3>3 DEF Fetch
  <2>3. QED
    BY <1>1, <2>1, <2>2 DEF Answering, Asked, structs, calls
<1>8. CASE Complete
  <2>1. command \in Commands /\ command # NoCommand /\ command' = NoCommand
    BY <1>8, CommandTypes DEF Complete
  <2>2. command.caller \in Callers
    BY <2>1 DEF Commands
  <2>3. ASSUME NEW c \in Callers PROVE pc[c] \in {"poll", "error"} /\ answer'[c] = "performed" /\ ~TFES
    BY <1>1, <1>2, <1>8, <2>1, <2>2, OneCaller
       DEF Complete, Calling, Before, TypeOK, OneCaller
  <2>4. QED
    BY <1>1, <1>8, <2>1, <2>3 DEF Complete, Answering, Asked, structs, Before, Polling
<1>9. CASE Fail
  <2>1. command # NoCommand /\ command' = NoCommand /\ UNCHANGED <<structs, pc, request>>
    BY <1>9 DEF Fail
  <2>2. ASSUME NEW c \in Callers PROVE pc[c] \in {"poll", "error"} /\ answer'[c] = "failed"
    <3>1. command = Asked(c) /\ command \in Commands /\ command.caller = c
      BY <1>1, <2>1, AskedIsCommand DEF Answering
    <3>2. QED
      BY <1>1, <1>2, <1>9, <2>1, <3>1 DEF Fail, Calling, Before, TypeOK
  <2>3. CI' = restarts /\ halted' = restarts /\ TFES' = TRUE
    BY <1>9 DEF Fail
  <2>4. QED
    BY <1>1, <2>1, <2>2, <2>3 DEF Answering, Asked, structs, Before, Polling
<1>10. CASE UNCHANGED vars
  BY <1>1, <1>10 DEF vars, status, structs, calls, Answering, Asked
<1>11. QED
  BY <1>1, <1>3, <1>4, <1>5, <1>6, <1>7, <1>8, <1>9, <1>10 DEF Next, HBA

\* Every step is one of the disk's or changes nothing of it.
LEMMA StepRefines ==
  ASSUME OneCaller
  PROVE  TypeOK /\ Calling /\ Answering /\ [Next]_vars => [DiskSpec!Next]_(DiskSpec!vars)
<1>1. SUFFICES ASSUME TypeOK, Calling, Answering, [Next]_vars
               PROVE  DiskSpec!Next \/ UNCHANGED DiskSpec!vars
  OBVIOUS
<1> DEFINE Phase == [c \in Callers |-> IF pc[c] = "idle" THEN "idle"
                                       ELSE IF answer[c] = "none" THEN "pending" ELSE answer[c]]
<1>2. CASE UNCHANGED <<disk, buffer, request, Phase, result>>
  BY <1>2 DEF DiskSpec!vars
<1>3. CASE UNCHANGED <<contents, calls>>
  BY <1>2, <1>3 DEF contents, calls
<1>4. ASSUME NEW c \in Callers, Call(c) PROVE DiskSpec!Next
  <2>1. Phase[c] = "idle" /\ Phase' = [Phase EXCEPT ![c] = "pending"]
    BY <1>1, <1>4 DEF Call, TypeOK
  <2>2. /\ \E r \in Requests :
             /\ request' = [request EXCEPT ![c] = r]
             /\ \E v \in IF r.write THEN Values ELSE {buffer[c]} :
                  buffer' = [buffer EXCEPT ![c] = v]
        /\ UNCHANGED <<disk, result>>
    BY <1>4 DEF Call
  <2>3. DiskSpec!Call(c)
    BY <2>1, <2>2 DEF DiskSpec!Call, DiskSpec!Requests, Requests
  <2>4. QED
    BY <2>3 DEF DiskSpec!Next
\* A call returns what became of its request.
<1>5. ASSUME NEW c \in Callers, pc[c] # "idle", UNCHANGED <<contents, request, answer>>,
             NEW success \in BOOLEAN, success <=> answer[c] = "performed", Return(c, success)
      PROVE  DiskSpec!Next
  <2>1. /\ Phase[c] # "idle" /\ (Phase[c] = "performed" <=> answer[c] = "performed")
        /\ Phase' = [Phase EXCEPT ![c] = "idle"]
        /\ result' = [result EXCEPT ![c] = Phase[c] = "performed"]
    BY <1>1, <1>5 DEF Return, TypeOK
  <2>2. DiskSpec!Return(c)
    BY <1>5, <2>1 DEF DiskSpec!Return, contents
  <2>3. QED
    BY <2>2 DEF DiskSpec!Next
\* A step inside a call.
<1>6. ASSUME NEW c \in Callers, NEW step, step # "idle", pc[c] # "idle", GoTo(c, step),
             UNCHANGED <<contents, request, answer>>
      PROVE  UNCHANGED DiskSpec!vars
  <2>1. UNCHANGED Phase
    BY <1>1, <1>6 DEF GoTo, TypeOK
  <2>2. QED
    BY <1>2, <1>6, <2>1 DEF GoTo, contents, DiskSpec!vars
<1>7. ASSUME NEW c \in Callers, AHCIPortReadWrite(c)
      PROVE  DiskSpec!Next \/ UNCHANGED DiskSpec!vars
  <2>1. UNCHANGED <<contents, request, answer>> /\ pc[c] # "idle"
    BY <1>7 DEF AHCIPortReadWrite, Spin, ClearInterrupts, FillHeader, EraseTable, FillTable,
                Issue, Poll, Check, At
  <2>2. CASE Spin(c)
    <3>1. answer[c] = "none"
      BY <1>1, <2>2 DEF Answering, Spin, At, Before
    <3>2. CASE UNCHANGED pc
      <4>1. UNCHANGED result
        BY <1>1, <2>2, <3>2 DEF Spin, Return, GoTo, At, TypeOK
      <4>2. QED
        BY <1>2, <2>1, <3>2, <4>1 DEF contents
    <3>3. CASE Return(c, FALSE)
      <4>1. FALSE <=> answer[c] = "performed"
        BY <3>1
      <4>2. QED
        BY <1>5, <2>1, <3>3, <4>1
    <3>4. CASE GoTo(c, "clear")
      BY <1>6, <2>1, <3>4
    <3>5. QED
      BY <2>2, <3>2, <3>3, <3>4 DEF Spin
  <2>3. CASE ClearInterrupts(c) \/ FillHeader(c) \/ EraseTable(c) \/ FillTable(c) \/ Issue(c)
    <3>1. \E step \in {"header", "erase", "fill", "issue", "poll"} : GoTo(c, step)
      BY <2>3 DEF ClearInterrupts, FillHeader, EraseTable, FillTable, Issue
    <3>2. QED
      BY <1>6, <2>1, <3>1
  <2>4. CASE Poll(c)
    <3>1. CASE Return(c, FALSE) /\ TFES /\ At(c, "error")
      BY <1>1, <1>5, <2>1, <3>1 DEF Answering, At, Polling
    <3>2. CASE \E step \in {"poll", "error", "check"} : GoTo(c, step)
      BY <1>6, <2>1, <3>2
    <3>3. QED
      BY <2>4, <3>1, <3>2 DEF Poll
  <2>5. CASE Check(c)
    <3>1. ~CI /\ (TFES => answer[c] = "failed") /\ (~TFES => answer[c] = "performed")
      BY <1>1, <2>5 DEF Calling, Answering, Check, At, Polling
    <3>2. (~TFES) \in BOOLEAN /\ (~TFES <=> answer[c] = "performed")
      BY <3>1
    <3>3. Return(c, ~TFES)
      BY <2>5 DEF Check, Succeeded
    <3>4. QED
      BY <1>5, <2>1, <3>2, <3>3
  <2>6. QED
    BY <1>7, <2>2, <2>3, <2>4, <2>5 DEF AHCIPortReadWrite
<1>8. CASE Complete \/ Fail
  <2>1. CASE command \notin Commands
    BY <1>3, <1>8, <2>1 DEF Complete, Fail, calls
  <2>2. ASSUME command \in Commands PROVE DiskSpec!Next
    <3>1. PICK c \in Callers : c = command.caller
      BY <2>2 DEF Commands
    <3>2. command = Asked(c) /\ command # NoCommand
      BY <1>1, <2>2, CommandTypes DEF Answering
    <3>3. answer[c] = "none" /\ pc[c] # "idle"
      BY <1>1, <3>2 DEF Calling, Answering, Before, Polling, TypeOK
    <3>4. ASSUME NEW v, Transfer(v) PROVE DiskSpec!Store(c, v)
      BY <1>1, <3>1, <3>2, <3>4, AskedIsCommand DEF Transfer, DiskSpec!Store
    <3>5. CASE Complete
      <4>1. Phase[c] = "pending" /\ Phase' = [Phase EXCEPT ![c] = "performed"]
        BY <1>1, <3>1, <3>3, <3>5 DEF Complete, TypeOK
      <4>2. DiskSpec!Store(c, IF request[c].write THEN buffer[c] ELSE disk[request[c].sector])
        BY <1>1, <3>1, <3>2, <3>4, <3>5, AskedIsCommand DEF Complete
      <4>3. DiskSpec!Perform(c)
        BY <3>5, <4>1, <4>2 DEF DiskSpec!Perform, Complete
      <4>4. QED
        BY <4>3 DEF DiskSpec!Next
    <3>6. CASE Fail
      <4>1. Phase[c] = "pending" /\ Phase' = [Phase EXCEPT ![c] = "failed"]
        BY <1>1, <2>2, <3>1, <3>3, <3>6 DEF Fail, TypeOK
      <4>2. command.sector \in Sectors
        BY <2>2 DEF Commands
      <4>3. \E v \in Contents : Transfer(v)
        BY <1>1, <2>2, <3>1, <3>6, <4>2 DEF Fail, TypeOK, Contents
      <4>4. DiskSpec!Fail(c)
        BY <3>4, <3>6, <4>1, <4>3 DEF DiskSpec!Fail, DiskSpec!Contents, Contents, Fail
      <4>5. QED
        BY <4>4 DEF DiskSpec!Next
    <3>7. QED
      BY <1>8, <3>5, <3>6
  <2>3. QED
    BY <2>1, <2>2
<1>9. CASE AHCIProbePorts \/ AHCIPortConfigure \/ FollowST \/ FollowFRE \/ Ready \/ Fetch \/ UNCHANGED vars
  BY <1>3, <1>9 DEF AHCIProbePorts, AHCIPortConfigure, StopST, StopFRE, StopWait, SetBases,
       StartWait, StartFRE, StartST, FollowST, FollowFRE, Ready, Fetch, vars
<1>10. QED
  BY <1>1, <1>4, <1>7, <1>8, <1>9 DEF Next, HBA

\* The driver implements the disk (ahci.c:115-219): a call that returns true has
\* moved its sector once, in the right direction, and one that fails has touched
\* nothing but what it was to write.
THEOREM Refinement ==
  ASSUME OneCaller
  PROVE  Spec => ImplementsDisk
<1>1. Init => DiskSpec!Init
  <2>1. SUFFICES ASSUME Init PROVE DiskSpec!Init
    OBVIOUS
  <2>2. request \in [Callers -> Requests]
    BY <2>1, TypeOKInit DEF TypeOK
  <2>3. QED
    BY <2>1, <2>2 DEF Init, DiskSpec!Init, DiskSpec!Requests, Requests
<1>2. Init => Answering
  BY DEF Init, Answering, Before, Polling
<1>3. QED
  BY <1>1, <1>2, CallingInit, CallingNext, AnsweringNext, StepRefines, TypeCorrect, PTL
     DEF Spec, ImplementsDisk, DiskSpec!Spec
=============================================================================
