--------------------------------- MODULE Disk ---------------------------------
(***************************************************************************)
(* What AHCIPortRead and AHCIPortWrite promise: a call that returns true   *)
(* has moved the sector, once and in the right direction, some time during *)
(* the call; one that returns false may have spoilt where it was to write. *)
(***************************************************************************)
EXTENDS Naturals

CONSTANTS Sectors, Values, Garbage, Callers

VARIABLES
  disk,     \* contents of the sectors
  buffer,   \* contents of each caller's buffer
  request,  \* the last request of each caller
  phase,    \* how far it is
  result    \* what its last call that ended returned

vars == <<disk, buffer, request, phase, result>>

Contents == Values \cup {Garbage}
Requests == [write : BOOLEAN, sector : Sectors]

Init == /\ disk \in [Sectors -> Values]
        /\ buffer = [c \in Callers |-> Garbage]
        /\ request \in [Callers -> Requests]
        /\ phase = [c \in Callers |-> "idle"]
        /\ result = [c \in Callers |-> FALSE]

\* The buffer of a write is filled by the caller before.
Call(c) == /\ phase[c] = "idle"
           /\ phase' = [phase EXCEPT ![c] = "pending"]
           /\ \E r \in Requests :
                /\ request' = [request EXCEPT ![c] = r]
                /\ \E v \in IF r.write THEN Values ELSE {buffer[c]} :
                     buffer' = [buffer EXCEPT ![c] = v]
           /\ UNCHANGED <<disk, result>>

Store(c, v) ==
  IF request[c].write
  THEN disk' = [disk EXCEPT ![request[c].sector] = v] /\ UNCHANGED buffer
  ELSE buffer' = [buffer EXCEPT ![c] = v] /\ UNCHANGED disk

Perform(c) == /\ phase[c] = "pending"
              /\ Store(c, IF request[c].write THEN buffer[c] ELSE disk[request[c].sector])
              /\ phase' = [phase EXCEPT ![c] = "performed"]
              /\ UNCHANGED <<request, result>>

Fail(c) == /\ phase[c] = "pending"
           /\ \E v \in Contents : Store(c, v)
           /\ phase' = [phase EXCEPT ![c] = "failed"]
           /\ UNCHANGED <<request, result>>

\* A call may also end without an attempt.
Return(c) == /\ phase[c] # "idle"
             /\ result' = [result EXCEPT ![c] = phase[c] = "performed"]
             /\ phase' = [phase EXCEPT ![c] = "idle"]
             /\ UNCHANGED <<disk, buffer, request>>

Next == \E c \in Callers : Call(c) \/ Perform(c) \/ Fail(c) \/ Return(c)

Spec == Init /\ [][Next]_vars
=============================================================================
