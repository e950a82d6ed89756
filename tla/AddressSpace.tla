----------------------------- MODULE AddressSpace -----------------------------
(***************************************************************************)
(* What page tables promise: an address space in which mapping one page    *)
(* changes the translation of that page and of no other.                   *)
(***************************************************************************)
CONSTANTS Virtual, Frames, Unmapped

VARIABLE space      \* the frame of every page, or Unmapped

Init == space = [v \in Virtual |-> Unmapped]

Map(v) == /\ space'[v] \in Frames
          /\ space' = [space EXCEPT ![v] = space'[v]]

Next == \E v \in Virtual : Map(v)

Spec == Init /\ [][Next]_space
=============================================================================
