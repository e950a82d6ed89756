------------------------------- MODULE FramePool -------------------------------
(***************************************************************************)
(* What a page frame allocator promises its callers: a frame it hands out  *)
(* is free and belongs to nobody else until it is given back, and it says  *)
(* NULL only when no frame is free.                                        *)
(***************************************************************************)
EXTENDS Naturals

CONSTANTS
  Frames,     \* the frames there may be
  NULL,       \* no frame: it is not in Frames
  NoAnswer    \* nobody asked yet

VARIABLES
  free,       \* the frames that may be handed out
  held,       \* the frames that were, and did not come back
  answer      \* what the last request returned

vars == <<free, held, answer>>

Init == free = {} /\ held = {} /\ answer = NoAnswer

\* Memory is found, once, before anybody asks for a frame.
Supply == /\ held = {}
          /\ free' \in SUBSET Frames
          /\ UNCHANGED <<held, answer>>

\* Free frames are set aside for good.
Withdraw == /\ free' \in SUBSET free
            /\ UNCHANGED <<held, answer>>

Request == \E f \in free :
             /\ free' = free \ {f}
             /\ held' = held \cup {f}
             /\ answer' = f

Refuse == /\ free = {}
          /\ answer' = NULL
          /\ UNCHANGED <<free, held>>

Release == /\ held' \in SUBSET held
           /\ free' = free \cup (held \ held')
           /\ UNCHANGED answer

Next == Supply \/ Withdraw \/ Request \/ Refuse \/ Release

Spec == Init /\ [][Next]_vars
=============================================================================
