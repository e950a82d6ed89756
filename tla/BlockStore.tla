------------------------------ MODULE BlockStore ------------------------------
(***************************************************************************)
(* What malloc and free promise: a block is a range of addresses that      *)
(* overlaps no other live block, large enough for the request that asked   *)
(* for it, and it stays where it is until it is freed.                     *)
(***************************************************************************)
EXTENDS Integers

VARIABLES
  blocks,    \* the live blocks: from first address to length
  wanted     \* the bytes the running call asked for, 0 while there is none

\* Blocks a and b have no byte in common.
Apart(a, n, b, m) == a + n <= b \/ b + m <= a

Init == blocks = [a \in {} |-> 0] /\ wanted = 0

\* A call asks for some bytes.
Request ==
  /\ wanted = 0
  /\ wanted' \in Nat \ {0}
  /\ UNCHANGED blocks

\* It returns a new block somewhere, of at least as many bytes.
Allocate ==
  /\ wanted # 0
  /\ \E a \in DOMAIN blocks' \ DOMAIN blocks :
       /\ blocks' = [b \in DOMAIN blocks \cup {a} |->
                       IF b = a THEN blocks'[a] ELSE blocks[b]]
       /\ blocks'[a] >= wanted
       /\ \A b \in DOMAIN blocks : Apart(a, blocks'[a], b, blocks[b])
  /\ wanted' = 0

Release ==
  /\ wanted = 0
  /\ \E a \in DOMAIN blocks : blocks' = [b \in DOMAIN blocks \ {a} |-> blocks[b]]
  /\ UNCHANGED wanted

Next == Request \/ Allocate \/ Release

Spec == Init /\ [][Next]_<<blocks, wanted>>
=============================================================================
