-------------------------------- MODULE MCHeap --------------------------------
(* A heap for TLC, with the code's header size and alignment.              *)
EXTENDS Heap

\* For pages of 128 bytes: one page holds a header and at most 96 bytes, and
\* 112 rounds to a page that is 16 bytes too short with its header.
SmallRequests == {0, 24, 96, 112}
=============================================================================
