---------------------------- MODULE MCMouseCursor ----------------------------
(* A pointer of three pixels on a screen hardly larger: it is clipped at    *)
(* either edge and overlaps its old place.                                  *)
EXTENDS MouseCursor

MCPointer == {<<0, 0>>, <<0, 1>>, <<1, 1>>}
=============================================================================
