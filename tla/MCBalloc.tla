------------------------------ MODULE MCBalloc ------------------------------
(* Balloc for model checking: the first block is in use.                   *)
EXTENDS Balloc

MCReserved == {0}
=============================================================================
