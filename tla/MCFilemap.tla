----------------------------- MODULE MCFilemap -----------------------------
(* Filemap for model checking.  With three addresses to a group, one group *)
(* of the file has two blocks and the next one three.  A cut falls inside  *)
(* each group and between them.                                            *)
EXTENDS Filemap

MCBlocks == 1..5
MCSizes == {0, 2, 3, 5, 6}
=============================================================================
