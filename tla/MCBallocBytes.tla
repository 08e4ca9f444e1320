---------------------------- MODULE MCBallocBytes ----------------------------
(* BallocBytes for model checking: the tasks are interchangeable.  Map     *)
(* blocks of two bytes: the free blocks are on both sides of the boundary  *)
(* between two bytes, and in the second map block with its partial byte.   *)
EXTENDS BallocBytes, TLC

MCReserved == (0..(VolBlocks - 1)) \ {7, 8, 16}

TaskSymmetry == Permutations(Task)
=============================================================================
