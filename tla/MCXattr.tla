------------------------------ MODULE MCXattr ------------------------------
(* Xattr for model checking.  The records of two names have 16 bytes, and  *)
(* 24 that of a third; inodes and the two short names are interchangeable. *)
EXTENDS Xattr

CONSTANTS Long

MCNameLen  == [n \in Name |-> IF n = Long THEN 9 ELSE 4]
MCValueLen == [v \in Value |-> v]

XattrSymmetry == Permutations(Inode) \cup Permutations(Name \ {Long})
=============================================================================
