------------------------------ MODULE MCNamei ------------------------------
(* Namei for model checking: two short names and a long one.               *)
EXTENDS Namei, TLC

CONSTANTS Long

ShortNames == Permutations(Name \ {Long})

MCInums == 1..3
MCNameLen == [n \in Name |-> IF n = Long THEN 16 ELSE 1]
=============================================================================
