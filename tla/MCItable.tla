------------------------------ MODULE MCItable -----------------------------
(* Itable for model checking: small and large attributes.                  *)
EXTENDS Itable

CONSTANTS Large

MCInums == 0..5
MCSize == [a \in Attrs |-> IF a = Large THEN 4 ELSE 2]
=============================================================================
