----------------------------- MODULE MCRecovery -----------------------------
(* Recovery for model checking.                                            *)
EXTENDS Recovery
=============================================================================
