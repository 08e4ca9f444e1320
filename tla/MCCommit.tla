------------------------------ MODULE MCCommit ------------------------------
(* Commit for model checking.  MaxDelta ends the run: past it only         *)
(* sync_super is left, so that no state is a deadlock but a stopped one.   *)
EXTENDS Commit
=============================================================================
