------------------------------ MODULE Versions ------------------------------
(***************************************************************************)
(* What versioned pointers (user/version.c) promise for one block of the   *)
(* origin volume: every snapshot has a value of its own, which it has from *)
(* what it was taken of, and which only a write to this very snapshot      *)
(* changes.                                                                *)
(***************************************************************************)
CONSTANTS Tag, Data

VARIABLES
  snap,     \* the data of each snapshot there is, by its tag
  origin    \* the data of the origin

vars == <<snap, origin>>

Init == snap = [t \in {} |-> {}] /\ origin \in Data

With(t, d) == [u \in DOMAIN snap \cup {t} |-> IF u = t THEN d ELSE snap[u]]

OfOrigin(t)      == t \in Tag \ DOMAIN snap /\ snap' = With(t, origin) /\ UNCHANGED origin
OfSnapshot(t, p) == /\ t \in Tag \ DOMAIN snap /\ p \in DOMAIN snap
                    /\ snap' = With(t, snap[p]) /\ UNCHANGED origin
Delete(t)        == /\ t \in DOMAIN snap
                    /\ snap' = [u \in DOMAIN snap \ {t} |-> snap[u]] /\ UNCHANGED origin
Write(t, d)      == t \in DOMAIN snap /\ snap' = With(t, d) /\ UNCHANGED origin
OriginWrite(d)   == origin' = d /\ UNCHANGED snap

Next ==
  \/ \E t \in Tag :
       \/ OfOrigin(t) \/ Delete(t)
       \/ \E p \in Tag : OfSnapshot(t, p)
       \/ \E d \in Data : Write(t, d)
  \/ \E d \in Data : OriginWrite(d)

Spec == Init /\ [][Next]_vars
=============================================================================
