----------------------------- MODULE Attributes -----------------------------
(***************************************************************************)
(* Extended attributes as their users see them: a value for every inode    *)
(* and name, or none.                                                      *)
(***************************************************************************)
CONSTANTS Inode, Name, Value, NoValue

VARIABLE attrs

Init == attrs = [i \in Inode |-> [n \in Name |-> NoValue]]

Set(i, n, v) == attrs' = [attrs EXCEPT ![i][n] = v]

Remove(i, n) == Set(i, n, NoValue)

(* The inode is deleted; a new one with its number has no attributes.      *)
Drop(i) == attrs' = [attrs EXCEPT ![i] = [n \in Name |-> NoValue]]

Next ==
  \E i \in Inode :
    \/ Drop(i)
    \/ \E n \in Name : Remove(i, n) \/ \E v \in Value : Set(i, n, v)

Spec == Init /\ [][Next]_attrs
=============================================================================
