------------------------------- MODULE Itable ------------------------------
(***************************************************************************)
(* The inode table (kernel/inode.c): a btree from inode numbers to the     *)
(* attributes of the inodes.                                               *)
(*                                                                         *)
(* A new inode gets its number at once and its place in the table when it  *)
(* is saved for the first time; until then its number is deferred.  Each   *)
(* operation holds the lock of the btree, alloc_inum from the beginning:   *)
(* the depth that it reads before it has the lock (inode.c:149) is that of *)
(* the tree which it then finds, as in userspace, where one task runs.     *)
(***************************************************************************)
EXTENDS Btree, Ileaf, FiniteSets

CONSTANTS
  Inums,    \* bound: inode numbers, from 0 on
  MaxInodes \* bound: inodes

ASSUME ItableAssumption ==
  /\ Inums \subseteq Nat /\ IsFiniteSet(Inums) /\ \A n \in Inums : 0..n \subseteq Inums
  /\ MaxInodes \in Nat

VARIABLES
  itable,   \* the tree
  deferred, \* how many inodes on the list of those not saved have a number
  stored    \* history: the inodes that have been saved, and their attributes

vars == <<itable, deferred, stored>>

Init == itable = no_root /\ deferred = [n \in Inums |-> 0] /\ stored = <<>>

find_defer_alloc_inum(n) == n \in Inums /\ deferred[n] > 0

Unsaved == {n \in Inums : find_defer_alloc_inum(n)}

-----------------------------------------------------------------------------
(* Looking for a number: from leaf to leaf, until there is one below the   *)
(* key that ends the leaf.  There are no more leaves than numbers.         *)
FindInTable(T, goal) ==
  LET Look(path, from) == [path |-> path, inum |-> find_empty_inode(cursor_leaf(T, path), from)]
      Find[i \in 0..Cardinality(Inums)] ==
        IF i = 0 THEN Look(probe(T, goal), goal)
        ELSE LET at == Find[i - 1] IN
             IF at.inum < next_key(T, at.path, T.depth, at.inum + 1) THEN at
             ELSE Look(advance(T, at.path), at.inum)
  IN  IF has_root(T) THEN Find[Cardinality(Inums)].inum ELSE goal

(* A number that is deferred is skipped, and the search begun again.       *)
MutantNoDefer(goal) == FindInTable(itable, goal)
FindInum(goal) ==
  LET Free(n) == CHOOSE k \in n..(n + Cardinality(Unsaved)) :
                   k \notin Unsaved /\ n..(k - 1) \subseteq Unsaved
      Try[from \in Nat] ==
        LET n == FindInTable(itable, from) IN
        IF find_defer_alloc_inum(n) THEN Try[Free(n + 1)] ELSE n
  IN  Try[goal]

alloc_inum(goal) ==
  /\ Cardinality(Unsaved) + Cardinality(DOMAIN stored) < MaxInodes
  /\ \E n \in {FindInum(goal)} \cap Inums : deferred' = [deferred EXCEPT ![n] = @ + 1]
  /\ UNCHANGED <<itable, stored>>

-----------------------------------------------------------------------------
(* A leaf without space is split at the inode.  If there is no space then  *)
(* either the assertion in tree_expand ends the program.                   *)
tree_expand(T, inum, attrs) ==
  LET path == probe(T, inum)
      leaf == cursor_leaf(T, path)
      S    == ileaf_split(leaf, inum)
      I    == insert_leaf(T, path, S.from, S.into.ibase, S.into)
  IN  IF HasSpace(leaf, inum, attrs)
      THEN [fits |-> TRUE, tree |-> store_leaf(T, path, ileaf_resize(leaf, inum, attrs))]
      ELSE IF HasSpace(S.into, inum, attrs)
      THEN [fits |-> TRUE,
            tree |-> store_leaf(I.tree, I.path, ileaf_resize(S.into, inum, attrs))]
      ELSE [fits |-> FALSE, tree |-> T]

Rooted == IF has_root(itable) THEN itable ELSE alloc_empty_btree(ileaf_init)

save_inode(inum, attrs) ==
  /\ inum \in Unsaved \cup DOMAIN stored
  /\ \E E \in {tree_expand(Rooted, inum, attrs)} : E.fits /\ itable' = E.tree
  /\ deferred' = [deferred EXCEPT ![inum] = IF @ > 0 THEN @ - 1 ELSE 0]
  /\ stored' = [n \in DOMAIN stored \cup {inum} |-> IF n = inum THEN attrs ELSE stored[n]]

(* No block for a new leaf: the inode stays as it was in the table, and    *)
(* deferred if it was.                                                     *)
save_inode_nospace(inum, attrs) ==
  /\ inum \in Unsaved \cup DOMAIN stored
  /\ ~HasSpace(cursor_leaf(Rooted, probe(Rooted, inum)), inum, attrs)
  /\ itable' = Rooted
  /\ UNCHANGED <<deferred, stored>>

(* An inode that was never saved is only taken off the list.               *)
purge_inum(inum) ==
  \/ /\ find_defer_alloc_inum(inum)
     /\ deferred' = [deferred EXCEPT ![inum] = @ - 1]
     /\ UNCHANGED <<itable, stored>>
  \/ /\ inum \in DOMAIN stored \ Unsaved
     /\ \E path \in {probe(itable, inum)} :
          itable' = store_leaf(itable, path, ileaf_purge(cursor_leaf(itable, path), inum))
     /\ stored' = [n \in DOMAIN stored \ {inum} |-> stored[n]]
     /\ UNCHANGED deferred

Next ==
  \E inum \in Inums :
    \/ alloc_inum(inum)
    \/ \E attrs \in Attrs : save_inode(inum, attrs) \/ save_inode_nospace(inum, attrs)
    \/ purge_inum(inum)

Spec == Init /\ [][Next]_vars

-----------------------------------------------------------------------------
(* What open_inode finds under a number.                                   *)
open_inode(inum) ==
  IF has_root(itable) THEN ileaf_lookup(cursor_leaf(itable, probe(itable, inum)), inum)
  ELSE NoAttrs

(* The cursors of the leaves.                                              *)
Cursors(T) ==
  LET Paths[level \in 0..T.depth] ==
        IF level = 0 THEN {<<>>}
        ELSE UNION {{Append(path, i) : i \in DOMAIN cursor_node(T, path, level)} :
                      path \in Paths[level - 1]}
  IN  IF has_root(T) THEN Paths[T.depth] ELSE {}

(* The key that leads to a leaf: the last on the way to it, those of first *)
(* entries left aside.                                                     *)
first_key(T, path) ==
  LET inner == {level \in 1..T.depth : path[level] > 1}
      level == Deepest(inner)
  IN  IF inner = {} THEN 0 ELSE cursor_node(T, path, level)[path[level]].key

(* Numbers and attributes are within their ranges, and no leaf has more    *)
(* than its space: the room that ileaf_resize checks is enough.            *)
TypeOK ==
  /\ deferred \in [Inums -> 0..MaxInodes]
  /\ DOMAIN stored \subseteq Inums /\ \A n \in DOMAIN stored : stored[n] \in Attrs
  /\ \A path \in Cursors(itable) :
       LET leaf == cursor_leaf(itable, path) IN
       leaf.ibase \in Inums /\ icount(leaf) <= entries_per_leaf /\ ileaf_free(leaf) >= 0

(* Every inode is found under its number with the attributes that were     *)
(* saved last, and nothing under any other number, however the leaves have *)
(* been split and inodes grown, purged and created again.  (Where nothing  *)
(* is found an assertion of ileaf_lookup may have stopped the program.)    *)
InodesKept ==
  \A n \in Inums : open_inode(n) = IF n \in DOMAIN stored THEN stored[n] ELSE NoAttrs

(* No number is given to an inode that another one has, whether that one   *)
(* is in the table or still deferred.                                      *)
InumsUnique ==
  \A n \in Inums : deferred[n] + (IF n \in DOMAIN stored THEN 1 ELSE 0) <= 1

(* The base of a leaf is the key that leads to it, as the comment on inode *)
(* table expansion says, and its inodes end before the key of the next.    *)
LeavesInOrder ==
  \A path \in Cursors(itable) :
    LET leaf == cursor_leaf(itable, path)
        end  == leaf.ibase + icount(leaf)
    IN  leaf.ibase = first_key(itable, path) /\ end <= next_key(itable, path, itable.depth, end)
=============================================================================
