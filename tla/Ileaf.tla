------------------------------- MODULE Ileaf -------------------------------
(***************************************************************************)
(* Leaves of the inode table (kernel/ileaf.c): a leaf has the attributes   *)
(* of the inodes from its base number on.  Its operations, on a leaf as a  *)
(* value.                                                                  *)
(*                                                                         *)
(* The attributes are a sequence, by inode number, with NoAttrs for a      *)
(* number that is not in use: in the code they are packed end to end and   *)
(* a dictionary has where each one ends, so that one that ends where it    *)
(* begins is not in use.                                                   *)
(***************************************************************************)
EXTENDS Integers, Sequences, SequencesExt

CONSTANTS
  Attrs,            \* the attributes that an inode may have
  AttrsSize,        \* their sizes, in units of a dictionary entry
  NoAttrs,
  entries_per_leaf, \* a power of two
  LeafRoom          \* the space of a leaf behind its header

ASSUME IleafAssumption ==
  /\ NoAttrs \notin Attrs
  /\ AttrsSize \in [Attrs -> Nat \ {0}]
  /\ entries_per_leaf \in Nat \ {0}
  /\ LeafRoom \in Nat /\ \A a \in Attrs : AttrsSize[a] + entries_per_leaf <= LeafRoom

Size(a) == IF a = NoAttrs THEN 0 ELSE AttrsSize[a]

ileaf(base, attrs) == [ibase |-> base, attrs |-> attrs]

ileaf_init == ileaf(0, <<>>)

icount(leaf) == Len(leaf.attrs)

(* The dictionary: where the attributes of the first so many inodes end.   *)
atdict(leaf) ==
  LET Ends[at \in 0..icount(leaf)] ==
        IF at = 0 THEN 0 ELSE Ends[at - 1] + Size(leaf.attrs[at])
  IN  Ends

ileaf_need(leaf) == atdict(leaf)[icount(leaf)] + icount(leaf)

ileaf_free(leaf) == LeafRoom - ileaf_need(leaf)

-----------------------------------------------------------------------------
(* An assertion stops the code if the number is entries_per_leaf or more   *)
(* above the base, as only one that is not there is: such a lookup has no  *)
(* answer, and none is the one given here.                                 *)
ileaf_lookup(leaf, inum) ==
  LET at == inum - leaf.ibase IN
  IF at < icount(leaf) THEN leaf.attrs[at + 1] ELSE NoAttrs

(* The leaf without the empty entries at its end.                          *)
MutantTrim(leaf) ==
  LET holes == {i \in DOMAIN leaf.attrs : leaf.attrs[i] = NoAttrs} IN
  [leaf EXCEPT !.attrs = IF holes = {} THEN @ ELSE
     SubSeq(@, 1, (CHOOSE i \in holes : \A j \in holes : i <= j) - 1)]
ileaf_trim(leaf) ==
  LET live == {i \in DOMAIN leaf.attrs : leaf.attrs[i] # NoAttrs}
      last == CHOOSE i \in live \cup {0} : \A j \in live : j <= i
  IN  [leaf EXCEPT !.attrs = SubSeq(@, 1, last)]

(* What stays, and what goes to the new leaf: it begins with the inode     *)
(* number, or with a round number below it and above those in use.         *)
MutantRound(leaf, inum) == inum - (inum % entries_per_leaf)
NewBase(leaf, inum) ==
  LET round == inum - (inum % entries_per_leaf) IN
  IF round > leaf.ibase + icount(leaf) THEN round ELSE inum

ileaf_split(leaf, inum) ==
  LET off == inum - leaf.ibase
      at  == IF off < icount(leaf) THEN off ELSE icount(leaf)
  IN  [from |-> ileaf_trim([leaf EXCEPT !.attrs = SubSeq(@, 1, at)]),
       into |-> ileaf(NewBase(leaf, inum), SubSeq(leaf.attrs, at + 1, icount(leaf)))]

(* There is room for the attributes in the leaf: the number is in its      *)
(* range, and the space for them and for the dictionary up to it is there. *)
MutantNoDict(leaf, inum, attrs) ==
  /\ inum - leaf.ibase < entries_per_leaf
  /\ Size(attrs) - Size(ileaf_lookup(leaf, inum)) <= ileaf_free(leaf)
HasSpace(leaf, inum, attrs) ==
  LET at     == inum - leaf.ibase
      extend == IF at < icount(leaf) THEN 0 ELSE at - icount(leaf) + 1
      more   == Size(attrs) - Size(ileaf_lookup(leaf, inum))
  IN  /\ at < entries_per_leaf
      /\ more > 0 => extend + more <= ileaf_free(leaf)

ileaf_resize(leaf, inum, attrs) ==
  LET at     == inum - leaf.ibase
      extend == IF at < icount(leaf) THEN 0 ELSE at - icount(leaf) + 1
  IN  [leaf EXCEPT !.attrs =
         [@ \o [i \in 1..extend |-> NoAttrs] EXCEPT ![at + 1] = attrs]]

(* The first number from the goal on that is not in use in the leaf, if    *)
(* the goal is in its range; it may be the one after the last.             *)
find_empty_inode(leaf, goal) ==
  IF goal - leaf.ibase >= entries_per_leaf THEN goal
  ELSE LET used(n) == n < leaf.ibase + icount(leaf) /\ ileaf_lookup(leaf, n) # NoAttrs IN
       CHOOSE n \in goal..(leaf.ibase + entries_per_leaf) :
         ~used(n) /\ \A k \in goal..(n - 1) : used(k)

ileaf_purge(leaf, inum) ==
  ileaf_trim([leaf EXCEPT !.attrs[inum - leaf.ibase + 1] = NoAttrs])
=============================================================================
