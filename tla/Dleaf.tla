------------------------------- MODULE Dleaf -------------------------------
(***************************************************************************)
(* Leaves of a file's btree (kernel/dleaf.c): a leaf maps logical blocks   *)
(* to extents.  Its operations, on a leaf as a value.                      *)
(*                                                                         *)
(* A leaf is a sequence of groups, each with the high part of its logical  *)
(* addresses and its entries; an entry has the low part and, as all code   *)
(* assumes, one extent.  The limits of the code's entries are then their   *)
(* places.  A walk over a leaf is the number of extents before it.         *)
(***************************************************************************)
EXTENDS Integers, Sequences, SequencesExt

CONSTANTS
  LoRange,           \* logical addresses with one high part: 2^24 in the code
  MAX_GROUP_ENTRIES, \* 255 in the code
  LeafSpace          \* the space of a leaf, in units of four bytes

GroupSize  == 1
EntrySize  == 1
ExtentSize == 2
DLEAF_MAX_EXTENT_SIZE == GroupSize + EntrySize + ExtentSize

ASSUME DleafAssumption ==
  /\ LoRange \in Nat \ {0} /\ MAX_GROUP_ENTRIES \in Nat \ {0}
  /\ LeafSpace \in Nat /\ LeafSpace >= 2 * DLEAF_MAX_EXTENT_SIZE

keyhi(index) == index \div LoRange
keylo(index) == index % LoRange

get_index(group, entry) == group.keyhi * LoRange + entry.keylo

-----------------------------------------------------------------------------
(* The extents of a leaf in order, each with its logical address.          *)
Extents(leaf) ==
  FlattenSeq([g \in DOMAIN leaf |->
    [e \in DOMAIN leaf[g].entries |->
       [index |-> get_index(leaf[g], leaf[g].entries[e]),
        block |-> leaf[g].entries[e].block,
        count |-> leaf[g].entries[e].count]]])

(* How many there are in the groups before one.                            *)
Before(leaf, g) == Len(Extents(SubSeq(leaf, 1, g - 1)))

dleaf_init == <<>>

dleaf_need(leaf) ==
  Len(leaf) * GroupSize + Len(Extents(leaf)) * (EntrySize + ExtentSize)

dleaf_free(leaf) == LeafSpace - dleaf_need(leaf)

dwalk_end(leaf, walk) == walk = Len(Extents(leaf))

dwalk_index(leaf, walk) == Extents(leaf)[walk + 1].index

(* The walk stops at a group that begins after the key, or at the last one *)
(* that begins before it among those with its high part.                   *)
Stops(leaf, key, g) ==
  LET hi(k)  == leaf[k].keyhi
      low(k) == leaf[k].entries[1].keylo
  IN  \/ hi(g) > keyhi(key)
      \/ /\ hi(g) = keyhi(key)
         /\ \/ low(g) > keylo(key)
            \/ g = Len(leaf)
            \/ hi(g + 1) > keyhi(key)
            \/ low(g + 1) > keylo(key)

(* The extent with the key or, without one, the next extent.               *)
dwalk_probe(leaf, key) ==
  LET stops == {g \in DOMAIN leaf : Stops(leaf, key, g)}
      g     == CHOOSE h \in stops : \A k \in stops : h <= k
      first == Before(leaf, g)
      lower == {e \in DOMAIN leaf[g].entries :
                  leaf[g].keyhi = keyhi(key) /\ leaf[g].entries[e].keylo <= keylo(key)}
      entry == CHOOSE e \in lower : \A k \in lower : k <= e
      found == leaf[g].entries[entry]
  IN  IF stops = {} THEN Len(Extents(leaf))
      ELSE IF lower = {} THEN first
      ELSE IF key < get_index(leaf[g], found) + found.count THEN first + entry - 1
      ELSE first + entry

-----------------------------------------------------------------------------
(* A leaf without the groups that have become empty.                       *)
Trim(leaf) == SelectSeq(leaf, LAMBDA group : group.entries # <<>>)

Upto(s, n) == SubSeq(s, 1, IF n < Len(s) THEN n ELSE Len(s))
From(s, n) == SubSeq(s, IF n < 0 THEN 1 ELSE n + 1, Len(s))

(* The extents from the walk on, and those before it.                      *)
dwalk_copy(leaf, walk) ==
  Trim([g \in DOMAIN leaf |->
          [leaf[g] EXCEPT !.entries = From(@, walk - Before(leaf, g))]])

dwalk_chop(leaf, walk) ==
  Trim([g \in DOMAIN leaf |->
          [leaf[g] EXCEPT !.entries = Upto(@, walk - Before(leaf, g))]])

(* With an extent added at the end.  A group takes no more than its limit. *)
MutantGroupFull(leaf, index) == leaf # <<>> /\ Last(leaf).keyhi = keyhi(index)
GroupHasRoom(leaf, index) ==
  /\ leaf # <<>>
  /\ Last(leaf).keyhi = keyhi(index)
  /\ Len(Last(leaf).entries) < MAX_GROUP_ENTRIES

dwalk_add(leaf, index, block, count) ==
  LET entry == [keylo |-> keylo(index), block |-> block, count |-> count] IN
  IF GroupHasRoom(leaf, index)
  THEN [leaf EXCEPT ![Len(leaf)].entries = Append(@, entry)]
  ELSE Append(leaf, [keyhi |-> keyhi(index), entries |-> <<entry>>])

(* The first group of the leaf merged may fill up the last one of the leaf *)
(* that takes it in; the rest of it stays a group.                         *)
dleaf_merge(leaf, from) ==
  LET last == Last(leaf)
      head == from[1]
      room == IF last.keyhi = head.keyhi THEN MAX_GROUP_ENTRIES - Len(last.entries) ELSE 0
  IN  IF from = <<>> THEN leaf
      ELSE IF leaf = <<>> THEN from
      ELSE Trim([leaf EXCEPT ![Len(leaf)].entries = @ \o Upto(head.entries, room)]
                  \o <<[head EXCEPT !.entries = From(@, room)]>> \o Tail(from))

(* With its last extent cut short.                                         *)
dwalk_update(leaf, count) ==
  [leaf EXCEPT ![Len(leaf)].entries[Len(Last(leaf).entries)].count = count]

Part(extent, from) == (extent.block + from)..(extent.block + extent.count - 1)

(* The extents before chop, with the one that it cuts, and the blocks that *)
(* are freed: a part of that one and the whole of those behind it.         *)
MutantKeepPart(leaf, walk, chop) == {}
PartFreed(leaf, walk, chop) ==
  LET extent == Extents(leaf)[walk + 1] IN Part(extent, chop - extent.index)

dleaf_chop(leaf, chop) ==
  LET walk  == dwalk_probe(leaf, chop)
      cut   == ~dwalk_end(leaf, walk) /\ dwalk_index(leaf, walk) < chop
      rest  == IF cut THEN walk + 1 ELSE walk
      gone  == From(Extents(leaf), rest)
      whole == UNION {Part(gone[i], 0) : i \in DOMAIN gone}
      head  == dwalk_chop(leaf, rest)
  IN  IF cut THEN [leaf  |-> dwalk_update(head, chop - dwalk_index(leaf, walk)),
                   freed |-> whole \cup PartFreed(leaf, walk, chop)]
      ELSE [leaf |-> head, freed |-> whole]

-----------------------------------------------------------------------------
(* dleaf_check: groups and entries are in order, and none is empty.        *)
WellFormed(leaf) ==
  /\ \A g \in DOMAIN leaf :
       /\ Len(leaf[g].entries) \in 1..MAX_GROUP_ENTRIES
       /\ g > 1 => leaf[g].keyhi >= leaf[g - 1].keyhi
       /\ \A e \in 2..Len(leaf[g].entries) :
            leaf[g].entries[e].keylo > leaf[g].entries[e - 1].keylo
  /\ dleaf_free(leaf) >= 0
=============================================================================
