------------------------------- MODULE Btree -------------------------------
(***************************************************************************)
(* The btree (kernel/btree.c) under the inode table and under every file:  *)
(* its operations, on a tree as a value.  What is in the leaves is left to *)
(* Ileaf and Dleaf.                                                        *)
(*                                                                         *)
(* An index node is a sequence of entries, each with its key and the node  *)
(* or leaf it leads to (the code has the number of its block).  A cursor   *)
(* is the sequence of the places that it has in the nodes from the root    *)
(* down: path[level].next - 1 in the code, which has the buffers as well.  *)
(***************************************************************************)
EXTENDS Integers, Sequences, SequencesExt

CONSTANTS entries_per_node

ASSUME BtreeAssumption == entries_per_node \in Nat \ {0, 1}

index_entry(key, child) == [key |-> key, child |-> child]

no_root == [depth |-> 0, root |-> <<>>]

has_root(T) == T # no_root

alloc_empty_btree(leaf) == [depth |-> 1, root |-> <<index_entry(0, leaf)>>]

-----------------------------------------------------------------------------
(* The nodes along a cursor, the leaf after the last one.                  *)
CursorNodes(T, path) ==
  LET Node[level \in 1..(T.depth + 1)] ==
        IF level = 1 THEN T.root ELSE Node[level - 1][path[level - 1]].child
  IN  Node

cursor_node(T, path, level) == CursorNodes(T, path)[level]

cursor_leaf(T, path) == cursor_node(T, path, T.depth + 1)

(* The tree with another leaf under the cursor.                            *)
store_leaf(T, path, leaf) ==
  LET Nodes == CursorNodes(T, path)
      Up[level \in 1..(T.depth + 1)] ==
        IF level > T.depth THEN leaf
        ELSE [Nodes[level] EXCEPT ![path[level]].child = Up[level + 1]]
  IN  [T EXCEPT !.root = Up[1]]

(* The entry before the first one, the leftmost left aside, with a greater *)
(* key.                                                                    *)
Slot(node, key) ==
  CHOOSE i \in DOMAIN node :
    /\ \A j \in 2..i : node[j].key <= key
    /\ i < Len(node) => node[i + 1].key > key

probe(T, key) ==
  LET Path[level \in 0..T.depth] ==
        IF level = 0 THEN <<>>
        ELSE LET above == Path[level - 1] IN
             Append(above, Slot(cursor_node(T, above, level), key))
  IN  Path[T.depth]

level_finished(T, path, level) == path[level] = Len(cursor_node(T, path, level))

(* The levels, of the first depth ones, in which the cursor can move on.   *)
Open(T, path, depth) == {level \in 1..depth : ~level_finished(T, path, level)}

Deepest(levels) == CHOOSE level \in levels : \A other \in levels : other <= level

(* The key that ends the leaf, as far as the first depth levels show it;   *)
(* none is the greatest key.                                               *)
next_key(T, path, depth, none) ==
  LET open  == Open(T, path, depth)
      level == Deepest(open)
  IN  IF open = {} THEN none ELSE cursor_node(T, path, level)[path[level] + 1].key

(* The cursor of the next leaf; there is one while a level is open.        *)
advance(T, path) ==
  LET level == Deepest(Open(T, path, T.depth)) IN
  [l \in DOMAIN path |-> IF l < level THEN path[l]
                         ELSE IF l = level THEN path[l] + 1 ELSE 1]

-----------------------------------------------------------------------------
(* Insertion: the leaf under the cursor becomes the one given, and a new   *)
(* leaf, with its key, follows it and has the cursor.  A full node is      *)
(* split in the middle, and the new node is added to the level above; the  *)
(* root grows upwards.                                                     *)
(*                                                                         *)
(* Going up, each level has its node, the entry to add to the level above  *)
(* if there is one, the part of the cursor from here down, and whether the *)
(* cursor is now under the entry added.  (From three index levels on, the  *)
(* code leaves a place of the cursor behind when the entry is in the left  *)
(* half of one split node and that one in the right half of the next.  If  *)
(* the same call adds a root, cursor_check finds the place and stops the   *)
(* program, where this operator goes on.  Else no call that goes on with   *)
(* the cursor reaches that level again: a node that has just been split    *)
(* has room for all leaves that one call adds.)                            *)
Half(node) == Len(node) \div 2

(* The place of the new entry in the half that it goes to.                 *)
add_child(node, slot, entry) == InsertAt(node, slot + 1, entry)

split_node(node, slot, entry) ==
  LET half  == Half(node)
      left  == SubSeq(node, 1, half)
      right == SubSeq(node, half + 1, Len(node))
  IN  IF slot <= half
      THEN [node |-> add_child(left, slot, entry), new |-> right]
      ELSE [node |-> left, new |-> add_child(right, slot - half, entry)]

insert_leaf(T, path, leaf, key, new) ==
  LET Nodes == CursorNodes(T, path)
      Up[level \in 1..(T.depth + 1)] ==
        IF level > T.depth
        THEN [node |-> leaf, add |-> <<index_entry(key, new)>>, path |-> <<>>, moved |-> TRUE]
        ELSE
          LET below == Up[level + 1]
              slot  == path[level]
              node  == [Nodes[level] EXCEPT ![slot].child = below.node]
              at    == IF below.moved THEN slot + 1 ELSE slot
              S     == split_node(node, slot, below.add[1])
              half  == Half(node)
          IN  IF below.add = <<>>
              THEN [below EXCEPT !.node = node, !.path = <<slot>> \o @]
              ELSE IF Len(node) < entries_per_node
              THEN [node |-> add_child(node, slot, below.add[1]), add |-> <<>>,
                    path |-> <<at>> \o below.path, moved |-> FALSE]
              ELSE [node  |-> S.node,
                    add   |-> <<index_entry(node[half + 1].key, S.new)>>,
                    path  |-> <<IF slot <= half THEN at ELSE at - half>> \o below.path,
                    moved |-> slot > half]
      top == Up[1]
  IN  IF top.add = <<>> THEN [tree |-> [T EXCEPT !.root = top.node], path |-> top.path]
      ELSE [tree |-> [depth |-> T.depth + 1,
                      root  |-> <<index_entry(0, top.node)>> \o top.add],
            path |-> <<IF top.moved THEN 2 ELSE 1>> \o top.path]

-----------------------------------------------------------------------------
(* Deletion walks from a leaf to the end of the tree, and merges each node *)
(* with the one visited before it in its level if they fit into one.       *)

(* The nodes visited in each level, with their key and with the place of   *)
(* their parent among those visited above.                                 *)
Visited(T, path) ==
  LET Row[level \in 1..(T.depth + 1)] ==
        IF level = 1 THEN <<[parent |-> 0, key |-> 0, node |-> T.root]>>
        ELSE LET above == Row[level - 1]
                 Visits(i) == LET from == IF i = 1 THEN path[level - 1] ELSE 1
                                  node == above[i].node
                              IN  [j \in 1..(Len(node) - from + 1) |->
                                     [parent |-> i, key |-> node[from + j - 1].key,
                                      node |-> node[from + j - 1].child]]
             IN  FlattenSeq([i \in DOMAIN above |-> Visits(i)])
  IN  Row

(* What is left of a level: Fits says when a node can take in the next.    *)
MergeRow(row, Fits(_, _), Merge(_, _)) ==
  LET Visit(kept, item) ==
        IF kept # <<>> /\ Fits(Last(kept).node, item.node)
        THEN [kept EXCEPT ![Len(kept)].node = Merge(@, item.node)]
        ELSE Append(kept, item)
  IN  FoldLeft(Visit, <<>>, row)

(* The entry of a node or leaf that has been merged is removed.  If it is  *)
(* the first of its node, the code moves the separator keys above it up:   *)
(* those of nodes that go too, as all leaves behind the cut one are empty  *)
(* and are merged.                                                         *)
remove_index(row, path_slot, kept) ==
  [i \in DOMAIN row |->
     LET mine == SelectSeq(kept, LAMBDA item : item.parent = i) IN
     [row[i] EXCEPT !.node =
        (IF i = 1 THEN SubSeq(@, 1, path_slot - 1) ELSE <<>>)
          \o [j \in DOMAIN mine |-> index_entry(mine[j].key, mine[j].node)]]]

NodeFits(that, this) == Len(this) <= entries_per_node - Len(that)

merge_nodes(that, this) == that \o this

(* The tree, when leaves is what is left of the leaves visited.            *)
MutantNoDrop(root, depth) == [depth |-> depth, root |-> root]
drop_levels(root, depth) ==
  LET Drop[d \in 1..depth] ==
        LET T == IF d = depth THEN [depth |-> depth, root |-> root] ELSE Drop[d + 1] IN
        IF T.depth = d /\ d > 1 /\ Len(T.root) = 1
        THEN [depth |-> d - 1, root |-> T.root[1].child] ELSE T
  IN  Drop[1]

chop_nodes(T, path, leaves) ==
  LET Row == Visited(T, path)
      Kept[level \in 1..(T.depth + 1)] ==
        IF level > T.depth THEN leaves
        ELSE MergeRow(remove_index(Row[level], path[level], Kept[level + 1]),
                      NodeFits, merge_nodes)
  IN  drop_levels(Kept[1][1].node, T.depth)
=============================================================================
