------------------------------ MODULE Filemap ------------------------------
(***************************************************************************)
(* The blocks of a file: map_region (kernel/filemap.c) finds and allocates *)
(* the extents of a range of logical blocks in the btree of the file, and  *)
(* tree_chop (kernel/btree.c) cuts the tree when the file is truncated.    *)
(*                                                                         *)
(* Both hold the lock of the btree from end to end, so that an action is a *)
(* whole call.  What the file was told of its blocks is kept in file.      *)
(* A deleted file makes place for a new one.                               *)
(*                                                                         *)
(* There is always a block for an index node or a leaf; data may find none.*)
(***************************************************************************)
EXTENDS Btree, Dleaf, FiniteSets, TLC

CONSTANTS
  MaxSegs,   \* the segments that a caller has room for
  MAX_EXTENT,
  Blocks,    \* bound: logical blocks, a range around a boundary of groups
  Sizes,     \* bound: sizes of the file, in blocks
  VolBlocks, \* bound: blocks for data on the device
  MaxAside,  \* bound: blocks that await a commit or were not given back
  Spanning   \* whether an extent may span two groups, see SpansGroups

ASSUME FilemapAssumption ==
  /\ MaxSegs \in Nat \ {0} /\ MAX_EXTENT \in Nat \ {0}
  /\ Blocks \subseteq Nat /\ IsFiniteSet(Blocks) /\ Blocks # {}
  /\ Sizes \subseteq Nat /\ IsFiniteSet(Sizes) /\ 0 \in Sizes
  /\ VolBlocks \in Nat /\ MaxAside \in Nat
  /\ Spanning \in BOOLEAN

VARIABLES
  btree,  \* the tree of the file
  i_size, \* its size, in blocks
  used,   \* the data blocks that are allocated
  defree, \* those that the next commit frees
  file,   \* history: where the file's blocks are
  leaked  \* history: blocks that failed calls and deletions lost

vars == <<btree, i_size, used, defree, file, leaked>>

Init ==
  /\ btree = no_root /\ i_size = 0
  /\ used = {} /\ defree = {}
  /\ file = <<>> /\ leaked = {}

-----------------------------------------------------------------------------
(* The place that a call works on, in the tree that it works on.           *)
Rooted(T) == IF has_root(T) THEN T ELSE alloc_empty_btree(dleaf_init)

Smaller(a, b) == IF a < b THEN a ELSE b

seg(block, count, hole) == [block |-> block, count |-> count, hole |-> hole]

(* The segments from start on: an extent of the leaf, or the hole before   *)
(* it.  The first and the last extent may begin and end outside.           *)
Survey(leaf, start, limit) ==
  LET all == Extents(leaf)
      S[n \in 0..MaxSegs] ==
        IF n = 0 THEN [index |-> start, walk |-> dwalk_probe(leaf, start), segs |-> <<>>]
        ELSE LET prev  == S[n - 1]
                 ended == prev.walk = Len(all)
                 ex    == IF ended THEN [index |-> limit] ELSE all[prev.walk + 1]
                 to    == Smaller(ex.index, limit)
             IN  IF prev.index >= limit THEN prev
                 ELSE IF prev.index < ex.index
                 THEN [prev EXCEPT !.index = to,
                                   !.segs  = Append(@, seg(0, to - prev.index, TRUE))]
                 ELSE [index |-> ex.index + ex.count, walk |-> prev.walk + 1,
                       segs  |-> Append(prev.segs, seg(ex.block, ex.count, FALSE))]
  IN  S[MaxSegs]

(* With the parts below start and above limit cut off.                     *)
CutEnds(segs, below, above) ==
  LET headed == [segs EXCEPT ![1].block = @ + below, ![1].count = @ - below] IN
  [headed EXCEPT ![Len(segs)].count = @ - above]

(* What map_region knows before it changes anything.                       *)
Region(T, start, count) ==
  LET path  == probe(T, start)
      leaf  == cursor_leaf(T, path)
      end   == start + count
      limit == Smaller(end, next_key(T, path, T.depth, end))
      walk  == dwalk_probe(leaf, start)
      first == IF dwalk_end(leaf, walk) THEN start ELSE Smaller(start, dwalk_index(leaf, walk))
      S     == Survey(leaf, start, limit)
      above == S.index - Smaller(S.index, limit)
  IN  [path |-> path, leaf |-> leaf, head |-> walk, walk |-> S.walk,
       start |-> start, below |-> start - first, above |-> above,
       segs |-> CutEnds(S.segs, start - first, above)]

-----------------------------------------------------------------------------
(* Segments and blocks.                                                    *)
Span(block, count) == block..(block + count - 1)

SegBlocks(segs) == UNION {Span(segs[i].block, segs[i].count) : i \in {j \in DOMAIN segs : ~segs[j].hole}}

Offset(segs, i) == FoldLeft(LAMBDA sum, s : sum + s.count, 0, SubSeq(segs, 1, i - 1))

(* Logical to physical blocks, as the segments of a range say.             *)
Mapping(start, segs) ==
  LET At(i) == start + Offset(segs, i)
      Seg(b) == CHOOSE i \in DOMAIN segs : b \in Span(At(i), segs[i].count)
      Mapped == UNION {Span(At(i), segs[i].count) : i \in {j \in DOMAIN segs : ~segs[j].hole}}
  IN  [b \in Mapped |-> segs[Seg(b)].block + b - At(Seg(b))]

(* balloc, external: a free run, the first one here; none is ENOSPC.       *)
Runs(taken, count) ==
  {b \in 1..(VolBlocks + 1 - count) : Span(b, count) \cap taken = {}}

balloc(taken, count) == CHOOSE b \in Runs(taken, count) : \A c \in Runs(taken, count) : b <= c

(* The holes are filled one by one, until one finds no space.              *)
FillHoles(segs, taken) ==
  LET Fill(R, s) ==
        IF R.failed \/ ~s.hole THEN [R EXCEPT !.segs = Append(@, s)]
        ELSE IF Runs(R.taken, s.count) = {} THEN [R EXCEPT !.failed = TRUE]
        ELSE LET b == balloc(R.taken, s.count) IN
             [R EXCEPT !.segs = Append(@, seg(b, s.count, FALSE)),
                       !.taken = @ \cup Span(b, s.count)]
  IN  FoldLeft(Fill, [segs |-> <<>>, taken |-> taken, failed |-> FALSE], segs)

-----------------------------------------------------------------------------
(* The new extents are packed in behind what is before the range: the rest *)
(* below it, the segments, the rest above it; then what was behind it.  A  *)
(* leaf that may not have room for one more extent is followed by a new    *)
(* one, whose key is the logical address that has been reached.            *)
item(key, index, block, count) ==
  [key |-> key, index |-> index, block |-> block, count |-> count]

Items(R, segs, rest) ==
  LET At(i) == R.start + Offset(segs, i)
      all   == At(Len(segs) + 1)
  IN  (IF R.below > 0
       THEN <<item(R.start, R.start - R.below, rest.below, R.below)>> ELSE <<>>)
      \o [i \in DOMAIN segs |-> item(At(i), At(i), segs[i].block, segs[i].count)]
      \o (IF R.above > 0 THEN <<item(all, all, rest.above, R.above)>> ELSE <<>>)

(* Where the rests of the extents that the range cuts are.                 *)
Rest(R) == [below |-> R.segs[1].block - R.below,
            above |-> Last(R.segs).block + Last(R.segs).count]

LeafFull(leaf) == dleaf_free(leaf) < DLEAF_MAX_EXTENT_SIZE

Pack(C, x) ==
  LET I == insert_leaf(C.tree, C.path, C.leaf, x.key, dleaf_init) IN
  IF LeafFull(C.leaf)
  THEN [tree |-> I.tree, path |-> I.path,
        leaf |-> dwalk_add(dleaf_init, x.index, x.block, x.count)]
  ELSE [C EXCEPT !.leaf = dwalk_add(@, x.index, x.block, x.count)]

MutantTailFits(leaf, tail) == dleaf_need(tail) <= dleaf_free(leaf)
TailFits(leaf, tail) == dleaf_need(tail) < dleaf_free(leaf)

AddTail(C, tail) ==
  IF tail = dleaf_init THEN store_leaf(C.tree, C.path, C.leaf)
  ELSE IF TailFits(C.leaf, tail)
  THEN store_leaf(C.tree, C.path, dleaf_merge(C.leaf, tail))
  ELSE insert_leaf(C.tree, C.path, C.leaf, Extents(tail)[1].index, tail).tree

StoreSegs(T, R, segs) ==
  LET head  == dwalk_chop(R.leaf, R.head)
      tail  == dwalk_copy(R.leaf, R.walk)
      begun == [tree |-> T, path |-> R.path, leaf |-> head]
  IN  AddTail(FoldLeft(Pack, begun, Items(R, segs, Rest(R))), tail)

-----------------------------------------------------------------------------
(* Bounds.  An extent from one group into the next is not found from its   *)
(* second half, as dwalk_probe looks at one group: Spanning lets it happen.*)
SpansGroups(R) ==
  \E i \in 1..Len(R.segs) :
    LET at == R.start + Offset(R.segs, i) IN
    R.segs[i].hole /\ keyhi(at) # keyhi(at + R.segs[i].count - 1)

Within(R) == SpansGroups(R) => Spanning

Ranges == {r \in Blocks \X (1..MAX_EXTENT) : r[1] + r[2] - 1 \in Blocks}

(* The file learns where its blocks are, and writes them there.            *)
Told(start, segs) == file' = Mapping(start, segs) @@ file

-----------------------------------------------------------------------------
(* A write dirties buffers and raises the size.  The buffers that are      *)
(* dirty are not kept: any may be, at any size, for a truncation leaves    *)
(* those behind its size as they are.                                      *)
tuxio(pos) ==
  /\ i_size < pos
  /\ i_size' = pos
  /\ UNCHANGED <<btree, used, defree, file, leaked>>

(* Dirty blocks of the file are written: those in holes get blocks.        *)
map_region(start, count) ==
  \E T \in {Rooted(btree)} : \E R \in {Region(T, start, count)} :
    /\ Within(R)
    /\ \E F \in {FillHoles(R.segs, used)} :
         /\ ~F.failed
         /\ btree' = StoreSegs(T, R, F.segs)
         /\ used' = F.taken
         /\ Told(start, F.segs)
    /\ UNCHANGED <<i_size, defree, leaked>>

(* -ENOSPC: what has been allocated before is not given back.              *)
map_region_nospace(start, count) ==
  \E T \in {Rooted(btree)} : \E R \in {Region(T, start, count)} :
  \E F \in {FillHoles(R.segs, used)} :
    /\ F.failed
    /\ Cardinality(defree \cup leaked \cup (F.taken \ used)) <= MaxAside
    /\ btree' = T
    /\ used' = F.taken
    /\ leaked' = leaked \cup (F.taken \ used)
    /\ UNCHANGED <<i_size, defree, file>>

(* A block goes to a new place, and the one it had is freed with the next  *)
(* commit: write_bitmap.  (Without space, see InUseAllocated in Commit.)   *)
map_region_redirect(start) ==
  \E T \in {Rooted(btree)} : \E R \in {Region(T, start, 1)} :
    /\ Cardinality(defree \cup leaked \cup SegBlocks(R.segs)) <= MaxAside
    /\ \E F \in {FillHoles(<<seg(0, Offset(R.segs, Len(R.segs) + 1), TRUE)>>, used)} :
         /\ ~F.failed
         /\ btree' = StoreSegs(T, R, F.segs)
         /\ used' = F.taken
         /\ Told(start, F.segs)
    /\ defree' = defree \cup SegBlocks(R.segs)
    /\ UNCHANGED <<i_size, leaked>>

(* The leaves from the first one that is cut on.                           *)
LeafFits(that, this) == dleaf_need(this) <= dleaf_free(that)

tree_chop(T, key) ==
  LET path   == probe(T, key)
      row    == Visited(T, path)[T.depth + 1]
      leaves == [i \in DOMAIN row |->
                   [row[i] EXCEPT !.node = dleaf_chop(@, key).leaf]]
  IN  [tree  |-> chop_nodes(T, path, MergeRow(leaves, LeafFits, dleaf_merge)),
       freed |-> UNION {dleaf_chop(row[i].node, key).freed : i \in DOMAIN row}]

(* What a truncation makes of the tree and of the file.  With the size     *)
(* that the file has already it returns at once.                           *)
Cut(size) ==
  IF size < i_size /\ has_root(btree) THEN tree_chop(btree, size)
  ELSE [tree |-> btree, freed |-> {}]

Kept(size) == [b \in {i \in DOMAIN file : size < i_size => i < size} |-> file[b]]

tuxtruncate(size) ==
  /\ size # i_size
  /\ \E C \in {Cut(size)} : btree' = C.tree /\ used' = used \ C.freed
  /\ file' = Kept(size)
  /\ i_size' = size
  /\ UNCHANGED <<defree, leaked>>

(* free_empty_btree frees the root and one leaf, whatever is in the leaf.  *)
OneLeaf(T) == T.depth = 1 /\ Len(T.root) = 1

(* The rest of tux_delete_inode, which has truncated the file to nothing:  *)
(* blocks that the truncation did not find are lost.  An assertion stops   *)
(* the program, in the state that it is in, if there are more leaves.      *)
tux_delete_inode ==
  /\ i_size = 0 /\ has_root(btree)
  /\ OneLeaf(btree)
  /\ Cardinality(defree \cup leaked \cup Range(file)) <= MaxAside
  /\ btree' = no_root /\ file' = <<>>
  /\ leaked' = leaked \cup Range(file)
  /\ UNCHANGED <<i_size, used, defree>>

(* The end of a commit frees what was deferred.                            *)
retire_bfree ==
  /\ defree # {}
  /\ used' = used \ defree
  /\ defree' = {}
  /\ UNCHANGED <<btree, i_size, file, leaked>>

Next ==
  \/ \E r \in Ranges : map_region(r[1], r[2]) \/ map_region_nospace(r[1], r[2])
  \/ \E start \in Blocks : map_region_redirect(start)
  \/ \E size \in Sizes : tuxio(size) \/ tuxtruncate(size)
  \/ tux_delete_inode \/ retire_bfree

Spec == Init /\ [][Next]_vars

-----------------------------------------------------------------------------
(* The leaves of the tree.                                                 *)
Leaves(T) ==
  LET Row[level \in 1..(T.depth + 1)] ==
        IF level = 1 THEN {T.root}
        ELSE UNION {{node[i].child : i \in DOMAIN node} : node \in Row[level - 1]}
  IN  IF has_root(T) THEN Row[T.depth + 1] ELSE {}

(* Blocks are within their ranges, and every leaf passes dleaf_check: what *)
(* dwalk_add and dleaf_merge pack fits, in order and in groups within      *)
(* their limit.                                                            *)
TypeOK ==
  /\ i_size \in Sizes
  /\ used \subseteq 1..VolBlocks /\ defree \subseteq used /\ leaked \subseteq used
  /\ DOMAIN file \subseteq Blocks /\ Range(file) \subseteq used
  /\ \A leaf \in Leaves(btree) : WellFormed(leaf)

(* Reading from any block on, the file gets its blocks where it was told   *)
(* they are, and holes nowhere else, whatever has been split and merged.   *)
MapKept ==
  has_root(btree) =>
    \A start \in Blocks :
      \E R \in {Region(btree, start, Cardinality({b \in Blocks : b >= start}))} :
        /\ R.segs # <<>>
        /\ LET end == start + Offset(R.segs, Len(R.segs) + 1) IN
           /\ end > start
           /\ Mapping(start, R.segs) = [b \in (start..(end - 1)) \cap DOMAIN file |-> file[b]]

(* No two blocks of the file are in one place, and every allocated block   *)
(* belongs to the file, awaits a commit, or was lost: for want of space,   *)
(* or because it was written after the truncation of a deleted file.       *)
OneOwner ==
  /\ \A a, b \in DOMAIN file : file[a] = file[b] => a = b
  /\ defree \cap Range(file) = {}
  /\ used = Range(file) \cup defree \cup leaked

(* A file of size zero that has no blocks has an empty leaf under the root *)
(* and no more, whatever was in the tree before: free_empty_btree asserts  *)
(* as much when the file is deleted.  (A file of size zero may have blocks *)
(* that were written after its truncation, and truncating it again then    *)
(* does nothing: its deletion loses them, or stops on the assertion.)      *)
TruncatedEmpty ==
  i_size = 0 /\ file = <<>> /\ has_root(btree) =>
    OneLeaf(btree) /\ btree.root[1].child = dleaf_init
=============================================================================
