------------------------------ MODULE Recovery ------------------------------
(***************************************************************************)
(* What replay() (user/kernel/replay.c) makes of the device when the       *)
(* machine has stopped in some state of Commit: it loads the logcount log  *)
(* blocks of the chain, checks them in a first pass, and in a second one   *)
(* applies their allocations and frees to the bitmap with update_bitmap    *)
(* (balloc.c).  The module adds no step to Commit, it only looks at the    *)
(* device.                                                                 *)
(***************************************************************************)
EXTENDS Commit, FiniteSets

CONSTANT
  CountRange    \* the range of a count of blocks (unsigned): 2^32

ASSUME RecoveryAssumption == CountRange \in Nat \ {0}

(* The entries of the committed log, block by block, the oldest first.     *)
LoadedLog == [k \in 1..super.logcount |-> disk[ChainAt(super.logcount - k)].entries]

(* The first pass knows index entries and extents; a new root or a split   *)
(* is an unrecognized code, and replay returns before it changes anything. *)
Recognized(blocks) ==
  \A k \in DOMAIN blocks : \A i \in DOMAIN blocks[k] :
    blocks[k][i].op \notin {"bnode_root", "bnode_split"}

(* update_bitmap, with v the bits and the free count: an allocation of a   *)
(* block that is taken, or a free of one that is not, changes nothing.     *)
(* The count goes up either way: -count is unsigned.                       *)
update_bitmap(v, b, set) ==
  IF set
  THEN IF b \in v.bits THEN v
       ELSE [bits |-> v.bits \cup {b}, free |-> v.free + 1]
  ELSE IF b \notin v.bits THEN v
       ELSE [bits |-> v.bits \ {b}, free |-> v.free + (CountRange - 1)]

replay_entry(v, e) ==
  IF e.op \in {"balloc", "bfree", "bfree_on_rollup"}
  THEN update_bitmap(v, e.block, e.op = "balloc")
  ELSE v

(* The loop over the entries of a log block, and that over the blocks.     *)
replay_block(v, es) ==
  LET after[i \in 0..Len(es)] == IF i = 0 THEN v ELSE replay_entry(after[i - 1], es[i])
  IN  after[Len(es)]

replay(img) ==
  LET loaded == LoadedLog
      after[k \in 0..super.logcount] ==
        IF k = 0 THEN [bits |-> img, free |-> VolBlocks - Cardinality(img)]
        ELSE replay_block(after[k - 1], loaded[k])
  IN  after[super.logcount]

-----------------------------------------------------------------------------
(* The states in which the device is what the commits have left on it: no  *)
(* log block and no bitmap got lost on the way, and sync_super has not     *)
(* given up half way.                                                      *)
Orderly == failed \cap {"bitmap", "log", "sync"} = {} /\ dead # "cleanup"

(* Every bitmap image that the committed log starts from is still there:   *)
(* neither of the last two places of the bitmap is given away before the   *)
(* superblock has left it behind.                                          *)
ImagesKept == Orderly => \A loc \in super.maps : disk[loc].kind = "map"

(* Whenever the machine stops, but between the two halves of sync_super,   *)
(* replay either refuses the committed log or makes of it a bitmap in      *)
(* which every extent, index node and logged leaf of the committed state   *)
(* is allocated: an allocation is in the log from the moment the image was *)
(* cut off, no free in the log hits a block that has been taken again, and *)
(* the index nodes of a log that is not refused are all in the image.  Not *)
(* claimed of the leaves of map_region, which nothing logs, and of the log *)
(* blocks, which replay does not mark.                                     *)
ReplayCovers ==
  Orderly /\ stage.at # "sync" /\ Recognized(LoadedLog) =>
    \A loc \in super.maps : super.used \subseteq replay(disk[loc].img).bits
=============================================================================
