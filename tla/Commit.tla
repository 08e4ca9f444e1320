------------------------------- MODULE Commit -------------------------------
(***************************************************************************)
(* Delta commit and log rollup (user/kernel/commit.c with log.c,           *)
(* write_bitmap of user/filemap.c and sync_super of user/writeback.c).     *)
(*                                                                         *)
(* Changes run under the read side of delta_lock and log what they do to   *)
(* blocks.  Every DeltaEvery-th change_end takes the write side and        *)
(* commits: it writes the pending log blocks, each chained to the one      *)
(* before, then the superblock, and only then frees the blocks whose       *)
(* freeing was deferred to this commit.  Every RollupEvery-th commit       *)
(* starts a new log cycle first: it writes the allocation bitmap to a new  *)
(* place, and the log blocks of the cycle before last become free.         *)
(*                                                                         *)
(* A step of a commit is what lies between two writes to the device, so    *)
(* that every state is a state in which the machine may stop.  The volume  *)
(* is small enough for its bitmap to be one block, and every extent is one *)
(* block long.                                                             *)
(***************************************************************************)
EXTENDS Integers, Sequences, Functions

CONSTANTS
  Task,         \* the tasks that change the filesystem
  VolBlocks,    \* blocks of the volume past the superblock area
  DeltaEvery,   \* need_delta: 10 in the code
  RollupEvery,  \* need_rollup: 3 in the code
  LogCap,       \* entries that fit in a log block
  BLOCKDIRTY,   \* the build option: bitmap buffers fork when redirtied
  Faults,       \* the device writes that may fail: "map", "log", "super"
  MaxDelta,     \* bound on the number of commits
  MaxEntries    \* bound on the entries that the changes of a delta log

ASSUME CommitAssumption ==
  /\ VolBlocks \in Nat \ {0, 1}    \* make_tux3 takes the first two
  /\ DeltaEvery \in Nat \ {0} /\ RollupEvery \in Nat \ {0}
  /\ LogCap \in Nat \ {0}
  /\ BLOCKDIRTY \in BOOLEAN
  /\ Faults \subseteq {"map", "log", "super"}
  /\ MaxDelta \in Nat /\ MaxEntries \in Nat

VARIABLES
  bitmap,       \* the blocks that are allocated
  nextalloc,    \* sb->nextalloc
  live,         \* the blocks of files and trees whose allocation was logged
  nodes,        \* the index nodes, whose allocation is not logged as one
  leaves,       \* the leaves of map_region, whose allocation is not logged
  bmloc,        \* where the data tree of the bitmap file puts its block
  oldloc,       \* history: where it was before the last rollup
  bm,           \* the bitmap buffer: its state, and is it on map->dirty?
  cut,          \* rollup_log's io_buffers: the spliced bitmap buffer, if any
  log,          \* sb->logbase, next_logbase, logthis, lognext, logchain
  pend,         \* the log blocks logthis..lognext-1, as their entries
  open,         \* sb->logbuf # NULL: the last of them is being filled
  defree, derollup, decycle, new_decycle,   \* the stashes of deferred frees
  count,        \* sb->delta, sb->rollup and the two crudehack counters
  stage,        \* where do_commit is
  pc, mydelta,  \* where each task is, and the delta its change_end has seen
  disk,         \* what is on the device
  super,        \* the superblock on the device
  failed,       \* history: the failures that a commit has met
  dead          \* the assertion that has stopped the program, if any

memory == <<bitmap, nextalloc, live, nodes, leaves, bmloc, oldloc, bm>>
logs   == <<log, pend, open>>
stashes == <<defree, derollup, decycle, new_decycle>>
locks  == <<stage, pc, mydelta>>
vars   == <<memory, cut, logs, stashes, count, locks, disk, super, failed, dead>>

Block   == 0..(VolBlocks - 1)
NoBlock == -1
Clean   == -1    \* BUFFER_CLEAN; the dirty states are 0..3
NoCut   == [img |-> {}, state |-> Clean]

Ops == {"balloc", "bfree", "bfree_on_rollup", "bnode_add", "bnode_root", "bnode_split"}
Entry(op, b) == [op |-> op, block |-> b]

(* What a block of the device holds: a log block, an image of the bitmap,  *)
(* or anything else.                                                       *)
LogBlock(i, chain, entries) ==
  [kind |-> "log", index |-> i, chain |-> chain, entries |-> entries, img |-> {}]
MapBlock(img) ==
  [kind |-> "map", index |-> 0, chain |-> NoBlock, entries |-> <<>>, img |-> img]
Data == [kind |-> "data", index |-> 0, chain |-> NoBlock, entries |-> <<>>, img |-> {}]

EmptyStash == [page |-> FALSE, vals |-> <<>>]

(* make_tux3 and its sync_super: the bitmap is in block 0, the root of a   *)
(* tree in block 1, the log is empty.  The superblock carries, beside what *)
(* save_sb writes, the history that the properties compare with: the       *)
(* blocks in use at the commit but for the leaves of map_region and the    *)
(* log itself, the places of the bitmap images that the committed log      *)
(* starts from, the index of its first log block, and the delta.           *)
Init ==
  /\ bitmap = {0, 1} /\ nextalloc = 2
  /\ live = {1} /\ nodes = {} /\ leaves = {} /\ bmloc = 0 /\ oldloc = 0
  /\ bm = [state |-> Clean, listed |-> FALSE]
  /\ cut = NoCut
  /\ log = [base |-> 0, nbase |-> 0, this |-> 0, next |-> 0, chain |-> NoBlock]
  /\ pend = <<>> /\ open = FALSE
  /\ defree = EmptyStash /\ derollup = EmptyStash
  /\ decycle = EmptyStash /\ new_decycle = EmptyStash
  /\ count = [delta |-> 0, rollup |-> 0, ends |-> 0, commits |-> 0]
  /\ stage = [at |-> "idle", done |-> 0]
  /\ pc = [t \in Task |-> "out"] /\ mydelta = [t \in Task |-> 0]
  /\ disk = [b \in Block |-> IF b = 0 THEN MapBlock({0, 1}) ELSE Data]
  /\ super = [chain |-> NoBlock, logcount |-> 0, next_logcount |-> 0,
              used |-> {0, 1}, maps |-> {0}, base |-> 0, delta |-> 0]
  /\ failed = {} /\ dead = "no"

-----------------------------------------------------------------------------
(* balloc(sb, 1, &block): the first free block from the goal on, around    *)
(* the end of the volume.                                                  *)
Distance(b) == (b - nextalloc) % VolBlocks

balloc(b) ==
  /\ b \in Block \ bitmap
  /\ \A f \in Block \ bitmap : Distance(b) <= Distance(f)

Full == Block \subseteq bitmap

(* The bitmap buffer m after balloc or bfree has changed a bit in cycle r. *)
(* With BLOCKDIRTY a buffer that is dirty in another cycle is forked and   *)
(* the clone goes on the dirty list; without it a dirty buffer stays where *)
(* it is and a clean one gets state 0.                                     *)
blockdirty(m, r) ==
  IF BLOCKDIRTY
  THEN IF m.state = r % 4 THEN m ELSE [state |-> r % 4, listed |-> TRUE]
  ELSE IF m.state # Clean THEN m ELSE [state |-> 0, listed |-> TRUE]

(* The log blocks after one more entry: log_begin opens a block when there *)
(* is none, or when the entry does not fit in the current one.             *)
log_entry(blocks, isopen, e) ==
  IF isopen /\ Len(blocks[Len(blocks)]) < LogCap
  THEN [blocks EXCEPT ![Len(blocks)] = Append(@, e)]
  ELSE Append(blocks, <<e>>)

log_entries(blocks, isopen, es) ==
  LET after[i \in 0..Len(es)] ==
        IF i = 0 THEN blocks ELSE log_entry(after[i - 1], isopen \/ i > 1, es[i])
  IN  after[Len(es)]

(* lognext moves with the number of blocks.                                *)
Logged(es) ==
  /\ pend' = log_entries(pend, open, es)
  /\ open' = (open \/ es # <<>>)
  /\ log' = [log EXCEPT !.next = log.this + Len(pend')]

EntriesInDelta ==
  LET n[i \in 0..Len(pend)] == IF i = 0 THEN 0 ELSE n[i - 1] + Len(pend[i])
  IN  n[Len(pend)]

stash_value(s, b) == [page |-> TRUE, vals |-> Append(s.vals, b)]
stash_values(s, bs) == [page |-> s.page \/ bs # <<>>, vals |-> s.vals \o bs]
Unstashed(s) == [s EXCEPT !.vals = <<>>]

Die(assertion) == dead' = assertion /\ UNCHANGED failed

Alive == dead = "no"

-----------------------------------------------------------------------------
(* The lock: writers exclude everyone, and a waiting writer holds off new  *)
(* readers (down_read and down_write of the kernel's rw_semaphore).        *)
Committing == \E t \in Task : pc[t] = "commit"

change_begin(t) ==
  /\ Alive /\ pc[t] = "out"
  /\ \A u \in Task : pc[u] \notin {"commit", "want"}
  /\ stage.at # "sync" /\ count.delta < MaxDelta
  /\ pc' = [pc EXCEPT ![t] = "in"]
  /\ UNCHANGED <<memory, cut, logs, stashes, count, stage, mydelta, disk, super, failed, dead>>

(* A change allocates a block and logs it (an extent of map_region, a leaf *)
(* of btree_leaf_split or alloc_empty_btree).                              *)
(* The block is dirty in cache from now on and may reach the device at any *)
(* time: it is taken to be there at once.                                  *)
AllocLogged(t) ==
  /\ Alive /\ pc[t] = "in" /\ EntriesInDelta < MaxEntries
  /\ \E b \in Block :
       /\ balloc(b)
       /\ bitmap' = bitmap \cup {b} /\ nextalloc' = b + 1
       /\ live' = live \cup {b}
       /\ disk' = [disk EXCEPT ![b] = Data]
       /\ Logged(<<Entry("balloc", b)>>)
  /\ bm' = blockdirty(bm, count.rollup)
  /\ UNCHANGED <<nodes, leaves, bmloc, oldloc, cut, stashes, count, locks, super, failed, dead>>

(* map_region adds a leaf: only the entry in the index node is logged.     *)
AllocLeaf(t) ==
  /\ Alive /\ pc[t] = "in" /\ EntriesInDelta < MaxEntries
  /\ \E b \in Block :
       /\ balloc(b)
       /\ bitmap' = bitmap \cup {b} /\ nextalloc' = b + 1
       /\ leaves' = leaves \cup {b}
       /\ disk' = [disk EXCEPT ![b] = Data]
       /\ Logged(<<Entry("bnode_add", b)>>)
  /\ bm' = blockdirty(bm, count.rollup)
  /\ UNCHANGED <<live, nodes, bmloc, oldloc, cut, stashes, count, locks, super, failed, dead>>

(* insert_leaf adds a child that was allocated before to an index node.    *)
AddChild(t, child) ==
  /\ Alive /\ pc[t] = "in" /\ EntriesInDelta < MaxEntries
  /\ child \in live \cup nodes
  /\ Logged(<<Entry("bnode_add", child)>>)
  /\ UNCHANGED <<memory, cut, stashes, count, locks, disk, super, failed, dead>>

(* A change adds an index node: the log says of which node it is the right *)
(* half (insert_leaf), or that it is a root (insert_leaf when the root was *)
(* split, alloc_empty_btree).                                              *)
AllocNode(t, op) ==
  /\ Alive /\ pc[t] = "in" /\ EntriesInDelta < MaxEntries
  /\ \E b \in Block :
       /\ balloc(b)
       /\ bitmap' = bitmap \cup {b} /\ nextalloc' = b + 1
       /\ nodes' = nodes \cup {b}
       /\ disk' = [disk EXCEPT ![b] = Data]
       /\ Logged(<<Entry(op, b)>>)
  /\ bm' = blockdirty(bm, count.rollup)
  /\ UNCHANGED <<live, leaves, bmloc, oldloc, cut, stashes, count, locks, super, failed, dead>>

(* A change frees a block on the spot, without a log entry (dleaf_chop,    *)
(* blockput_free, free_empty_btree).                                       *)
FreeNow(t, b) ==
  /\ Alive /\ pc[t] = "in" /\ b \in live \cup nodes \cup leaves
  /\ bitmap' = bitmap \ {b}
  /\ live' = live \ {b} /\ nodes' = nodes \ {b} /\ leaves' = leaves \ {b}
  /\ bm' = blockdirty(bm, count.rollup)
  /\ UNCHANGED <<nextalloc, bmloc, oldloc, cut, logs, stashes, count, locks, disk, super, failed, dead>>

(* change_end of a change that is not the last of its delta.               *)
change_end(t) ==
  /\ Alive /\ pc[t] = "in"
  /\ count' = [count EXCEPT !.ends = (@ + 1) % DeltaEvery]
  /\ IF count'.ends # 0
     THEN pc' = [pc EXCEPT ![t] = "out"] /\ UNCHANGED mydelta
     ELSE /\ pc' = [pc EXCEPT ![t] = "want"]
          /\ mydelta' = [mydelta EXCEPT ![t] = count.delta]
  /\ UNCHANGED <<memory, cut, logs, stashes, stage, disk, super, failed, dead>>

MutantKeepLock(t) == pc' = [pc EXCEPT ![t] = "commit"]
up_write(t) == pc' = [pc EXCEPT ![t] = "out"]

(* change_end has the lock: has someone else committed the delta?          *)
MutantUnchecked(t) == TRUE
Overtaken(t) == count.delta # mydelta[t]

(* down_write in change_end, and someone else has committed the delta.     *)
CommitSkipped(t) ==
  /\ Alive /\ pc[t] = "want"
  /\ \A u \in Task : pc[u] \notin {"in", "commit"}
  /\ Overtaken(t)
  /\ up_write(t)
  /\ UNCHANGED <<memory, cut, logs, stashes, count, stage, mydelta, disk, super, failed, dead>>

(* do_commit: a new delta starts, maybe with a rollup.                     *)
do_commit(t) ==
  /\ Alive /\ pc[t] = "want"
  /\ \A u \in Task : pc[u] \notin {"in", "commit"}
  /\ count.delta = mydelta[t]
  /\ pc' = [pc EXCEPT ![t] = "commit"]
  /\ count' = [count EXCEPT !.delta = @ + 1, !.commits = (@ + 1) % RollupEvery]
  /\ stage' = [at |-> IF count'.commits = 0 THEN "rollup" ELSE "log", done |-> 0]
  /\ UNCHANGED <<memory, cut, logs, stashes, mydelta, disk, super, failed, dead>>

(* force_delta: a commit that may not roll up.                             *)
force_delta(t) ==
  /\ Alive /\ pc[t] = "out" /\ stage.at # "sync" /\ count.delta < MaxDelta
  /\ \A u \in Task : pc[u] \notin {"in", "commit", "want"}
  /\ pc' = [pc EXCEPT ![t] = "commit"]
  /\ mydelta' = [mydelta EXCEPT ![t] = count.delta]
  /\ count' = [count EXCEPT !.delta = @ + 1]
  /\ stage' = [at |-> "log", done |-> 0]
  /\ UNCHANGED <<memory, cut, logs, stashes, disk, super, failed, dead>>

(* The log blocks that stay needed from now on, and those that become free *)
(* at the end of the new cycle.                                            *)
MutantEmptyLog == log.next
MutantOffByOne == log.next + 1
NextLogbase == log.nbase

MutantNotEmptied == new_decycle
EmptiedStash == Unstashed(decycle)

(* rollup_log up to the bitmap: the dirty list is cut off, the log enters  *)
(* the next cycle, the log blocks of the cycle that ends are logged as     *)
(* free and deferred to this commit together with what the last rollup     *)
(* has deferred.                                                           *)
new_cycle_log(t) ==
  LET bfrees == [i \in DOMAIN decycle.vals |-> Entry("bfree", decycle.vals[i])]
      blocks == log_entries(pend, FALSE, bfrees)
  IN
  /\ Alive /\ pc[t] = "commit" /\ stage.at = "rollup"
  /\ ~open
  /\ count' = [count EXCEPT !.rollup = @ + 1]
  /\ cut' = IF bm.listed THEN [img |-> bitmap, state |-> bm.state] ELSE NoCut
  /\ bm' = [bm EXCEPT !.listed = FALSE]
  /\ pend' = blocks
  /\ open' = (bfrees # <<>>)
  /\ log' = [log EXCEPT !.base = NextLogbase, !.nbase = log.next,
                         !.next = log.this + Len(blocks)]
  /\ defree' = stash_values(defree, decycle.vals \o derollup.vals)
  /\ decycle' = new_decycle
  /\ new_decycle' = EmptiedStash
  /\ derollup' = Unstashed(derollup)
  /\ stage' = [at |-> IF bm.listed THEN "bitmap" ELSE "log", done |-> 0]
  /\ UNCHANGED <<bitmap, nextalloc, live, nodes, leaves, bmloc, oldloc, pc, mydelta, disk, super, failed, dead>>

(* new_cycle_log asserts that no log block is open.                        *)
new_cycle_log_asserts(t) ==
  /\ Alive /\ pc[t] = "commit" /\ stage.at = "rollup"
  /\ open
  /\ Die("new_cycle_log")
  /\ UNCHANGED <<memory, cut, logs, stashes, count, locks, disk, super>>

(* The bitmap buffer that goes to the device: the forked one as it was     *)
(* when it was cut off, or the only one as it is now.                      *)
Image(now) == IF BLOCKDIRTY THEN cut.img ELSE now

(* map_bfree of the old place of the bitmap.                               *)
MutantFreeSoon(b) == defree' = stash_value(defree, b) /\ UNCHANGED derollup
map_bfree(b) == derollup' = stash_value(derollup, b) /\ UNCHANGED defree

(* write_bitmap: the old place is freed one rollup later, a new one is     *)
(* allocated, logged and written.                                          *)
write_bitmap(t, b) ==
  /\ Alive /\ pc[t] = "commit" /\ stage.at = "bitmap"
  /\ balloc(b)
  /\ bitmap' = bitmap \cup {b} /\ nextalloc' = b + 1
  /\ bmloc' = b /\ oldloc' = bmloc
  /\ map_bfree(bmloc)
  /\ Logged(<<Entry("bfree_on_rollup", bmloc), Entry("balloc", b)>>)
  /\ cut' = NoCut
  /\ IF cut.state = (count.rollup - 1) % 4
     THEN \/ /\ disk' = [disk EXCEPT ![b] = MapBlock(Image(bitmap'))]
             /\ bm' = IF BLOCKDIRTY THEN blockdirty(bm, count.rollup)
                      ELSE [state |-> Clean, listed |-> FALSE]
             /\ stage' = [at |-> "log", done |-> 0]
             /\ UNCHANGED <<failed, dead>>
          \/ /\ "map" \in Faults
             /\ Die("io_buffers")
             /\ UNCHANGED <<disk, bm, stage>>
     ELSE /\ Die("buffer_state")
          /\ UNCHANGED <<disk, bm, stage>>
  /\ UNCHANGED <<live, nodes, leaves, decycle, new_decycle, count, pc, mydelta, super>>

(* write_bitmap finds no space for the new place: rollup_log and do_commit *)
(* return, after the old place has been logged and deferred.               *)
write_bitmap_enospc(t) ==
  /\ Alive /\ pc[t] = "commit" /\ stage.at = "bitmap"
  /\ Full
  /\ map_bfree(bmloc)
  /\ Logged(<<Entry("bfree_on_rollup", bmloc)>>)
  /\ cut' = NoCut
  /\ failed' = failed \cup {"bitmap"}
  /\ pc' = [pc EXCEPT ![t] = "out"]
  /\ stage' = [at |-> "idle", done |-> 0]
  /\ UNCHANGED <<memory, decycle, new_decycle, count, mydelta, disk, super, dead>>

(* write_log: the next pending log block gets a place and is written.      *)
write_log(t) ==
  /\ Alive /\ pc[t] = "commit" /\ stage.at = "log"
  /\ stage.done < Len(pend)
  /\ \E b \in Block :
       /\ balloc(b)
       /\ bitmap' = bitmap \cup {b} /\ nextalloc' = b + 1
       /\ disk' = [disk EXCEPT ![b] =
            LogBlock(log.this + stage.done, log.chain, pend[stage.done + 1])]
       /\ new_decycle' = stash_value(new_decycle, b)
       /\ log' = [log EXCEPT !.chain = b]
  /\ bm' = blockdirty(bm, count.rollup)
  /\ open' = FALSE
  /\ stage' = [stage EXCEPT !.done = @ + 1]
  /\ UNCHANGED <<live, nodes, leaves, bmloc, oldloc, cut, pend, defree, derollup, decycle, count, pc, mydelta,
                 super, failed, dead>>

(* write_log gives up, on a failed write or for want of a block: logthis   *)
(* stays and do_commit goes on.                                            *)
write_log_fails(t) ==
  /\ Alive /\ pc[t] = "commit" /\ stage.at = "log"
  /\ stage.done < Len(pend)
  /\ \/ Full /\ UNCHANGED <<nextalloc, bm>>
     \/ /\ "log" \in Faults
        /\ \E b \in Block : balloc(b) /\ nextalloc' = b + 1
        /\ bm' = blockdirty(bm, count.rollup)
  /\ open' = FALSE
  /\ failed' = failed \cup {"log"}
  /\ stage' = [at |-> "super", done |-> 0]
  /\ UNCHANGED <<bitmap, live, nodes, leaves, bmloc, oldloc, cut, log, pend, stashes, count, pc, mydelta,
                 disk, super, dead>>

write_log_done(t) ==
  /\ Alive /\ pc[t] = "commit" /\ stage.at = "log"
  /\ stage.done = Len(pend)
  /\ pend' = <<>> /\ open' = FALSE
  /\ log' = [log EXCEPT !.this = log.next]
  /\ stage' = [at |-> "super", done |-> 0]
  /\ UNCHANGED <<memory, cut, stashes, count, pc, mydelta, disk, super, failed, dead>>

(* retire_bfree refuses an entry whose bit is zero: it is free already, or *)
(* an entry before it in the stash has freed it.                           *)
Refused(vals) ==
  {j \in DOMAIN vals : vals[j] \notin bitmap \/ \E i \in 1..(j - 1) : vals[i] = vals[j]}

(* The entries that unstash frees: all before the first that is refused.   *)
Retired(vals) ==
  {vals[i] : i \in {j \in DOMAIN vals : \A r \in Refused(vals) : j < r}}

(* What is freed when the superblock could not be written: nothing.        *)
MutantRetireAnyway == bitmap' = bitmap \ Retired(defree.vals)
NotRetired == UNCHANGED bitmap

(* commit_delta: the superblock seals the delta, then the frees deferred   *)
(* to this commit are carried out.  unstash empties the stash only if none *)
(* was refused.                                                            *)
commit_delta(t) ==
  /\ Alive /\ pc[t] = "commit" /\ stage.at = "super"
  /\ super' = [chain |-> log.chain, logcount |-> log.next - log.base,
               next_logcount |-> log.next - log.nbase,
               used |-> live \cup nodes \cup {bmloc}, maps |-> {bmloc, oldloc},
               base |-> log.base, delta |-> count.delta]
  /\ bitmap' = bitmap \ Retired(defree.vals)
  /\ bm' = IF Retired(defree.vals) = {} THEN bm ELSE blockdirty(bm, count.rollup)
  /\ IF Refused(defree.vals) = {}
     THEN defree' = Unstashed(defree) /\ UNCHANGED failed
     ELSE failed' = failed \cup {"retire"} /\ UNCHANGED defree
  /\ pc' = [pc EXCEPT ![t] = "out"]
  /\ stage' = [at |-> "idle", done |-> 0]
  /\ UNCHANGED <<nextalloc, live, nodes, leaves, bmloc, oldloc, cut, logs, derollup, decycle, new_decycle,
                 count, mydelta, disk, dead>>

(* save_sb fails: nothing is freed yet.                                    *)
commit_delta_fails(t) ==
  /\ Alive /\ pc[t] = "commit" /\ stage.at = "super"
  /\ "super" \in Faults
  /\ failed' = failed \cup {"super"}
  /\ pc' = [pc EXCEPT ![t] = "out"]
  /\ stage' = [at |-> "idle", done |-> 0]
  /\ NotRetired
  /\ UNCHANGED <<nextalloc, live, nodes, leaves, bmloc, oldloc, bm, cut, logs, stashes, count, mydelta, disk, super, dead>>

(* sync_super, the older way to write everything back: dirty buffers are   *)
(* written in place, then the log is thrown away and the superblock        *)
(* written; the stashes must never have been used.  (The extents that the  *)
(* flush allocates are logged by map_region and thrown away with the log:  *)
(* as AllocLogged just before.)  No change runs beside it: what calls it   *)
(* is the only task.                                                       *)
NoStash == ~defree.page /\ ~derollup.page /\ ~decycle.page /\ ~new_decycle.page

sync_inodes ==
  /\ Alive /\ stage.at = "idle" /\ \A t \in Task : pc[t] = "out"
  /\ disk' = IF bm.listed THEN [disk EXCEPT ![bmloc] = MapBlock(bitmap)] ELSE disk
  /\ bm' = IF bm.listed THEN [state |-> Clean, listed |-> FALSE] ELSE bm
  /\ stage' = [at |-> "sync", done |-> 0]
  /\ UNCHANGED <<bitmap, nextalloc, live, nodes, leaves, bmloc, oldloc, cut, logs, stashes,
                 count, pc, mydelta, super, failed, dead>>

(* cleanup_garbage_for_writeback and save_sb, which may fail.              *)
sync_super ==
  /\ Alive /\ stage.at = "sync"
  /\ log' = [base |-> 0, nbase |-> 0, this |-> 0, next |-> 0, chain |-> NoBlock]
  /\ pend' = <<>> /\ open' = FALSE
  /\ oldloc' = bmloc
  /\ stage' = [at |-> "idle", done |-> 0]
  /\ \/ /\ NoStash
        /\ super' = [super EXCEPT !.chain = NoBlock, !.used = live \cup nodes \cup {bmloc},
                                  !.maps = {bmloc}, !.base = 0]
        /\ UNCHANGED <<failed, dead>>
     \/ /\ NoStash /\ "super" \in Faults
        /\ failed' = failed \cup {"sync"}
        /\ UNCHANGED <<super, dead>>
     \/ ~NoStash /\ Die("cleanup") /\ UNCHANGED super
  /\ UNCHANGED <<bitmap, nextalloc, live, nodes, leaves, bmloc, bm, cut, stashes, count,
                 pc, mydelta, disk>>

Commit(t) ==
  \/ CommitSkipped(t) \/ do_commit(t)
  \/ new_cycle_log(t) \/ new_cycle_log_asserts(t)
  \/ \E b \in Block : write_bitmap(t, b)
  \/ write_bitmap_enospc(t)
  \/ write_log(t) \/ write_log_fails(t) \/ write_log_done(t)
  \/ commit_delta(t) \/ commit_delta_fails(t)

Next ==
  \/ \E t \in Task :
       \/ change_begin(t) \/ change_end(t) \/ force_delta(t) \/ Commit(t)
       \/ AllocLogged(t) \/ AllocLeaf(t)
       \/ \E op \in {"bnode_split", "bnode_root"} : AllocNode(t, op)
       \/ \E b \in Block : AddChild(t, b) \/ FreeNow(t, b)
  \/ sync_inodes \/ sync_super

(* A change is a finite piece of code that ends, and a commit never waits  *)
(* but for the lock.                                                       *)
Fairness == \A t \in Task : WF_vars(change_end(t)) /\ WF_vars(Commit(t))

Spec == Init /\ [][Next]_vars /\ Fairness

-----------------------------------------------------------------------------
Stash == [page : BOOLEAN, vals : Seq(Block)]
Entries == Seq([op : Ops, block : Block])
Content == [kind : {"log", "map", "data"}, index : Nat, chain : Block \cup {NoBlock},
            entries : Entries, img : SUBSET Block]
States == {Clean} \cup (0..3)

(* Type invariant.                                                         *)
TypeOK ==
  /\ bitmap \in SUBSET Block /\ nextalloc \in 0..VolBlocks
  /\ live \in SUBSET Block /\ nodes \in SUBSET Block /\ leaves \in SUBSET Block /\ bmloc \in Block /\ oldloc \in Block
  /\ bm \in [state : States, listed : BOOLEAN]
  /\ cut \in [img : SUBSET Block, state : States]
  /\ log \in [base : Nat, nbase : Nat, this : Nat, next : Nat, chain : Block \cup {NoBlock}]
  /\ pend \in Seq(Entries) /\ open \in BOOLEAN
  /\ defree \in Stash /\ derollup \in Stash /\ decycle \in Stash /\ new_decycle \in Stash
  /\ count \in [delta : Nat, rollup : Nat, ends : Nat, commits : Nat]
  /\ stage \in [at : {"idle", "rollup", "bitmap", "log", "super", "sync"}, done : Nat]
  /\ pc \in [Task -> {"out", "in", "want", "commit"}] /\ mydelta \in [Task -> Nat]
  /\ disk \in [Block -> Content]
  /\ super \in [chain : Block \cup {NoBlock}, logcount : Nat, next_logcount : Nat,
                 used : SUBSET Block, maps : SUBSET Block, base : Nat, delta : Nat]
  /\ failed \in SUBSET {"bitmap", "log", "super", "retire", "sync"}
  /\ dead \in {"no", "new_cycle_log", "io_buffers", "buffer_state", "cleanup"}

(* What the blocks are held by: each stash entry, each block of a tree and *)
(* the bitmap's place is a holder of its own.                              *)
Deferred == defree.vals \o derollup.vals \o decycle.vals \o new_decycle.vals

(* The life of a block through the stashes: nothing that is in use is up   *)
(* for freeing, nothing is deferred twice (a second bfree would be refused *)
(* or free someone else's block), everything held is allocated, and every  *)
(* allocated block is held, so nothing leaks on the way from the log over  *)
(* decycle and defree back to the bitmap.  Only a rollup that finds no     *)
(* space for the bitmap breaks it.                                         *)
OneHolder ==
  "bitmap" \notin failed =>
    /\ IsInjective(Deferred)
    /\ live \cap nodes = {} /\ (live \cup nodes) \cap leaves = {}
    /\ bmloc \notin live \cup nodes \cup leaves
    /\ Range(Deferred) \cap (live \cup nodes \cup leaves \cup {bmloc}) = {}
    /\ bitmap = Range(Deferred) \cup live \cup nodes \cup leaves \cup {bmloc}

(* The log chain that replay would follow from the superblock: place of    *)
(* the i-th log block from the end.                                        *)
ChainAt(i) ==
  LET at[j \in 0..i] == IF j = 0 THEN super.chain ELSE
        IF at[j - 1] = NoBlock THEN NoBlock ELSE disk[at[j - 1]].chain
  IN  at[i]

(* Whenever the machine stops, the superblock leads to its logcount log    *)
(* blocks, newest first and without a gap, and none of them has been given *)
(* to anyone else: new log blocks, rollups and retired frees of later,     *)
(* uncommitted deltas do not touch the committed log.                      *)
ChainIntact(i) ==
  LET b == ChainAt(i) IN
  /\ b \in bitmap
  /\ disk[b].kind = "log"
  /\ disk[b].index = super.base + super.logcount - 1 - i

LogChainIntact ==
  failed \cap {"bitmap", "log", "sync"} = {} =>
    \A i \in 0..(super.logcount - 1) : ChainIntact(i)

(* When change_end returns from the end of a delta, the delta is on the    *)
(* device, whether this task or another one has committed it, unless the   *)
(* commit has failed.                                                      *)
CommittedOnReturn ==
  [][\A t \in Task :
       pc[t] \in {"want", "commit"} /\ pc'[t] = "out" /\ failed' = {} =>
         super'.delta > mydelta[t]]_vars

(* A task that waits in change_end for the lock, or commits, gets out of   *)
(* it, unless an assertion has stopped the program.                        *)
ChangeEnds ==
  \A t \in Task : (pc[t] \in {"want", "commit"}) ~> (pc[t] = "out" \/ dead # "no")

-----------------------------------------------------------------------------
(***************************************************************************)
(* What comments and assertions of the code say and the code does not do.  *)
(***************************************************************************)
(* "log must be empty, otherwise, sb->lognext points the next log"         *)
(* (commit.c:115): no log block is open when a rollup starts a new cycle.  *)
LogEmptyAtRollup == dead # "new_cycle_log"

(* "all metadata consistent on disk" after ENOSPC (filemap.c:222): what    *)
(* is in use stays allocated.                                              *)
InUseAllocated == live \cup nodes \cup leaves \cup {bmloc} \subseteq bitmap
=============================================================================
