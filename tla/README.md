# A verification of tux3's core

TLA+ models of the tux3 filesystem (the code under `src/user`, and
`src/user/kernel`, which the userspace and the kernel builds share), model
checked with TLC on small instances and in part proved with TLAPS for every
instance.  Each module says at its head which code it models; `PROJECT.json`
maps every definition to source lines, lists the runs, the known hazards of the
code and the disagreements between the code and what it says of itself.

## 1. The system

| Component | State | Operations | Interacts with | Hard to get right |
|---|---|---|---|---|
| Bit runs (`kernel/utility.c`) | - | `set_bits`, `clear_bits`, `all_set`, `all_clear` | used by the allocator and replay | masks of first and last byte |
| Block allocation (`kernel/balloc.c`) | bitmap file, `freeblocks`, `nextalloc` | `balloc`, `bfree`, `update_bitmap` | everyone who needs blocks; the bitmap is a file in the buffer cache | mutex dropped between map blocks, goal read unlocked, partial last byte, wrap |
| Delta commit (`kernel/commit.c`) | `delta`, `rollup`, log indices, `delta_lock`, four stashes | `change_begin`, `change_end`, `force_delta`, `do_commit`, `rollup_log`, `write_log`, `commit_delta` | log, allocator, bitmap, superblock | order of device writes, crash between them, what may be freed when, what is logged and what not, failing writes |
| Log (`kernel/log.c`) | log block being filled, stash pages | `log_*` entries, `stash_value`, `unstash`, `defer_bfree` | written by every change; read by replay | entry sizes at the end of a block, stash roles that swap |
| Replay (`kernel/replay.c`) | log blocks of the chain | `replay` | bitmap through `update_bitmap` | must never free what is in use |
| Write back and block fork (`user/filemap.c`, `user/writeback.c`) | dirty lists, buffer states 0..3 | `blockdirty`, `write_bitmap`, `filemap_extent_io`, `sync_inodes`, `sync_super` | buffer cache, file map | buffers redirtied while they are written |
| Buffer cache (`user/buffer.c`) | hash, LRU, states, counts | `blockget`, `blockread`, `blockput`, `evict_buffer`, `flush_buffers` | everyone | eviction at the limit |
| File extents (`kernel/filemap.c`, `kernel/dleaf.c`) | extents of a file in groups and entries, `i_size` | `map_region`, `dwalk_*`, `dleaf_chop`, `dleaf_merge`, `dleaf_split`, `tuxtruncate` | btree, allocator, log | partial overwrite, redirect, ENOSPC in the middle, buffers written after a truncation |
| Btree (`kernel/btree.c`) | index nodes, leaves, cursor path | `probe`, `advance`, `insert_leaf`, `tree_chop`, `cursor_redirect` | buffer cache, log | merging under the cursor |
| Inode table (`kernel/ileaf.c`, `kernel/inode.c`, `kernel/iattr.c`) | inode leaves, deferred allocations | `alloc_inum`, `open_inode`, `save_inode`, `purge_inum` | btree | numbers handed out before they are stored |
| Extended attributes (`kernel/xattr.c`) | atom table, reference counts, free list | `make_atom`, `use_atom`, `set_xattr`, `del_xattr` | atable file, directory code | split reference count, reuse of atoms, reads that fail half way |
| Directories and names (`kernel/dir.c`, `kernel/namei.c`, `user/inode.c`) | records of a directory, link counts | `tux_create_entry`, `tux_delete_entry`, `tux_readdir`, `rename`, `unlink`, `rmdir` | file data, inode table | long sequences of splits and merges; replaced targets |
| Versioned pointers (`user/version.c`) | version tree, elements per version | `snapshot_of`, `snapshot_delete`, `snapshot_write`, `origin_write`, `lookup` | - (a prototype) | ghosts and orphans |
| Device access, CLI, FUSE, graph, kernel glue | - | - | - | pure I/O, not modelled |

What makes them correct.  Allocation, commit and replay: no block has two users; nothing leaks;
the free count is the number of zero bits; ENOSPC is honest as far as the bitmap can be
read; in every state in which the machine may stop, the superblock leads to a whole log
and a whole bitmap image, and a replay that does not refuse the log finds allocated
what the committed state has in files and trees (section 2 says what it misses); what is
deferred is freed once, and only when no committed state needs it; `change_end`
returns, and with its delta on the device.  File extents and their btree: a read
finds every block where it was written, each block has one owner, truncation
gives back all it cuts off.  Inode table: numbers are unique although the table
lags behind, and an inode is found with what was saved last.  Names: a
directory holds exactly the names created and not removed, no inode goes that has
a name, a reader sees every entry that stays once.  Attributes and snapshots: what
is read is what was set.

## 2. Modules

| Module | Models | Kind |
|---|---|---|
| `Bits` | the bit run operators of `utility.c`, on bytes as functions of eight bits | operators |
| `Balloc` | the allocator as its callers see it: first fit per map block, one step per critical section | specification |
| `BallocBytes` | the same code byte by byte, with the mutex, the run carried from byte to byte and the byte count | implementation of `Balloc` |
| `Commit` | changes, deltas, log, stashes, rollup, superblock, write failures, `sync_super` | specification |
| `Recovery` | what `replay` makes of the device in every state of `Commit` | operators over `Commit` |
| `Versions` | snapshots of one block as their users see them: a value per tag | abstract specification |
| `Version` | the version tree, its caches and the elements of `version.c` | specification, checked against `Versions` |
| `Dir` | create, find and delete of entries in directory blocks | operators |
| `Attributes` | extended attributes as users see them: a value per inode and name | abstract specification |
| `Xattr` | the atom table (dictionary, split counts, free list, reverse map) and the xcaches | specification, checked against `Attributes` |
| `Btree` | probe, advance, insertion with node splits, chopping with merges, on a tree as a value | operators, used by `Filemap` and `Itable` |
| `Dleaf` | extents of a file in groups and entries of a leaf | operators |
| `Filemap` | `map_region` in its modes, the size, truncation and deletion of a file, over `Btree` and `Dleaf` | specification |
| `Ileaf` | a leaf of the inode table | operators |
| `Itable` | inode numbers and the inode table, over `Btree` and `Ileaf` | specification |
| `Namei` | names, links and a reader of a directory, over `Dir` | specification |
| `Numbers` | quotients, and induction and recursion over the naturals in first-order form | lemmas |
| `BallocProofs`, `BallocBytesProofs` (with the bit runs), `RecoveryProofs` (with `Commit`), `DirProofs`, `NameiProofs`, `XattrProofs`, `ItableProofs` | theorems | proofs |
| `MC*` | constants and symmetry for TLC | model checking |

Definitions keep the names of the code.  A definition named `Mutant...` stands
before the definition that it is a variant of, with a plausible bug in it; it
takes part in no specification.  Each checked property is known to fail when
some mutant takes the place of its original.

### Balloc and BallocBytes

`bitmap` is the set of one bits, `call[t]` the call that task `t` is in (goal,
pass, next map block), `held[t]` the extents it owns, `avail[t]` a history
variable: the blocks that stayed free throughout the call.  A task may start
several calls and free extents, whole or only their tails, as `dleaf_chop` does.
`Reserved` is the set of blocks in use when the volume is opened, and `Goal` the
`nextalloc` that `load_sb` finds in the superblock.
A map block that cannot be read ends the search of its range (`BallocUnread`):
`balloc_from_range` returns -1, and `balloc` takes that for a range without room and in the
end for ENOSPC, though fitting blocks may be free.  `EnospcJustified` is therefore about
what the search could read.  A `bfree` that cannot read its map block leaves the bits set
(`BfreeUnread`) and the extent with its caller; a caller that does not look at the result
leaks it.

Volumes are those whose ranges fit the `unsigned` count of `balloc_from_range`
(`CountRange`, 2^32 in the code).  `balloc` passes it the 64-bit `total - goal`
(`kernel/balloc.c:188`), and on a larger volume count loses its upper bits.

`BallocBytes` adds the position within the map block, the run found so far and
the owner of the bitmap mutex; its `held`, `call` and `avail` are mapped to those
of `Balloc` and it is checked to implement `Balloc!SafeSpec`.  Tasks are real
concurrency in the kernel build (the mutex is the bitmap inode's `i_mutex`); in
userspace there is one.

### Commit

One step is what happens between two writes to the device, so every state of
the model is one in which the machine may stop.  `bitmap`, `live` (blocks whose
allocation was logged), `nodes` (index nodes: `new_node` allocates without a
`log_balloc`), `leaves` (those of `map_region`: `kernel/filemap.c:265` and `:305` do
not log theirs either), `bmloc` (where the bitmap file's block is), the log indices, the
pending log blocks with their entries, the four stashes with their pages
(`page` says that a stash owns a page: `unstash` keeps it), the counters, the
lock, the device and the superblock.  The superblock record carries history
beside the real fields: what the committed state uses and which bitmap images
its log starts from.

What a change does to blocks is one of `AllocLogged` (an extent, a leaf of
`btree_leaf_split`), `AllocLeaf` (a leaf of `map_region`; the log has its entry in the index
node, `bnode_add`, and no allocation), `AddChild` (a `bnode_add` by itself), `AllocNode` (an
index node, with the entry `bnode_split` or `bnode_root` that the code logs for it) and
`FreeNow`.  `sync_super` is two steps, since the device is written in both: `sync_inodes` writes
the bitmap in place; the second throws the log away and writes the superblock, and may fail
to.  It has no `write_log` and no commit, and nothing else runs beside it.

Abstractions: the bitmap has one block; extents have one block; a block of a
file or tree counts as being on the device once it is allocated; the superblock
is written atomically; a stash never fills its page of 512 entries; log entries
are one size (`LogCap` of them fill a block).  `balloc` is used with what
`Balloc` establishes of it.  The lock `delta_lock` is modelled for several
tasks as `change_end` is written for it (it compares `sb->delta` after it has
taken the write side).  The body of `change_end` is compiled for userspace only
(`kernel/commit.c:285`), where one task runs: what the run `commit_tasks` shows of two
is a property of the protocol as it is written, and no race that today's builds can
have.  A failing bitmap write leaves
the buffer on the list and the assertion after the loop of `rollup_log` stops
the program.  After ENOSPC in `write_bitmap` the buffer is still linked to a
list on a stack frame that is gone; the model only keeps that it is on no list
any more.  The `ATOMIC` build is not modelled: its `make_tux3` stops in
`cleanup_garbage_for_writeback`.

### Recovery

`replay` over a bitmap image: both passes, over the entries of the `logcount`
blocks that the chain leads to.  `load_sb` does not restore `sb->logchain`, so
no mount path reaches `replay` with a chain; it is modelled as `tests/commit.c`
calls it.  The free count of `update_bitmap` is part of it, with its `-count` of an
unsigned count: in the 64-bit `freeblocks` that adds nearly 2^32.

What `ReplayCovers` says, and what not.  A log with the entry of a new root or of a split is
refused by replay's first pass as "unrecognized" (`kernel/replay.c:73`), before anything has
changed.  So no log since the last rollup that allocated an index node can be replayed at
all; of those that can, `ReplayCovers` says that every extent, every leaf that was logged,
every index node (they are all in the image then) and the bitmap's own block are allocated
after it.  It is not so, and not claimed, of the leaves that `map_region` has added since
the image (nothing logs their allocation, and the next allocator may hand them out again)
and of the committed log blocks, which replay does not mark.  Between the two halves of
`sync_super` the bitmap in its old place is ahead of the superblock, and nothing is claimed
either.

### Version

An action is one external operation followed by a read of every snapshot, as in
`fuzz_test` of the source; reads matter because they load the path caches.
`tree` holds the version table with its child index, `present` flags, cached
path bitmaps and stored depths; `elements` is the element list, with the data in
place of the chunk that holds it.  `checkdata` is the value every snapshot has to
have and changes as `Versions` says, so that a read which differs is a state that
violates `SnapshotsKept`.

### Dir and Xattr

`Dir` works on a directory as a value: blocks of records with their byte lengths,
so that splitting a record and merging one into its predecessor are exact, and
`tux_create_entry` takes the first place that its walk finds.  `Xattr` keeps its
names in such a directory.  `atable` holds the table and the three fields of the
superblock; `xcache[i]` is the list of attributes of an inode.  Reference counts
have two halves of `HalfRange` values (2^16 in the code) and carry and borrow as
`use_atom` does.

Operations hold the mutex of the atom table throughout and are one step each.
Without failing reads `set_xattr` succeeds; is refused after `make_atom` has entered the
name; loses the old attribute when memory fails after it was removed; or takes an atom
whose entry then cannot be created.  What the last two leave behind is
recorded in the history variables `lost` and `stray`, as are the references of a
deleted inode, which `tux_delete_inode` does not give back.  `attrs` is what users
have set and changes as `Attributes` says.

A read of the atom table may fail, and the code goes on in ways that nothing repairs:

| Failing read | What is left | Action |
|---|---|---|
| in `find_atom`, which returns "not found" for any error (`kernel/xattr.c:228`) | a second entry and atom for the same name; the old attribute is hidden or listed twice | `set_xattr_unmade` |
| of the reverse map, after the name was entered (`kernel/xattr.c:248`) | a name with no reverse map | `set_xattr_unmade` |
| in `get_freeatom` (`kernel/xattr.c:162`) | the name with the atom -1 | `set_xattr_unmade` |
| in `use_atom` for a new attribute, ignored | an attribute without its reference, or without the carry | `set_xattr_torn` |
| in `use_atom` for a removed attribute, before the low half is written | a reference too many, recorded in `lost` | `del_xattr_uncounted` |
| in `use_atom`, at the borrow | a count too high by the range of its low half | `del_xattr_torn` |
| in `use_atom`, after the last reference | a name without references stays, as a refused `set_xattr` also leaves one | `del_xattr_unkilled` |

Three of them leave a table that no property speaks of: `torn` is set then, and nothing is
followed after it (`Spec` only stutters).  So what the properties say is that everything
else keeps the table right, the two failures that do no harm included, and that these are
the failures that tear it.  Not modelled: the entry block that cannot be read when an atom
is killed (`kernel/xattr.c:208` uses the null buffer: the program stops), and the reads of
`get_xattr` and of the lookup in `del_xattr`, whose failure is returned as -ENOATTR and
changes nothing.

Widths.  `make_atom` does not look whether an atom fits the 16 bits that it has in an xcache
(`AtomRange`; the model truncates it).  What depends on it is claimed while all atoms
fit (`Sane`).  With four atoms and a range of three `AttrsKept` fails.  Sizes
of a value and of an xcache have 16 bits too (`kernel/xattr.c:372`, `kernel/tux3.h:648`):
`XattrAssumption` has values for which no xcache outgrows `SizeRange`, where the
truncation changes nothing; a larger value is outside of the model.

Abstractions: whether an xcache has to grow is left open unless the new value is
no longer than the old; encoding attributes in the inode and decoding them keeps
the list and is left out.

### Btree, Dleaf and Filemap

`Btree` has the tree as nested nodes: an entry holds the node it leads to instead of the
number of its block, so that no step can lead to a block that is not a node and what is
checked is which entry leads where.  A cursor is the sequence of the places it has in the
nodes.  When one insertion splits nodes on three levels and adds a root, the code may have
left a place of its cursor behind, and `cursor_check` (`kernel/btree.c:724`) then stops it;
the model goes on, with the tree that is built by then.  `insert_leaf` goes up from the leaf
as the loop of the code does; `chop_nodes` does level by level what the loop of `tree_chop`
does in one walk, which comes to the same because a node is only merged with the one visited
before it in its level, once all below it is done.

`Dleaf` has a leaf as groups of entries with one extent each, as all of the code
assumes.  Sizes are in units of four bytes: a group and an entry have one, an extent
two, so that `dleaf_free`, the strict comparison in `map_region` and the merge of a
tail decide as in the code.  A walk is the number of extents before it.

`Filemap` is one file on a volume.  The lock of the btree is held from end to end,
so an action is a whole call: `map_region` for dirty blocks (create 1),
`map_region_redirect` (create 2, as `write_bitmap` calls it), `map_region_nospace`,
`tuxio` as far as the size goes, `tuxtruncate`, the deletion of the file, and
`retire_bfree`, the end of a commit, which frees what was deferred.  `file` is a
history variable: where the caller was told its blocks are, and so where it has
written them.  A read (create 0) changes nothing: it is what `MapKept` asks for
from every block.  `Spanning` says whether an extent may be created across a
boundary of 2^24 logical blocks (`LoRange`), see the violations.  ENOSPC keeps the
segments allocated before it (`leaked`), although the comment at
`kernel/filemap.c:221` says "so we free what we allocated so far".

The size is a variable of its own.  Only `tuxio` raises it, when it dirties the buffers
of a write; blocks are mapped when those are flushed, and a truncation leaves buffers
beyond its size dirty (the FIXME at `user/inode.c:213`).  So a block may be mapped at any
time, whatever the size, and a file of size zero can get blocks; truncating it to nothing
again returns at once (`user/inode.c:206`).  `TruncatedEmpty` is about a file of size
zero that has no such blocks.  The others are what `tux_delete_inode` meets: after it
has truncated the file it frees the root and one leaf, and the blocks in that leaf are lost
(they go to `leaked`, which `OneOwner` allows for); where there are more leaves, an
assertion of `free_empty_btree` stops the program and the action is not enabled.

Abstractions: a block for an index node or leaf is always found; reads of tree
blocks do not fail; space for data is the first free run, and two map blocks never
come into it.  The rest below a range never goes to a new leaf: the strict `<` of
`kernel/filemap.c:299` keeps a leaf from being so full, and the mutant of `MapKept`
that makes it `<=` shows the wrong key that follows.

### Ileaf and Itable

A search for a number goes from leaf to leaf at most once for each number of the table
(`FindInTable`); that this is enough, as every leaf it leaves has a number in use, is part of
the proofs.  `Cursors` are the places that searches lead to.

`ileaf_lookup` answers "not there" for a number far above the base of the leaf, where an
assertion of the code (`kernel/ileaf.c:128`) stops the program.

`Itable` has the table, the list of inodes that have a number and are not saved
yet (`deferred`, a count per number so that a duplicate would show) and the history
of what was saved.  Each operation is one step under the lock of the btree.
`alloc_inum` may start from any goal.  `save_inode` may find no block for a new leaf.
The assertion in `tree_expand` (`kernel/btree.c:776`) stops the program when an
inode that grows is the first of a full leaf, since splitting at it moves everything
to the new leaf: `save_inode` is not enabled there.

Two hazards are left out.  `alloc_inum` reads the depth and sizes its cursor before it takes
the lock (`kernel/inode.c:149`).  Between two tasks, as in the kernel build, a level added
meanwhile is missing from `next_key`; the model, and what is proved of it, is of
operations that follow one another, each with the lock from its beginning.
And when an index node cannot be allocated after `ileaf_split`, the new leaf with the
inodes moved to it is not linked anywhere; the check in `save_inode`
(`kernel/inode.c:356`) would notice later.

### Namei

The inodes with their link counts, the blocks of the directories as in `Dir`, one
reader of a directory and the history `names`.  Calls run under the VFS's directory
locks and are one step; what the VFS checks beforehand are the definitions `Vfs...`,
marked external.  An inode without links and users is deleted at the end of the
step.  Creating a symlink differs from creating a file in data only.  Calls that fail
leave everything as it was and are left out, as is the failing deletion in `rename`
(a corrupt block).

The reader keeps `f_pos`; `tux_readdir` gives it one entry, and `tux_readdir_end`, with none
left, moves it to the end of the directory.  `i_version` never changes, so the revalidation in
`tux_readdir` does nothing; the reader stays sound because the header of a removed
entry keeps its length (`relied`) until a new entry is written over it.  If the
new name covers that length the reader takes a part of a name for a header: its
place is `Lost`, which is reached, and nothing is claimed of it.

Renaming a directory onto another leaves the count of the directory that it was in
one too high (`kernel/namei.c:234` only looks at `new_subdir`), so a count is claimed to
be no lower than what it counts.

## 3. Runs

| Run | Checks | Bounds | What they reach |
|---|---|---|---|
| `balloc` | types, count, disjoint ownership, no leak, extents in one map block, ENOSPC only without a fit in what could be read, every `balloc` returns | 2 tasks, 4 blocks in map blocks of 3, block 0 in use, goal 1, extents of 1-2 | all interleavings of two searches over two map blocks, the second partial, with reads failing at any of them; a wrap; ENOSPC while blocks are free |
| `balloc_bytes` | refinement of `Balloc`, types, nothing past the volume, the carried run is free | 2 tasks, 17 blocks in map blocks of two bytes, blocks 7, 8 and 16 free, goal 8, extents of 1-2 | runs across a byte boundary; a partial last byte; the second pass up to the goal |
| `commit_tasks` | delta on the device at return; every `change_end` returns | 2 tasks, 6 blocks, 2 commits, one of them with a rollup, failing bitmap, log and superblock writes | both orders of two tasks at `delta_lock`, as `change_end` is written |
| `recovery` | types, one holder per block, committed log intact, bitmap images kept, replay covers the committed extents, index nodes and logged leaves | 1 task, 7 blocks, 6 commits, a rollup every second, failing superblock writes | three rollups and the reuse of what they freed; index nodes in the image and in logs that are refused |
| `version` | types and table size, the validity of tree and elements, fresh caches, every snapshot keeps its value | 3 tags, 2 values, a table of 6 versions | every tree with three snapshots, ghosts at any place |
| `xattr` | types, every inode reads and lists what was set, exact counts, free list against dictionary, reverse map and well-formed dictionary | 2 inodes, 3 names (records of 16, 16 and 24 bytes in blocks of 32), 2 values, 3 atoms, 3 attributes at a time, halves of 2, one loss | carry and borrow with two references; atoms reused for other names; two dictionary blocks with holes; every failing read |
| `filemap` | leaves pass `dleaf_check`, a read finds what was written, one owner per block, an empty tree after truncation to nothing | logical blocks 1-5 in groups of 3 addresses (2 + 3), a volume of 4, leaves of 3 extents at most, 2 extents to a group, nodes of 2 entries, 3 segments, 1 block awaiting a commit or lost, sizes 0, 2, 3, 5 and 6 | partial overwrites with rests on both sides, tails moved to new leaves, trees with three levels of index nodes, merges, ENOSPC after a segment was allocated, blocks mapped beyond the size, deletions that lose a block |
| `itable` | space and order of leaves, unique numbers, every inode is found with what was saved last | numbers 0-5, 3 inodes, leaves of 2 numbers and 7 units, attributes of 2 and 4 units, nodes of 2 entries | splits by number and by space, rounded bases, holes, reuse of purged numbers |
| `names` | well-formed directories, names kept, link counts, readdir | 3 inodes, names of 1, 1 and 16 bytes in blocks of 32, 2 blocks to a directory, 3 entries, one directory read | renames within a block and between directories, a directory removed while it is read, a reader at the end and a lost one, counts too high |

In `filemap`, three extents are the fewest at which a leaf splits around a range with a
rest on either side.  `names` was also run once with four inodes (371,633
states), which reaches a directory removed with a count that is too high.

Six commits with a rollup every second make three rollups: the log blocks of
the first cycle are freed two rollups later and their blocks used again, and the
old place of the bitmap is freed one rollup later.  Seven blocks make the
allocator wrap and fill up.  The rate of deltas and rollups (10 and 3 in the
code, from static counters) is a constant because only their order matters.
`CHECK_DEADLOCK FALSE` in the runs of `Commit`: a program stopped by an assertion
stops, and `MaxDelta` ends every behaviour.

In `version`, three snapshots are the fewest among which a ghost has an heir
behind another ghost; a table of six is what the code's own limit (half the table
in snapshots) allows them.

Fairness: a task inside `balloc` keeps running (bounded loops, a mutex that every holder
gives back), without any read having to fail; a change ends, and a commit, once it may take
the lock, goes on.  Nothing is assumed about when changes begin.

### Violations

Runs that are expected to fail state what a comment or an assertion of the code
says, and show that the code does otherwise (`findings` in `PROJECT.json`):

- `log_empty`: a rollup starts while a log block is open, and the assertion in
  `new_cycle_log` stops the program, whenever the last delta before a rollup
  has logged anything.  Passing runs explore the deltas in which it has not.
- `rollup_enospc`: a rollup without space for the bitmap has already deferred the
  free of its old place, and a later commit carries it out.
- `extent_groups`: an extent from one group of 2^24 logical blocks into the next is
  written and then not found from its second half, since `dwalk_probe` looks for it
  in the group of the address only.  The run is `filemap` with `Spanning`.

Two more were confirmed with earlier runs of `Commit` and `Recovery` and need none of
their own.  `do_commit` ignores the result of `write_log` (`kernel/commit.c:264`), and
the superblock then counts a log block that is not on the chain, against "Count of
log blocks in the current log chain" (`kernel/tux3.h:179`): the action is
`write_log_fails`.  And `update_bitmap` (`kernel/balloc.c:247`) adds to the free count
when it allocates, and adds the negation of an unsigned count when it frees, against "Should
match total of zero bits in allocation bitmap" (`kernel/tux3.h:173`): see `update_bitmap` in `Recovery`.

Two more assertions stop the program in behaviours of `Commit`, as states with
`dead` set.  `sync_super` after a commit finds a stash page and stops in
`cleanup_garbage_for_writeback` (`"cleanup"`; the passing runs contain it).  In the
default build, without `BLOCKDIRTY`, the bitmap buffer's state is always 0 and
`write_bitmap` stops at the second rollup (`"buffer_state"`): the runs set
`BLOCKDIRTY` to look further than that.

## 4. Proofs

`BallocProofs`, for any set of tasks, volume, map block size, set of reserved blocks,
extent length and for any goal (`BallocAssumption`: naturals, the volume and map
block not empty, reserved blocks inside the volume, which fits `CountRange`):

- `TypeCorrect`: `SafeSpec => []TypeOK`.
- `OwnershipCorrect`: extents handed out are disjoint, the one bits are exactly the
  owned and reserved blocks, no extent crosses a map block.  The three are
  inductive only together: `balloc` takes zero bits, which are free of owners only
  by the second; `bfree` gives back bits that no one else owns only by the first.
- `FreeblocksCorrect`: uses that the bitmap is finite and that what `bfree` clears
  was set, which follows from ownership.
- `EnospcCorrect`: a call gives up only if no fitting run stayed free in the map blocks that
  it could read.  `EnospcJustified` is not inductive; `EnospcInv` adds that all runs
  behind the search have lost a block since the call began, or lie where a map block that could
  not be read kept the search from (`RuledOut`), that the history is free
  (`AvailFree`), and that a call gives up in the second pass only.
- `BitmapCorrect` and `OneMapBlockCorrect`: the second and third part of
  `OwnershipCorrect` by themselves.

`BallocBytesProofs` begins with the bit runs: for any map and any run within it, the four
operators of `Bits` do what their bit-wise definitions say (`SetBitsCorrect`,
`ClearBitsCorrect`, `AllSetCorrect`, `AllClearCorrect`).  The rest is about the allocator,
for any volume, any number of bytes in a map block and any set of tasks (`BytesAssumption`:
what `BallocAssumption` says of the same constants, and a mutex value that is no task).
Reads of map blocks may fail here as in `Balloc`.  The inductive invariant is `Loops`:

- `Ready` says where the search of a map block starts, and that the count of bytes
  left (`tail`) is the distance from there to the last byte of the range.  Without
  it `top` could lie outside the map block or stop short of the range.
- `Walk`, of the holder of the mutex: the run is the number of zero bits just behind
  the current bit, counted from where the search began (`RunUpTo`), and no run of the
  wanted length lies behind (`NoRunUpTo`).  The first makes `ScanFound` the
  abstract allocator's step, the second makes `UnlockMapBlock` a justified skip: it is
  the claim that the bit loop, with the run carried from byte to byte, misses nothing.
- `HeldInMap`: a held extent does not cross a map block, so that `bfree` clears bits of
  one map block only.
- the abstract type invariant, of the bitmap that the bytes stand for; the step that
  keeps it is the one proved in `BallocProofs`, used through the instance.

From it follow `BytesTypeCorrect`, `BeyondVolumeCorrect` (`NothingBeyondVolume`),
`RunCorrect` (`RunIsFree`) and `Implementation`, which is `Spec => A!SafeSpec`: each step
of the bytes is one of `Balloc` or leaves its variables alone.  `SetRun` and `ClearRun` carry
those theorems over to block numbers; `ByteWalk` is the bit loop, by induction
over the bits.  `BytesAllocation` then brings what `BallocProofs` shows down to the bytes.

`RecoveryProofs` begins with `Commit`, for any set of tasks, volume of at least the two
blocks that `make_tux3` takes, period of deltas and rollups, capacity of a log block, set of
failing writes, and with and without `BLOCKDIRTY` (`CommitAssumption`):

- `TypeCorrect`: `TypeOK` alone is not inductive, since `logcount` is a difference;
  `LogNumbers` says that `lognext` is `logthis` plus the pending blocks and that neither
  logbase has passed it.
- `OneHolderCorrect`: `HolderInv` takes the concatenation of `OneHolder` apart, into
  stashes that hold each block once and are pairwise disjoint.  In that form it is
  inductive with the types.  The stash that is retired gives back only blocks no tree
  has, and what replaces it holds none of them.
- `CommittedCorrect`: an action property, of the protocol as it is written for several
  tasks.  It needs `LockInv`: one task commits at a time,
  alone; the delta of a waiting task is not past the current one; and the superblock
  is one delta behind exactly while a commit runs.

The rest of `RecoveryProofs` is about what is on the device, with the same constants:

- `LogChainCorrect`.  `Stages` says what a commit has done when; `Chains` follows two
  chains, as sequences of places (`IsChain`).  The committed one may have blocks in any
  stash.  The one in memory has its blocks from `logbase` on in `decycle` and
  `new_decycle`, and from `next_logbase` on in `new_decycle`: this is why a rollup, which
  gives `decycle` away, also moves `logbase`.  `ChainFollowed` shows that what the
  recursive `ChainAt` reads on the device is such a chain.
- `ImagesCorrect`.  `Maps` says that the images the superblock names are in a stash or are the
  current one, and that the bitmap buffer is on the dirty list after the first
  rollup.  The second part is needed: a rollup with nothing to write would retire the
  old image and leave it named in the superblock.
- `ReplayCorrect`: a replay leaves a block allocated if the log is `Safe` for it (every free
  of it is followed by an allocation) and either allocates it at all (`Hit`) or starts from
  an image that has it.  `ReplayCovers` speaks of the committed log only, but what a commit
  leaves there was in memory before.  The invariant `Logbook` therefore has `JournalCovers`,
  the same of the log in memory (`Journal`), once from each logbase and for every extent,
  logged leaf and index node (`Trees`; an index node is in the image or the log has an entry
  that replay refuses, so no claim is made of that log); `Cycles`, about what the next image
  will have; and `Recoverable`, about the committed log with both of its images.  A free
  enters the log only when no tree has the block, and its next allocation comes behind it.
  What the two loops of `replay` return is by induction over them.  Of the leaves of
  `map_region` nothing is proved, as they are in no log.

`DirProofs`, for any block size that is a multiple of eight, any names and any lengths of
them up to 255 that fit in a block (`DirAssumption`).  `WellFormed` is taken apart into
`Tiled`, of one block, and `OneEach`, that no two entries have the same name, in place of a
cardinality (`WellFormedIs`).  `PutInBlock` and `TakeOutOfBlock` are the splitting and the
merging of records in one block; `ReplaceBlock` carries them over to the directory.

- `CreateCorrect`: for a name that is not there, `tux_create_entry` keeps the directory
  well formed, adds exactly one entry, at the place it says, and every other entry
  stays at its position (`Adds`).  That positions stay is what `rename` relies on.
- `DeleteCorrect`: `tux_delete_entry` removes the entry at a position and nothing else.
- `FindCorrect`: `tux_find_entry` finds the entry with the name; its bound on where a record
  may start leaves out no entry of a well-formed directory.

`NameiProofs`, for any set of inode numbers, names, block size and link limit:

- `NamesCorrect`: `NamesKept` is not inductive, since an operation works on intermediate
  states and needs their blocks to be well formed.  The invariant `StateKept` is stated of the
  record that an operation passes along: directories are among the inodes, and each is
  well formed and has the entries of its history.  Each part of an operation
  (`CreateState`, `DeleteState`, `UpdateState`, `LinksState`) keeps it, and `EntriesStay`
  says that after the new entry of a rename has been written the old one is still where it
  was found, in the same block or not.  A directory removed is empty, so it is not the one
  that it is removed from.  Link counts and the reader play no part in it.
- `BlocksCorrect`: the last part of `Namei`'s `TypeOK`.
- `LinksCorrect` and `TypeCorrect`: the counts and the root belong together, since the root
  stays because no entry leads to it and its count does not fall to zero.  The invariant
  `Tree` has the shape (every entry leads to an inode, only a file has several names, a
  directory without one is empty) and the counts (`Counted`, over the names of a
  file and `SubCount` of a directory).  It is stated of the names and inodes alone; an entry
  more or less changes one count by one (`OneMoreCounted` and its like), and `rename` is
  the new entry, then the old one less, then the replaced inode less one link.
- `ReaddirCorrect`: the reader's position is a header that is there or was there and keeps its
  length (`relied`).  `PlaceKept` says so and `Told` which names have been given; a create
  that splits a record, a delete that merges one and the update of a rename each keep them
  or make the place `Lost`.  It assumes that `Lost` is no pair of numbers
  (`NameiAssumption`).

`XattrProofs`, for any set of inodes, names and their lengths, values, block size, halves of
a count and bounds (`XattrAssumption`; there are fewer inodes and lost references than a
count has values, or a count would wrap).  All of it holds until a failing read tears the
table:

- `XattrTypeCorrect`, `FreeListCorrect` and `ReverseMapCorrect` have the invariant `Sound`.
  `FreeOK` follows the free list as a sequence without repetitions (`Chain`), whose
  atoms, those in the dictionary and the stray ones make up all that were ever taken, each
  once; a count of zero is part of it, since an atom is taken from the list without a look at
  its count.  `Mapped` says that the reverse map of an atom in use has the place of its
  entry: `use_atom` deletes by it, and a wrong place would take away another name.  That
  entries keep their places when others are created and deleted comes from `DirProofs`.
- `RefsCorrect` and `AttrsCorrect` have `References` on top of it: every count is the number
  of holders and lost references (`Counted`), which also keeps an atom that someone
  holds in the dictionary; an inode's list has an atom once and reads under each name of the
  dictionary what the history says (`ReadsIn`).  Both properties are conditional on `Sane`:
  the next atom is still within the 16 bits of an xcache.  `make_atom` does not look, but
  the number of the next atom never falls, so that nothing has been truncated as long as
  it is.  No constant is assumed to be in range: `MaxAtom` may be above `AtomRange`.

`ItableProofs`, for any inode numbers from 0 on, attributes with sizes, entries of a leaf and
of a node, and for trees of any depth (`ItableAssumption`, `IleafAssumption`,
`BtreeAssumption`: the numbers are 0 up to a bound, a node has room for two entries and a leaf
for any attributes beside a full dictionary).

A tree is nested nodes, and an invariant that went down them by recursion could not be unfolded
at the bottom, where insertion begins.  `Spans(h, node, lo, hi, S)` says of a node of height `h`
that searches for the keys from `lo` up to `hi` come to it and that `S` has the leaves below it,
each with its own interval.  It is the largest relation that its children justify
(`Justified`), so that a proof about a node names the claims about what is below it.

- `SpansPart`: the intervals of the leaves part the keys of the tree, so `probe` has exactly one
  leaf to come to.  `StoreTree` and `InsertTree`: another leaf at a cursor, or two in its place,
  change the set `S` at that leaf only, whatever nodes are split up to a new root.
- `Held(leaf, lo, hi, A)` is what a leaf has to be: its base is the first key of its
  interval, it ends within the interval, fits its block, and has the attributes that `A`
  says. `TrimLeaf`, `HeldResize`, `HeldPurge` and `HeldSplit` are the operations of
  `ileaf.c`.
- The invariant `IInv` is that the table has leaves that are `Held` for what is stored
  (`Table`), and `InumsUnique`.  `InodesKept` alone is not inductive: it does not say where
  in the leaf a number would have to go, and a leaf that ended beyond its interval would
  hide the first inodes of the next one.
- `InodesKeptCorrect` reads the leaf of a number.  `InumsUniqueCorrect` needs that `FindInum`
  returns a number that is neither stored, as no leaf has it, nor deferred (`LeavesFind`,
  `FindInumIs`).  `LeavesCorrect` and `TypeCorrect` speak of all cursors (`CursorHolds`).

`Numbers` has induction over a set of naturals (`SetInduction`, `BoundedInduction`) and
the existence of functions defined by recursion (`RecursionExists`), from the
well-foundedness of `<` alone.  The library's induction theorems take an operator as
a parameter, which the provers here cannot instantiate; with a set in its place they
can, and so recursive functions such as `RunAt` and `ChainAt` can be reasoned about.

Only model checked:

- Liveness (`ChangeEnds`, `BallocReturns`): TLAPS cannot prove properties that rest on
  fairness and ENABLED.
- `Filemap`.  `map_region` packs its segments and `tree_chop` merges its rows of nodes with
  folds, of which the library has no theorems.
- `Version`.  `delete_elements` is a fold over the elements whose flags change
  as it goes, and the size of the version table needs a count of ghosts against snapshots.

## 5. Not modelled

- The buffer cache (`user/buffer.c`): states, reference counts and eviction at the
  limit.  The models have the data and not its copies; the one place where a
  copy matters, the fork of the bitmap block, is in `Commit`.
- The layout of log entries and attributes in bytes (`kernel/log.c`,
  `kernel/iattr.c`).  `log_bnode_split` reserves 15 bytes and writes 17
  (`kernel/log.c:171`); replay's table of sizes says 15 as well.
- The `ATOMIC` build: `cursor_redirect` and the replay of btree entries, which the
  code does not have yet.
- Failing reads of tree blocks, and ENOSPC for index nodes: the code says of it that
  it "could leave the cache state badly messed up" (`kernel/filemap.c:271`).
- `tuxcreate`, `tuxunlink` and `iget` of userspace: `iget` finds only dirty inodes, as
  its comment says, and `tuxunlink` deletes at once and asserts a link count of zero,
  which directories do not have.
- A `tree_chop` that suspends (`info->blocks`), which no caller asks for; `dleaf_split`
  and `dwalk_mock`, which nothing but tests calls.
- Command line, FUSE, graph and hexdump tools, device access and the page cache and
  mount glue of the kernel build: input and output around the operations above.

## 6. What remains open

Modelled: all that section 2 lists.  Proved: what section 4 lists.  Open:

1. `Filemap`: `OneOwner` from `MapKept`.  What `probe`, `store_leaf` and `insert_leaf` do is
   proved in `ItableProofs` for leaves of any kind; what is missing is `tree_chop`, and what
   `dleaf_chop` and the walks do to the extents of a leaf.
2. `Version`: `TreeValid` and `CachesFresh` before `NoOrphans` and `SnapshotsKept`, by
   induction over the depth of the version tree.
3. Liveness: out of the prover's reach.
