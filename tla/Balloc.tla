------------------------------- MODULE Balloc -------------------------------
(***************************************************************************)
(* Block allocation (user/kernel/balloc.c) as its callers see it.          *)
(*                                                                         *)
(* The allocation bitmap is a file of map blocks of MapBits bits.  A call  *)
(* of balloc() reads the goal sb->nextalloc without a lock, then searches  *)
(* [goal, volblocks) and after it [0, goal), map block by map block; the   *)
(* bitmap mutex is held for one map block at a time, so the calls of       *)
(* several tasks interleave between map blocks.  One step of this module   *)
(* is one critical section.  How a map block is searched byte by byte is   *)
(* the subject of BallocBytes, which implements this module.               *)
(***************************************************************************)
EXTENDS Integers, FiniteSets

CONSTANTS
  Task,       \* the tasks that allocate and free
  VolBlocks,  \* sb->volblocks
  MapBits,    \* bits in a block of the bitmap file, 1 << (blockbits + 3)
  Reserved,   \* blocks in use at the mount: the superblock area, files at rest
  Goal,       \* sb->nextalloc at the mount
  MaxBlocks,  \* bound on the length of a requested extent
  CountRange  \* 2^32: balloc_from_range takes its count as an unsigned int

(* Volumes whose ranges fit the count, also with what is added to it to    *)
(* round it up to bytes.  On a larger one count loses its upper bits, and  *)
(* so does the block that is found (mapblock << mapshift is unsigned too). *)
ASSUME BallocAssumption ==
  /\ VolBlocks \in Nat \ {0}
  /\ MapBits \in Nat \ {0}
  /\ Reserved \subseteq 0..(VolBlocks - 1)
  /\ Goal \in 0..VolBlocks
  /\ MaxBlocks \in Nat \ {0}
  /\ CountRange \in Nat /\ VolBlocks + 14 < CountRange

VARIABLES
  bitmap,     \* the set of blocks whose bit is one
  freeblocks, \* sb->freeblocks
  nextalloc,  \* sb->nextalloc
  call,       \* call[t]: the balloc() call that task t is in
  held,       \* held[t]: the extents <<start, blocks>> that task t owns
  avail       \* avail[t]: history, the blocks free ever since t's call began, but
              \* for those that a map block it could not read kept from its search

vars == <<bitmap, freeblocks, nextalloc, call, held, avail>>

Blocks == 0..(VolBlocks - 1)

(* The blocks of an extent.                                                *)
Extent(start, count) == start..(start + count - 1)

Idle == [pc |-> "idle", blocks |-> 1, goal |-> 0, pass |-> 1, mapblock |-> 0]

(* A volume as load_sb finds it: some blocks are in use, the free count is *)
(* right, and the goal is where it was left.                               *)
Init ==
  /\ bitmap = Reserved
  /\ freeblocks = VolBlocks - Cardinality(Reserved)
  /\ nextalloc = Goal
  /\ call = [t \in Task |-> Idle]
  /\ held = [t \in Task |-> {}]
  /\ avail = [t \in Task |-> {}]

-----------------------------------------------------------------------------
(* The range [start, limit) of the pass that a call is in.                 *)
Start(c) == IF c.pass = 1 THEN c.goal ELSE 0
Limit(c) == IF c.pass = 1 THEN VolBlocks ELSE c.goal

(* The number of map blocks that the range reaches into.                   *)
MapBlocks(limit) == (limit + MapBits - 1) \div MapBits

(* Mutants, in this module always named so: variants of the definition     *)
(* that follows, with a plausible bug, that a property must find out.      *)
MutantNoLimit(c, s) == Start(c) <= s
MutantNoMapEnd(c, s) == c.mapblock * MapBits <= s
MutantLastBit(bits, c, s) == s + c.blocks - 1 \notin bits

(* A run of the wanted length from s: it is in the range of the pass, in   *)
(* one map block, and free.                                                *)
InRange(c, s) == Start(c) <= s /\ s + c.blocks <= Limit(c)
InMapBlock(c, s) ==
  c.mapblock * MapBits <= s /\ s + c.blocks <= (c.mapblock + 1) * MapBits
FreeRun(bits, c, s) == Extent(s, c.blocks) \cap bits = {}

(* The extents that the search of a map block may find, given by their     *)
(* first blocks.                                                           *)
Fits(bits, c) == {s \in Blocks : InRange(c, s) /\ InMapBlock(c, s) /\ FreeRun(bits, c, s)}

MutantStay(c) == c
NextMapBlock(c) == [c EXCEPT !.mapblock = @ + 1]

(* The part of the range from the current map block up, and the end of a   *)
(* pass that leaves it unsearched.                                         *)
NotReached(c) ==
  {b \in Blocks : Start(c) <= b /\ c.mapblock * MapBits <= b /\ b < Limit(c)}
EndOfRange(c) == [c EXCEPT !.mapblock = MapBlocks(Limit(c))]

(* The search has nothing left: below the goal as well as above.           *)
Searched(c) == c.mapblock >= MapBlocks(Limit(c))
MutantOnePass(c) == Searched(c)
GivesUp(c) == c.pass = 2 /\ Searched(c)

(* The part of an extent that bfree clears.                                *)
MutantOneBit(e, keep) == {e[1] + keep}
TailOf(e, keep) == Extent(e[1] + keep, e[2] - keep)

(* The history when t's call returns with the blocks in used: they are not *)
(* available any more to the other calls that are under way.               *)
Returned(t, used) ==
  avail' = [u \in Task |-> IF u = t THEN {} ELSE avail[u] \ used]

(* balloc: take the goal and start with the map block that holds it.       *)
BallocStart(t, n) ==
  /\ call[t].pc # "scan"
  /\ call' = [call EXCEPT ![t] = [pc |-> "scan", blocks |-> n, goal |-> nextalloc,
                                  pass |-> 1, mapblock |-> nextalloc \div MapBits]]
  /\ avail' = [avail EXCEPT ![t] = Blocks \ bitmap]
  /\ UNCHANGED <<bitmap, freeblocks, nextalloc, held>>

(* balloc_from_range, a map block with room: take the first fit.           *)
BallocFound(t) ==
  LET c == call[t] IN
  /\ c.pc = "scan"
  /\ c.mapblock < MapBlocks(Limit(c))
  /\ \E s \in Fits(bitmap, c) :
       /\ \A r \in Fits(bitmap, c) : s <= r
       /\ bitmap' = bitmap \cup Extent(s, c.blocks)
       /\ freeblocks' = freeblocks - c.blocks
       /\ nextalloc' = s + c.blocks
       /\ held' = [held EXCEPT ![t] = @ \cup {<<s, c.blocks>>}]
       /\ call' = [call EXCEPT ![t] = Idle]
       /\ Returned(t, Extent(s, c.blocks))

(* balloc_from_range, a map block without room: go on with the next.       *)
BallocSkip(t) ==
  LET c == call[t] IN
  /\ c.pc = "scan"
  /\ c.mapblock < MapBlocks(Limit(c))
  /\ Fits(bitmap, c) = {}
  /\ call' = [call EXCEPT ![t] = NextMapBlock(@)]
  /\ UNCHANGED <<bitmap, freeblocks, nextalloc, held, avail>>

(* balloc_from_range, a map block that cannot be read: return -1, which    *)
(* balloc takes for a range without room.                                  *)
BallocUnread(t) ==
  LET c == call[t] IN
  /\ c.pc = "scan"
  /\ c.mapblock < MapBlocks(Limit(c))
  /\ call' = [call EXCEPT ![t] = EndOfRange(@)]
  /\ avail' = [avail EXCEPT ![t] = @ \ NotReached(c)]
  /\ UNCHANGED <<bitmap, freeblocks, nextalloc, held>>

(* balloc: nothing from the goal up, search below the goal.                *)
BallocWrap(t) ==
  LET c == call[t] IN
  /\ c.pc = "scan" /\ c.pass = 1
  /\ Searched(c)
  /\ call' = [call EXCEPT ![t] = [pc |-> "scan", blocks |-> c.blocks, goal |-> c.goal,
                                  pass |-> 2, mapblock |-> 0]]
  /\ UNCHANGED <<bitmap, freeblocks, nextalloc, held, avail>>

(* balloc: nothing below the goal either, return -ENOSPC.                  *)
BallocFail(t) ==
  LET c == call[t] IN
  /\ c.pc = "scan" /\ GivesUp(c)
  /\ call' = [call EXCEPT ![t].pc = "enospc"]
  /\ UNCHANGED <<bitmap, freeblocks, nextalloc, held, avail>>

(* bfree: free the tail of an extent, all of it when keep is 0.            *)
(* (dleaf_chop frees the tail of a file extent that a truncate cuts.)      *)
Bfree(t, e, keep) ==
  /\ call[t].pc # "scan"
  /\ e \in held[t] /\ keep \in 0..(e[2] - 1)
  /\ TailOf(e, keep) \subseteq bitmap
  /\ bitmap' = bitmap \ TailOf(e, keep)
  /\ freeblocks' = freeblocks + (e[2] - keep)
  /\ held' = [held EXCEPT ![t] = (@ \ {e}) \cup (IF keep = 0 THEN {} ELSE {<<e[1], keep>>})]
  /\ UNCHANGED <<nextalloc, call, avail>>

(* bfree of a block whose map block cannot be read: -EIO, nothing is freed *)
(* and the extent stays with the caller.                                   *)
BfreeUnread(t, e, keep) ==
  /\ call[t].pc # "scan"
  /\ e \in held[t] /\ keep \in 0..(e[2] - 1)
  /\ UNCHANGED vars

Next ==
  \E t \in Task :
    \/ \E n \in 1..MaxBlocks : BallocStart(t, n)
    \/ BallocFound(t) \/ BallocSkip(t) \/ BallocUnread(t) \/ BallocWrap(t) \/ BallocFail(t)
    \/ \E e \in held[t] : \E keep \in 0..(e[2] - 1) :
         Bfree(t, e, keep) \/ BfreeUnread(t, e, keep)

(* The loops of a call are bounded and nothing in them waits for another   *)
(* task but the bitmap mutex, which every holder gives back.  That a read  *)
(* fails is never needed for a call to go on.                              *)
Fairness ==
  \A t \in Task :
    WF_vars(BallocFound(t) \/ BallocSkip(t) \/ BallocWrap(t) \/ BallocFail(t))

SafeSpec == Init /\ [][Next]_vars

Spec == SafeSpec /\ Fairness

-----------------------------------------------------------------------------
Calls == [pc : {"idle", "scan", "enospc"}, blocks : 1..MaxBlocks,
          goal : 0..VolBlocks, pass : {1, 2}, mapblock : Nat]

(* Type invariant.                                                         *)
TypeOK ==
  /\ bitmap \in SUBSET Blocks
  /\ freeblocks \in Int
  /\ nextalloc \in 0..VolBlocks
  /\ call \in [Task -> Calls]
  /\ held \in [Task -> SUBSET (Blocks \X (1..MaxBlocks))]
  /\ avail \in [Task -> SUBSET Blocks]

(* "Should match total of zero bits in allocation bitmap" (tux3.h:173):    *)
(* the counter follows every interleaving of balloc and bfree.             *)
FreeblocksMatches == freeblocks = VolBlocks - Cardinality(bitmap)

(* No block is handed out twice: the extents that the tasks own are        *)
(* disjoint from each other and from the reserved ones, whichever way the  *)
(* critical sections of their calls interleave.                            *)
Owned(t) == UNION {Extent(e[1], e[2]) : e \in held[t]}

HeldDisjoint ==
  /\ \A t, u \in Task : \A e \in held[t], f \in held[u] :
       <<t, e>> # <<u, f>> => Extent(e[1], e[2]) \cap Extent(f[1], f[2]) = {}
  /\ \A t \in Task : Owned(t) \cap Reserved = {}

(* Nothing leaks and nothing is used unallocated: the one bits are the     *)
(* reserved blocks and what the tasks own.                                   *)
BitmapIsOwned == bitmap = Reserved \cup UNION {Owned(t) : t \in Task}

(* An extent never crosses a map block: bfree masks its start with mapmask *)
(* and clears its bits in the one buffer that it has read.                 *)
InOneMapBlock ==
  \A t \in Task : \A e \in held[t] :
    \E m \in 0..VolBlocks : m * MapBits <= e[1] /\ e[1] + e[2] <= (m + 1) * MapBits

(* When balloc gives up with -ENOSPC, no fitting extent was there all the  *)
(* time in the part of the bitmap that it could read: every run of blocks  *)
(* that stayed free throughout the call is too short, or crosses a map     *)
(* block, or lies across the goal, where the search splits, or lies in or  *)
(* above a map block that could not be read, which ends the search of its  *)
(* range.  For a single block and a bitmap that can be read that means:    *)
(* there was none.                                                         *)
EnospcJustified ==
  \A t \in Task : call[t].pc = "enospc" =>
    \A s \in Blocks :
      LET e == Extent(s, call[t].blocks) IN
      e \subseteq avail[t] =>
        \/ s < call[t].goal /\ call[t].goal < s + call[t].blocks
        \/ s \div MapBits # (s + call[t].blocks - 1) \div MapBits

(* Every call returns.                                                     *)
BallocReturns == \A t \in Task : (call[t].pc = "scan") ~> (call[t].pc # "scan")
=============================================================================
