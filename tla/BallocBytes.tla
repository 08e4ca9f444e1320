----------------------------- MODULE BallocBytes -----------------------------
(***************************************************************************)
(* Block allocation as user/kernel/balloc.c carries it out: the bitmap is  *)
(* a file of blocks of bytes, balloc_from_range walks the bytes of one map *)
(* block after the other with the bitmap mutex held, and the bits are      *)
(* tested and changed with the masks of Bits.  The module implements       *)
(* Balloc, in which the search of one map block is one step.               *)
(***************************************************************************)
EXTENDS Bits, FiniteSets, FiniteSetsExt

CONSTANTS
  Task, VolBlocks, Reserved, Goal, MaxBlocks, CountRange, \* as in Balloc
  MapBytes,                             \* sb->blocksize
  NoTask                                \* the mutex is free

ASSUME BytesAssumption ==
  /\ VolBlocks \in Nat \ {0}
  /\ Reserved \subseteq 0..(VolBlocks - 1)
  /\ Goal \in 0..VolBlocks
  /\ MaxBlocks \in Nat \ {0}
  /\ MapBytes \in Nat \ {0}
  /\ NoTask \notin Task
  /\ CountRange \in Nat /\ VolBlocks + 14 < CountRange

MapBits == 8 * MapBytes

VARIABLES
  map,        \* map[m]: the bytes of block m of the bitmap file
  mutex,      \* the task in a critical section of sb->bitmap->i_mutex
  at,         \* at[t]: the loop variables of balloc_from_range
  freeblocks, nextalloc, call, held, avail    \* as in Balloc

vars == <<map, mutex, at, freeblocks, nextalloc, call, held, avail>>

(* The bitmap that the bytes stand for.                                    *)
Bitmap == {b \in 0..(VolBlocks - 1) : BitAt(map[b \div MapBits], b % MapBits)}

A == INSTANCE Balloc WITH bitmap <- Bitmap

MapFile == 0..(A!MapBlocks(VolBlocks) - 1)

NotAt == [p |-> 0, top |-> 0, startbit |-> 0, run |-> 0, tail |-> 0]

(* As in Balloc: the reserved blocks are ones.                             *)
Init ==
  /\ map = [m \in MapFile |-> [k \in 0..(MapBytes - 1) |->
               {i \in Bit : m * MapBits + 8 * k + i \in Reserved}]]
  /\ mutex = NoTask
  /\ at = [t \in Task |-> NotAt]
  /\ freeblocks = VolBlocks - Cardinality(Reserved)
  /\ nextalloc = Goal
  /\ call = [t \in Task |-> A!Idle]
  /\ held = [t \in Task |-> {}]
  /\ avail = [t \in Task |-> {}]

-----------------------------------------------------------------------------
(* Mutants are named so, as in Balloc.                                     *)
MutantRoundDown(c) == (A!Limit(c) - A!Start(c) + (A!Start(c) % 8)) \div 8

(* The bytes that a range has left to search when the loop is entered.     *)
BytesLeft(c) == (A!Limit(c) - A!Start(c) + (A!Start(c) % 8) + 7) \div 8

BallocStart(t, n) ==
  /\ UNCHANGED <<map, mutex>>
  /\ A!BallocStart(t, n)
  /\ at' = [at EXCEPT ![t] = [NotAt EXCEPT !.tail = BytesLeft(call'[t]),
                                           !.startbit = nextalloc % 8]]

MutantFromByteZero(c) == 0

(* The byte at which the search of a map block starts: the first one holds *)
(* the first block of the range.                                           *)
Offset(c) ==
  IF c.mapblock = A!Start(c) \div MapBits THEN (A!Start(c) % MapBits) \div 8 ELSE 0

(* The number of bytes to search in it.                                    *)
MutantUnclipped(c, tail) == tail
Bytes(c, tail) == Min({MapBytes - Offset(c), tail})

(* Take the mutex for the next map block.                                  *)
LockMapBlock(t) ==
  LET c == call[t] IN
  /\ c.pc = "scan" /\ mutex = NoTask
  /\ c.mapblock < A!MapBlocks(A!Limit(c))
  /\ mutex' = t
  /\ at' = [at EXCEPT ![t].p = Offset(c), ![t].run = 0,
                      ![t].top = Offset(c) + Bytes(c, at[t].tail)]
  /\ UNCHANGED <<map, freeblocks, nextalloc, call, held, avail>>

(* The next map block cannot be read; blockread comes before the mutex.    *)
BallocUnread(t) ==
  /\ mutex # t
  /\ UNCHANGED <<map, mutex>>
  /\ A!BallocUnread(t)
  /\ at' = [at EXCEPT ![t] = NotAt]

(* The run of zero bits that ends at bit i of a byte, when a run of the    *)
(* given length ended at the byte before.                                  *)
RunAt(byte, startbit, before) ==
  LET run[i \in startbit..7] ==
        IF i \in byte THEN 0
        ELSE 1 + (IF i = startbit THEN before ELSE run[i - 1])
  IN  run

(* The bits of the byte under p at which a run of the wanted length ends.  *)
Hits(t) ==
  LET byte == map[call[t].mapblock][at[t].p]
      run  == RunAt(byte, at[t].startbit, at[t].run)
  IN  {i \in at[t].startbit..7 : run[i] = call[t].blocks}

(* The block at which the first such run ends.                             *)
FoundEnd(t) == Min(Hits(t)) + 8 * at[t].p + call[t].mapblock * MapBits

MutantNoLimit(t) == TRUE
BelowLimit(t) == FoundEnd(t) < A!Limit(call[t])

InByte(t) == mutex = t /\ at[t].p < at[t].top

(* A byte without a hit: carry the run on, or drop it at a byte of ones.   *)
ScanByte(t) ==
  LET byte == map[call[t].mapblock][at[t].p] IN
  /\ InByte(t)
  /\ byte = Bit \/ Hits(t) = {}
  /\ at' = [at EXCEPT ![t].p = @ + 1, ![t].startbit = 0,
                      ![t].run = IF byte = Bit THEN 0
                                 ELSE RunAt(byte, at[t].startbit, at[t].run)[7]]
  /\ UNCHANGED <<map, mutex, freeblocks, nextalloc, call, held, avail>>

(* A hit before the limit: set the bits, move the goal, release the mutex. *)
ScanFound(t) ==
  LET n == call[t].blocks
      found == FoundEnd(t) - (n - 1)
  IN
  /\ InByte(t)
  /\ map[call[t].mapblock][at[t].p] # Bit /\ Hits(t) # {}
  /\ BelowLimit(t)
  /\ map' = [map EXCEPT ![call[t].mapblock] = set_bits(@, found % MapBits, n)]
  /\ nextalloc' = found + n
  /\ freeblocks' = freeblocks - n
  /\ held' = [held EXCEPT ![t] = @ \cup {<<found, n>>}]
  /\ call' = [call EXCEPT ![t] = A!Idle]
  /\ A!Returned(t, A!Extent(found, n))
  /\ mutex' = NoTask
  /\ at' = [at EXCEPT ![t] = NotAt]

(* The bytes are used up, or a hit is beyond the limit (final_partial_byte)*)
(* : release the mutex and go on with the next map block.                  *)
UnlockMapBlock(t) ==
  LET c == call[t] IN
  /\ mutex = t
  /\ \/ at[t].p = at[t].top
     \/ /\ InByte(t)
        /\ map[c.mapblock][at[t].p] # Bit /\ Hits(t) # {}
        /\ ~BelowLimit(t)
  /\ call' = [call EXCEPT ![t].mapblock = @ + 1]
  /\ mutex' = NoTask
  /\ at' = [at EXCEPT ![t] = [NotAt EXCEPT !.tail = at[t].tail - (at[t].top - Offset(c))]]
  /\ UNCHANGED <<map, freeblocks, nextalloc, held, avail>>

(* The second range of balloc starts at block 0.                           *)
BallocWrap(t) ==
  /\ UNCHANGED <<map, mutex>>
  /\ A!BallocWrap(t)
  /\ at' = [at EXCEPT ![t] = [NotAt EXCEPT !.tail = BytesLeft(call'[t])]]

BallocFail(t) ==
  /\ UNCHANGED <<map, mutex>>
  /\ A!BallocFail(t)
  /\ at' = [at EXCEPT ![t] = NotAt]

(* bfree of the tail of an extent.                                         *)
Bfree(t, e, keep) ==
  LET start == e[1] + keep
      n     == e[2] - keep
      m     == start \div MapBits
  IN
  /\ call[t].pc # "scan" /\ mutex = NoTask
  /\ e \in held[t]
  /\ all_set(map[m], start % MapBits, n)
  /\ map' = [map EXCEPT ![m] = clear_bits(@, start % MapBits, n)]
  /\ freeblocks' = freeblocks + n
  /\ held' = [held EXCEPT ![t] = (@ \ {e}) \cup (IF keep = 0 THEN {} ELSE {<<e[1], keep>>})]
  /\ UNCHANGED <<mutex, at, nextalloc, call, avail>>

(* bfree cannot read its map block: -EIO, and the extent stays held.       *)
BfreeUnread(t, e, keep) ==
  /\ call[t].pc # "scan"
  /\ e \in held[t] /\ keep \in 0..(e[2] - 1)
  /\ UNCHANGED vars

(* bfree finds a zero bit: a double free is refused with -EIO.             *)
BfreeRefused(t, start, n) ==
  LET m == start \div MapBits IN
  /\ call[t].pc # "scan" /\ mutex = NoTask
  /\ (start % MapBits) + n <= MapBits
  /\ ~all_set(map[m], start % MapBits, n)
  /\ UNCHANGED vars

Next ==
  \E t \in Task :
    \/ \E n \in 1..MaxBlocks : BallocStart(t, n)
    \/ LockMapBlock(t) \/ BallocUnread(t)
    \/ ScanByte(t) \/ ScanFound(t) \/ UnlockMapBlock(t)
    \/ BallocWrap(t) \/ BallocFail(t)
    \/ \E e \in held[t] : \E keep \in 0..(e[2] - 1) :
         Bfree(t, e, keep) \/ BfreeUnread(t, e, keep)
    \/ \E s \in 0..(VolBlocks - 1), n \in 1..MaxBlocks : BfreeRefused(t, s, n)

Spec == Init /\ [][Next]_vars

-----------------------------------------------------------------------------
(* Type invariant.                                                         *)
TypeOK ==
  /\ map \in [MapFile -> Bitmaps(MapBytes)]
  /\ mutex \in Task \cup {NoTask}
  /\ at \in [Task -> [p : 0..MapBytes, top : 0..MapBytes, startbit : Bit,
                      run : 0..MaxBlocks, tail : Nat]]

(* The walk over the bytes finds what Balloc promises: the first extent    *)
(* that fits, below the limit even in the partial last byte, and refuses   *)
(* to report a map block empty while it has one.                           *)
ImplementsBalloc == A!SafeSpec

(* No bit beyond the end of the volume is ever set, though the last byte   *)
(* and the last map block reach past it: count_range would count it.       *)
NothingBeyondVolume ==
  \A m \in MapFile : \A k \in 0..(MapBytes - 1) : \A i \in map[m][k] :
    m * MapBits + 8 * k + i < VolBlocks

(* The run that is carried over from the byte before is what it says: that *)
(* many blocks below p are free and in the range.                          *)
RunIsFree ==
  \A t \in Task : InByte(t) =>
    LET here == call[t].mapblock * MapBits + 8 * at[t].p IN
    \A b \in (here - at[t].run)..(here - 1) :
       b \notin Bitmap /\ b >= A!Start(call[t]) /\ b >= call[t].mapblock * MapBits
=============================================================================
