---------------------------- MODULE BallocProofs ----------------------------
(***************************************************************************)
(* Proofs about Balloc, for any volume, any length of a map block and any  *)
(* set of tasks.                                                           *)
(***************************************************************************)
EXTENDS Balloc, Numbers, FiniteSetTheorems

-----------------------------------------------------------------------------
(* A block below a map block lies in an earlier one.                       *)
LEMMA DivBelow ==
  ASSUME NEW s \in Nat, NEW m \in Nat, s < m * MapBits
  PROVE  s \div MapBits < m
<1>1. MapBits \in Nat \ {0}
  BY BallocAssumption
<1> DEFINE k == s \div MapBits
<1>2. k \in Nat /\ k * MapBits <= s
  BY <1>1, DivBounds
<1> HIDE DEF k
<1>3. m <= k => m * MapBits <= k * MapBits
  BY <1>1, <1>2, MulMono
<1>4. k * MapBits \in Int /\ m * MapBits \in Int
  BY <1>1, <1>2, SMT
<1>5. k < m
  BY <1>2, <1>3, <1>4
<1> QED
  BY <1>5 DEF k

(* MapBlocks counts the map block of every block below the limit.          *)
LEMMA MapBlocksCover ==
  ASSUME NEW limit \in Nat, NEW s \in Nat, s < limit
  PROVE  s \div MapBits < MapBlocks(limit)
<1>1. MapBits \in Nat \ {0}
  BY BallocAssumption
<1>2. s \div MapBits \in Nat /\ (s \div MapBits) * MapBits <= s /\ (s \div MapBits) * MapBits \in Nat
  BY <1>1, DivBounds, DivRest
<1>3. (s \div MapBits) * MapBits < limit
  BY <1>2
<1> QED
  BY <1>1, <1>2, <1>3, CeilDiv DEF MapBlocks

(* The number of map blocks of a pass is a number.                         *)
LEMMA MapBlocksNat ==
  ASSUME NEW c \in Calls
  PROVE  Limit(c) \in 0..VolBlocks /\ MapBlocks(Limit(c)) \in Nat
<1>1. Limit(c) \in 0..VolBlocks /\ MapBits \in Nat \ {0} /\ VolBlocks \in Nat
  BY BallocAssumption DEF Calls, Limit
<1>2. Limit(c) + MapBits - 1 \in Nat
  BY <1>1
<1> QED
  BY <1>1, <1>2, DivBounds DEF MapBlocks

-----------------------------------------------------------------------------
(* What a step finds in a map block: a free extent of the volume.          *)
LEMMA FitsFree ==
  ASSUME TypeOK, NEW t \in Task, NEW s \in Fits(bitmap, call[t])
  PROVE  /\ s \in Blocks
         /\ call[t].blocks \in 1..MaxBlocks
         /\ s + call[t].blocks <= VolBlocks
         /\ Extent(s, call[t].blocks) \subseteq Blocks
         /\ Extent(s, call[t].blocks) \cap bitmap = {}
<1>1. call[t] \in Calls
  BY DEF TypeOK
<1>2. call[t].blocks \in 1..MaxBlocks /\ call[t].goal \in 0..VolBlocks
  BY <1>1 DEF Calls
<1>3. Limit(call[t]) \in 0..VolBlocks
  BY <1>2, BallocAssumption DEF Limit
<1>4. s \in Blocks /\ s + call[t].blocks <= Limit(call[t]) /\ Extent(s, call[t].blocks) \cap bitmap = {}
  BY DEF Fits, InRange, FreeRun
<1>5. s \in Nat /\ VolBlocks \in Nat
  BY <1>4, BallocAssumption DEF Blocks
<1>6. s + call[t].blocks <= VolBlocks
  BY <1>2, <1>3, <1>4, <1>5
<1>7. Extent(s, call[t].blocks) \subseteq Blocks
  BY <1>2, <1>5, <1>6 DEF Extent, Blocks
<1> QED
  BY <1>2, <1>4, <1>6, <1>7

(* Every step keeps the type invariant.                                   *)
LEMMA TypeStep ==
  ASSUME TypeOK, [Next]_vars
  PROVE  TypeOK'
<1> USE BallocAssumption
<1>1. ASSUME NEW t \in Task, NEW n \in 1..MaxBlocks, BallocStart(t, n) PROVE TypeOK'
  <2>1. nextalloc \in 0..VolBlocks /\ nextalloc \div MapBits \in Nat
    BY DivBounds DEF TypeOK
  <2>2. [pc |-> "scan", blocks |-> n, goal |-> nextalloc, pass |-> 1,
         mapblock |-> nextalloc \div MapBits] \in Calls
    BY <2>1 DEF Calls
  <2>3. call' \in [Task -> Calls] /\ avail' \in [Task -> SUBSET Blocks]
    BY <1>1, <2>2 DEF BallocStart, TypeOK
  <2> QED
    BY <1>1, <2>3 DEF BallocStart, TypeOK
<1>2. ASSUME NEW t \in Task, BallocFound(t) PROVE TypeOK'
  <2> DEFINE n == call[t].blocks
  <2>1. PICK s \in Fits(bitmap, call[t]) :
          /\ bitmap' = bitmap \cup Extent(s, n)
          /\ freeblocks' = freeblocks - n
          /\ nextalloc' = s + n
          /\ held' = [held EXCEPT ![t] = @ \cup {<<s, n>>}]
          /\ call' = [call EXCEPT ![t] = Idle]
          /\ Returned(t, Extent(s, n))
    BY <1>2 DEF BallocFound
  <2>2. /\ s \in Blocks /\ n \in 1..MaxBlocks
        /\ s + n <= VolBlocks
        /\ Extent(s, n) \subseteq Blocks
    BY FitsFree
  <2>3. bitmap' \in SUBSET Blocks
    BY <2>1, <2>2 DEF TypeOK
  <2>4. nextalloc' \in 0..VolBlocks /\ freeblocks' \in Int
    BY <2>1, <2>2 DEF TypeOK, Blocks
  <2>5. call' \in [Task -> Calls]
    BY <2>1 DEF TypeOK, Idle, Calls
  <2>6. held' \in [Task -> SUBSET (Blocks \X (1..MaxBlocks))]
    BY <2>1, <2>2 DEF TypeOK
  <2>7. avail' \in [Task -> SUBSET Blocks]
    BY <2>1 DEF TypeOK, Returned
  <2> QED
    BY <2>3, <2>4, <2>5, <2>6, <2>7 DEF TypeOK
<1>3. ASSUME NEW t \in Task, BallocSkip(t) PROVE TypeOK'
  BY <1>3 DEF BallocSkip, NextMapBlock, TypeOK, Calls
<1>4. ASSUME NEW t \in Task, BallocWrap(t) PROVE TypeOK'
  <2>1. [pc |-> "scan", blocks |-> call[t].blocks, goal |-> call[t].goal,
         pass |-> 2, mapblock |-> 0] \in Calls
    BY DEF TypeOK, Calls
  <2> QED
    BY <1>4, <2>1 DEF BallocWrap, TypeOK
<1>5. ASSUME NEW t \in Task, BallocFail(t) PROVE TypeOK'
  BY <1>5 DEF BallocFail, GivesUp, TypeOK, Calls
<1>6. ASSUME NEW t \in Task, NEW e \in held[t], NEW keep \in 0..(e[2] - 1),
             Bfree(t, e, keep)
      PROVE TypeOK'
  <2>1. e \in Blocks \X (1..MaxBlocks)
    BY DEF TypeOK
  <2>2. keep # 0 => <<e[1], keep>> \in Blocks \X (1..MaxBlocks)
    BY <2>1 DEF Blocks
  <2>3. held' \in [Task -> SUBSET (Blocks \X (1..MaxBlocks))]
    BY <1>6, <2>2 DEF Bfree, TailOf, TypeOK
  <2>4. bitmap' \in SUBSET Blocks /\ freeblocks' \in Int
    BY <1>6, <2>1 DEF Bfree, TailOf, TypeOK
  <2> QED
    BY <1>6, <2>3, <2>4 DEF Bfree, TailOf, TypeOK
<1>7. ASSUME NEW t \in Task, BallocUnread(t) PROVE TypeOK'
  <2>1. call[t] \in Calls /\ MapBlocks(Limit(call[t])) \in Nat
    BY MapBlocksNat DEF TypeOK
  <2>2. EndOfRange(call[t]) \in Calls
    BY <2>1 DEF EndOfRange, Calls
  <2>3. call' \in [Task -> Calls] /\ avail' \in [Task -> SUBSET Blocks]
    BY <1>7, <2>2 DEF BallocUnread, TypeOK
  <2> QED
    BY <1>7, <2>3 DEF BallocUnread, TypeOK
<1>8. CASE UNCHANGED vars
  BY <1>8 DEF vars, TypeOK
<1> QED
  BY <1>1, <1>2, <1>3, <1>4, <1>5, <1>6, <1>7, <1>8 DEF Next, BfreeUnread

(* The type invariant holds in every state: in particular the goal of the  *)
(* next search stays within the volume and every extent that is handed out *)
(* lies within it.                                                         *)
THEOREM TypeCorrect == SafeSpec => []TypeOK
<1>1. Init => TypeOK
  <2>1. IsFiniteSet(Reserved)
    <3>1. IsFiniteSet(0..(VolBlocks - 1))
      BY BallocAssumption, FS_Interval
    <3> QED
      BY <3>1, BallocAssumption, FS_Subset, Zenon
  <2>2. Cardinality(Reserved) \in Nat
    BY <2>1, FS_CardinalityType
  <2> QED
    BY <2>2, BallocAssumption DEF Init, TypeOK, Idle, Calls, Blocks
<1>2. TypeOK /\ [Next]_vars => TypeOK'
  BY TypeStep
<1> QED
  BY <1>1, <1>2, PTL DEF SafeSpec

-----------------------------------------------------------------------------
(***************************************************************************)
(* Ownership.  The three invariants are inductive together: a new extent   *)
(* is disjoint from every extent that is held because those are made of    *)
(* one bits (BitmapIsOwned), and a freed tail takes no bit of another      *)
(* extent with it because they are disjoint (HeldDisjoint).                *)
(***************************************************************************)
Ownership == HeldDisjoint /\ BitmapIsOwned /\ InOneMapBlock

(* The tail that bfree frees and what it keeps make up the extent.         *)
LEMMA ExtentSplit ==
  ASSUME NEW s \in Nat, NEW n \in Nat, NEW keep \in 0..n
  PROVE  /\ Extent(s, n) = Extent(s, keep) \cup Extent(s + keep, n - keep)
         /\ Extent(s, keep) \cap Extent(s + keep, n - keep) = {}
BY DEF Extent

(* A step that leaves the bits and the extents alone.                      *)
LEMMA OwnershipUnchanged ==
  ASSUME Ownership, UNCHANGED <<bitmap, held>>
  PROVE  Ownership'
<1>1. HeldDisjoint'
  <2>1. HeldDisjoint /\ held' = held
    BY DEF Ownership
  <2>2. \A t : Owned(t)' = Owned(t)
    BY <2>1 DEF Owned
  <2> QED
    BY <2>1, <2>2 DEF HeldDisjoint
<1>2. BitmapIsOwned'
  BY DEF Ownership, BitmapIsOwned, Owned
<1>3. InOneMapBlock'
  BY DEF Ownership, InOneMapBlock
<1> QED
  BY <1>1, <1>2, <1>3 DEF Ownership

(* The one bits after a call has taken an extent.                          *)
LEMMA FoundOwnership ==
  ASSUME TypeOK, Ownership, NEW t \in Task, BallocFound(t)
  PROVE  Ownership'
<1> USE BallocAssumption
<1> DEFINE n == call[t].blocks
           c == call[t]
<1>1. PICK s \in Fits(bitmap, call[t]) :
        /\ bitmap' = bitmap \cup Extent(s, n)
        /\ held' = [held EXCEPT ![t] = @ \cup {<<s, n>>}]
  BY DEF BallocFound
<1>2. /\ s \in Blocks /\ n \in 1..MaxBlocks
      /\ Extent(s, n) \subseteq Blocks
      /\ Extent(s, n) \cap bitmap = {}
  BY FitsFree
<1>3. \A u \in Task : \A f \in held[u] : Extent(f[1], f[2]) \subseteq bitmap
  BY DEF Ownership, BitmapIsOwned, Owned
<1>4. \A u \in Task : held'[u] = IF u = t THEN held[t] \cup {<<s, n>>} ELSE held[u]
  BY <1>1 DEF TypeOK
<1>5. \A u, v \in Task : \A e \in held'[u], f \in held'[v] :
        <<u, e>> # <<v, f>> => Extent(e[1], e[2]) \cap Extent(f[1], f[2]) = {}
  <2> SUFFICES ASSUME NEW u \in Task, NEW v \in Task, NEW e \in held'[u], NEW f \in held'[v],
                      <<u, e>> # <<v, f>>
               PROVE  Extent(e[1], e[2]) \cap Extent(f[1], f[2]) = {}
    OBVIOUS
  <2>1. e \in held[u] \/ (u = t /\ e = <<s, n>>)
    BY <1>4
  <2>2. f \in held[v] \/ (v = t /\ f = <<s, n>>)
    BY <1>4
  <2>3. CASE e \in held[u] /\ f \in held[v]
    BY <2>3 DEF Ownership, HeldDisjoint
  <2>4. CASE e \in held[u] /\ f = <<s, n>>
    BY <1>2, <1>3, <2>4
  <2>5. CASE e = <<s, n>> /\ f \in held[v]
    BY <1>2, <1>3, <2>5
  <2> QED
    BY <2>1, <2>2, <2>3, <2>4, <2>5
<1>6. \A u \in Task : \A f \in held'[u] : Extent(f[1], f[2]) \cap Reserved = {}
  <2>1. \A u \in Task : \A f \in held[u] : Extent(f[1], f[2]) \cap Reserved = {}
    BY DEF Ownership, HeldDisjoint, Owned
  <2>2. Extent(s, n) \cap Reserved = {}
    BY <1>2 DEF Ownership, BitmapIsOwned
  <2> QED
    BY <1>4, <2>1, <2>2
<1>7. HeldDisjoint'
  BY <1>5, <1>6 DEF HeldDisjoint, Owned
<1>8. BitmapIsOwned'
  <2>1. (UNION {Owned(u)' : u \in Task}) = (UNION {Owned(u) : u \in Task}) \cup Extent(s, n)
    <3>1. ASSUME NEW b
          PROVE  b \in UNION {Owned(u)' : u \in Task}
                   <=> b \in (UNION {Owned(u) : u \in Task}) \cup Extent(s, n)
      <4>1. ASSUME NEW u \in Task, NEW f \in held'[u], b \in Extent(f[1], f[2])
            PROVE  b \in (UNION {Owned(v) : v \in Task}) \cup Extent(s, n)
        BY <1>4, <4>1 DEF Owned
      <4>2. ASSUME NEW u \in Task, NEW f \in held[u], b \in Extent(f[1], f[2])
            PROVE  \E g \in held'[u] : b \in Extent(g[1], g[2])
        BY <1>4, <4>2
      <4>3. b \in Extent(s, n) => \E g \in held'[t] : b \in Extent(g[1], g[2])
        <5>1. <<s, n>> \in held'[t] /\ <<s, n>>[1] = s /\ <<s, n>>[2] = n
          BY <1>4
        <5> QED
          BY <5>1
      <4> QED
        BY <4>1, <4>2, <4>3 DEF Owned
    <3> QED
      BY <3>1
  <2> QED
    BY <1>1, <2>1 DEF Ownership, BitmapIsOwned
<1>9. InOneMapBlock'
  <2>1. /\ c.mapblock \in Nat /\ c.mapblock * MapBits <= s
        /\ s + n <= (c.mapblock + 1) * MapBits
    BY DEF Fits, InMapBlock, TypeOK, Calls
  <2>2. c.mapblock \in 0..VolBlocks
    <3>1. c.mapblock * 1 <= c.mapblock * MapBits
      <4>1. 1 * c.mapblock <= MapBits * c.mapblock
        BY <2>1, MulMono
      <4> QED
        BY <2>1, <4>1
    <3>2. c.mapblock * MapBits \in Int /\ s \in Int /\ s < VolBlocks
      BY <1>2, <2>1 DEF Blocks
    <3> QED
      BY <2>1, <3>1, <3>2, SMT
  <2>3. \E m \in 0..VolBlocks : m * MapBits <= s /\ s + n <= (m + 1) * MapBits
    BY <2>1, <2>2
  <2> SUFFICES ASSUME NEW u \in Task, NEW f \in held'[u]
               PROVE  \E m \in 0..VolBlocks : m * MapBits <= f[1] /\ f[1] + f[2] <= (m + 1) * MapBits
    BY DEF InOneMapBlock
  <2>4. CASE f \in held[u]
    BY <2>4, Zenon DEF Ownership, InOneMapBlock
  <2>5. CASE f = <<s, n>>
    <3>1. f[1] = s /\ f[2] = n
      BY <2>5
    <3> QED
      BY <2>3, <3>1, Zenon
  <2>6. f \in held[u] \/ f = <<s, n>>
    BY <1>4
  <2> QED
    BY <2>4, <2>5, <2>6
<1> QED
  BY <1>7, <1>8, <1>9 DEF Ownership

(* The one bits after a tail has been freed.                               *)
LEMMA BfreeOwnership ==
  ASSUME TypeOK, Ownership, NEW t \in Task, NEW e \in held[t],
         NEW keep \in 0..(e[2] - 1), Bfree(t, e, keep)
  PROVE  Ownership'
<1> USE BallocAssumption
<1> DEFINE F == Extent(e[1] + keep, e[2] - keep)
           K == Extent(e[1], keep)
<1>1. e \in Blocks \X (1..MaxBlocks) /\ e[1] \in Nat /\ e[2] \in Nat /\ keep \in 0..e[2]
  BY DEF TypeOK, Blocks
<1>2. Extent(e[1], e[2]) = K \cup F /\ K \cap F = {}
  BY <1>1, ExtentSplit
<1>3. bitmap' = bitmap \ F
  BY DEF Bfree, TailOf
<1>4. \A u \in Task : held'[u] =
        IF u = t THEN (held[t] \ {e}) \cup (IF keep = 0 THEN {} ELSE {<<e[1], keep>>})
        ELSE held[u]
  BY DEF Bfree, TailOf, TypeOK
<1>5. keep = 0 => K = {}
  BY <1>1 DEF Extent
<1>a. \A u \in Task : \A f \in held[u] : <<u, f>> # <<t, e>> =>
        Extent(f[1], f[2]) \cap (K \cup F) = {}
  BY <1>2 DEF Ownership, HeldDisjoint
<1>b. \A u \in Task : \A f \in held'[u] :
        \/ f \in held[u] /\ <<u, f>> # <<t, e>>
        \/ u = t /\ keep # 0 /\ f = <<e[1], keep>> /\ Extent(f[1], f[2]) = K
  BY <1>4
<1>6. \A u, v \in Task : \A g \in held'[u], f \in held'[v] :
        <<u, g>> # <<v, f>> => Extent(g[1], g[2]) \cap Extent(f[1], f[2]) = {}
  <2> SUFFICES ASSUME NEW u \in Task, NEW v \in Task, NEW g \in held'[u], NEW f \in held'[v],
                      <<u, g>> # <<v, f>>
               PROVE  Extent(g[1], g[2]) \cap Extent(f[1], f[2]) = {}
    OBVIOUS
  <2>3. CASE g \in held[u] /\ f \in held[v]
    BY <2>3 DEF Ownership, HeldDisjoint
  <2>4. CASE g \in held[u] /\ <<u, g>> # <<t, e>> /\ Extent(f[1], f[2]) = K
    BY <1>a, <2>4
  <2>5. CASE Extent(g[1], g[2]) = K /\ f \in held[v] /\ <<v, f>> # <<t, e>>
    BY <1>a, <2>5
  <2> QED
    BY <1>b, <2>3, <2>4, <2>5
<1>7. \A u \in Task : \A f \in held'[u] : Extent(f[1], f[2]) \cap Reserved = {}
  <2>1. \A u \in Task : \A f \in held[u] : Extent(f[1], f[2]) \cap Reserved = {}
    BY DEF Ownership, HeldDisjoint, Owned
  <2> QED
    BY <1>b, <1>2, <2>1
<1>8. HeldDisjoint'
  BY <1>6, <1>7 DEF HeldDisjoint, Owned
<1>9. BitmapIsOwned'
  <2>1. F \cap Reserved = {}
    BY <1>2 DEF Ownership, HeldDisjoint, Owned
  <2>2. (UNION {Owned(u)' : u \in Task}) = (UNION {Owned(u) : u \in Task}) \ F
    <3>1. ASSUME NEW u \in Task, NEW f \in held'[u]
          PROVE  Extent(f[1], f[2]) \cap F = {} /\ Extent(f[1], f[2]) \subseteq UNION {Owned(v) : v \in Task}
      BY <1>a, <1>b, <1>2 DEF Owned
    <3>2. ASSUME NEW u \in Task, NEW f \in held[u], NEW b \in Extent(f[1], f[2]), b \notin F
          PROVE  \E g \in held'[u] : b \in Extent(g[1], g[2])
      <4>1. CASE <<u, f>> # <<t, e>>
        BY <1>4, <4>1
      <4>2. CASE u = t /\ f = e
        <5>1. b \in K /\ keep # 0
          BY <1>2, <1>5, <3>2, <4>2
        <5>2. <<e[1], keep>> \in held'[u]
          BY <1>4, <4>2, <5>1
        <5> QED
          BY <5>1, <5>2
      <4> QED
        BY <4>1, <4>2
    <3>3. ASSUME NEW b PROVE b \in UNION {Owned(u)' : u \in Task} <=> b \in (UNION {Owned(u) : u \in Task}) \ F
      BY <3>1, <3>2 DEF Owned
    <3> QED
      BY <3>3
  <2> QED
    BY <1>3, <2>1, <2>2 DEF Ownership, BitmapIsOwned
<1>10. InOneMapBlock'
  <2>1. PICK m \in 0..VolBlocks : m * MapBits <= e[1] /\ e[1] + e[2] <= (m + 1) * MapBits
    BY DEF Ownership, InOneMapBlock
  <2>2. (m + 1) * MapBits \in Int
    BY SMT
  <2>3. e[1] + keep <= (m + 1) * MapBits
    BY <1>1, <2>1, <2>2, SMT
  <2> SUFFICES ASSUME NEW u \in Task, NEW f \in held'[u]
               PROVE  \E k \in 0..VolBlocks : k * MapBits <= f[1] /\ f[1] + f[2] <= (k + 1) * MapBits
    BY DEF InOneMapBlock
  <2>4. CASE f \in held[u]
    BY <2>4 DEF Ownership, InOneMapBlock
  <2>5. CASE f = <<e[1], keep>>
    BY <2>1, <2>3, <2>5
  <2> QED
    BY <1>b, <2>4, <2>5
<1> QED
  BY <1>8, <1>9, <1>10 DEF Ownership

(* No block is ever handed out twice, every one bit is owned, and no       *)
(* extent crosses a map block, however the calls of the tasks interleave.  *)
THEOREM OwnershipCorrect == SafeSpec => [](HeldDisjoint /\ BitmapIsOwned /\ InOneMapBlock)
<1>1. Init => Ownership
  BY DEF Init, Ownership, HeldDisjoint, BitmapIsOwned, InOneMapBlock, Owned
<1>2. TypeOK /\ Ownership /\ [Next]_vars => Ownership'
  <2> SUFFICES ASSUME TypeOK, Ownership, [Next]_vars PROVE Ownership'
    OBVIOUS
  <2>1. ASSUME NEW t \in Task, NEW n \in 1..MaxBlocks, BallocStart(t, n) PROVE Ownership'
    BY <2>1, OwnershipUnchanged DEF BallocStart
  <2>2. ASSUME NEW t \in Task, BallocFound(t) PROVE Ownership'
    BY <2>2, FoundOwnership
  <2>3. ASSUME NEW t \in Task,
               BallocSkip(t) \/ BallocUnread(t) \/ BallocWrap(t) \/ BallocFail(t)
        PROVE Ownership'
    BY <2>3, OwnershipUnchanged DEF BallocSkip, BallocUnread, BallocWrap, BallocFail
  <2>4. ASSUME NEW t \in Task, NEW e \in held[t], NEW keep \in 0..(e[2] - 1),
               Bfree(t, e, keep)
        PROVE Ownership'
    BY <2>4, BfreeOwnership
  <2>5. CASE UNCHANGED vars
    BY <2>5, OwnershipUnchanged DEF vars
  <2> QED
    BY <2>1, <2>2, <2>3, <2>4, <2>5 DEF Next, BfreeUnread
<1>3. Ownership <=> HeldDisjoint /\ BitmapIsOwned /\ InOneMapBlock
  BY DEF Ownership
<1> QED
  BY <1>1, <1>2, <1>3, TypeCorrect, PTL DEF SafeSpec

(* Nothing leaks: every one bit of the bitmap is a reserved block or one   *)
(* of an extent that a task owns, and every owned block is a one bit.      *)
THEOREM BitmapCorrect == SafeSpec => []BitmapIsOwned
BY OwnershipCorrect, PTL

(* bfree may mask the start of any extent that it is handed with mapmask:  *)
(* all of its bits are in the one map block that it reads.                 *)
THEOREM OneMapBlockCorrect == SafeSpec => []InOneMapBlock
BY OwnershipCorrect, PTL

-----------------------------------------------------------------------------
(* The size of an extent.                                                  *)
LEMMA ExtentSize ==
  ASSUME NEW s \in Nat, NEW n \in Nat
  PROVE  IsFiniteSet(Extent(s, n)) /\ Cardinality(Extent(s, n)) = n
BY FS_Interval DEF Extent

(* The bitmap is finite, so the free blocks can be counted.                *)
LEMMA BitmapFinite ==
  ASSUME TypeOK
  PROVE  IsFiniteSet(bitmap) /\ Cardinality(bitmap) \in Nat
<1>1. IsFiniteSet(Blocks)
  BY FS_Interval, BallocAssumption DEF Blocks
<1>2. IsFiniteSet(bitmap)
  BY <1>1, FS_Subset DEF TypeOK
<1> QED
  BY <1>2, FS_CardinalityType

(* sb->freeblocks always matches the zero bits of the bitmap: a call sets  *)
(* only zero bits, and bfree refuses to clear a zero bit.                  *)
THEOREM FreeblocksCorrect == SafeSpec => []FreeblocksMatches
<1>1. Init => FreeblocksMatches
  BY DEF Init, FreeblocksMatches
<1>2. TypeOK /\ FreeblocksMatches /\ [Next]_vars => FreeblocksMatches'
  <2> SUFFICES ASSUME TypeOK, FreeblocksMatches, [Next]_vars PROVE FreeblocksMatches'
    OBVIOUS
  <2> USE BallocAssumption
  <2>1. ASSUME NEW t \in Task, NEW n \in 1..MaxBlocks, BallocStart(t, n) PROVE FreeblocksMatches'
    BY <2>1 DEF BallocStart, FreeblocksMatches
  <2>2. ASSUME NEW t \in Task, BallocFound(t) PROVE FreeblocksMatches'
    <3> DEFINE n == call[t].blocks
    <3>1. PICK s \in Fits(bitmap, call[t]) :
            bitmap' = bitmap \cup Extent(s, n) /\ freeblocks' = freeblocks - n
      BY <2>2 DEF BallocFound
    <3>2. s \in Nat /\ n \in Nat /\ Extent(s, n) \cap bitmap = {}
      BY FitsFree DEF Blocks
    <3>3. IsFiniteSet(Extent(s, n)) /\ Cardinality(Extent(s, n)) = n
      BY <3>2, ExtentSize
    <3>4. Cardinality(bitmap \cap Extent(s, n)) = 0
      BY <3>2, FS_EmptySet
    <3>5. Cardinality(bitmap \cup Extent(s, n)) =
            Cardinality(bitmap) + Cardinality(Extent(s, n)) - Cardinality(bitmap \cap Extent(s, n))
      BY <3>3, BitmapFinite, FS_Union, Zenon
    <3>6. Cardinality(bitmap') = Cardinality(bitmap) + n
      BY <3>1, <3>2, <3>3, <3>4, <3>5, BitmapFinite
    <3> QED
      BY <3>1, <3>2, <3>6, BitmapFinite DEF FreeblocksMatches
  <2>3. ASSUME NEW t \in Task,
               BallocSkip(t) \/ BallocUnread(t) \/ BallocWrap(t) \/ BallocFail(t)
        PROVE FreeblocksMatches'
    BY <2>3 DEF BallocSkip, BallocUnread, BallocWrap, BallocFail, FreeblocksMatches
  <2>4. ASSUME NEW t \in Task, NEW e \in held[t], NEW keep \in 0..(e[2] - 1),
               Bfree(t, e, keep)
        PROVE FreeblocksMatches'
    <3> DEFINE F == Extent(e[1] + keep, e[2] - keep)
    <3>1. e[1] + keep \in Nat /\ e[2] - keep \in Nat
      BY DEF TypeOK, Blocks
    <3>2. Cardinality(F) = e[2] - keep
      BY <3>1, ExtentSize
    <3>3. F \cap bitmap = F /\ bitmap \cap F = F /\ bitmap' = bitmap \ F
      BY <2>4 DEF Bfree, TailOf
    <3>4. Cardinality(bitmap \ F) = Cardinality(bitmap) - Cardinality(bitmap \cap F)
      BY BitmapFinite, FS_Difference, Zenon
    <3>5. Cardinality(bitmap') = Cardinality(bitmap) - (e[2] - keep)
      BY <3>2, <3>3, <3>4
    <3> QED
      BY <2>4, <3>1, <3>5, BitmapFinite DEF Bfree, TailOf, FreeblocksMatches
  <2>5. CASE UNCHANGED vars
    BY <2>5 DEF vars, FreeblocksMatches
  <2> QED
    BY <2>1, <2>2, <2>3, <2>4, <2>5 DEF Next, BfreeUnread
<1> QED
  BY <1>1, <1>2, TypeCorrect, PTL DEF SafeSpec

-----------------------------------------------------------------------------
(***************************************************************************)
(* ENOSPC.  What a call has ruled out so far: a candidate that was free    *)
(* all the time, lies in one map block and is not cut by the goal, cannot  *)
(* be in a part of the search that is behind.  AvailFree says why: blocks  *)
(* that stayed free throughout the call are still zero bits when the map   *)
(* block is searched.                                                      *)
(***************************************************************************)
Candidate(t, s) ==
  /\ Extent(s, call[t].blocks) \subseteq avail[t]
  /\ s \div MapBits = (s + call[t].blocks - 1) \div MapBits

Behind(t, s) ==
  \/ s >= call[t].goal /\ (call[t].pass = 2 \/ s \div MapBits < call[t].mapblock)
  \/ /\ s + call[t].blocks <= call[t].goal /\ call[t].pass = 2
     /\ (call[t].pc = "enospc" \/ s \div MapBits < call[t].mapblock)

RuledOut == \A t \in Task : call[t].pc # "idle" =>
              \A s \in Blocks : Candidate(t, s) => ~Behind(t, s)

AvailFree == \A t \in Task : avail[t] \cap bitmap = {}

EnospcPass == \A t \in Task : call[t].pc = "enospc" => call[t].pass = 2

EnospcInv == RuledOut /\ AvailFree /\ EnospcPass

(* In a map block without a fit there is no candidate of the current pass. *)
LEMMA SkipNoCandidate ==
  ASSUME TypeOK, AvailFree, NEW t \in Task, NEW s \in Blocks, Candidate(t, s),
         Fits(bitmap, call[t]) = {}, s \div MapBits = call[t].mapblock
  PROVE  ~(Start(call[t]) <= s /\ s + call[t].blocks <= Limit(call[t]))
<1> USE BallocAssumption
<1> DEFINE n == call[t].blocks
           m == call[t].mapblock
<1> SUFFICES ASSUME Start(call[t]) <= s, s + n <= Limit(call[t])
             PROVE  FALSE
  OBVIOUS
<1>1. n \in 1..MaxBlocks /\ s \in Nat /\ m \in Nat
  BY DEF TypeOK, Calls, Blocks
<1>2. m * MapBits <= s
  BY <1>1, DivBounds
<1>3. s + n - 1 \in Nat
  BY <1>1
<1>4. s + n - 1 < (m + 1) * MapBits
  BY <1>1, <1>3, DivBounds DEF Candidate
<1>5. (m + 1) * MapBits \in Int
  BY <1>1, SMT
<1>6. s + n <= (m + 1) * MapBits
  BY <1>1, <1>4, <1>5, SMT
<1>7. Extent(s, n) \cap bitmap = {}
  BY DEF Candidate, AvailFree
<1>8. s \in Fits(bitmap, call[t])
  BY <1>2, <1>6, <1>7 DEF Fits, InRange, InMapBlock, FreeRun
<1> QED
  BY <1>8

(* A map block that cannot be read ends the pass: what it keeps from the   *)
(* search is not available any more, and the rest was ruled out before.    *)
LEMMA UnreadStep ==
  ASSUME TypeOK, EnospcInv, NEW t \in Task, BallocUnread(t)
  PROVE  EnospcInv'
<1> USE BallocAssumption
<1>1. /\ \A u \in Task : u # t => call'[u] = call[u] /\ avail'[u] = avail[u]
      /\ avail'[t] = avail[t] \ NotReached(call[t]) /\ bitmap' = bitmap
  BY DEF BallocUnread, TypeOK
<1>2. /\ call[t] \in Calls /\ call[t].pc = "scan" /\ call'[t].pc = "scan"
      /\ call'[t].pass = call[t].pass /\ call'[t].goal = call[t].goal
      /\ call'[t].blocks = call[t].blocks
  BY DEF BallocUnread, EndOfRange, TypeOK, Calls
<1>3. ASSUME NEW s \in Blocks, Candidate(t, s)' PROVE ~Behind(t, s)'
  <2> DEFINE n == call[t].blocks
             m == call[t].mapblock
             goal == call[t].goal
  <2>1. s \in Nat /\ n \in Nat /\ 1 <= n /\ m \in Nat /\ goal \in Nat /\ call[t].pass \in {1, 2}
    BY <1>2 DEF Calls, Blocks
  <2>2. Extent(s, n) \subseteq avail[t] \ NotReached(call[t])
    BY <1>1, <1>2, <1>3 DEF Candidate
  <2>3. s \notin NotReached(call[t])
    <3>1. s \in Extent(s, n)
      BY <2>1 DEF Extent
    <3> QED
      BY <2>2, <3>1
  <2>4. Candidate(t, s)
    BY <1>2, <1>3, <2>2 DEF Candidate
  <2>5. ~Behind(t, s)
    BY <1>2, <2>4 DEF EnospcInv, RuledOut
  <2>6. s < m * MapBits => s \div MapBits < m
    BY <2>1, DivBelow
  <2>7. Start(call[t]) <= s /\ s < Limit(call[t]) => s < m * MapBits
    <3>1. m * MapBits \in Int
      BY <2>1, SMT
    <3> QED
      BY <2>1, <2>3, <3>1 DEF NotReached
  <2>8. s < VolBlocks
    BY DEF Blocks
  <2> QED
    BY <1>2, <2>1, <2>5, <2>6, <2>7, <2>8 DEF Behind, Start, Limit
<1>4. RuledOut'
  BY <1>1, <1>3 DEF EnospcInv, RuledOut, Candidate, Behind
<1> QED
  BY <1>1, <1>2, <1>4 DEF EnospcInv, AvailFree, EnospcPass

(* A call that gives up has seen every candidate: what stayed free all the *)
(* time is too short, crosses a map block, is cut by the goal, or lies in  *)
(* or above a map block that could not be read.                            *)
THEOREM EnospcCorrect == SafeSpec => []EnospcJustified
<1> USE BallocAssumption
<1>1. Init => EnospcInv
  BY DEF Init, EnospcInv, RuledOut, AvailFree, EnospcPass, Idle
<1>2. TypeOK /\ EnospcInv /\ [Next]_vars => EnospcInv'
  <2> SUFFICES ASSUME TypeOK, EnospcInv, [Next]_vars PROVE EnospcInv'
    OBVIOUS
  <2>1. ASSUME NEW t \in Task, NEW n \in 1..MaxBlocks, BallocStart(t, n) PROVE EnospcInv'
    <3>1. \A u \in Task : u # t => call'[u] = call[u] /\ avail'[u] = avail[u]
      BY <2>1 DEF BallocStart, TypeOK
    <3>2. /\ call'[t].pc = "scan" /\ call'[t].pass = 1 /\ call'[t].goal = nextalloc
          /\ call'[t].mapblock = nextalloc \div MapBits
          /\ avail'[t] \cap bitmap = {} /\ bitmap' = bitmap
      BY <2>1 DEF BallocStart, TypeOK
    <3>3. \A s \in Blocks : s >= nextalloc => ~(s \div MapBits < nextalloc \div MapBits)
      <4> SUFFICES ASSUME NEW s \in Blocks, s >= nextalloc,
                          s \div MapBits < nextalloc \div MapBits
                   PROVE  FALSE
        OBVIOUS
      <4> DEFINE i == s \div MapBits
                 j == nextalloc \div MapBits
      <4>1. s \in Nat /\ nextalloc \in Nat
        BY DEF TypeOK, Blocks
      <4>2. i \in Nat /\ s < (i + 1) * MapBits /\ j \in Nat /\ j * MapBits <= nextalloc
        BY <4>1, DivBounds
      <4>3. (i + 1) * MapBits <= j * MapBits
        <5>1. i + 1 <= j
          BY <4>2
        <5> QED
          BY <4>2, <5>1, MulMono
      <4>4. (i + 1) * MapBits \in Int /\ j * MapBits \in Int
        BY <4>2, SMT
      <4> QED
        BY <4>1, <4>2, <4>3, <4>4, SMT
    <3>4. RuledOut'
      BY <3>1, <3>2, <3>3 DEF EnospcInv, RuledOut, Candidate, Behind
    <3> QED
      BY <3>1, <3>2, <3>4 DEF EnospcInv, AvailFree, EnospcPass
  <2>2. ASSUME NEW t \in Task, BallocFound(t) PROVE EnospcInv'
    <3> DEFINE n == call[t].blocks
    <3>1. PICK s \in Fits(bitmap, call[t]) :
            /\ bitmap' = bitmap \cup Extent(s, n)
            /\ call' = [call EXCEPT ![t] = Idle]
            /\ Returned(t, Extent(s, n))
      BY <2>2 DEF BallocFound
    <3>2. \A u \in Task : u # t => call'[u] = call[u] /\ avail'[u] = avail[u] \ Extent(s, n)
      BY <3>1 DEF Returned, TypeOK
    <3>3. call'[t] = Idle /\ avail'[t] = {}
      BY <3>1 DEF Returned, TypeOK
    <3>4. RuledOut'
      <4> SUFFICES ASSUME NEW u \in Task, call'[u].pc # "idle", NEW r \in Blocks, Candidate(u, r)'
                   PROVE  ~Behind(u, r)'
        BY DEF RuledOut
      <4>1. u # t
        BY <3>3 DEF Idle
      <4>2. Candidate(u, r)
        BY <3>2, <4>1 DEF Candidate
      <4>3. ~Behind(u, r)
        BY <3>2, <4>1, <4>2 DEF EnospcInv, RuledOut
      <4> QED
        BY <3>2, <4>1, <4>3 DEF Behind
    <3>5. AvailFree'
      BY <3>1, <3>2, <3>3 DEF EnospcInv, AvailFree
    <3>6. EnospcPass'
      BY <3>2, <3>3 DEF EnospcInv, EnospcPass, Idle
    <3> QED
      BY <3>4, <3>5, <3>6 DEF EnospcInv
  <2>3. ASSUME NEW t \in Task, BallocSkip(t) PROVE EnospcInv'
    <3>1. \A u \in Task : u # t => call'[u] = call[u]
      BY <2>3 DEF BallocSkip, NextMapBlock, TypeOK
    <3>2. /\ call'[t].mapblock = call[t].mapblock + 1 /\ call'[t].pc = "scan" /\ call[t].pc = "scan"
          /\ call'[t].pass = call[t].pass /\ call'[t].goal = call[t].goal
          /\ call'[t].blocks = call[t].blocks
      BY <2>3 DEF BallocSkip, NextMapBlock, TypeOK, Calls
    <3>3. avail' = avail /\ bitmap' = bitmap /\ Fits(bitmap, call[t]) = {}
      BY <2>3 DEF BallocSkip
    <3>4. ASSUME NEW s \in Blocks, Candidate(t, s)' PROVE ~Behind(t, s)'
      <4>1. Candidate(t, s)
        BY <3>2, <3>3, <3>4 DEF Candidate
      <4>2. ~Behind(t, s)
        BY <3>2, <4>1 DEF EnospcInv, RuledOut
      <4>3. s \in Nat /\ s \div MapBits \in Nat
        BY DivBounds DEF Blocks
      <4>4. call[t].mapblock \in Nat /\ call[t].blocks \in Nat /\ call[t].goal \in Nat
            /\ call[t].pass \in {1, 2} /\ s + call[t].blocks \in Nat
        BY <4>3 DEF TypeOK, Calls
      <4>5. CASE s \div MapBits # call[t].mapblock
        BY <3>2, <4>2, <4>3, <4>4, <4>5 DEF Behind
      <4>6. CASE s \div MapBits = call[t].mapblock
        <5>1. ~(Start(call[t]) <= s /\ s + call[t].blocks <= Limit(call[t]))
          BY <3>3, <4>1, <4>6, SkipNoCandidate DEF EnospcInv
        <5>2. s + call[t].blocks <= VolBlocks
          <6>1. call[t].blocks >= 1
            BY DEF TypeOK, Calls
          <6>2. s + call[t].blocks - 1 \in Blocks
            BY <4>1, <4>3, <4>4, <6>1 DEF Candidate, Extent, TypeOK
          <6> QED
            BY <4>3, <4>4, <6>2 DEF Blocks
        <5> QED
          BY <3>2, <4>2, <4>3, <4>4, <5>1, <5>2 DEF Behind, Start, Limit
      <4> QED
        BY <4>5, <4>6
    <3>5. RuledOut'
      BY <3>1, <3>3, <3>4 DEF EnospcInv, RuledOut, Candidate, Behind
    <3> QED
      BY <3>1, <3>2, <3>3, <3>5 DEF EnospcInv, AvailFree, EnospcPass
  <2>4. ASSUME NEW t \in Task, BallocWrap(t) PROVE EnospcInv'
    <3>1. \A u \in Task : u # t => call'[u] = call[u]
      BY <2>4 DEF BallocWrap, TypeOK
    <3>2. /\ call'[t].mapblock = 0 /\ call'[t].pc = "scan" /\ call[t].pc = "scan"
          /\ call'[t].pass = 2 /\ call[t].pass = 1 /\ call'[t].goal = call[t].goal
          /\ call'[t].blocks = call[t].blocks
      BY <2>4 DEF BallocWrap, TypeOK, Calls
    <3>3. avail' = avail /\ bitmap' = bitmap
      BY <2>4 DEF BallocWrap
    <3>4. ASSUME NEW s \in Blocks, Candidate(t, s)' PROVE ~Behind(t, s)'
      <4>1. Candidate(t, s)
        BY <3>2, <3>3, <3>4 DEF Candidate
      <4>2. ~Behind(t, s)
        BY <3>2, <4>1 DEF EnospcInv, RuledOut
      <4>3. s \in Nat /\ s < VolBlocks /\ VolBlocks \in Nat /\ s \div MapBits \in Nat
        BY DivBounds DEF Blocks
      <4>4. s \div MapBits < MapBlocks(VolBlocks)
        BY <4>3, MapBlocksCover
      <4>5. call[t].mapblock >= MapBlocks(VolBlocks)
        BY <2>4 DEF BallocWrap, Searched, Limit
      <4>6. MapBlocks(VolBlocks) \in Nat /\ call[t].mapblock \in Nat
        <5>1. VolBlocks + MapBits - 1 \in Nat
          BY SMT
        <5> QED
          BY <5>1, DivBounds DEF MapBlocks, TypeOK, Calls
      <4>7. s \div MapBits < call[t].mapblock
        BY <4>3, <4>4, <4>5, <4>6
      <4> QED
        BY <3>2, <4>2, <4>3, <4>7 DEF Behind
    <3>5. RuledOut'
      BY <3>1, <3>3, <3>4 DEF EnospcInv, RuledOut, Candidate, Behind
    <3> QED
      BY <3>1, <3>2, <3>3, <3>5 DEF EnospcInv, AvailFree, EnospcPass
  <2>5. ASSUME NEW t \in Task, BallocFail(t) PROVE EnospcInv'
    <3>1. \A u \in Task : u # t => call'[u] = call[u]
      BY <2>5 DEF BallocFail, GivesUp, TypeOK
    <3>2. /\ call'[t].mapblock = call[t].mapblock /\ call'[t].pc = "enospc" /\ call[t].pc = "scan"
          /\ call'[t].pass = 2 /\ call[t].pass = 2 /\ call'[t].goal = call[t].goal
          /\ call'[t].blocks = call[t].blocks
      BY <2>5 DEF BallocFail, GivesUp, TypeOK, Calls
    <3>3. avail' = avail /\ bitmap' = bitmap
      BY <2>5 DEF BallocFail
    <3>4. ASSUME NEW s \in Blocks, Candidate(t, s)' PROVE ~Behind(t, s)'
      <4>1. Candidate(t, s)
        BY <3>2, <3>3, <3>4 DEF Candidate
      <4>2. ~Behind(t, s)
        BY <3>2, <4>1 DEF EnospcInv, RuledOut
      <4>3. s \in Nat /\ s \div MapBits \in Nat
        BY DivBounds DEF Blocks
      <4>4. call[t].mapblock \in Nat /\ call[t].blocks \in Nat /\ call[t].blocks >= 1
            /\ call[t].goal \in Nat
        BY DEF TypeOK, Calls
      <4>5. s + call[t].blocks <= call[t].goal => s \div MapBits < call[t].mapblock
        <5> SUFFICES ASSUME s + call[t].blocks <= call[t].goal
                     PROVE  s \div MapBits < call[t].mapblock
          OBVIOUS
        <5>1. s < call[t].goal
          BY <4>3, <4>4
        <5>2. s \div MapBits < MapBlocks(call[t].goal)
          BY <4>3, <4>4, <5>1, MapBlocksCover
        <5>3. call[t].mapblock >= MapBlocks(call[t].goal)
          BY <2>5, <3>2 DEF BallocFail, GivesUp, Searched, Limit
        <5>4. MapBlocks(call[t].goal) \in Nat
          <6>1. call[t].goal + MapBits - 1 \in Nat
            BY <4>4, SMT
          <6> QED
            BY <6>1, DivBounds DEF MapBlocks
        <5> QED
          BY <4>3, <4>4, <5>2, <5>3, <5>4
      <4> QED
        BY <3>2, <4>2, <4>5 DEF Behind
    <3>5. RuledOut'
      BY <3>1, <3>3, <3>4 DEF EnospcInv, RuledOut, Candidate, Behind
    <3> QED
      BY <3>1, <3>2, <3>3, <3>5 DEF EnospcInv, AvailFree, EnospcPass
  <2>6. ASSUME NEW t \in Task, NEW e \in held[t], NEW keep \in 0..(e[2] - 1),
               Bfree(t, e, keep)
        PROVE EnospcInv'
    <3>1. call' = call /\ avail' = avail /\ bitmap' \subseteq bitmap
      BY <2>6 DEF Bfree, TailOf
    <3>2. RuledOut' /\ EnospcPass'
      BY <3>1 DEF EnospcInv, RuledOut, Candidate, Behind, EnospcPass
    <3> QED
      BY <3>1, <3>2 DEF EnospcInv, AvailFree
  <2>7. ASSUME NEW t \in Task, BallocUnread(t) PROVE EnospcInv'
    BY <2>7, UnreadStep
  <2>8. CASE UNCHANGED vars
    BY <2>8 DEF vars, EnospcInv, RuledOut, Candidate, Behind, AvailFree, EnospcPass
  <2> QED
    BY <2>1, <2>2, <2>3, <2>4, <2>5, <2>6, <2>7, <2>8 DEF Next, BfreeUnread
<1>3. TypeOK /\ EnospcInv => EnospcJustified
  <2> SUFFICES ASSUME TypeOK, EnospcInv, NEW t \in Task, call[t].pc = "enospc", NEW s \in Blocks,
                      Extent(s, call[t].blocks) \subseteq avail[t],
                      s \div MapBits = (s + call[t].blocks - 1) \div MapBits
               PROVE  s < call[t].goal /\ call[t].goal < s + call[t].blocks
    BY DEF EnospcJustified
  <2>1. ~Behind(t, s) /\ call[t].pass = 2
    BY DEF EnospcInv, RuledOut, Candidate, EnospcPass
  <2>2. s \in Nat /\ call[t].goal \in Nat /\ call[t].blocks \in Nat
    BY DEF TypeOK, Calls, Blocks
  <2> QED
    BY <2>1, <2>2 DEF Behind
<1> QED
  BY <1>1, <1>2, <1>3, TypeCorrect, PTL DEF SafeSpec
=============================================================================
