-------------------------- MODULE BallocBytesProofs --------------------------
(***************************************************************************)
(* Proofs about BallocBytes: the walk over the bytes of the bitmap         *)
(* implements the search of Balloc, for any volume, any block size, any    *)
(* set of tasks.                                                           *)
(***************************************************************************)
EXTENDS BallocBytes, Numbers, FiniteSetTheorems

-----------------------------------------------------------------------------
(***************************************************************************)
(* The run operations of Bits do to every single bit what their names say, *)
(* for a map of any size and any run that fits in it.                      *)
(***************************************************************************)
(* The byte of a bit and the position of a bit in its byte.                *)
LEMMA DivMod ==
  ASSUME NEW b \in Nat
  PROVE  /\ b \div 8 \in Nat
         /\ (b % 8) \in Bit
         /\ b = 8 * (b \div 8) + (b % 8)
BY SMT DEF Bit

(* A bit is under the mask of its byte exactly when it is in the run.      *)
LEMMA RunMaskIsRun ==
  ASSUME NEW start \in Nat, NEW count \in Nat \ {0}, NEW b \in Nat
  PROVE  (b % 8) \in RunMask(start, count, b \div 8) <=> start <= b /\ b < start + count
<1> DEFINE limit == start + count
           loff == start \div 8
           roff == limit \div 8
           k == b \div 8
<1>0. limit \in Nat BY SMT
<1>1. /\ loff \in Nat /\ (start % 8) \in 0..7 /\ start = 8 * loff + (start % 8)
      /\ roff \in Nat /\ (limit % 8) \in 0..7 /\ limit = 8 * roff + (limit % 8)
      /\ k \in Nat /\ (b % 8) \in 0..7 /\ b = 8 * k + (b % 8)
  BY <1>0, DivMod DEF Bit
<1> HIDE DEF limit, loff, roff, k
<1>2. limit = start + count BY DEF limit
<1>3. (b % 8) \in LMask(start) <=> (b % 8) >= (start % 8)
  BY <1>1 DEF LMask, Bit
<1>4. (b % 8) \in RMask(limit) <=> (b % 8) < (limit % 8)
  BY <1>1 DEF RMask, Bit
<1>5. (b % 8) \in Bit BY <1>1 DEF Bit
<1>6. RunMask(start, count, k) =
        CASE k = loff /\ loff = roff -> LMask(start) \cap RMask(limit)
          [] k = loff /\ loff # roff -> LMask(start)
          [] loff < k /\ k < roff    -> Bit
          [] k = roff /\ loff # roff -> RMask(limit)
          [] OTHER                   -> {}
  BY DEF RunMask, limit, loff, roff
<1>7. (b % 8) \in RunMask(start, count, k) <=> start <= b /\ b < limit
  BY <1>1, <1>2, <1>3, <1>4, <1>5, <1>6, SMTT(30)
<1> QED BY <1>7 DEF limit, k

(* The byte of a bit of the run is touched.                                *)
LEMMA RunIsTouched ==
  ASSUME NEW start \in Nat, NEW count \in Nat \ {0}, NEW b \in Nat,
         start <= b, b < start + count
  PROVE  (b \div 8) \in Touched(start, count)
<1> DEFINE limit == start + count
           loff == start \div 8
           roff == limit \div 8
           k == b \div 8
<1>0. limit \in Nat BY SMT
<1>1. /\ loff \in Nat /\ (start % 8) \in 0..7 /\ start = 8 * loff + (start % 8)
      /\ roff \in Nat /\ (limit % 8) \in 0..7 /\ limit = 8 * roff + (limit % 8)
      /\ k \in Nat /\ (b % 8) \in 0..7 /\ b = 8 * k + (b % 8)
  BY <1>0, DivMod DEF Bit
<1>2. Touched(start, count) = {loff} \cup {j \in loff..roff : j < roff}
                                \cup (IF RMask(limit) # {} THEN {roff} ELSE {})
  BY DEF Touched
<1> HIDE DEF limit, loff, roff, k
<1>3. limit = start + count BY DEF limit
<1>4. loff <= k /\ k <= roff
  BY <1>1, <1>3
<1>5. CASE k < roff
  BY <1>1, <1>2, <1>4, <1>5 DEF k
<1>6. CASE k = roff
  <2>1. (b % 8) \in RMask(limit)
    BY <1>1, <1>3, <1>6 DEF RMask, Bit
  <2> QED BY <1>2, <1>6, <2>1 DEF k
<1> QED BY <1>1, <1>4, <1>5, <1>6

(* Every byte that is touched is a byte of the map: in particular the last *)
(* byte of a run that ends at the end of the map is not.                   *)
LEMMA TouchedInMap ==
  ASSUME NEW n \in Nat, NEW start \in Nat, NEW count \in Nat \ {0},
         start + count <= 8 * n
  PROVE  Touched(start, count) \subseteq 0..(n - 1)
<1> DEFINE limit == start + count
           loff == start \div 8
           roff == limit \div 8
<1>0. limit \in Nat BY SMT
<1>1. /\ loff \in Nat /\ (start % 8) \in 0..7 /\ start = 8 * loff + (start % 8)
      /\ roff \in Nat /\ (limit % 8) \in 0..7 /\ limit = 8 * roff + (limit % 8)
  BY <1>0, DivMod DEF Bit
<1>2. Touched(start, count) = {loff} \cup {j \in loff..roff : j < roff}
                                \cup (IF RMask(limit) # {} THEN {roff} ELSE {})
  BY DEF Touched
<1>3. limit = start + count /\ limit <= 8 * n BY DEF limit
<1> HIDE DEF limit, loff, roff
<1>4. loff \in 0..(n - 1) BY <1>1, <1>3
<1>5. roff <= n BY <1>1, <1>3
<1>6. RMask(limit) # {} => (limit % 8) > 0
  BY <1>1 DEF RMask, Bit
<1>7. RMask(limit) # {} => roff \in 0..(n - 1) BY <1>1, <1>3, <1>6
<1> QED BY <1>1, <1>2, <1>4, <1>5, <1>7

(***************************************************************************)
(* set_bits sets exactly the bits of the run and leaves every other bit of *)
(* the map as it was.                                                      *)
(***************************************************************************)
THEOREM SetBitsCorrect ==
  ASSUME NEW n \in Nat, NEW bitmap \in Bitmaps(n),
         NEW start \in Nat, NEW count \in Nat \ {0}, start + count <= 8 * n,
         NEW b \in 0..(8 * n - 1)
  PROVE  BitAt(set_bits(bitmap, start, count), b)
           <=> BitAt(bitmap, b) \/ (start <= b /\ b < start + count)
<1>1. b \in Nat /\ (b \div 8) \in DOMAIN bitmap
  BY DivMod, SMT DEF Bitmaps, Bit
<1>2. CASE (b \div 8) \in Touched(start, count)
  BY <1>1, <1>2, RunMaskIsRun DEF BitAt, set_bits
<1>3. CASE (b \div 8) \notin Touched(start, count)
  BY <1>1, <1>3, RunIsTouched DEF BitAt, set_bits
<1> QED BY <1>2, <1>3

(***************************************************************************)
(* clear_bits clears exactly the bits of the run.                          *)
(***************************************************************************)
THEOREM ClearBitsCorrect ==
  ASSUME NEW n \in Nat, NEW bitmap \in Bitmaps(n),
         NEW start \in Nat, NEW count \in Nat \ {0}, start + count <= 8 * n,
         NEW b \in 0..(8 * n - 1)
  PROVE  BitAt(clear_bits(bitmap, start, count), b)
           <=> BitAt(bitmap, b) /\ ~(start <= b /\ b < start + count)
<1>1. b \in Nat /\ (b \div 8) \in DOMAIN bitmap
  BY DivMod, SMT DEF Bitmaps, Bit
<1>2. CASE (b \div 8) \in Touched(start, count)
  BY <1>1, <1>2, RunMaskIsRun DEF BitAt, clear_bits
<1>3. CASE (b \div 8) \notin Touched(start, count)
  BY <1>1, <1>3, RunIsTouched DEF BitAt, clear_bits
<1> QED BY <1>2, <1>3

(***************************************************************************)
(* A bit of a byte that is touched, as a bit of the map.                   *)
(***************************************************************************)
LEMMA BitOfByte ==
  ASSUME NEW k \in Nat, NEW i \in Bit
  PROVE  /\ 8 * k + i \in Nat
         /\ (8 * k + i) \div 8 = k
         /\ (8 * k + i) % 8 = i
BY SMT DEF Bit

(* The mask of a run in a byte has bits of a byte only.                    *)
LEMMA RunMaskIsByte ==
  ASSUME NEW start \in Nat, NEW count \in Nat \ {0}, NEW k \in Nat
  PROVE  RunMask(start, count, k) \subseteq Bit
BY Zenon DEF RunMask, LMask, RMask

(***************************************************************************)
(* all_set is true exactly when every bit of the run is one: the guard     *)
(* with which bfree refuses a double free.                                 *)
(***************************************************************************)
THEOREM AllSetCorrect ==
  ASSUME NEW n \in Nat, NEW bitmap \in Bitmaps(n),
         NEW start \in Nat, NEW count \in Nat \ {0}, start + count <= 8 * n
  PROVE  all_set(bitmap, start, count)
           <=> \A b \in start..(start + count - 1) : BitAt(bitmap, b)
<1>1. ASSUME all_set(bitmap, start, count), NEW b \in start..(start + count - 1)
      PROVE  BitAt(bitmap, b)
  <2>1. b \in Nat /\ start <= b /\ b < start + count BY SMT
  <2> QED BY <1>1, <2>1, RunMaskIsRun, RunIsTouched DEF BitAt, all_set
<1>2. ASSUME \A b \in start..(start + count - 1) : BitAt(bitmap, b),
             NEW k \in Touched(start, count), NEW i \in RunMask(start, count, k)
      PROVE  i \in bitmap[k]
  <2>1. k \in Nat BY TouchedInMap, SMT
  <2>2. i \in Bit BY <2>1, RunMaskIsByte
  <2> DEFINE b == 8 * k + i
  <2>3. b \in Nat /\ b \div 8 = k /\ b % 8 = i BY <2>1, <2>2, BitOfByte
  <2>4. start <= b /\ b < start + count BY <2>3, RunMaskIsRun
  <2> HIDE DEF b
  <2>5. b \in start..(start + count - 1) BY <2>3, <2>4
  <2> QED BY <1>2, <2>3, <2>5 DEF BitAt
<1> QED BY <1>1, <1>2 DEF all_set

(***************************************************************************)
(* all_clear is true exactly when every bit of the run is zero.            *)
(***************************************************************************)
THEOREM AllClearCorrect ==
  ASSUME NEW n \in Nat, NEW bitmap \in Bitmaps(n),
         NEW start \in Nat, NEW count \in Nat \ {0}, start + count <= 8 * n
  PROVE  all_clear(bitmap, start, count)
           <=> \A b \in start..(start + count - 1) : ~BitAt(bitmap, b)
<1>1. ASSUME all_clear(bitmap, start, count), NEW b \in start..(start + count - 1)
      PROVE  ~BitAt(bitmap, b)
  <2>1. b \in Nat /\ start <= b /\ b < start + count BY SMT
  <2> QED BY <1>1, <2>1, RunMaskIsRun, RunIsTouched DEF BitAt, all_clear
<1>2. ASSUME \A b \in start..(start + count - 1) : ~BitAt(bitmap, b),
             NEW k \in Touched(start, count), NEW i \in RunMask(start, count, k)
      PROVE  i \notin bitmap[k]
  <2>1. k \in Nat BY TouchedInMap, SMT
  <2>2. i \in Bit BY <2>1, RunMaskIsByte
  <2> DEFINE b == 8 * k + i
  <2>3. b \in Nat /\ b \div 8 = k /\ b % 8 = i BY <2>1, <2>2, BitOfByte
  <2>4. start <= b /\ b < start + count BY <2>3, RunMaskIsRun
  <2> HIDE DEF b
  <2>5. b \in start..(start + count - 1) BY <2>3, <2>4
  <2> QED BY <1>2, <2>3, <2>5 DEF BitAt
<1> QED BY <1>1, <1>2 DEF all_clear

-----------------------------------------------------------------------------
(* What the loop variables mean.  A run of r blocks that ends just below x *)
(* is the longest one from lo on; no run of n blocks from lo on ends at x  *)
(* or below.                                                               *)
RunUpTo(bits, lo, x, r) ==
  /\ r \in Nat /\ lo <= x - r
  /\ \A b \in (x - r)..(x - 1) : b \notin bits
  /\ x - r = lo \/ x - r - 1 \in bits

NoRunUpTo(bits, lo, n, x) ==
  \A s \in Nat : lo <= s /\ s + n <= x => \E b \in s..(s + n - 1) : b \in bits

(* One bit further: a zero makes the run longer, a one ends it.            *)
LEMMA RunGrows ==
  ASSUME NEW bits, NEW lo \in Nat, NEW x \in Nat, NEW r \in Nat,
         RunUpTo(bits, lo, x, r), x \notin bits
  PROVE  RunUpTo(bits, lo, x + 1, r + 1)
BY DEF RunUpTo

(* A block in use ends the run.                                            *)
LEMMA RunEnds ==
  ASSUME NEW bits, NEW lo \in Nat, NEW x \in Nat, lo <= x, x \in bits
  PROVE  RunUpTo(bits, lo, x + 1, 0)
BY DEF RunUpTo

(* While the run is too short no run of the wanted length ends here.       *)
LEMMA ShortRun ==
  ASSUME NEW bits, NEW lo \in Nat, NEW x \in Nat, NEW r \in Nat, NEW n \in Nat, r < n,
         RunUpTo(bits, lo, x + 1, r), NoRunUpTo(bits, lo, n, x)
  PROVE  NoRunUpTo(bits, lo, n, x + 1)
<1> SUFFICES ASSUME NEW s \in Nat, lo <= s, s + n <= x + 1
             PROVE  \E b \in s..(s + n - 1) : b \in bits
  BY DEF NoRunUpTo
<1>1. CASE s + n <= x
  BY <1>1 DEF NoRunUpTo
<1>2. CASE s + n = x + 1
  <2>1. x + 1 - r # lo
    BY <1>2
  <2>2. x + 1 - r - 1 \in bits
    BY <2>1 DEF RunUpTo
  <2>3. x + 1 - r - 1 \in s..(s + n - 1)
    BY <1>2
  <2> QED
    BY <2>2, <2>3
<1> QED
  BY <1>1, <1>2

(* The recursive function of the walk: the run that ends at each bit.      *)
RunEquation(run, byte, startbit, before) ==
  \A i \in startbit..7 :
    run[i] = IF i \in byte THEN 0 ELSE 1 + (IF i = startbit THEN before ELSE run[i - 1])

(* The counter of the bit loop of balloc_from_range obeys its recursion:   *)
(* the function RunAt is defined on the whole of the byte.                 *)
LEMMA RunAtDef ==
  ASSUME NEW byte, NEW startbit \in Bit, NEW before \in Nat
  PROVE  RunEquation(RunAt(byte, startbit, before), byte, startbit, before)
<1> DEFINE n == 7 - startbit
           x0 == IF startbit \in byte THEN 0 ELSE 1 + before
           F == [z \in (1..n) \X Nat |-> IF startbit + z[1] \in byte THEN 0 ELSE 1 + z[2]]
           Eq(run) == run = [i \in startbit..7 |->
                               IF i \in byte THEN 0
                               ELSE 1 + (IF i = startbit THEN before ELSE run[i - 1])]
<1>1. n \in Nat /\ x0 \in Nat
  BY DEF Bit
<1>2. F \in [(1..n) \X Nat -> Nat]
  OBVIOUS
<1>3. \A i \in 1..n : \A y \in Nat : F[<<i, y>>] = IF startbit + i \in byte THEN 0 ELSE 1 + y
  <2> SUFFICES ASSUME NEW i \in 1..n, NEW y \in Nat
               PROVE  F[<<i, y>>] = IF startbit + i \in byte THEN 0 ELSE 1 + y
    OBVIOUS
  <2>1. <<i, y>> \in (1..n) \X Nat /\ <<i, y>>[1] = i /\ <<i, y>>[2] = y
    OBVIOUS
  <2> QED
    BY <2>1
<1> HIDE DEF F, x0
<1>4. PICK f \in [0..n -> Nat] : Follows(f, n, x0, F)
  BY <1>1, <1>2, RecursionExists
<1> DEFINE g == [i \in startbit..7 |-> f[i - startbit]]
<1>5. Eq(g)
  <2> SUFFICES ASSUME NEW i \in startbit..7
               PROVE  f[i - startbit] = IF i \in byte THEN 0
                                        ELSE 1 + (IF i = startbit THEN before ELSE g[i - 1])
    OBVIOUS
  <2>1. CASE i = startbit
    <3>1. i - startbit = 0
      BY <2>1 DEF Bit
    <3> QED
      BY <1>4, <2>1, <3>1 DEF Follows, x0
  <2>2. CASE i # startbit
    <3>1. /\ i - startbit \in 1..n /\ i - 1 \in startbit..7
          /\ (i - 1) - startbit = (i - startbit) - 1 /\ (i - startbit) - 1 \in 0..n
          /\ startbit + (i - startbit) = i
      BY <2>2 DEF Bit
    <3>2. g[i - 1] = f[(i - startbit) - 1] /\ g[i - 1] \in Nat
      BY <3>1
    <3>3. f[i - startbit] = F[<<i - startbit, f[(i - startbit) - 1]>>]
      BY <1>4, <3>1 DEF Follows
    <3> QED
      BY <1>3, <2>2, <3>1, <3>2, <3>3
  <2> QED
    BY <2>1, <2>2
<1>6. RunAt(byte, startbit, before) = CHOOSE run : Eq(run)
  BY DEF RunAt
<1>7. Eq(RunAt(byte, startbit, before))
  BY <1>5, <1>6
<1> HIDE DEF n
<1> QED
  BY <1>7 DEF RunEquation

(* The walk over the bits of a byte: up to the first hit the runs are what *)
(* they say and no longer than wanted.                                     *)
LEMMA ByteWalk ==
  ASSUME NEW bits, NEW lo \in Nat, NEW n \in Nat \ {0}, NEW base \in Nat,
         NEW byte, NEW startbit \in Bit, NEW before \in Nat, before < n,
         \A i \in startbit..7 : i \in byte <=> base + i \in bits,
         RunUpTo(bits, lo, base + startbit, before),
         NoRunUpTo(bits, lo, n, base + startbit),
         NEW i \in startbit..7,
         \A j \in startbit..(i - 1) : RunAt(byte, startbit, before)[j] # n
  PROVE  /\ RunAt(byte, startbit, before)[i] \in 0..n
         /\ RunUpTo(bits, lo, base + i + 1, RunAt(byte, startbit, before)[i])
         /\ NoRunUpTo(bits, lo, n, base + i)
<1> DEFINE R == RunAt(byte, startbit, before)
<1> DEFINE Fine(k) == /\ R[k] \in 0..n
                      /\ RunUpTo(bits, lo, base + k + 1, R[k])
                      /\ NoRunUpTo(bits, lo, n, base + k)
           S == {j \in 0..(i - startbit) : Fine(startbit + j)}
<1>1. \A k \in startbit..7 :
        R[k] = IF k \in byte THEN 0 ELSE 1 + (IF k = startbit THEN before ELSE R[k - 1])
  <2>1. RunEquation(R, byte, startbit, before)
    BY RunAtDef
  <2> QED
    BY <2>1, Zenon DEF RunEquation
<1> HIDE DEF R
<1>2. lo <= base + startbit
  BY DEF RunUpTo, Bit
<1>3. \A k \in startbit..7 : /\ k \in Nat /\ base + k \in Nat /\ (base + k) + 1 = base + k + 1
                             /\ lo <= base + k
  BY <1>2 DEF Bit
<1>4. Fine(startbit)
  <2>1. startbit \in startbit..7 /\ startbit \in Nat
    BY DEF Bit
  <2>2. CASE startbit \in byte
    <3>1. R[startbit] = 0 /\ base + startbit \in bits
      BY <1>1, <2>1, <2>2
    <3>2. RunUpTo(bits, lo, (base + startbit) + 1, 0)
      BY <1>3, <2>1, <3>1, RunEnds
    <3> QED
      BY <1>3, <2>1, <3>1, <3>2
  <2>3. CASE startbit \notin byte
    <3>1. R[startbit] = before + 1 /\ base + startbit \notin bits
      BY <1>1, <2>1, <2>3
    <3>2. RunUpTo(bits, lo, (base + startbit) + 1, before + 1)
      BY <1>3, <2>1, <3>1, RunGrows
    <3> QED
      BY <1>3, <2>1, <3>1, <3>2
  <2> QED
    BY <2>2, <2>3
<1>5. ASSUME NEW k \in startbit..(i - 1), Fine(k)
      PROVE  Fine(k + 1)
  <2>1. k \in Nat /\ k \in startbit..7 /\ k + 1 \in startbit..7 /\ k + 1 # startbit /\ (k + 1) - 1 = k
    BY DEF Bit
  <2>2. R[k] \in Nat /\ R[k] < n
    BY <1>5, <2>1 DEF R
  <2>3. RunUpTo(bits, lo, (base + k) + 1, R[k]) /\ NoRunUpTo(bits, lo, n, base + k)
    BY <1>3, <1>5, <2>1
  <2>4. NoRunUpTo(bits, lo, n, (base + k) + 1)
    BY <1>3, <2>1, <2>2, <2>3, ShortRun
  <2>5. (base + k) + 1 = base + (k + 1) /\ base + (k + 1) \in Nat /\ lo <= base + (k + 1)
        /\ (base + (k + 1)) + 1 = base + (k + 1) + 1
    BY <1>3, <2>1
  <2>6. CASE k + 1 \in byte
    <3>1. R[k + 1] = 0 /\ base + (k + 1) \in bits
      BY <1>1, <2>1, <2>6
    <3>2. RunUpTo(bits, lo, (base + (k + 1)) + 1, 0)
      BY <2>5, <3>1, RunEnds
    <3> QED
      BY <2>4, <2>5, <3>1, <3>2
  <2>7. CASE k + 1 \notin byte
    <3>1. R[k + 1] = R[k] + 1 /\ base + (k + 1) \notin bits
      BY <1>1, <2>1, <2>2, <2>7
    <3>2. RunUpTo(bits, lo, base + (k + 1), R[k])
      BY <2>3, <2>5
    <3>3. RunUpTo(bits, lo, (base + (k + 1)) + 1, R[k] + 1)
      BY <2>2, <2>5, <3>1, <3>2, RunGrows
    <3> QED
      BY <2>2, <2>4, <2>5, <3>1, <3>3
  <2> QED
    BY <2>6, <2>7
<1> HIDE DEF Fine
<1>6. 0 \in S
  <2>1. startbit + 0 = startbit /\ 0 \in 0..(i - startbit)
    BY DEF Bit
  <2> QED
    BY <1>4, <2>1
<1>7. \A j \in 0..((i - startbit) - 1) : j \in S => j + 1 \in S
  <2> SUFFICES ASSUME NEW j \in 0..((i - startbit) - 1), j \in S PROVE j + 1 \in S
    OBVIOUS
  <2>1. startbit + j \in startbit..(i - 1) /\ startbit + (j + 1) = (startbit + j) + 1
        /\ j + 1 \in 0..(i - startbit)
    BY DEF Bit
  <2> QED
    BY <1>5, <2>1
<1>8. i - startbit \in Nat /\ startbit + (i - startbit) = i /\ i - startbit \in 0..(i - startbit)
  BY DEF Bit
<1> HIDE DEF S
<1>9. i - startbit \in S
  BY <1>6, <1>7, <1>8, BoundedInduction
<1>10. Fine(i)
  BY <1>8, <1>9 DEF S
<1> QED
  BY <1>10 DEF Fine, R

-----------------------------------------------------------------------------
(* The bit of a block in the bytes of the bitmap.                          *)
LEMMA Position ==
  ASSUME NEW m \in Nat, NEW k \in 0..(MapBytes - 1), NEW i \in Bit
  PROVE  /\ m * MapBits + 8 * k + i \in Nat
         /\ (m * MapBits + 8 * k + i) \div MapBits = m
         /\ (m * MapBits + 8 * k + i) % MapBits = 8 * k + i
         /\ (8 * k + i) \div 8 = k /\ (8 * k + i) % 8 = i
         /\ 8 * k + i \in 0..(MapBits - 1)
<1>1. MapBits \in Nat \ {0} /\ MapBytes \in Nat /\ 8 * k + i \in 0..(MapBits - 1) /\ k \in Nat
  BY BytesAssumption DEF MapBits, Bit
<1>2. m * MapBits \in Nat
  BY <1>1
<1>3. m * MapBits + 8 * k + i = m * MapBits + (8 * k + i)
  BY <1>1, <1>2 DEF Bit
<1> DEFINE r == 8 * k + i
<1>4. r \div 8 = k /\ r % 8 = i
  BY <1>1, BitOfByte
<1> HIDE DEF r
<1>5. (m * MapBits + r) \div MapBits = m /\ (m * MapBits + r) % MapBits = r
  BY <1>1, DivUnique DEF r
<1>6. m * MapBits + r \in Nat
  BY <1>1, <1>2 DEF r
<1> QED
  BY <1>1, <1>3, <1>4, <1>5, <1>6 DEF r

(* The map blocks of the bitmap file are those that the volume reaches.    *)
LEMMA InMapFile ==
  ASSUME NEW m \in Nat
  PROVE  m \in MapFile <=> m * MapBits < VolBlocks
<1>1. MapBits \in Nat \ {0} /\ VolBlocks \in Nat
  BY BytesAssumption DEF MapBits
<1>2. A!MapBlocks(VolBlocks) \in Nat /\ (m < A!MapBlocks(VolBlocks) <=> m * MapBits < VolBlocks)
  BY <1>1, CeilDiv DEF A!MapBlocks
<1> QED
  BY <1>2 DEF MapFile

(* A one bit in the bytes is a block in the bitmap.                        *)
LEMMA BitInBitmap ==
  ASSUME TypeOK, NothingBeyondVolume,
         NEW m \in MapFile, NEW k \in 0..(MapBytes - 1), NEW i \in Bit
  PROVE  i \in map[m][k] <=> m * MapBits + 8 * k + i \in Bitmap
<1> DEFINE b == m * MapBits + 8 * k + i
<1>1. m \in Nat
  BY InMapFile DEF MapFile
<1>2. /\ b \in Nat /\ b \div MapBits = m /\ b % MapBits = 8 * k + i
      /\ (8 * k + i) \div 8 = k /\ (8 * k + i) % 8 = i
  BY <1>1, Position
<1>3. i \in map[m][k] => b < VolBlocks
  BY DEF NothingBeyondVolume
<1>4. b < VolBlocks => b \in 0..(VolBlocks - 1)
  BY <1>2, BytesAssumption
<1>5. BitAt(map[b \div MapBits], b % MapBits) <=> i \in map[m][k]
  BY <1>2 DEF BitAt
<1> HIDE DEF b
<1>6. b \in Bitmap <=> b \in 0..(VolBlocks - 1) /\ BitAt(map[b \div MapBits], b % MapBits)
  BY DEF Bitmap
<1> QED
  BY <1>3, <1>4, <1>5, <1>6 DEF b

-----------------------------------------------------------------------------
(* The bit of a block, and the bits of a map block by their blocks.        *)
BlockBit(mp, b) == BitAt(mp[b \div MapBits], b % MapBits)

(* The map block and the bit in it of a block number.                      *)
LEMMA InBlock ==
  ASSUME NEW m \in Nat, NEW b \in Nat, m * MapBits <= b, b < (m + 1) * MapBits
  PROVE  b \div MapBits = m /\ b % MapBits = b - m * MapBits /\ b - m * MapBits \in 0..(MapBits - 1)
<1> DEFINE r == b - m * MapBits
<1>1. MapBits \in Nat \ {0}
  BY BytesAssumption DEF MapBits
<1>2. m * MapBits \in Nat /\ (m + 1) * MapBits = m * MapBits + MapBits
  BY <1>1
<1>3. r \in 0..(MapBits - 1) /\ m * MapBits + r = b
  BY <1>1, <1>2
<1> HIDE DEF r
<1>4. (m * MapBits + r) \div MapBits = m /\ (m * MapBits + r) % MapBits = r
  BY <1>1, <1>3, DivUnique
<1> QED
  BY <1>3, <1>4 DEF r

(* A run that lies in one map block.                                       *)
LEMMA RunInBlock ==
  ASSUME NEW m \in Nat, NEW s \in Nat, NEW n \in Nat \ {0},
         m * MapBits <= s, s + n <= (m + 1) * MapBits
  PROVE  /\ s \div MapBits = m
         /\ s % MapBits \in Nat /\ (s % MapBits) + n <= 8 * MapBytes
         /\ s = m * MapBits + (s % MapBits)
<1>1. MapBits \in Nat \ {0} /\ MapBits = 8 * MapBytes
  BY BytesAssumption DEF MapBits
<1>2. m * MapBits \in Nat /\ (m + 1) * MapBits = m * MapBits + MapBits
  BY <1>1
<1>3. s < (m + 1) * MapBits
  BY <1>1, <1>2
<1>4. s \div MapBits = m /\ s % MapBits = s - m * MapBits /\ s - m * MapBits \in 0..(MapBits - 1)
  BY <1>3, InBlock
<1> QED
  BY <1>1, <1>2, <1>4

(* What set_bits and clear_bits do to a map block, seen by block numbers.  *)
LEMMA BlocksOfMap ==
  ASSUME NEW m \in Nat, NEW s \in Nat, NEW n \in Nat \ {0}, NEW b \in Nat,
         m * MapBits <= s, s + n <= (m + 1) * MapBits
  PROVE  /\ b % MapBits \in 0..(8 * MapBytes - 1)
         /\ b \div MapBits = m =>
              (s <= b /\ b < s + n <=> s % MapBits <= b % MapBits /\ b % MapBits < (s % MapBits) + n)
         /\ b \div MapBits # m => ~(s <= b /\ b < s + n)
<1>1. MapBits \in Nat \ {0} /\ MapBits = 8 * MapBytes /\ m * MapBits \in Nat /\ (m + 1) * MapBits \in Nat
  BY BytesAssumption DEF MapBits
<1>2. s % MapBits \in Nat /\ s = m * MapBits + (s % MapBits)
  BY RunInBlock
<1>3. b % MapBits \in 0..(MapBits - 1) /\ b = (b \div MapBits) * MapBits + (b % MapBits)
  BY <1>1, DivRest
<1>4. b \div MapBits = m => b = m * MapBits + (b % MapBits)
  BY <1>3
<1>5. ASSUME s <= b /\ b < s + n PROVE b \div MapBits = m
  <2>1. m * MapBits <= b /\ b < (m + 1) * MapBits
    BY <1>1, <1>5
  <2> QED
    BY <2>1, InBlock
<1>6. b % MapBits \in 0..(8 * MapBytes - 1) /\ b % MapBits \in Nat
  BY <1>1, <1>3
<1> DEFINE rs == s % MapBits
           rb == b % MapBits
           mm == m * MapBits
           d == b \div MapBits
<1>7. d = m => b = mm + rb
  BY <1>4
<1>8. s = mm + rs /\ mm \in Nat /\ rs \in Nat /\ rb \in Nat
  BY <1>1, <1>2, <1>6
<1> HIDE DEF rs, rb, mm, d
<1>9. d = m => (s <= b /\ b < s + n <=> rs <= rb /\ rb < rs + n)
  BY <1>7, <1>8
<1> QED
  BY <1>5, <1>6, <1>9 DEF rs, rb, d

(* set_bits on the bytes of one map block adds a run of blocks, and changes *)
(* the bit of no other block.                                              *)
LEMMA SetRun ==
  ASSUME NEW old \in [MapFile -> Bitmaps(MapBytes)], NEW m \in MapFile,
         NEW s \in Nat, NEW n \in Nat \ {0},
         m * MapBits <= s, s + n <= (m + 1) * MapBits,
         NEW new, new = [old EXCEPT ![m] = set_bits(old[m], s % MapBits, n)]
  PROVE  /\ new \in [MapFile -> Bitmaps(MapBytes)]
         /\ \A b \in Nat : b \div MapBits \in MapFile =>
              (BlockBit(new, b) <=> BlockBit(old, b) \/ (s <= b /\ b < s + n))
<1> DEFINE r == s % MapBits
<1>1. m \in Nat /\ MapBytes \in Nat /\ old[m] \in Bitmaps(MapBytes)
  BY BytesAssumption DEF MapFile
<1>2. r \in Nat /\ r + n <= 8 * MapBytes
  BY <1>1, RunInBlock
<1> HIDE DEF r
<1>3. set_bits(old[m], r, n) \in Bitmaps(MapBytes)
  <2>1. \A k \in 0..(MapBytes - 1) : k \in Nat /\ old[m][k] \subseteq Bit /\ RunMask(r, n, k) \subseteq Bit
    BY <1>1, <1>2, RunMaskIsByte DEF Bitmaps, Byte
  <2>2. DOMAIN old[m] = 0..(MapBytes - 1)
    BY <1>1 DEF Bitmaps
  <2> QED
    BY <2>1, <2>2 DEF set_bits, Bitmaps, Byte
<1>4. new \in [MapFile -> Bitmaps(MapBytes)]
  BY <1>3 DEF r
<1>5. ASSUME NEW b \in Nat, b \div MapBits \in MapFile
      PROVE  BlockBit(new, b) <=> BlockBit(old, b) \/ (s <= b /\ b < s + n)
  <2>1. /\ b % MapBits \in 0..(8 * MapBytes - 1)
        /\ b \div MapBits = m => (s <= b /\ b < s + n <=> r <= b % MapBits /\ b % MapBits < r + n)
        /\ b \div MapBits # m => ~(s <= b /\ b < s + n)
    BY <1>1, BlocksOfMap DEF r
  <2>2. CASE b \div MapBits = m
    <3>1. new[b \div MapBits] = set_bits(old[m], r, n)
      BY <2>2 DEF r
    <3>2. BitAt(set_bits(old[m], r, n), b % MapBits)
            <=> BitAt(old[m], b % MapBits) \/ (r <= b % MapBits /\ b % MapBits < r + n)
      BY <1>1, <1>2, <2>1, SetBitsCorrect
    <3> QED
      BY <2>1, <2>2, <3>1, <3>2, Zenon DEF BlockBit
  <2>3. CASE b \div MapBits # m
    <3>1. new[b \div MapBits] = old[b \div MapBits]
      BY <1>5, <2>3
    <3> QED
      BY <2>1, <2>3, <3>1, Zenon DEF BlockBit
  <2> QED
    BY <2>2, <2>3
<1> QED
  BY <1>4, <1>5

(* clear_bits takes a run away, and changes the bit of no other block.     *)
LEMMA ClearRun ==
  ASSUME NEW old \in [MapFile -> Bitmaps(MapBytes)], NEW m \in MapFile,
         NEW s \in Nat, NEW n \in Nat \ {0},
         m * MapBits <= s, s + n <= (m + 1) * MapBits,
         NEW new, new = [old EXCEPT ![m] = clear_bits(old[m], s % MapBits, n)]
  PROVE  /\ new \in [MapFile -> Bitmaps(MapBytes)]
         /\ \A b \in Nat : b \div MapBits \in MapFile =>
              (BlockBit(new, b) <=> BlockBit(old, b) /\ ~(s <= b /\ b < s + n))
<1> DEFINE r == s % MapBits
<1>1. m \in Nat /\ MapBytes \in Nat /\ old[m] \in Bitmaps(MapBytes)
  BY BytesAssumption DEF MapFile
<1>2. r \in Nat /\ r + n <= 8 * MapBytes
  BY <1>1, RunInBlock
<1> HIDE DEF r
<1>3. clear_bits(old[m], r, n) \in Bitmaps(MapBytes)
  <2>1. \A k \in 0..(MapBytes - 1) : old[m][k] \subseteq Bit
    BY <1>1 DEF Bitmaps, Byte
  <2>2. DOMAIN old[m] = 0..(MapBytes - 1)
    BY <1>1 DEF Bitmaps
  <2> QED
    BY <2>1, <2>2 DEF clear_bits, Bitmaps, Byte
<1>4. new \in [MapFile -> Bitmaps(MapBytes)]
  BY <1>3 DEF r
<1>5. ASSUME NEW b \in Nat, b \div MapBits \in MapFile
      PROVE  BlockBit(new, b) <=> BlockBit(old, b) /\ ~(s <= b /\ b < s + n)
  <2>1. /\ b % MapBits \in 0..(8 * MapBytes - 1)
        /\ b \div MapBits = m => (s <= b /\ b < s + n <=> r <= b % MapBits /\ b % MapBits < r + n)
        /\ b \div MapBits # m => ~(s <= b /\ b < s + n)
    BY <1>1, BlocksOfMap DEF r
  <2>2. CASE b \div MapBits = m
    <3>1. new[b \div MapBits] = clear_bits(old[m], r, n)
      BY <2>2 DEF r
    <3>2. BitAt(clear_bits(old[m], r, n), b % MapBits)
            <=> BitAt(old[m], b % MapBits) /\ ~(r <= b % MapBits /\ b % MapBits < r + n)
      BY <1>1, <1>2, <2>1, ClearBitsCorrect
    <3> QED
      BY <2>1, <2>2, <3>1, <3>2, Zenon DEF BlockBit
  <2>3. CASE b \div MapBits # m
    <3>1. new[b \div MapBits] = old[b \div MapBits]
      BY <1>5, <2>3
    <3> QED
      BY <2>1, <2>3, <3>1, Zenon DEF BlockBit
  <2> QED
    BY <2>2, <2>3
<1> QED
  BY <1>4, <1>5

(* Nothing beyond the volume, said of blocks instead of bytes.             *)
LEMMA BeyondByBlock ==
  ASSUME NEW mp \in [MapFile -> Bitmaps(MapBytes)]
  PROVE  (\A m \in MapFile : \A k \in 0..(MapBytes - 1) : \A i \in mp[m][k] :
            m * MapBits + 8 * k + i < VolBlocks)
         <=> (\A b \in Nat : b \div MapBits \in MapFile /\ BlockBit(mp, b) => b < VolBlocks)
<1>1. ASSUME \A m \in MapFile : \A k \in 0..(MapBytes - 1) : \A i \in mp[m][k] :
               m * MapBits + 8 * k + i < VolBlocks,
             NEW b \in Nat, b \div MapBits \in MapFile, BlockBit(mp, b)
      PROVE  b < VolBlocks
  <2> DEFINE m == b \div MapBits
             r == b % MapBits
             k == r \div 8
             i == r % 8
  <2>1. MapBits \in Nat \ {0} /\ MapBits = 8 * MapBytes /\ MapBytes \in Nat
    BY BytesAssumption DEF MapBits
  <2>2. r \in 0..(MapBits - 1) /\ m * MapBits \in Nat /\ b = m * MapBits + r
    BY <2>1, DivRest
  <2>3. r \in Nat
    BY <2>1, <2>2
  <2>4. i \in mp[m][k] /\ m \in MapFile
    BY <1>1 DEF BlockBit, BitAt
  <2> HIDE DEF r, m
  <2>5. k \in Nat /\ i \in Bit /\ r = 8 * k + i
    BY <2>3, DivMod
  <2> HIDE DEF k, i
  <2>6. k \in 0..(MapBytes - 1)
    BY <2>1, <2>2, <2>5 DEF Bit
  <2>7. m * MapBits + 8 * k + i < VolBlocks
    BY <1>1, <2>4, <2>6
  <2>8. m * MapBits + 8 * k + i = b
    BY <2>2, <2>5 DEF Bit
  <2> QED
    BY <2>7, <2>8
<1>2. ASSUME \A b \in Nat : b \div MapBits \in MapFile /\ BlockBit(mp, b) => b < VolBlocks,
             NEW m \in MapFile, NEW k \in 0..(MapBytes - 1), NEW i \in mp[m][k]
      PROVE  m * MapBits + 8 * k + i < VolBlocks
  <2> DEFINE b == m * MapBits + 8 * k + i
  <2>1. m \in Nat /\ i \in Bit
    <3>1. m \in Nat
      BY DEF MapFile
    <3>2. mp[m] \in [0..(MapBytes - 1) -> SUBSET Bit]
      BY DEF Bitmaps, Byte
    <3> QED
      BY <3>1, <3>2
  <2>2. /\ b \in Nat /\ b \div MapBits = m /\ b % MapBits = 8 * k + i
        /\ (8 * k + i) \div 8 = k /\ (8 * k + i) % 8 = i
    BY <2>1, Position
  <2> HIDE DEF b
  <2>3. BlockBit(mp, b)
    BY <2>2 DEF BlockBit, BitAt
  <2> QED
    BY <1>2, <2>2, <2>3 DEF b
<1> QED
  BY <1>1, <1>2

(* Every block of the volume has its bit in the bitmap file.               *)
LEMMA BlockHasBit ==
  ASSUME NEW b \in 0..(VolBlocks - 1)
  PROVE  b \in Nat /\ b \div MapBits \in MapFile
<1>1. MapBits \in Nat \ {0} /\ VolBlocks \in Nat /\ b \in Nat
  BY BytesAssumption DEF MapBits
<1>2. b \div MapBits \in Nat /\ (b \div MapBits) * MapBits <= b /\ (b \div MapBits) * MapBits \in Nat
  BY <1>1, DivBounds, DivRest
<1>3. (b \div MapBits) * MapBits < VolBlocks
  BY <1>1, <1>2
<1> QED
  BY <1>1, <1>2, <1>3, InMapFile

(* Setting the bits of a run of blocks of the volume.                      *)
LEMMA MapSet ==
  ASSUME TypeOK, NothingBeyondVolume, NEW m \in MapFile, NEW s \in Nat, NEW n \in Nat \ {0},
         m * MapBits <= s, s + n <= (m + 1) * MapBits, s + n <= VolBlocks,
         map' = [map EXCEPT ![m] = set_bits(@, s % MapBits, n)]
  PROVE  /\ map' \in [MapFile -> Bitmaps(MapBytes)]
         /\ NothingBeyondVolume'
         /\ Bitmap' = Bitmap \cup A!Extent(s, n)
<1>1. map \in [MapFile -> Bitmaps(MapBytes)] /\ VolBlocks \in Nat
  BY BytesAssumption DEF TypeOK
<1>2. map' = [map EXCEPT ![m] = set_bits(map[m], s % MapBits, n)]
  OBVIOUS
<1>3. /\ map' \in [MapFile -> Bitmaps(MapBytes)]
      /\ \A b \in Nat : b \div MapBits \in MapFile =>
           (BlockBit(map', b) <=> BlockBit(map, b) \/ (s <= b /\ b < s + n))
  BY <1>1, <1>2, SetRun
<1>4. \A b \in Nat : b \div MapBits \in MapFile /\ BlockBit(map, b) => b < VolBlocks
  BY <1>1, BeyondByBlock DEF NothingBeyondVolume
<1>5. \A b \in Nat : b \div MapBits \in MapFile /\ BlockBit(map', b) => b < VolBlocks
  BY <1>1, <1>3, <1>4
<1>6. NothingBeyondVolume'
  BY <1>3, <1>5, BeyondByBlock DEF NothingBeyondVolume
<1>7. ASSUME NEW b PROVE b \in Bitmap' <=> b \in Bitmap \cup A!Extent(s, n)
  <2>1. CASE b \in 0..(VolBlocks - 1)
    <3>1. b \in Nat /\ b \div MapBits \in MapFile
      BY <2>1, BlockHasBit
    <3>2. b \in Bitmap <=> BlockBit(map, b)
      BY <2>1 DEF Bitmap, BlockBit
    <3>3. b \in Bitmap' <=> BlockBit(map', b)
      BY <2>1 DEF Bitmap, BlockBit
    <3>4. b \in A!Extent(s, n) <=> s <= b /\ b < s + n
      BY <3>1 DEF A!Extent
    <3> QED
      BY <1>3, <3>1, <3>2, <3>3, <3>4
  <2>2. CASE b \notin 0..(VolBlocks - 1)
    <3>1. b \notin Bitmap /\ b \notin Bitmap'
      BY <2>2 DEF Bitmap
    <3>2. b \notin A!Extent(s, n)
      BY <1>1, <2>2 DEF A!Extent
    <3> QED
      BY <3>1, <3>2
  <2> QED
    BY <2>1, <2>2
<1> QED
  BY <1>3, <1>6, <1>7

(* Clearing the bits of a run.                                             *)
LEMMA MapClear ==
  ASSUME TypeOK, NothingBeyondVolume, NEW m \in MapFile, NEW s \in Nat, NEW n \in Nat \ {0},
         m * MapBits <= s, s + n <= (m + 1) * MapBits,
         map' = [map EXCEPT ![m] = clear_bits(@, s % MapBits, n)]
  PROVE  /\ map' \in [MapFile -> Bitmaps(MapBytes)]
         /\ NothingBeyondVolume'
         /\ Bitmap' = Bitmap \ A!Extent(s, n)
<1>1. map \in [MapFile -> Bitmaps(MapBytes)] /\ VolBlocks \in Nat
  BY BytesAssumption DEF TypeOK
<1>2. map' = [map EXCEPT ![m] = clear_bits(map[m], s % MapBits, n)]
  OBVIOUS
<1>3. /\ map' \in [MapFile -> Bitmaps(MapBytes)]
      /\ \A b \in Nat : b \div MapBits \in MapFile =>
           (BlockBit(map', b) <=> BlockBit(map, b) /\ ~(s <= b /\ b < s + n))
  BY <1>1, <1>2, ClearRun
<1>4. \A b \in Nat : b \div MapBits \in MapFile /\ BlockBit(map, b) => b < VolBlocks
  BY <1>1, BeyondByBlock DEF NothingBeyondVolume
<1>5. \A b \in Nat : b \div MapBits \in MapFile /\ BlockBit(map', b) => b < VolBlocks
  BY <1>1, <1>3, <1>4
<1>6. NothingBeyondVolume'
  BY <1>3, <1>5, BeyondByBlock DEF NothingBeyondVolume
<1>7. ASSUME NEW b PROVE b \in Bitmap' <=> b \in Bitmap \ A!Extent(s, n)
  <2>1. CASE b \in 0..(VolBlocks - 1)
    <3>1. b \in Nat /\ b \div MapBits \in MapFile
      BY <2>1, BlockHasBit
    <3>2. b \in Bitmap <=> BlockBit(map, b)
      BY <2>1 DEF Bitmap, BlockBit
    <3>3. b \in Bitmap' <=> BlockBit(map', b)
      BY <2>1 DEF Bitmap, BlockBit
    <3>4. b \in A!Extent(s, n) <=> s <= b /\ b < s + n
      BY <3>1 DEF A!Extent
    <3> QED
      BY <1>3, <3>1, <3>2, <3>3, <3>4
  <2>2. CASE b \notin 0..(VolBlocks - 1)
    BY <2>2 DEF Bitmap
  <2> QED
    BY <2>1, <2>2
<1> QED
  BY <1>3, <1>6, <1>7

-----------------------------------------------------------------------------
(***************************************************************************)
(* The inductive invariant.  For a call that searches, at and mutex stand  *)
(* for a position in the range of the pass: Ready says where the search of *)
(* the next map block will start and how many bytes the range has left,    *)
(* Walk what the task that holds the mutex knows of the bits behind it.    *)
(* HeldInMap keeps every extent within the map block in which bfree clears *)
(* it.                                                                     *)
(***************************************************************************)
First(c) == c.mapblock = A!Start(c) \div MapBits
Low(c) == IF First(c) THEN A!Start(c) ELSE c.mapblock * MapBits
FirstByte(c) == c.mapblock * MapBytes + Offset(c)
LastByte(c) == (A!Limit(c) + 7) \div 8
Here(c, a) == c.mapblock * MapBits + 8 * a.p + a.startbit

Searching(c) == c.mapblock < A!MapBlocks(A!Limit(c))

Ready(t) ==
  LET c == call[t] IN
  c.pc = "scan" =>
    /\ A!Start(c) \div MapBits <= c.mapblock
    /\ Searching(c) => at[t].tail = LastByte(c) - FirstByte(c)
    /\ mutex # t => at[t].startbit = IF First(c) THEN A!Start(c) % 8 ELSE 0

Walk(t) ==
  LET c == call[t]
      a == at[t]
  IN
  mutex = t =>
    /\ c.pc = "scan" /\ Searching(c)
    /\ a.top = Offset(c) + Bytes(c, a.tail)
    /\ a.p \in Offset(c)..a.top
    /\ a.run < c.blocks
    /\ a.startbit # 0 => a.run = 0
    /\ RunUpTo(Bitmap, Low(c), Here(c, a), a.run)
    /\ NoRunUpTo(Bitmap, Low(c), c.blocks, Here(c, a))

HeldInMap == \A t \in Task : \A e \in held[t] : (e[1] % MapBits) + e[2] <= MapBits

Kept ==
  /\ TypeOK /\ NothingBeyondVolume /\ HeldInMap
  /\ \A t \in Task : Ready(t) /\ Walk(t)

Loops == A!TypeOK /\ Kept

(* The numbers of a call.                                                  *)
LEMMA CallNumbers ==
  ASSUME A!TypeOK, NEW t \in Task
  PROVE  /\ call[t] \in A!Calls
         /\ call[t].blocks \in 1..MaxBlocks /\ call[t].blocks \in Nat \ {0}
         /\ call[t].mapblock \in Nat
         /\ A!Start(call[t]) \in Nat /\ A!Limit(call[t]) \in 0..VolBlocks
         /\ A!Start(call[t]) <= A!Limit(call[t])
<1>1. call[t] \in A!Calls
  BY DEF A!TypeOK
<1>2. /\ call[t].blocks \in 1..MaxBlocks /\ call[t].mapblock \in Nat
      /\ call[t].goal \in 0..VolBlocks /\ call[t].pass \in {1, 2}
  BY <1>1 DEF A!Calls
<1> QED
  BY <1>1, <1>2, BytesAssumption DEF A!Start, A!Limit

(* Where the search of a map block starts, in blocks and in bytes.         *)
LEMMA FirstPosition ==
  ASSUME NEW c, c.mapblock \in Nat, A!Start(c) \in Nat, A!Start(c) \div MapBits <= c.mapblock
  PROVE  /\ Offset(c) \in 0..(MapBytes - 1)
         /\ Low(c) \in Nat /\ A!Start(c) <= Low(c) /\ c.mapblock * MapBits <= Low(c)
         /\ Low(c) = A!Start(c) \/ Low(c) = c.mapblock * MapBits
         /\ (IF First(c) THEN A!Start(c) % 8 ELSE 0) \in Bit
         /\ Low(c) = c.mapblock * MapBits + 8 * Offset(c) + (IF First(c) THEN A!Start(c) % 8 ELSE 0)
         /\ FirstByte(c) \in Nat /\ 8 * FirstByte(c) = c.mapblock * MapBits + 8 * Offset(c)
         /\ First(c) => FirstByte(c) = A!Start(c) \div 8
<1> DEFINE m == c.mapblock
           st == A!Start(c)
           r == st % MapBits
           off == IF st \div MapBits = m THEN r \div 8 ELSE 0
<1>1. MapBits \in Nat \ {0} /\ MapBits = 8 * MapBytes /\ MapBytes \in Nat \ {0}
  BY BytesAssumption DEF MapBits
<1>2. m * MapBits \in Nat /\ m * MapBits = 8 * (m * MapBytes) /\ m * MapBytes \in Nat
  BY <1>1
<1>3. st \div MapBits \in Nat /\ r \in 0..(MapBits - 1) /\ (st \div MapBits) * MapBits \in Nat
      /\ st = (st \div MapBits) * MapBits + r /\ st < (st \div MapBits + 1) * MapBits
  BY <1>1, DivRest, DivBounds
<1>4. Offset(c) = off /\ (First(c) <=> st \div MapBits = m) /\ FirstByte(c) = m * MapBytes + off
  BY DEF Offset, First, FirstByte
<1>5. Low(c) = IF st \div MapBits = m THEN st ELSE m * MapBits
  BY DEF Low, First
<1> DEFINE sb == IF st \div MapBits = m THEN st % 8 ELSE 0
<1> SUFFICES /\ off \in 0..(MapBytes - 1)
             /\ Low(c) \in Nat /\ st <= Low(c) /\ m * MapBits <= Low(c)
             /\ Low(c) = st \/ Low(c) = m * MapBits
             /\ sb \in Bit
             /\ Low(c) = m * MapBits + 8 * off + sb
             /\ m * MapBytes + off \in Nat /\ 8 * (m * MapBytes + off) = m * MapBits + 8 * off
             /\ st \div MapBits = m => m * MapBytes + off = st \div 8
  BY <1>4
<1>6. CASE st \div MapBits = m
  <2> DEFINE k == r \div 8
             i == r % 8
  <2>1. r \in Nat
    BY <1>1, <1>3
  <2>2. k \in Nat /\ i \in Bit /\ r = 8 * k + i
    BY <2>1, DivMod
  <2>3. off = k /\ st = m * MapBits + r /\ sb = st % 8
    BY <1>3, <1>6
  <2> HIDE DEF k, i, off, r, sb
  <2>4. k \in 0..(MapBytes - 1)
    BY <1>1, <1>3, <2>2 DEF Bit
  <2>5. m * MapBytes + k \in Nat /\ st = 8 * (m * MapBytes + k) + i
    BY <1>2, <2>2, <2>3 DEF Bit
  <2>6. st \div 8 = m * MapBytes + k /\ st % 8 = i
    <3> DEFINE kk == m * MapBytes + k
    <3>1. kk \in Nat /\ st = 8 * kk + i
      BY <2>5
    <3> HIDE DEF kk, st
    <3>2. (8 * kk + i) \div 8 = kk /\ (8 * kk + i) % 8 = i
      BY <2>2, <3>1, BitOfByte
    <3> QED
      BY <3>1, <3>2 DEF kk
  <2>7. 8 * (m * MapBytes + k) = m * MapBits + 8 * k
    BY <1>2, <2>2
  <2>8. Low(c) = st
    BY <1>5, <1>6
  <2>9. st = m * MapBits + 8 * k + i /\ m * MapBits <= st
    BY <1>2, <2>2, <2>3 DEF Bit
  <2> QED
    BY <1>6, <2>2, <2>3, <2>4, <2>5, <2>6, <2>7, <2>8, <2>9
<1>7. CASE st \div MapBits # m
  <2>1. off = 0 /\ sb = 0 /\ Low(c) = m * MapBits
    BY <1>5, <1>7
  <2>2. (st \div MapBits + 1) * MapBits <= m * MapBits
    <3> DEFINE q == st \div MapBits
    <3>1. q \in Nat /\ q <= m /\ q # m
      BY <1>3, <1>7
    <3> HIDE DEF q
    <3>2. q + 1 \in Nat /\ q + 1 <= m
      BY <3>1
    <3>3. (q + 1) * MapBits <= m * MapBits
      BY <1>1, <3>2, MulMono
    <3> QED
      BY <3>3 DEF q
  <2>3. (st \div MapBits + 1) * MapBits \in Nat
    <3> DEFINE q == st \div MapBits
    <3>1. q \in Nat
      BY <1>3
    <3> HIDE DEF q
    <3>2. (q + 1) * MapBits \in Nat
      BY <1>1, <3>1
    <3> QED
      BY <3>2 DEF q
  <2>4. st <= m * MapBits
    BY <1>2, <1>3, <2>2, <2>3
  <2> HIDE DEF off, sb
  <2> QED
    BY <1>1, <1>2, <1>7, <2>1, <2>4 DEF Bit
<1> QED
  BY <1>6, <1>7

(* The smaller of two numbers.                                             *)
LEMMA MinPair ==
  ASSUME NEW a \in Int, NEW b \in Int
  PROVE  Min({a, b}) \in {a, b} /\ Min({a, b}) <= a /\ Min({a, b}) <= b
<1>1. \E x \in {a, b} : \A y \in {a, b} : x <= y
  <2>1. CASE a <= b
    BY <2>1
  <2>2. CASE b <= a
    BY <2>2
  <2> QED
    BY <2>1, <2>2
<1> QED
  BY <1>1 DEF Min

(* The bytes that the range has left at its start.                         *)
LEMMA BytesLeftIs ==
  ASSUME NEW c, c.mapblock \in Nat, A!Start(c) \in Nat, A!Limit(c) \in Nat,
         A!Start(c) <= A!Limit(c), First(c)
  PROVE  BytesLeft(c) \in Nat /\ BytesLeft(c) = LastByte(c) - FirstByte(c)
<1> DEFINE st == A!Start(c)
           lim == A!Limit(c)
<1>1. MapBits \in Nat \ {0}
  BY BytesAssumption DEF MapBits
<1>2. st \div MapBits <= c.mapblock
  BY DEF First
<1>3. FirstByte(c) = st \div 8
  BY <1>2, FirstPosition
<1>4. (lim - st + (st % 8) + 7) \div 8 \in Nat
      /\ (lim - st + (st % 8) + 7) \div 8 = ((lim + 7) \div 8) - (st \div 8)
  <2> HIDE DEF st, lim
  <2>1. st \in Nat /\ lim \in Nat /\ st <= lim
    BY DEF st, lim
  <2> QED
    BY <2>1, SMT
<1> QED
  BY <1>3, <1>4 DEF BytesLeft, LastByte

(* The end of the search of a map block: the whole map block is behind, or *)
(* the whole range is.                                                     *)
LEMMA LastPosition ==
  ASSUME NEW c, c.mapblock \in Nat, A!Start(c) \in Nat, A!Limit(c) \in 0..VolBlocks,
         A!Start(c) <= A!Limit(c), A!Start(c) \div MapBits <= c.mapblock, Searching(c),
         NEW tail \in Nat, tail = LastByte(c) - FirstByte(c)
  PROVE  /\ c.mapblock \in MapFile
         /\ Offset(c) + Bytes(c, tail) \in Offset(c)..MapBytes
         /\ tail - Bytes(c, tail) \in Nat
         /\ \/ Offset(c) + Bytes(c, tail) = MapBytes
            \/ A!Limit(c) <= c.mapblock * MapBits + 8 * (Offset(c) + Bytes(c, tail))
         /\ (c.mapblock + 1) * MapBits < A!Limit(c) =>
              tail - Bytes(c, tail) = LastByte(c) - (c.mapblock + 1) * MapBytes
<1> DEFINE m == c.mapblock
           lim == A!Limit(c)
           off == Offset(c)
           by == Bytes(c, tail)
           lb == LastByte(c)
           fb == FirstByte(c)
<1>1. MapBits \in Nat \ {0} /\ MapBits = 8 * MapBytes /\ MapBytes \in Nat \ {0} /\ VolBlocks \in Nat
  BY BytesAssumption DEF MapBits
<1>2. /\ m * MapBits \in Nat /\ (m + 1) * MapBytes \in Nat /\ m * MapBytes \in Nat
      /\ (m + 1) * MapBytes = m * MapBytes + MapBytes /\ (m + 1) * MapBits = m * MapBits + MapBits
      /\ m * MapBits = 8 * (m * MapBytes)
  BY <1>1
<1>3. m * MapBits < lim /\ lim \in Nat
  <2>1. lim \in Nat
    BY <1>1
  <2> QED
    BY <1>1, <2>1, CeilDiv DEF Searching, A!MapBlocks
<1>4. m \in MapFile
  BY <1>1, <1>2, <1>3, InMapFile
<1>5. off \in 0..(MapBytes - 1) /\ fb = m * MapBytes + off
  BY FirstPosition DEF FirstByte
<1>6. by \in {MapBytes - off, tail} /\ by <= MapBytes - off /\ by <= tail
  <2>1. MapBytes - off \in Int /\ tail \in Int
    BY <1>1, <1>5
  <2> QED
    BY <2>1, MinPair DEF Bytes
<1>7. lb \in Nat /\ lim <= 8 * lb
  <2> HIDE DEF lim
  <2>1. lim \in Nat
    BY <1>3
  <2> QED
    BY <2>1 DEF LastByte, lim
<1>8. tail = lb - fb
  OBVIOUS
<1> HIDE DEF m, lim, off, by, lb, fb
<1>9. by \in Nat /\ off + by \in off..MapBytes /\ tail - by \in Nat
  BY <1>1, <1>5, <1>6
<1>10. off + by = MapBytes \/ lim <= m * MapBits + 8 * (off + by)
  BY <1>1, <1>2, <1>3, <1>5, <1>6, <1>7, <1>8, <1>9
<1>11. (m + 1) * MapBits < lim => tail - by = lb - (m + 1) * MapBytes
  <2> SUFFICES ASSUME (m + 1) * MapBits < lim PROVE tail - by = lb - (m + 1) * MapBytes
    OBVIOUS
  <2>1. tail >= MapBytes - off
    BY <1>1, <1>2, <1>3, <1>5, <1>7, <1>8
  <2>2. by = MapBytes - off
    BY <1>1, <1>5, <1>6, <2>1
  <2> QED
    BY <1>1, <1>2, <1>5, <1>7, <1>8, <2>2
<1> QED
  BY <1>4, <1>9, <1>10, <1>11 DEF m, lim, off, by, lb

-----------------------------------------------------------------------------
(* One lemma per action: the invariant is kept, and the step is a step of  *)
(* Balloc or changes nothing there.                                        *)

(* A step of another task, which does not change the bits under the mutex. *)
LEMMA Bystander ==
  ASSUME NEW u \in Task, Ready(u), Walk(u), call'[u] = call[u], at'[u] = at[u],
         mutex' = u <=> mutex = u, mutex = u => Bitmap' = Bitmap
  PROVE  Ready(u)' /\ Walk(u)'
<1>1. Ready(u)'
  BY DEF Ready
<1>2. Walk(u)'
  <2>1. CASE mutex = u
    BY <2>1 DEF Walk
  <2>2. CASE mutex # u
    BY <2>2 DEF Walk
  <2> QED
    BY <2>1, <2>2
<1> QED
  BY <1>1, <1>2

(* The type of the loop variables of a task.                               *)
Ats == [p : 0..MapBytes, top : 0..MapBytes, startbit : Bit, run : 0..MaxBlocks, tail : Nat]

(* balloc enters the first scan: the loop variables start where the first  *)
(* byte of the range is.                                                   *)
LEMMA StartStep ==
  ASSUME Loops, NEW t \in Task, NEW n \in 1..MaxBlocks, BallocStart(t, n)
  PROVE  Kept' /\ A!Next
<1> DEFINE d == [pc |-> "scan", blocks |-> n, goal |-> nextalloc, pass |-> 1,
                 mapblock |-> nextalloc \div MapBits]
           a == [NotAt EXCEPT !.tail = BytesLeft(d), !.startbit = nextalloc % 8]
<1>1. A!Next
  BY DEF BallocStart, A!Next
<1>2. /\ map' = map /\ mutex' = mutex /\ held' = held
      /\ call' = [call EXCEPT ![t] = d] /\ call[t].pc # "scan"
  BY DEF BallocStart, A!BallocStart
<1>3. /\ call \in [Task -> A!Calls] /\ at \in [Task -> Ats] /\ nextalloc \in 0..VolBlocks
      /\ MapBits \in Nat \ {0} /\ VolBlocks \in Nat
  BY BytesAssumption DEF Loops, Kept, TypeOK, A!TypeOK, Ats, MapBits
<1>4. call'[t] = d /\ (\A u \in Task : u # t => call'[u] = call[u])
  BY <1>2, <1>3
<1>5. /\ d.mapblock = nextalloc \div MapBits /\ d.mapblock \in Nat /\ d.pc = "scan"
      /\ A!Start(d) = nextalloc /\ A!Limit(d) = VolBlocks /\ First(d) /\ nextalloc \in Nat
  BY <1>3, DivBounds DEF A!Start, A!Limit, First
<1> HIDE DEF d
<1>6. BytesLeft(d) \in Nat /\ BytesLeft(d) = LastByte(d) - FirstByte(d)
  BY <1>3, <1>5, BytesLeftIs
<1>7. at' = [at EXCEPT ![t] = a]
  BY <1>4 DEF BallocStart
<1>8. a \in Ats /\ a.tail = BytesLeft(d) /\ a.startbit = nextalloc % 8
  <2>1. NotAt \in Ats /\ nextalloc % 8 \in Bit
    BY <1>5, BytesAssumption DEF NotAt, Ats, Bit
  <2> QED
    BY <1>6, <2>1, Zenon DEF Ats
<1> HIDE DEF a
<1>9. at'[t] = a /\ (\A u \in Task : u # t => at'[u] = at[u]) /\ at' \in [Task -> Ats]
  BY <1>3, <1>7, <1>8
<1>10. mutex # t
  BY <1>2 DEF Loops, Kept, Walk
<1>11. Bitmap' = Bitmap
  BY <1>2 DEF Bitmap
<1>12. Ready(t)' /\ Walk(t)'
  <2>1. Walk(t)'
    BY <1>2, <1>10 DEF Walk
  <2>2. A!Start(d) \div MapBits <= d.mapblock
    BY <1>5
  <2>3. at'[t].tail = LastByte(d) - FirstByte(d)
    BY <1>6, <1>8, <1>9
  <2>4. at'[t].startbit = IF First(d) THEN A!Start(d) % 8 ELSE 0
    BY <1>5, <1>8, <1>9
  <2> QED
    BY <1>4, <2>1, <2>2, <2>3, <2>4 DEF Ready
<1>13. ASSUME NEW u \in Task, u # t PROVE Ready(u)' /\ Walk(u)'
  <2>1. Ready(u) /\ Walk(u)
    BY DEF Loops, Kept
  <2> QED
    BY <1>2, <1>4, <1>9, <1>11, <1>13, <2>1, Bystander
<1>14. TypeOK' /\ NothingBeyondVolume' /\ HeldInMap'
  BY <1>2, <1>9 DEF Loops, Kept, TypeOK, NothingBeyondVolume, HeldInMap, Ats
<1> QED
  BY <1>1, <1>12, <1>13, <1>14 DEF Kept

(* The lock of the map block is taken and the pointer set to the first byte: *)
(* a stutter of the abstract allocator.                                    *)
LEMMA LockStep ==
  ASSUME Loops, NEW t \in Task, LockMapBlock(t)
  PROVE  Kept' /\ UNCHANGED A!vars
<1> DEFINE c == call[t]
           a == [at[t] EXCEPT !.p = Offset(c), !.run = 0, !.top = Offset(c) + Bytes(c, at[t].tail)]
<1>1. /\ map' = map /\ mutex' = t /\ mutex = NoTask /\ held' = held /\ call' = call
      /\ c.pc = "scan" /\ Searching(c)
      /\ UNCHANGED <<freeblocks, nextalloc, avail>>
  BY DEF LockMapBlock, Searching
<1>2. Bitmap' = Bitmap
  BY <1>1 DEF Bitmap
<1>3. UNCHANGED A!vars
  BY <1>1, <1>2 DEF A!vars
<1>4. at \in [Task -> Ats] /\ at[t] \in Ats /\ at[t].tail \in Nat /\ at[t].startbit \in Bit
      /\ VolBlocks \in Nat /\ MapBytes \in Nat /\ MaxBlocks \in Nat
  BY BytesAssumption DEF Loops, Kept, TypeOK, Ats
<1>5. /\ c.blocks \in Nat \ {0} /\ c.mapblock \in Nat
      /\ A!Start(c) \in Nat /\ A!Limit(c) \in 0..VolBlocks /\ A!Start(c) <= A!Limit(c)
  BY CallNumbers DEF Loops
<1>6. Ready(t)
  BY DEF Loops, Kept
<1>7. A!Start(c) \div MapBits <= c.mapblock /\ at[t].tail = LastByte(c) - FirstByte(c)
      /\ at[t].startbit = IF First(c) THEN A!Start(c) % 8 ELSE 0
  <2>1. mutex # t
    BY <1>1, BytesAssumption
  <2> QED
    BY <1>1, <1>6, <2>1 DEF Ready
<1>8. Offset(c) \in 0..(MapBytes - 1) /\ Low(c) \in Nat
      /\ Low(c) = c.mapblock * MapBits + 8 * Offset(c) + (IF First(c) THEN A!Start(c) % 8 ELSE 0)
  BY <1>5, <1>7, FirstPosition
<1>9. Offset(c) + Bytes(c, at[t].tail) \in Offset(c)..MapBytes
  BY <1>1, <1>4, <1>5, <1>7, LastPosition
<1>10. at' = [at EXCEPT ![t] = a]
  <2>1. at' = [at EXCEPT ![t].p = Offset(c), ![t].run = 0,
                         ![t].top = Offset(c) + Bytes(c, at[t].tail)]
    BY DEF LockMapBlock
  <2> HIDE DEF c
  <2> QED
    BY <1>4, <2>1, Zenon DEF Ats
<1> HIDE DEF c
<1>11. a \in Ats /\ a.p = Offset(c) /\ a.top = Offset(c) + Bytes(c, at[t].tail)
       /\ a.startbit = at[t].startbit /\ a.run = 0 /\ a.tail = at[t].tail
  <2>1. Offset(c) \in 0..MapBytes /\ Offset(c) + Bytes(c, at[t].tail) \in 0..MapBytes /\ 0 \in 0..MaxBlocks
    BY <1>4, <1>8, <1>9
  <2> QED
    BY <1>4, <2>1, Zenon DEF Ats
<1> HIDE DEF a
<1>12. at'[t] = a /\ (\A u \in Task : u # t => at'[u] = at[u]) /\ at' \in [Task -> Ats]
  BY <1>4, <1>10, <1>11
<1>13. call'[t] = c
  BY <1>1 DEF c
<1>14. Ready(t)'
  BY <1>1, <1>7, <1>11, <1>12, <1>13 DEF Ready
<1>15. Walk(t)'
  <2>1. Here(c, a) = Low(c)
    BY <1>7, <1>8, <1>11 DEF Here
  <2>2. RunUpTo(Bitmap, Low(c), Low(c), 0)
    BY <1>8 DEF RunUpTo
  <2>3. NoRunUpTo(Bitmap, Low(c), c.blocks, Low(c))
    BY <1>5, <1>8 DEF NoRunUpTo
  <2>4. a.p \in Offset(c)..a.top /\ a.run < c.blocks
    BY <1>5, <1>8, <1>9, <1>11
  <2>5. RunUpTo(Bitmap', Low(c), Here(c, a), a.run) /\ NoRunUpTo(Bitmap', Low(c), c.blocks, Here(c, a))
    BY <1>2, <1>11, <2>1, <2>2, <2>3
  <2>6. a.top = Offset(c) + Bytes(c, a.tail)
    BY <1>11
  <2> QED
    BY <1>1, <1>11, <1>12, <1>13, <2>4, <2>5, <2>6 DEF Walk
<1>16. ASSUME NEW u \in Task, u # t PROVE Ready(u)' /\ Walk(u)'
  <2>1. Ready(u) /\ Walk(u) /\ mutex # u /\ mutex' # u
    BY <1>1, <1>16, BytesAssumption DEF Loops, Kept
  <2> QED
    BY <1>1, <1>2, <1>12, <1>16, <2>1, Bystander
<1>17. TypeOK' /\ NothingBeyondVolume' /\ HeldInMap'
  BY <1>1, <1>12 DEF Loops, Kept, TypeOK, NothingBeyondVolume, HeldInMap, Ats
<1> QED
  BY <1>3, <1>14, <1>15, <1>16, <1>17 DEF Kept

(* A task in a byte: its block numbers, and what is behind it.             *)
Base(t) == call[t].mapblock * MapBits + 8 * at[t].p
ByteOf(t) == map[call[t].mapblock][at[t].p]
RunOf(t) == RunAt(ByteOf(t), at[t].startbit, at[t].run)

(* Where the holder of the lock stands in the bytes of its map block.      *)
LEMMA WalkNumbers ==
  ASSUME Loops, NEW t \in Task, mutex = t
  PROVE  /\ call[t].pc = "scan" /\ Searching(call[t])
         /\ call[t].mapblock \in MapFile /\ call[t].mapblock \in Nat
         /\ call[t].blocks \in Nat \ {0} /\ call[t].blocks <= MaxBlocks
         /\ at[t] \in Ats /\ at \in [Task -> Ats]
         /\ at[t].startbit \in Bit /\ at[t].run \in Nat /\ at[t].run < call[t].blocks
         /\ at[t].top \in 0..MapBytes /\ at[t].p \in Offset(call[t])..at[t].top
         /\ Offset(call[t]) \in 0..(MapBytes - 1)
         /\ at[t].top = Offset(call[t]) + Bytes(call[t], at[t].tail)
         /\ Low(call[t]) \in Nat /\ A!Start(call[t]) <= Low(call[t])
         /\ A!Start(call[t]) \in Nat /\ A!Limit(call[t]) \in 0..VolBlocks
         /\ call[t].mapblock * MapBits <= Low(call[t]) /\ call[t].mapblock * MapBits \in Nat
         /\ Low(call[t]) = A!Start(call[t]) \/ Low(call[t]) = call[t].mapblock * MapBits
         /\ Base(t) \in Nat /\ Here(call[t], at[t]) = Base(t) + at[t].startbit
         /\ RunUpTo(Bitmap, Low(call[t]), Base(t) + at[t].startbit, at[t].run)
         /\ NoRunUpTo(Bitmap, Low(call[t]), call[t].blocks, Base(t) + at[t].startbit)
         /\ A!Start(call[t]) \div MapBits <= call[t].mapblock
         /\ A!Start(call[t]) <= A!Limit(call[t])
         /\ at[t].tail \in Nat /\ at[t].tail = LastByte(call[t]) - FirstByte(call[t])
<1> DEFINE c == call[t]
           a == at[t]
<1>1. /\ c.blocks \in 1..MaxBlocks /\ c.blocks \in Nat \ {0} /\ c.mapblock \in Nat
      /\ A!Start(c) \in Nat /\ A!Limit(c) \in 0..VolBlocks /\ A!Start(c) <= A!Limit(c)
  BY CallNumbers DEF Loops
<1>2. at \in [Task -> Ats] /\ a \in Ats /\ a.tail \in Nat /\ a.startbit \in Bit /\ a.run \in Nat
      /\ a.top \in 0..MapBytes /\ a.p \in Nat
  BY BytesAssumption DEF Loops, Kept, TypeOK, Ats
<1>3. Ready(t) /\ Walk(t)
  BY DEF Loops, Kept
<1>4. /\ c.pc = "scan" /\ Searching(c)
      /\ a.top = Offset(c) + Bytes(c, a.tail)
      /\ a.p \in Offset(c)..a.top
      /\ a.run < c.blocks
      /\ RunUpTo(Bitmap, Low(c), Here(c, a), a.run)
      /\ NoRunUpTo(Bitmap, Low(c), c.blocks, Here(c, a))
  BY <1>3 DEF Walk
<1>5. A!Start(c) \div MapBits <= c.mapblock /\ a.tail = LastByte(c) - FirstByte(c)
  BY <1>3, <1>4 DEF Ready
<1>6. /\ Offset(c) \in 0..(MapBytes - 1)
      /\ Low(c) \in Nat /\ A!Start(c) <= Low(c) /\ c.mapblock * MapBits <= Low(c)
      /\ Low(c) = A!Start(c) \/ Low(c) = c.mapblock * MapBits
  BY <1>1, <1>5, FirstPosition
<1>7. c.mapblock \in MapFile
  BY <1>1, <1>2, <1>4, <1>5, LastPosition
<1>8. MapBits \in Nat
  BY BytesAssumption DEF MapBits
<1>9. c.mapblock * MapBits \in Nat
  BY <1>1, <1>8
<1>10. Base(t) \in Nat /\ Here(c, a) = Base(t) + a.startbit
  BY <1>2, <1>9 DEF Base, Here, Bit
<1>11. c.blocks <= MaxBlocks
  BY <1>1, BytesAssumption
<1> HIDE DEF c, a
<1>12. /\ RunUpTo(Bitmap, Low(c), Base(t) + a.startbit, a.run)
       /\ NoRunUpTo(Bitmap, Low(c), c.blocks, Base(t) + a.startbit)
  BY <1>4, <1>10
<1> QED
  BY <1>1, <1>2, <1>4, <1>5, <1>6, <1>7, <1>9, <1>10, <1>11, <1>12 DEF c, a

(* What the walk over the bits of the byte finds.                          *)
LEMMA ByteResult ==
  ASSUME Loops, NEW t \in Task, InByte(t)
  PROVE  /\ at[t].p \in 0..(MapBytes - 1)
         /\ \A i \in Bit : i \in ByteOf(t) <=> Base(t) + i \in Bitmap
         /\ \A i \in at[t].startbit..7 :
              (\A j \in at[t].startbit..(i - 1) : RunOf(t)[j] # call[t].blocks) =>
                /\ RunOf(t)[i] \in 0..call[t].blocks
                /\ RunUpTo(Bitmap, Low(call[t]), Base(t) + i + 1, RunOf(t)[i])
                /\ NoRunUpTo(Bitmap, Low(call[t]), call[t].blocks, Base(t) + i)
<1> DEFINE c == call[t]
           a == at[t]
           lo == Low(c)
           n == c.blocks
           m == c.mapblock
<1>1. mutex = t /\ a.p < a.top
  BY DEF InByte
<1>2. /\ m \in MapFile /\ n \in Nat \ {0}
      /\ a.startbit \in Bit /\ a.run \in Nat /\ a.run < n
      /\ a.top \in 0..MapBytes /\ a.p \in Offset(c)..a.top /\ Offset(c) \in 0..(MapBytes - 1)
      /\ lo \in Nat /\ Base(t) \in Nat
      /\ RunUpTo(Bitmap, lo, Base(t) + a.startbit, a.run)
      /\ NoRunUpTo(Bitmap, lo, n, Base(t) + a.startbit)
  BY <1>1, WalkNumbers
<1>3. a.p \in 0..(MapBytes - 1)
  BY <1>1, <1>2, BytesAssumption
<1>4. \A i \in Bit : i \in ByteOf(t) <=> Base(t) + i \in Bitmap
  <2> SUFFICES ASSUME NEW i \in Bit PROVE i \in ByteOf(t) <=> Base(t) + i \in Bitmap
    OBVIOUS
  <2>1. TypeOK /\ NothingBeyondVolume
    BY DEF Loops, Kept
  <2>2. i \in map[m][a.p] <=> m * MapBits + 8 * a.p + i \in Bitmap
    BY <1>2, <1>3, <2>1, BitInBitmap
  <2> QED
    BY <2>2 DEF ByteOf, Base
<1>5. ASSUME NEW i \in a.startbit..7, \A j \in a.startbit..(i - 1) : RunOf(t)[j] # n
      PROVE  /\ RunOf(t)[i] \in 0..n
             /\ RunUpTo(Bitmap, lo, Base(t) + i + 1, RunOf(t)[i])
             /\ NoRunUpTo(Bitmap, lo, n, Base(t) + i)
  <2> DEFINE byte == ByteOf(t)
             base == Base(t)
             sb == a.startbit
             run == a.run
  <2>1. \A k \in sb..7 : k \in byte <=> base + k \in Bitmap
    BY <1>2, <1>4 DEF Bit
  <2>2. RunOf(t) = RunAt(byte, sb, run)
    BY DEF RunOf
  <2>3. /\ lo \in Nat /\ n \in Nat \ {0} /\ base \in Nat /\ sb \in Bit /\ run \in Nat /\ run < n
        /\ RunUpTo(Bitmap, lo, base + sb, run) /\ NoRunUpTo(Bitmap, lo, n, base + sb)
        /\ i \in sb..7 /\ \A j \in sb..(i - 1) : RunAt(byte, sb, run)[j] # n
    BY <1>2, <1>5, <2>2
  <2> HIDE DEF byte, base, sb, run, lo, n
  <2>4. /\ RunAt(byte, sb, run)[i] \in 0..n
        /\ RunUpTo(Bitmap, lo, base + i + 1, RunAt(byte, sb, run)[i])
        /\ NoRunUpTo(Bitmap, lo, n, base + i)
    BY <2>1, <2>3, ByteWalk
  <2> QED
    BY <2>2, <2>4 DEF base
<1> QED
  BY <1>3, <1>4, <1>5

(* A byte without a hit: the run goes on into the next one, and no run of  *)
(* the wanted length ends before it. The abstract allocator stutters.      *)
LEMMA ScanByteStep ==
  ASSUME Loops, NEW t \in Task, ScanByte(t)
  PROVE  Kept' /\ UNCHANGED A!vars
<1> DEFINE c == call[t]
           R == RunOf(t)
           n == c.blocks
           sb == at[t].startbit
           a == [at[t] EXCEPT !.p = at[t].p + 1, !.startbit = 0, !.run = R[7]]
<1>1. /\ map' = map /\ mutex' = mutex /\ mutex = t /\ held' = held /\ call' = call
      /\ UNCHANGED <<freeblocks, nextalloc, avail>> /\ InByte(t) /\ at[t].p < at[t].top
      /\ ByteOf(t) = Bit \/ Hits(t) = {}
      /\ at' = [at EXCEPT ![t].p = @ + 1, ![t].startbit = 0,
                          ![t].run = IF ByteOf(t) = Bit THEN 0 ELSE R[7]]
  BY DEF ScanByte, InByte, ByteOf, RunOf
<1>2. Bitmap' = Bitmap
  BY <1>1 DEF Bitmap
<1>3. UNCHANGED A!vars
  BY <1>1, <1>2 DEF A!vars
<1>4. /\ c.pc = "scan" /\ Searching(c)
      /\ n \in Nat \ {0} /\ n <= MaxBlocks /\ MaxBlocks \in Nat
      /\ at[t] \in Ats /\ at \in [Task -> Ats] /\ sb \in Bit /\ at[t].run \in Nat
      /\ at[t].top \in 0..MapBytes /\ at[t].p \in Offset(c)..at[t].top
      /\ Offset(c) \in 0..(MapBytes - 1)
      /\ at[t].top = Offset(c) + Bytes(c, at[t].tail)
      /\ Low(c) \in Nat /\ Base(t) \in Nat /\ c.mapblock * MapBits \in Nat
  BY <1>1, WalkNumbers, BytesAssumption
<1>5. RunEquation(R, ByteOf(t), sb, at[t].run)
  BY <1>4, RunAtDef DEF RunOf
<1>6. ByteOf(t) = Bit => \A i \in sb..7 : R[i] = 0
  <2> HIDE DEF R
  <2> QED
    BY <1>4, <1>5 DEF RunEquation, Bit
<1>7. \A j \in sb..7 : R[j] # n
  <2>1. CASE ByteOf(t) = Bit
    BY <1>4, <1>6, <2>1
  <2>2. CASE Hits(t) = {}
    BY <2>2 DEF Hits, RunOf, ByteOf
  <2> QED
    BY <1>1, <2>1, <2>2
<1>8. /\ R[7] \in 0..n
      /\ RunUpTo(Bitmap, Low(c), Base(t) + 7 + 1, R[7])
      /\ NoRunUpTo(Bitmap, Low(c), n, Base(t) + 7)
  <2>1. 7 \in sb..7 /\ \A j \in sb..(7 - 1) : j \in sb..7
    BY <1>4 DEF Bit
  <2> HIDE DEF R, n, sb, c
  <2>2. \A j \in sb..(7 - 1) : R[j] # n
    BY <1>7, <2>1
  <2> QED
    BY <1>1, <2>1, <2>2, ByteResult DEF R, n, sb, c
<1>9. R[7] \in Nat /\ R[7] < n
  <2>1. 7 \in sb..7
    BY <1>4 DEF Bit
  <2> HIDE DEF R
  <2> QED
    BY <1>4, <1>7, <1>8, <2>1
<1>10. (IF ByteOf(t) = Bit THEN 0 ELSE R[7]) = R[7]
  <2>1. 7 \in sb..7
    BY <1>4 DEF Bit
  <2> HIDE DEF R
  <2> QED
    BY <1>6, <2>1
<1> HIDE DEF R
<1>11. at' = [at EXCEPT ![t] = a]
  <2>1. at' = [at EXCEPT ![t].p = @ + 1, ![t].startbit = 0, ![t].run = R[7]]
    BY <1>1, <1>10
  <2> QED
    BY <1>4, <2>1, Zenon DEF Ats
<1>12. a \in Ats /\ a.p = at[t].p + 1 /\ a.startbit = 0 /\ a.run = R[7]
       /\ a.top = at[t].top /\ a.tail = at[t].tail
  <2>1. at[t].p + 1 \in 0..MapBytes /\ 0 \in Bit /\ R[7] \in 0..MaxBlocks
    BY <1>1, <1>4, <1>9, BytesAssumption DEF Bit
  <2> QED
    BY <1>4, <2>1, Zenon DEF Ats
<1> HIDE DEF a
<1>13. at'[t] = a /\ (\A u \in Task : u # t => at'[u] = at[u]) /\ at' \in [Task -> Ats]
  BY <1>4, <1>11, <1>12
<1> HIDE DEF c, n
<1>14. call'[t] = c
  BY <1>1 DEF c
<1>15. Ready(t)'
  <2>1. Ready(t)
    BY DEF Loops, Kept
  <2> QED
    BY <1>1, <1>12, <1>13, <2>1 DEF Ready
<1>16. Walk(t)'
  <2>1. Here(c, a) = (Base(t) + 7) + 1 /\ Base(t) + 7 \in Nat /\ Base(t) + 7 + 1 = (Base(t) + 7) + 1
    <3>1. Here(c, a) = c.mapblock * MapBits + 8 * (at[t].p + 1) + 0
      BY <1>12 DEF Here
    <3>2. Base(t) = c.mapblock * MapBits + 8 * at[t].p
      BY DEF Base, c
    <3> QED
      BY <1>4, <3>1, <3>2
  <2>2. NoRunUpTo(Bitmap, Low(c), n, (Base(t) + 7) + 1)
    BY <1>4, <1>8, <1>9, <2>1, ShortRun
  <2>3. /\ RunUpTo(Bitmap', Low(c), Here(c, a), a.run)
        /\ NoRunUpTo(Bitmap', Low(c), c.blocks, Here(c, a))
    BY <1>2, <1>8, <1>12, <2>1, <2>2 DEF n
  <2>4. a.p \in Offset(c)..a.top /\ a.run < c.blocks
    BY <1>1, <1>4, <1>9, <1>12 DEF n
  <2>5. a.top = Offset(c) + Bytes(c, a.tail)
    BY <1>4, <1>12
  <2> QED
    BY <1>4, <1>12, <1>13, <1>14, <2>3, <2>4, <2>5 DEF Walk
<1>17. ASSUME NEW u \in Task, u # t PROVE Ready(u)' /\ Walk(u)'
  <2>1. Ready(u) /\ Walk(u) /\ mutex # u /\ mutex' # u
    BY <1>1, <1>17 DEF Loops, Kept
  <2> QED
    BY <1>1, <1>2, <1>13, <1>17, <2>1, Bystander
<1>18. TypeOK' /\ NothingBeyondVolume' /\ HeldInMap'
  BY <1>1, <1>13 DEF Loops, Kept, TypeOK, NothingBeyondVolume, HeldInMap, Ats
<1> QED
  BY <1>3, <1>15, <1>16, <1>17, <1>18 DEF Kept

(* The first hit ends a free run of the wanted length, and none ends below.*)
LEMMA FirstHit ==
  ASSUME Loops, NEW t \in Task, InByte(t), Hits(t) # {}
  PROVE  /\ FoundEnd(t) \in Base(t)..(Base(t) + 7)
         /\ FoundEnd(t) - (call[t].blocks - 1) \in Nat
         /\ Low(call[t]) <= FoundEnd(t) - (call[t].blocks - 1)
         /\ \A b \in (FoundEnd(t) - (call[t].blocks - 1))..FoundEnd(t) : b \notin Bitmap
         /\ NoRunUpTo(Bitmap, Low(call[t]), call[t].blocks, FoundEnd(t))
<1> DEFINE n == call[t].blocks
           R == RunOf(t)
           sb == at[t].startbit
           H == Hits(t)
           i == Min(H)
           lo == Low(call[t])
<1>1. mutex = t
  BY DEF InByte
<1>2. /\ n \in Nat \ {0} /\ sb \in Bit /\ Base(t) \in Nat /\ lo \in Nat /\ at[t].p \in Nat
      /\ call[t].mapblock * MapBits \in Nat
  <2>1. at[t].p \in 0..(MapBytes - 1)
    BY ByteResult
  <2> QED
    BY <1>1, <2>1, WalkNumbers
<1>3. H = {k \in sb..7 : R[k] = n}
  BY Zenon DEF Hits, RunOf, ByteOf
<1>4. H \subseteq Nat /\ H # {}
  <2> HIDE DEF R
  <2> QED
    BY <1>2, <1>3 DEF Bit
<1>5. i \in H /\ \A k \in H : i <= k
  <2>1. \E x \in H : \A y \in H : x <= y
    BY <1>4, LeastNat
  <2> HIDE DEF H
  <2> QED
    BY <2>1 DEF Min
<1> HIDE DEF i, H, R
<1>6. i \in sb..7 /\ R[i] = n /\ i \in 0..7
  BY <1>2, <1>3, <1>5 DEF Bit
<1>7. \A j \in sb..(i - 1) : R[j] # n
  <2> SUFFICES ASSUME NEW j \in sb..(i - 1), R[j] = n PROVE FALSE
    OBVIOUS
  <2>1. j \in sb..7 /\ j < i /\ j \in Int
    BY <1>2, <1>6 DEF Bit
  <2>2. j \in H
    BY <1>3, <2>1
  <2> QED
    BY <1>5, <1>6, <2>1, <2>2
<1>8. RunUpTo(Bitmap, lo, Base(t) + i + 1, n) /\ NoRunUpTo(Bitmap, lo, n, Base(t) + i)
  <2> HIDE DEF n, sb, lo
  <2>1. /\ RunUpTo(Bitmap, lo, Base(t) + i + 1, R[i]) /\ NoRunUpTo(Bitmap, lo, n, Base(t) + i)
    BY <1>6, <1>7, ByteResult DEF R, n, sb, lo
  <2> QED
    BY <1>6, <2>1
<1>9. FoundEnd(t) = Base(t) + i
  <2>1. FoundEnd(t) = i + 8 * at[t].p + call[t].mapblock * MapBits
    BY DEF FoundEnd, i, H
  <2> QED
    BY <1>2, <1>6, <2>1 DEF Base
<1> DEFINE f == Base(t) + i
<1> HIDE DEF n, lo
<1>10. f \in Base(t)..(Base(t) + 7) /\ f \in Nat /\ Base(t) + i + 1 - n = f - (n - 1)
       /\ Base(t) + i + 1 - 1 = f
  BY <1>2, <1>6
<1>11. /\ lo <= f - (n - 1)
       /\ \A b \in (f - (n - 1))..f : b \notin Bitmap
  BY <1>8, <1>10 DEF RunUpTo
<1> HIDE DEF f
<1>12. f - (n - 1) \in Nat
  BY <1>2, <1>10, <1>11
<1> QED
  BY <1>8, <1>9, <1>10, <1>11, <1>12 DEF f, n, lo

(* What Balloc may find in the map block that is searched.                 *)
LEMMA FitsAreRuns ==
  ASSUME Loops, NEW t \in Task, mutex = t, NEW x \in Nat,
         NoRunUpTo(Bitmap, Low(call[t]), call[t].blocks, x),
         NEW s \in A!Fits(Bitmap, call[t])
  PROVE  /\ x < s + call[t].blocks
         /\ s \in Nat /\ s + call[t].blocks <= A!Limit(call[t])
         /\ s + call[t].blocks <= (call[t].mapblock + 1) * MapBits
<1> DEFINE c == call[t]
           n == c.blocks
<1>1. /\ n \in Nat \ {0}
      /\ Low(c) = A!Start(c) \/ Low(c) = c.mapblock * MapBits
  BY WalkNumbers
<1>2. /\ s \in Nat /\ A!Start(c) <= s /\ s + n <= A!Limit(c)
      /\ c.mapblock * MapBits <= s /\ s + n <= (c.mapblock + 1) * MapBits
      /\ A!Extent(s, n) \cap Bitmap = {}
  <2>1. VolBlocks \in Nat
    BY BytesAssumption
  <2> QED
    BY <2>1 DEF A!Fits, A!Blocks, A!InRange, A!InMapBlock, A!FreeRun
<1>3. Low(c) <= s
  BY <1>1, <1>2
<1>4. ~(s + n <= x)
  <2> SUFFICES ASSUME s + n <= x PROVE FALSE
    OBVIOUS
  <2>1. \E b \in s..(s + n - 1) : b \in Bitmap
    BY <1>2, <1>3 DEF NoRunUpTo
  <2> QED
    BY <1>2, <2>1 DEF A!Extent
<1> HIDE DEF n
<1>5. x < s + n
  BY <1>1, <1>2, <1>4
<1> QED
  BY <1>2, <1>5 DEF n

(* The hit of the bit loop is the run that the abstract allocator takes.   *)
LEMMA ScanFoundStep ==
  ASSUME Loops, NEW t \in Task, ScanFound(t)
  PROVE  Kept' /\ A!Next
<1> DEFINE c == call[t]
           n == c.blocks
           m == c.mapblock
           end == FoundEnd(t)
           found == end - (n - 1)
<1>1. /\ InByte(t) /\ Hits(t) # {} /\ end < A!Limit(c) /\ mutex = t
      /\ map' = [map EXCEPT ![m] = set_bits(@, found % MapBits, n)]
      /\ nextalloc' = found + n /\ freeblocks' = freeblocks - n
      /\ held' = [held EXCEPT ![t] = @ \cup {<<found, n>>}]
      /\ call' = [call EXCEPT ![t] = A!Idle]
      /\ A!Returned(t, A!Extent(found, n))
      /\ mutex' = NoTask
      /\ at' = [at EXCEPT ![t] = NotAt]
  BY DEF ScanFound, BelowLimit, InByte
<1>2. /\ c.pc = "scan" /\ Searching(c) /\ m \in MapFile /\ m \in Nat
      /\ n \in Nat \ {0} /\ at \in [Task -> Ats]
      /\ A!Start(c) <= Low(c) /\ m * MapBits <= Low(c) /\ Low(c) \in Nat
      /\ A!Start(c) \in Nat /\ A!Limit(c) \in 0..VolBlocks /\ m * MapBits \in Nat
  BY <1>1, WalkNumbers
<1>3. /\ end \in Base(t)..(Base(t) + 7) /\ found \in Nat /\ Low(c) <= found
      /\ \A b \in found..end : b \notin Bitmap
      /\ NoRunUpTo(Bitmap, Low(c), n, end)
  BY <1>1, FirstHit
<1>4. /\ end \in Nat /\ found + n = end + 1
      /\ end < (m + 1) * MapBits /\ (m + 1) * MapBits \in Nat
  <2>1. at[t].p \in 0..(MapBytes - 1) /\ Base(t) = m * MapBits + 8 * at[t].p
    BY <1>1, ByteResult DEF Base
  <2>2. MapBits \in Nat /\ MapBits = 8 * MapBytes /\ MapBytes \in Nat
    BY BytesAssumption DEF MapBits
  <2>3. (m + 1) * MapBits = m * MapBits + MapBits
    <3> HIDE DEF m
    <3> QED
      BY <1>2, <2>2
  <2> HIDE DEF end, m
  <2> QED
    BY <1>2, <1>3, <2>1, <2>2, <2>3
<1>5. TypeOK /\ NothingBeyondVolume /\ HeldInMap /\ held \in [Task -> SUBSET (A!Blocks \X (1..MaxBlocks))]
      /\ call \in [Task -> A!Calls] /\ VolBlocks \in Nat
  BY BytesAssumption DEF Loops, Kept, A!TypeOK
<1> HIDE DEF c, n, m, found, end
<1>6. m * MapBits <= found /\ found + n <= (m + 1) * MapBits /\ found + n <= VolBlocks
      /\ A!Start(c) <= found /\ found + n <= A!Limit(c) /\ found \in 0..(VolBlocks - 1)
  BY <1>1, <1>2, <1>3, <1>4, <1>5
<1>7. /\ map' \in [MapFile -> Bitmaps(MapBytes)]
      /\ NothingBeyondVolume'
      /\ Bitmap' = Bitmap \cup A!Extent(found, n)
  BY <1>1, <1>2, <1>3, <1>5, <1>6, MapSet
<1>8. found \in A!Fits(Bitmap, c)
  <2>1. A!Extent(found, n) \cap Bitmap = {}
    <3>1. A!Extent(found, n) = found..end
      BY <1>2, <1>3, <1>4 DEF A!Extent
    <3> QED
      BY <1>3, <3>1
  <2> QED
    BY <1>6, <2>1 DEF A!Fits, A!Blocks, A!InRange, A!InMapBlock, A!FreeRun, n, m
<1>9. \A r \in A!Fits(Bitmap, c) : found <= r
  <2> SUFFICES ASSUME NEW r \in A!Fits(Bitmap, c) PROVE found <= r
    OBVIOUS
  <2>1. end < r + n /\ r \in Nat
    BY <1>1, <1>3, <1>4, FitsAreRuns DEF c, n
  <2> QED
    BY <1>2, <1>3, <1>4, <2>1
<1>10. A!BallocFound(t)
  <2>1. c.mapblock < A!MapBlocks(A!Limit(c))
    BY <1>2 DEF Searching
  <2>2. \E s \in A!Fits(Bitmap, c) :
          /\ \A r \in A!Fits(Bitmap, c) : s <= r
          /\ Bitmap' = Bitmap \cup A!Extent(s, n)
          /\ freeblocks' = freeblocks - n
          /\ nextalloc' = s + n
          /\ held' = [held EXCEPT ![t] = @ \cup {<<s, n>>}]
          /\ call' = [call EXCEPT ![t] = A!Idle]
          /\ A!Returned(t, A!Extent(s, n))
    BY <1>1, <1>7, <1>8, <1>9, Zenon
  <2> QED
    BY <1>2, <2>1, <2>2, Zenon DEF A!BallocFound, c, n
<1>11. A!Next
  BY <1>10 DEF A!Next
<1>12. TypeOK'
  <2>1. NotAt \in Ats
    BY BytesAssumption DEF NotAt, Ats, Bit
  <2>2. at' \in [Task -> Ats]
    BY <1>1, <1>2, <2>1
  <2> QED
    BY <1>1, <1>7, <2>2 DEF TypeOK, Ats
<1>13. HeldInMap'
  <2> SUFFICES ASSUME NEW u \in Task, NEW e \in held'[u] PROVE (e[1] % MapBits) + e[2] <= MapBits
    BY DEF HeldInMap
  <2>1. CASE e \in held[u]
    BY <1>5, <2>1 DEF HeldInMap
  <2>2. CASE e = <<found, n>>
    <3>1. (found % MapBits) + n <= MapBits
      BY <1>2, <1>3, <1>6, RunInBlock DEF MapBits
    <3> QED
      BY <2>2, <3>1
  <2>3. e \in held[u] \/ e = <<found, n>>
    BY <1>1, <1>5
  <2> QED
    BY <2>1, <2>2, <2>3
<1>14. ASSUME NEW u \in Task PROVE Ready(u)' /\ Walk(u)'
  <2>1. mutex' # u
    BY <1>1, BytesAssumption
  <2>2. CASE u = t
    <3>1. call'[u].pc = "idle"
      BY <1>1, <1>5, <2>2 DEF A!Idle
    <3> QED
      BY <2>1, <3>1 DEF Ready, Walk
  <2>3. CASE u # t
    <3>1. Ready(u) /\ Walk(u) /\ mutex # u /\ call'[u] = call[u] /\ at'[u] = at[u]
      BY <1>1, <1>2, <1>5, <2>3 DEF Loops, Kept
    <3> QED
      BY <2>1, <3>1, Bystander
  <2> QED
    BY <2>2, <2>3
<1> QED
  BY <1>7, <1>11, <1>12, <1>13, <1>14 DEF Kept

(* The last byte of the map block was passed: no fitting run is in the map *)
(* block, so the abstract allocator skips it.                              *)
LEMMA UnlockStep ==
  ASSUME Loops, NEW t \in Task, UnlockMapBlock(t)
  PROVE  Kept' /\ A!Next
<1> DEFINE c == call[t]
           n == c.blocks
           m == c.mapblock
           lim == A!Limit(c)
           left == at[t].tail - (at[t].top - Offset(c))
           d == [c EXCEPT !.mapblock = c.mapblock + 1]
           a == [NotAt EXCEPT !.tail = left]
<1>1. /\ mutex = t /\ mutex' = NoTask
      /\ call' = [call EXCEPT ![t].mapblock = @ + 1]
      /\ at' = [at EXCEPT ![t] = a]
      /\ map' = map /\ held' = held
      /\ UNCHANGED <<freeblocks, nextalloc, held, avail>>
  BY DEF UnlockMapBlock
<1>2. \/ at[t].p = at[t].top
      \/ InByte(t) /\ Hits(t) # {} /\ ~(FoundEnd(t) < lim)
  BY DEF UnlockMapBlock, BelowLimit
<1>3. /\ c.pc = "scan" /\ Searching(c) /\ m \in MapFile /\ m \in Nat
      /\ n \in Nat \ {0} /\ at \in [Task -> Ats] /\ at[t].startbit \in Bit
      /\ at[t].top \in 0..MapBytes /\ at[t].top = Offset(c) + Bytes(c, at[t].tail)
      /\ Offset(c) \in 0..(MapBytes - 1)
      /\ A!Start(c) \in Nat /\ A!Limit(c) \in 0..VolBlocks /\ m * MapBits \in Nat
      /\ Base(t) \in Nat
      /\ NoRunUpTo(Bitmap, Low(c), n, Base(t) + at[t].startbit)
      /\ A!Start(c) \div MapBits <= m
      /\ A!Start(c) <= A!Limit(c)
      /\ at[t].tail \in Nat /\ at[t].tail = LastByte(c) - FirstByte(c)
  BY <1>1, WalkNumbers
<1>4. /\ at[t].tail - Bytes(c, at[t].tail) \in Nat
      /\ \/ Offset(c) + Bytes(c, at[t].tail) = MapBytes
         \/ lim <= m * MapBits + 8 * (Offset(c) + Bytes(c, at[t].tail))
      /\ (m + 1) * MapBits < lim =>
           at[t].tail - Bytes(c, at[t].tail) = LastByte(c) - (m + 1) * MapBytes
  BY <1>3, LastPosition
<1>5. left = at[t].tail - Bytes(c, at[t].tail)
  <2> DEFINE by == Bytes(c, at[t].tail)
             o == Offset(c)
             top == at[t].top
             tail == at[t].tail
  <2>1. o \in Int /\ tail \in Nat /\ top \in Int /\ top = o + by /\ tail - by \in Nat
    BY <1>3, <1>4
  <2>2. by \in Int
    <3>1. o + Min({MapBytes - o, tail}) = top /\ MapBytes - o \in Int
      BY <1>3, BytesAssumption DEF Bytes
    <3>2. Min({MapBytes - o, tail}) \in {MapBytes - o, tail}
      <4> DEFINE z == MapBytes - o
      <4>1. z \in Int /\ tail \in Int
        BY <2>1, <3>1
      <4> HIDE DEF z, tail
      <4>2. Min({z, tail}) \in {z, tail}
        BY <4>1, MinPair
      <4> QED
        BY <4>2 DEF z
    <3> QED
      BY <2>1, <3>1, <3>2 DEF Bytes
  <2> HIDE DEF by, o, top, tail
  <2>3. tail - (top - o) = tail - by
    BY <2>1, <2>2
  <2> QED
    BY <2>3 DEF by, o, top, tail
<1>6. /\ MapBits \in Nat \ {0} /\ MapBits = 8 * MapBytes /\ MapBytes \in Nat \ {0} /\ VolBlocks \in Nat
      /\ (m + 1) * MapBits = m * MapBits + MapBits /\ lim \in Nat
  <2>1. MapBits \in Nat \ {0} /\ MapBits = 8 * MapBytes /\ MapBytes \in Nat \ {0} /\ VolBlocks \in Nat
    BY BytesAssumption DEF MapBits
  <2> HIDE DEF m
  <2> QED
    BY <1>3, <2>1
<1>7. A!Fits(Bitmap, c) = {}
  <2> SUFFICES ASSUME NEW s \in A!Fits(Bitmap, c) PROVE FALSE
    OBVIOUS
  <2>1. CASE at[t].p = at[t].top
    <3> DEFINE x == Base(t) + at[t].startbit
    <3>1. x \in Nat /\ x >= m * MapBits + 8 * at[t].top
      <4>1. Base(t) = m * MapBits + 8 * at[t].top
        BY <2>1 DEF Base
      <4> HIDE DEF m
      <4> QED
        BY <1>3, <4>1 DEF Bit
    <3> HIDE DEF x
    <3>2. x < s + n /\ s \in Nat /\ s + n <= lim /\ s + n <= (m + 1) * MapBits
      BY <1>1, <1>3, <3>1, FitsAreRuns DEF x
    <3> HIDE DEF m, n, lim
    <3> DEFINE top == at[t].top
    <3>3. top \in Nat /\ (top = MapBytes \/ lim <= m * MapBits + 8 * top)
      BY <1>3, <1>4
    <3> HIDE DEF top
    <3>4. x >= m * MapBits + 8 * top
      BY <3>1 DEF top
    <3> QED
      BY <1>3, <1>6, <3>1, <3>2, <3>3, <3>4
  <2>2. CASE InByte(t) /\ Hits(t) # {} /\ ~(FoundEnd(t) < lim)
    <3>1. FoundEnd(t) \in Nat /\ NoRunUpTo(Bitmap, Low(c), n, FoundEnd(t))
      BY <1>3, <2>2, FirstHit
    <3>2. FoundEnd(t) < s + n /\ s \in Nat /\ s + n <= lim
      BY <1>1, <3>1, FitsAreRuns
    <3> HIDE DEF n, lim
    <3> QED
      BY <1>3, <1>6, <2>2, <3>1, <3>2
  <2> QED
    BY <1>2, <2>1, <2>2
<1>8. Bitmap' = Bitmap
  BY <1>1 DEF Bitmap
<1>9. call \in [Task -> A!Calls] /\ c \in A!Calls
  BY DEF Loops, A!TypeOK
<1>10. call' = [call EXCEPT ![t] = d]
  BY <1>1, <1>9 DEF A!Calls
<1>11. A!BallocSkip(t)
  <2>1. c.mapblock < A!MapBlocks(A!Limit(c))
    BY <1>3 DEF Searching
  <2>2. call' = [call EXCEPT ![t] = A!NextMapBlock(@)]
    BY <1>10 DEF A!NextMapBlock
  <2> QED
    BY <1>1, <1>3, <1>7, <1>8, <2>1, <2>2 DEF A!BallocSkip
<1>12. A!Next
  BY <1>11 DEF A!Next
<1>13. /\ d.mapblock = m + 1 /\ A!Start(d) = A!Start(c) /\ A!Limit(d) = lim
  BY <1>9 DEF A!Calls, A!Start, A!Limit
<1>14. a \in Ats /\ a.tail = left /\ a.startbit = 0
  <2>1. left \in Nat
    BY <1>4, <1>5
  <2> HIDE DEF left
  <2> QED
    BY <1>6, <2>1, BytesAssumption DEF NotAt, Ats, Bit
<1> HIDE DEF a, d
<1>15. /\ at'[t] = a /\ (\A u \in Task : u # t => at'[u] = at[u]) /\ at' \in [Task -> Ats]
       /\ call'[t] = d /\ (\A u \in Task : u # t => call'[u] = call[u])
  BY <1>1, <1>3, <1>9, <1>10, <1>14
<1>16. Ready(t)' /\ Walk(t)'
  <2>1. ~First(d) /\ A!Start(d) \div MapBits <= d.mapblock
    <3> DEFINE q == A!Start(c) \div MapBits
    <3>1. q \in Nat /\ q <= m /\ m \in Nat
      BY <1>3, <1>6, DivBounds
    <3> HIDE DEF q, m
    <3>2. q # m + 1 /\ q <= m + 1
      BY <3>1
    <3> QED
      BY <1>13, <3>2 DEF First, q
  <2>2. Searching(d) => a.tail = LastByte(d) - FirstByte(d)
    <3> SUFFICES ASSUME Searching(d) PROVE a.tail = LastByte(d) - FirstByte(d)
      OBVIOUS
    <3>1. (m + 1) * MapBits < lim
      <4>1. m + 1 < A!MapBlocks(lim) /\ m + 1 \in Nat
        BY <1>3, <1>13 DEF Searching
      <4> HIDE DEF m, lim
      <4> QED
        BY <1>6, <4>1, CeilDiv DEF A!MapBlocks
    <3>2. a.tail = LastByte(c) - (m + 1) * MapBytes
      BY <1>4, <1>5, <1>14, <3>1
    <3>3. Offset(d) = 0
      BY <2>1 DEF First, Offset
    <3>4. FirstByte(d) = (m + 1) * MapBytes + 0
      BY <1>13, <3>3 DEF FirstByte
    <3>5. (m + 1) * MapBytes \in Nat
      <4> HIDE DEF m
      <4> QED
        BY <1>3, <1>6
    <3>6. LastByte(d) = LastByte(c)
      BY <1>13 DEF LastByte
    <3> HIDE DEF m
    <3> QED
      BY <3>2, <3>4, <3>5, <3>6
  <2>3. mutex' # t
    BY <1>1, BytesAssumption
  <2> HIDE DEF c, n, m, lim, left
  <2> QED
    BY <1>14, <1>15, <2>1, <2>2, <2>3 DEF Ready, Walk
<1>17. ASSUME NEW u \in Task, u # t PROVE Ready(u)' /\ Walk(u)'
  <2>1. Ready(u) /\ Walk(u) /\ mutex # u /\ mutex' # u
    BY <1>1, <1>17, BytesAssumption DEF Loops, Kept
  <2> QED
    BY <1>8, <1>15, <1>17, <2>1, Bystander
<1>18. TypeOK' /\ NothingBeyondVolume' /\ HeldInMap'
  BY <1>1, <1>15 DEF Loops, Kept, TypeOK, NothingBeyondVolume, HeldInMap, Ats
<1> QED
  BY <1>12, <1>16, <1>17, <1>18 DEF Kept

(* A map block that cannot be read ends the scan of the range, as in the    *)
(* abstract allocator; the mutex is not held then.                         *)
LEMMA UnreadStep ==
  ASSUME Loops, NEW t \in Task, BallocUnread(t)
  PROVE  Kept' /\ A!Next
<1> DEFINE c == call[t]
           lim == A!Limit(c)
           k == A!MapBlocks(lim)
           d == A!EndOfRange(c)
<1>1. A!Next
  BY DEF BallocUnread, A!Next
<1>2. /\ map' = map /\ mutex' = mutex /\ mutex # t /\ held' = held
      /\ call' = [call EXCEPT ![t] = d] /\ c.pc = "scan" /\ c.mapblock < k
      /\ at' = [at EXCEPT ![t] = NotAt]
  BY DEF BallocUnread, A!BallocUnread
<1>3. /\ call \in [Task -> A!Calls] /\ at \in [Task -> Ats] /\ NotAt \in Ats
      /\ MapBits \in Nat \ {0} /\ VolBlocks \in Nat
  BY BytesAssumption DEF Loops, Kept, TypeOK, A!TypeOK, Ats, MapBits, NotAt, Bit
<1>4. /\ c.mapblock \in Nat /\ A!Start(c) \in Nat /\ lim \in Nat
      /\ A!Start(c) \div MapBits <= c.mapblock
  <2>1. Ready(t)
    BY DEF Loops, Kept
  <2> QED
    BY <1>2, <1>3, <2>1, CallNumbers DEF Loops, Ready
<1>5. k \in Nat
  <2> HIDE DEF lim
  <2>1. (lim + MapBits - 1) \div MapBits \in Nat
    BY <1>3, <1>4, CeilDiv
  <2> QED
    BY <2>1 DEF A!MapBlocks
<1>6. d.mapblock = k /\ d.pc = "scan" /\ A!Start(d) = A!Start(c) /\ A!Limit(d) = lim
  <2>1. c \in A!Calls
    BY <1>3
  <2> QED
    BY <1>2, <2>1 DEF A!EndOfRange, A!Calls, A!Start, A!Limit
<1>7. /\ ~Searching(d)
      /\ ~First(d) /\ A!Start(d) \div MapBits <= d.mapblock
  <2> DEFINE q == A!Start(c) \div MapBits
  <2>1. q \in Nat
    BY <1>3, <1>4, DivBounds
  <2> HIDE DEF q, k
  <2>2. q # k /\ q <= k /\ ~(k < k)
    BY <1>2, <1>4, <1>5, <2>1 DEF q
  <2> QED
    BY <1>6, <2>2 DEF Searching, First, q, k
<1> HIDE DEF d
<1>8. /\ call'[t] = d /\ (\A u \in Task : u # t => call'[u] = call[u])
      /\ at'[t] = NotAt /\ (\A u \in Task : u # t => at'[u] = at[u]) /\ at' \in [Task -> Ats]
  BY <1>2, <1>3
<1>9. Bitmap' = Bitmap
  BY <1>2 DEF Bitmap
<1>10. Ready(t)' /\ Walk(t)'
  <2>1. at'[t].startbit = 0
    BY <1>8 DEF NotAt
  <2> QED
    BY <1>2, <1>7, <1>8, <2>1 DEF Ready, Walk
<1>11. ASSUME NEW u \in Task, u # t PROVE Ready(u)' /\ Walk(u)'
  <2>1. Ready(u) /\ Walk(u)
    BY DEF Loops, Kept
  <2> QED
    BY <1>2, <1>8, <1>9, <1>11, <2>1, Bystander
<1>12. TypeOK' /\ NothingBeyondVolume' /\ HeldInMap'
  BY <1>2, <1>8 DEF Loops, Kept, TypeOK, NothingBeyondVolume, HeldInMap, Ats
<1> QED
  BY <1>1, <1>10, <1>11, <1>12 DEF Kept

(* The second scan starts at block 0.                                      *)
LEMMA WrapStep ==
  ASSUME Loops, NEW t \in Task, BallocWrap(t)
  PROVE  Kept' /\ A!Next
<1> DEFINE c == call[t]
           d == [pc |-> "scan", blocks |-> c.blocks, goal |-> c.goal, pass |-> 2, mapblock |-> 0]
           a == [NotAt EXCEPT !.tail = BytesLeft(d)]
<1>1. A!Next
  BY DEF BallocWrap, A!Next
<1>2. /\ map' = map /\ mutex' = mutex /\ held' = held
      /\ call' = [call EXCEPT ![t] = d] /\ A!Searched(c)
  BY DEF BallocWrap, A!BallocWrap
<1>3. /\ call \in [Task -> A!Calls] /\ at \in [Task -> Ats] /\ c.goal \in 0..VolBlocks
      /\ MapBits \in Nat \ {0} /\ VolBlocks \in Nat
  BY BytesAssumption DEF Loops, Kept, TypeOK, A!TypeOK, A!Calls, Ats, MapBits
<1>4. call'[t] = d /\ (\A u \in Task : u # t => call'[u] = call[u])
  BY <1>2, <1>3
<1>5. /\ d.mapblock = 0 /\ d.pc = "scan"
      /\ A!Start(d) = 0 /\ A!Limit(d) = c.goal /\ c.goal \in Nat
  BY <1>3 DEF A!Start, A!Limit
<1> HIDE DEF d
<1>6. First(d) /\ A!Start(d) \div MapBits <= d.mapblock
  <2>1. 0 \div MapBits = 0
    BY <1>3
  <2> QED
    BY <1>5, <2>1 DEF First
<1>7. BytesLeft(d) \in Nat /\ BytesLeft(d) = LastByte(d) - FirstByte(d)
  BY <1>3, <1>5, <1>6, BytesLeftIs
<1>8. at' = [at EXCEPT ![t] = a]
  BY <1>4 DEF BallocWrap
<1>9. a \in Ats /\ a.tail = BytesLeft(d) /\ a.startbit = 0
  BY <1>7, BytesAssumption DEF NotAt, Ats, Bit
<1> HIDE DEF a
<1>10. at'[t] = a /\ (\A u \in Task : u # t => at'[u] = at[u]) /\ at' \in [Task -> Ats]
  BY <1>3, <1>8, <1>9
<1>11. mutex # t
  <2> SUFFICES ASSUME mutex = t PROVE FALSE
    OBVIOUS
  <2>1. Searching(c) /\ c.mapblock \in Nat /\ A!Limit(c) \in 0..VolBlocks
    BY WalkNumbers
  <2>2. A!MapBlocks(A!Limit(c)) \in Nat
    <3> DEFINE lim == A!Limit(c)
    <3>1. lim \in Nat
      BY <1>3, <2>1
    <3> HIDE DEF lim
    <3>2. (lim + MapBits - 1) \div MapBits \in Nat
      BY <1>3, <3>1, CeilDiv
    <3> QED
      BY <3>2 DEF A!MapBlocks, lim
  <2> QED
    BY <1>2, <2>1, <2>2 DEF Searching, A!Searched
<1>12. Bitmap' = Bitmap
  BY <1>2 DEF Bitmap
<1>13. Ready(t)' /\ Walk(t)'
  <2>1. Walk(t)'
    BY <1>2, <1>11 DEF Walk
  <2>2. at'[t].startbit = IF First(d) THEN A!Start(d) % 8 ELSE 0
    BY <1>5, <1>6, <1>9, <1>10
  <2>3. at'[t].tail = LastByte(d) - FirstByte(d)
    BY <1>7, <1>9, <1>10
  <2> QED
    BY <1>4, <1>6, <2>1, <2>2, <2>3 DEF Ready
<1>14. ASSUME NEW u \in Task, u # t PROVE Ready(u)' /\ Walk(u)'
  <2>1. Ready(u) /\ Walk(u)
    BY DEF Loops, Kept
  <2> QED
    BY <1>2, <1>4, <1>10, <1>12, <1>14, <2>1, Bystander
<1>15. TypeOK' /\ NothingBeyondVolume' /\ HeldInMap'
  BY <1>2, <1>10 DEF Loops, Kept, TypeOK, NothingBeyondVolume, HeldInMap, Ats
<1> QED
  BY <1>1, <1>13, <1>14, <1>15 DEF Kept

(* Both scans are over: balloc fails, as the abstract allocator does.      *)
LEMMA FailStep ==
  ASSUME Loops, NEW t \in Task, BallocFail(t)
  PROVE  Kept' /\ A!Next
<1> DEFINE c == call[t]
<1>1. A!Next
  BY DEF BallocFail, A!Next
<1>2. /\ map' = map /\ mutex' = mutex /\ held' = held
      /\ call' = [call EXCEPT ![t].pc = "enospc"] /\ A!Searched(c)
      /\ at' = [at EXCEPT ![t] = NotAt]
  BY DEF BallocFail, A!BallocFail, A!GivesUp
<1>3. /\ call \in [Task -> A!Calls] /\ at \in [Task -> Ats] /\ NotAt \in Ats
      /\ MapBits \in Nat \ {0} /\ VolBlocks \in Nat
  BY BytesAssumption DEF Loops, Kept, TypeOK, A!TypeOK, Ats, MapBits, NotAt, Bit
<1>4. /\ call'[t].pc = "enospc" /\ (\A u \in Task : u # t => call'[u] = call[u])
      /\ (\A u \in Task : u # t => at'[u] = at[u]) /\ at' \in [Task -> Ats]
  BY <1>2, <1>3 DEF A!Calls
<1>5. mutex # t
  <2> SUFFICES ASSUME mutex = t PROVE FALSE
    OBVIOUS
  <2>1. Searching(c) /\ c.mapblock \in Nat /\ A!Limit(c) \in 0..VolBlocks
    BY WalkNumbers
  <2>2. A!MapBlocks(A!Limit(c)) \in Nat
    <3> DEFINE lim == A!Limit(c)
    <3>1. lim \in Nat
      BY <1>3, <2>1
    <3> HIDE DEF lim
    <3>2. (lim + MapBits - 1) \div MapBits \in Nat
      BY <1>3, <3>1, CeilDiv
    <3> QED
      BY <3>2 DEF A!MapBlocks, lim
  <2> QED
    BY <1>2, <2>1, <2>2 DEF Searching, A!Searched
<1>6. Bitmap' = Bitmap
  BY <1>2 DEF Bitmap
<1>7. Ready(t)' /\ Walk(t)'
  BY <1>2, <1>4, <1>5 DEF Ready, Walk
<1>8. ASSUME NEW u \in Task, u # t PROVE Ready(u)' /\ Walk(u)'
  <2>1. Ready(u) /\ Walk(u)
    BY DEF Loops, Kept
  <2> QED
    BY <1>2, <1>4, <1>6, <1>8, <2>1, Bystander
<1>9. TypeOK' /\ NothingBeyondVolume' /\ HeldInMap'
  BY <1>2, <1>4 DEF Loops, Kept, TypeOK, NothingBeyondVolume, HeldInMap, Ats
<1> QED
  BY <1>1, <1>7, <1>8, <1>9 DEF Kept

(* bfree clears the end of an extent, in the bytes as in the abstract bitmap. *)
LEMMA BfreeStep ==
  ASSUME Loops, NEW t \in Task, NEW e \in held[t], NEW keep \in 0..(e[2] - 1), Bfree(t, e, keep)
  PROVE  Kept' /\ A!Next
<1> DEFINE start == e[1] + keep
           n == e[2] - keep
           m == start \div MapBits
           q == e[1] \div MapBits
<1>1. /\ call[t].pc # "scan" /\ mutex = NoTask /\ mutex' = mutex /\ at' = at /\ call' = call
      /\ nextalloc' = nextalloc /\ avail' = avail
      /\ all_set(map[m], start % MapBits, n)
      /\ map' = [map EXCEPT ![m] = clear_bits(@, start % MapBits, n)]
      /\ freeblocks' = freeblocks + n
      /\ held' = [held EXCEPT ![t] = (@ \ {e}) \cup (IF keep = 0 THEN {} ELSE {<<e[1], keep>>})]
  BY DEF Bfree
<1>2. /\ held \in [Task -> SUBSET (A!Blocks \X (1..MaxBlocks))]
      /\ TypeOK /\ NothingBeyondVolume /\ HeldInMap
      /\ MapBits \in Nat \ {0} /\ VolBlocks \in Nat /\ MapBits = 8 * MapBytes /\ MapBytes \in Nat
  BY BytesAssumption DEF Loops, Kept, A!TypeOK, MapBits
<1>3. e[1] \in 0..(VolBlocks - 1) /\ e[1] \in Nat /\ e[2] \in 1..MaxBlocks /\ (e[1] % MapBits) + e[2] <= MapBits
      /\ e[2] \in Nat /\ keep \in Nat /\ keep < e[2]
  <2>1. e \in A!Blocks \X (1..MaxBlocks)
    BY <1>2
  <2>2. (e[1] % MapBits) + e[2] <= MapBits
    BY <1>2 DEF HeldInMap
  <2> QED
    BY <1>2, <2>1, <2>2, BytesAssumption DEF A!Blocks
<1>4. q \in Nat /\ q \in MapFile /\ q * MapBits \in Nat /\ (e[1] % MapBits) \in 0..(MapBits - 1)
      /\ e[1] = q * MapBits + (e[1] % MapBits)
  <2>1. q \in MapFile
    BY <1>3, BlockHasBit
  <2> QED
    BY <1>2, <1>3, <2>1, DivRest
<1>5. (q + 1) * MapBits = q * MapBits + MapBits
  <2> HIDE DEF q
  <2> QED
    BY <1>2, <1>4
<1>6. /\ start \in Nat /\ n \in Nat \ {0}
      /\ q * MapBits <= start /\ start + n <= (q + 1) * MapBits
  <2> DEFINE r == e[1] % MapBits
  <2>1. r \in Nat /\ e[1] = q * MapBits + r /\ r + e[2] <= MapBits
    BY <1>2, <1>3, <1>4
  <2> HIDE DEF q, r
  <2> QED
    BY <1>2, <1>3, <1>4, <1>5, <2>1
<1> HIDE DEF start, n, q
<1>7. m = q /\ start % MapBits \in Nat /\ (start % MapBits) + n <= 8 * MapBytes
      /\ start = q * MapBits + (start % MapBits)
  BY <1>4, <1>6, RunInBlock
<1> HIDE DEF m
<1>8. map' = [map EXCEPT ![q] = clear_bits(@, start % MapBits, n)] /\ all_set(map[q], start % MapBits, n)
  BY <1>1, <1>7
<1>9. /\ map' \in [MapFile -> Bitmaps(MapBytes)]
      /\ NothingBeyondVolume'
      /\ Bitmap' = Bitmap \ A!Extent(start, n)
  BY <1>2, <1>4, <1>6, <1>8, MapClear
<1>10. A!Extent(start, n) \subseteq Bitmap
  <2> SUFFICES ASSUME NEW b \in A!Extent(start, n) PROVE b \in Bitmap
    OBVIOUS
  <2> DEFINE rs == start % MapBits
  <2>1. b \in Nat /\ start <= b /\ b < start + n
    BY <1>6 DEF A!Extent
  <2>2. /\ b % MapBits \in 0..(8 * MapBytes - 1)
        /\ b \div MapBits = q =>
             (start <= b /\ b < start + n <=> rs <= b % MapBits /\ b % MapBits < rs + n)
        /\ b \div MapBits # q => ~(start <= b /\ b < start + n)
    BY <1>4, <1>6, <2>1, BlocksOfMap
  <2>3. b \div MapBits = q /\ rs <= b % MapBits /\ b % MapBits < rs + n
    BY <2>1, <2>2
  <2>4. map \in [MapFile -> Bitmaps(MapBytes)] /\ map[q] \in Bitmaps(MapBytes)
    BY <1>2, <1>4 DEF TypeOK
  <2>5. rs \in Nat /\ rs + n <= 8 * MapBytes
    BY <1>7
  <2> HIDE DEF rs
  <2>6. \A x \in rs..(rs + n - 1) : BitAt(map[q], x)
    BY <1>2, <1>6, <1>8, <2>4, <2>5, AllSetCorrect DEF rs
  <2>7. b % MapBits \in rs..(rs + n - 1)
    BY <1>6, <2>2, <2>3, <2>5
  <2>8. BlockBit(map, b)
    BY <2>3, <2>6, <2>7 DEF BlockBit
  <2>9. b < VolBlocks
    BY <1>2, <1>4, <2>1, <2>3, <2>4, <2>8, BeyondByBlock DEF NothingBeyondVolume
  <2> QED
    BY <1>2, <2>1, <2>8, <2>9 DEF Bitmap, BlockBit
<1>11. A!Bfree(t, e, keep)
  <2>1. A!TailOf(e, keep) = A!Extent(start, n)
    BY DEF A!TailOf, start, n
  <2> QED
    BY <1>1, <1>9, <1>10, <2>1 DEF A!Bfree, n
<1>12. A!Next
  BY <1>11 DEF A!Next
<1>13. HeldInMap'
  <2> SUFFICES ASSUME NEW u \in Task, NEW f \in held'[u] PROVE (f[1] % MapBits) + f[2] <= MapBits
    BY DEF HeldInMap
  <2>1. CASE f \in held[u]
    BY <1>2, <2>1 DEF HeldInMap
  <2>2. CASE f = <<e[1], keep>>
    <3> DEFINE r == e[1] % MapBits
    <3>1. r \in Nat /\ r + e[2] <= MapBits /\ f[1] = e[1] /\ f[2] = keep
      BY <1>2, <1>3, <1>4, <2>2
    <3> HIDE DEF r
    <3>2. r + keep <= MapBits
      BY <1>2, <1>3, <3>1
    <3> QED
      BY <3>1, <3>2 DEF r
  <2>3. f \in held[u] \/ f = <<e[1], keep>>
    BY <1>1, <1>2
  <2> QED
    BY <2>1, <2>2, <2>3
<1>14. ASSUME NEW u \in Task PROVE Ready(u)' /\ Walk(u)'
  <2>1. Ready(u) /\ Walk(u) /\ mutex # u /\ mutex' # u /\ call'[u] = call[u] /\ at'[u] = at[u]
    BY <1>1, BytesAssumption DEF Loops, Kept
  <2> QED
    BY <2>1, Bystander
<1>15. TypeOK'
  BY <1>1, <1>2, <1>9 DEF TypeOK
<1> QED
  BY <1>9, <1>12, <1>13, <1>14, <1>15 DEF Kept

-----------------------------------------------------------------------------
(* What BallocProofs shows of the bitmap that the bytes stand for.         *)
AP == INSTANCE BallocProofs WITH bitmap <- Bitmap

(* The constants of the bytes meet the assumption of the abstract allocator. *)
LEMMA AbstractAssumption == AP!BallocAssumption
BY BytesAssumption DEF AP!BallocAssumption, MapBits

(* A step of the one instance is a step of the other.                      *)
LEMMA AbstractStep ==
  ASSUME [A!Next]_(A!vars)
  PROVE  [AP!Next]_(AP!vars)
<1>1. ASSUME A!Next PROVE AP!Next
  BY <1>1, Zenon DEF A!Next, AP!Next, A!BallocStart, AP!BallocStart, A!BallocFound, AP!BallocFound,
       A!BallocSkip, AP!BallocSkip, A!BallocWrap, AP!BallocWrap, A!BallocFail, AP!BallocFail,
       A!BallocUnread, AP!BallocUnread, A!EndOfRange, AP!EndOfRange, A!NotReached, AP!NotReached,
       A!BfreeUnread, AP!BfreeUnread, A!vars, AP!vars,
       A!Bfree, AP!Bfree, A!Blocks, AP!Blocks, A!Extent, AP!Extent, A!Idle, AP!Idle,
       A!Start, AP!Start, A!Limit, AP!Limit, A!MapBlocks, AP!MapBlocks, A!InRange, AP!InRange,
       A!InMapBlock, AP!InMapBlock, A!FreeRun, AP!FreeRun, A!Fits, AP!Fits,
       A!NextMapBlock, AP!NextMapBlock, A!Searched, AP!Searched, A!GivesUp, AP!GivesUp,
       A!TailOf, AP!TailOf, A!Returned, AP!Returned
<1>2. ASSUME UNCHANGED A!vars PROVE UNCHANGED AP!vars
  BY <1>2 DEF A!vars, AP!vars
<1> QED
  BY <1>1, <1>2

(* A step of Balloc keeps its types.                                       *)
LEMMA AbstractTypes ==
  ASSUME A!TypeOK, [A!Next]_(A!vars)
  PROVE  A!TypeOK'
<1>1. AP!TypeOK <=> A!TypeOK
  BY DEF A!TypeOK, AP!TypeOK, A!Blocks, AP!Blocks, A!Calls, AP!Calls
<1>2. AP!TypeOK' <=> A!TypeOK'
  BY DEF A!TypeOK, AP!TypeOK, A!Blocks, AP!Blocks, A!Calls, AP!Calls
<1>3. AP!TypeOK /\ [AP!Next]_(AP!vars) => AP!TypeOK'
  BY AP!TypeStep, AbstractAssumption
<1>4. [AP!Next]_(AP!vars)
  BY AbstractStep
<1> QED
  BY <1>1, <1>2, <1>3, <1>4

(* The bytes that a mount finds.                                           *)
LEMMA InitLoops ==
  ASSUME Init
  PROVE  Loops /\ A!Init
<1> DEFINE byte(m, k) == {i \in Bit : m * MapBits + 8 * k + i \in Reserved}
<1>1. /\ map = [m \in MapFile |-> [k \in 0..(MapBytes - 1) |-> byte(m, k)]]
      /\ mutex = NoTask /\ at = [t \in Task |-> NotAt]
      /\ freeblocks = VolBlocks - Cardinality(Reserved)
      /\ nextalloc = Goal
      /\ call = [t \in Task |-> A!Idle]
      /\ held = [t \in Task |-> {}]
      /\ avail = [t \in Task |-> {}]
  BY DEF Init
<1>2. \A m \in MapFile : \A k \in 0..(MapBytes - 1) : byte(m, k) \in Byte
  BY DEF Byte
<1> HIDE DEF byte
<1>3. map \in [MapFile -> Bitmaps(MapBytes)]
      /\ \A m \in MapFile : \A k \in 0..(MapBytes - 1) : map[m][k] = byte(m, k)
  BY <1>1, <1>2 DEF Bitmaps
<1>4. \A m \in MapFile : \A k \in 0..(MapBytes - 1) : \A i \in map[m][k] :
        i \in Bit /\ m * MapBits + 8 * k + i \in Reserved
  BY <1>3 DEF byte
<1>5. TypeOK
  <2>1. NotAt \in [p : 0..MapBytes, top : 0..MapBytes, startbit : Bit, run : 0..MaxBlocks, tail : Nat]
    BY BytesAssumption DEF NotAt, Bit
  <2> QED
    BY <1>1, <1>3, <2>1 DEF TypeOK
<1>6. NothingBeyondVolume
  <2>1. \A b \in Reserved : b < VolBlocks
    BY BytesAssumption
  <2> QED
    BY <1>4, <2>1 DEF NothingBeyondVolume
<1>7. Bitmap = Reserved
  <2>1. ASSUME NEW b \in 0..(VolBlocks - 1)
        PROVE  BitAt(map[b \div MapBits], b % MapBits) <=> b \in Reserved
    <3> DEFINE m == b \div MapBits
               r == b % MapBits
               k == r \div 8
               i == r % 8
    <3>1. MapBits \in Nat \ {0} /\ MapBits = 8 * MapBytes /\ MapBytes \in Nat
      BY BytesAssumption DEF MapBits
    <3>2. b \in Nat /\ m \in MapFile
      BY BlockHasBit
    <3>3. r \in 0..(MapBits - 1) /\ m * MapBits \in Nat /\ b = m * MapBits + r
      BY <3>1, <3>2, DivRest
    <3>4. r \in Nat
      BY <3>1, <3>3
    <3>5. BitAt(map[m], r) <=> i \in map[m][k]
      BY DEF BitAt
    <3> HIDE DEF r, m
    <3>6. k \in Nat /\ i \in Bit /\ r = 8 * k + i
      BY <3>4, DivMod
    <3> HIDE DEF k, i
    <3>7. k \in 0..(MapBytes - 1)
      BY <3>1, <3>3, <3>6 DEF Bit
    <3>8. m * MapBits + 8 * k + i = b
      BY <3>3, <3>6 DEF Bit
    <3>9. i \in map[m][k] <=> b \in Reserved
      BY <1>3, <3>2, <3>6, <3>7, <3>8 DEF byte
    <3> QED
      BY <3>5, <3>9 DEF m, r
  <2> QED
    BY <2>1, BytesAssumption DEF Bitmap
<1>8. A!Init
  <2>1. A!Cardinality(Reserved) = Cardinality(Reserved)
    BY DEF Cardinality, A!Cardinality
  <2> QED
    BY <1>1, <1>7, <2>1 DEF A!Init
<1>9. A!TypeOK
  <2>1. IsFiniteSet(Reserved)
    <3>1. IsFiniteSet(0..(VolBlocks - 1))
      BY BytesAssumption, FS_Interval
    <3> QED
      BY <3>1, BytesAssumption, FS_Subset, Zenon
  <2>2. Cardinality(Reserved) \in Nat
    BY <2>1, FS_CardinalityType
  <2>3. A!Idle \in A!Calls
    BY BytesAssumption DEF A!Idle, A!Calls
  <2>4. Bitmap \in SUBSET A!Blocks
    BY DEF Bitmap, A!Blocks
  <2> QED
    BY <1>1, <2>2, <2>3, <2>4, BytesAssumption DEF A!TypeOK
<1>10. HeldInMap /\ \A t \in Task : Ready(t) /\ Walk(t)
  BY <1>1, BytesAssumption DEF HeldInMap, Ready, Walk, A!Idle
<1> QED
  BY <1>5, <1>6, <1>8, <1>9, <1>10 DEF Loops, Kept

(* Every step keeps the invariant and implements a step of Balloc.         *)
LEMMA LoopsStep ==
  ASSUME Loops, [Next]_vars
  PROVE  Loops' /\ [A!Next]_(A!vars)
<1>1. Kept' /\ [A!Next]_(A!vars)
  <2>1. ASSUME NEW t \in Task, NEW n \in 1..MaxBlocks, BallocStart(t, n)
        PROVE  Kept' /\ [A!Next]_(A!vars)
    BY <2>1, StartStep
  <2>2. ASSUME NEW t \in Task, LockMapBlock(t) PROVE Kept' /\ [A!Next]_(A!vars)
    BY <2>2, LockStep
  <2>3. ASSUME NEW t \in Task, ScanByte(t) PROVE Kept' /\ [A!Next]_(A!vars)
    BY <2>3, ScanByteStep
  <2>4. ASSUME NEW t \in Task, ScanFound(t) PROVE Kept' /\ [A!Next]_(A!vars)
    BY <2>4, ScanFoundStep
  <2>5. ASSUME NEW t \in Task, UnlockMapBlock(t) PROVE Kept' /\ [A!Next]_(A!vars)
    BY <2>5, UnlockStep
  <2>6. ASSUME NEW t \in Task, BallocWrap(t) PROVE Kept' /\ [A!Next]_(A!vars)
    BY <2>6, WrapStep
  <2>7. ASSUME NEW t \in Task, BallocFail(t) PROVE Kept' /\ [A!Next]_(A!vars)
    BY <2>7, FailStep
  <2>8. ASSUME NEW t \in Task, NEW e \in held[t], NEW keep \in 0..(e[2] - 1), Bfree(t, e, keep)
        PROVE  Kept' /\ [A!Next]_(A!vars)
    BY <2>8, BfreeStep
  <2>10. ASSUME NEW t \in Task, BallocUnread(t) PROVE Kept' /\ [A!Next]_(A!vars)
    BY <2>10, UnreadStep
  <2>9. ASSUME UNCHANGED vars PROVE Kept' /\ [A!Next]_(A!vars)
    <3>1. /\ map' = map /\ mutex' = mutex /\ at' = at /\ freeblocks' = freeblocks
          /\ nextalloc' = nextalloc /\ call' = call /\ held' = held /\ avail' = avail
      BY <2>9 DEF vars
    <3>2. Bitmap' = Bitmap
      BY <3>1 DEF Bitmap
    <3>3. ASSUME NEW u \in Task PROVE Ready(u)' /\ Walk(u)'
      <4>1. Ready(u) /\ Walk(u)
        BY DEF Loops, Kept
      <4> QED
        BY <3>1, <3>2, <4>1, Bystander
    <3>4. TypeOK' /\ NothingBeyondVolume' /\ HeldInMap'
      BY <3>1 DEF Loops, Kept, TypeOK, NothingBeyondVolume, HeldInMap
    <3> QED
      BY <3>1, <3>2, <3>3, <3>4 DEF Kept, A!vars
  <2> QED
    BY <2>1, <2>2, <2>3, <2>4, <2>5, <2>6, <2>7, <2>8, <2>9, <2>10 DEF Next, BfreeUnread, BfreeRefused
<1>2. A!TypeOK'
  <2>1. A!TypeOK /\ [A!Next]_(A!vars)
    BY <1>1 DEF Loops
  <2> QED
    BY <2>1, AbstractTypes, Zenon
<1> QED
  BY <1>1, <1>2 DEF Loops

(* The loop variables, the mutex and the bytes of the bitmap file have     *)
(* their types, and what balloc_from_range says of where it is in the      *)
(* bytes is true in every state.                                           *)
THEOREM BytesTypeCorrect == Spec => [](TypeOK /\ Loops)
<1>1. Init => Loops
  BY InitLoops
<1>2. Loops /\ [Next]_vars => Loops'
  BY LoopsStep
<1>3. Loops => TypeOK
  BY DEF Loops, Kept
<1> QED
  BY <1>1, <1>2, <1>3, PTL DEF Spec

(* No bit beyond the end of the volume is ever set, although the last byte *)
(* and the last map block of the bitmap file have such bits.               *)
THEOREM BeyondVolumeCorrect == Spec => []NothingBeyondVolume
<1>1. Loops => NothingBeyondVolume
  BY DEF Loops, Kept
<1> QED
  BY <1>1, BytesTypeCorrect, PTL

(* The run that the walk carries from byte to byte is made of free blocks  *)
(* of the range and of the map block.                                      *)
THEOREM RunCorrect == Spec => []RunIsFree
<1>1. Loops => RunIsFree
  <2> DEFINE here(t) == call[t].mapblock * MapBits + 8 * at[t].p
  <2> SUFFICES ASSUME Loops, NEW t \in Task, InByte(t),
                      NEW b \in (here(t) - at[t].run)..(here(t) - 1)
               PROVE  b \notin Bitmap /\ b >= A!Start(call[t]) /\ b >= call[t].mapblock * MapBits
    BY DEF RunIsFree
  <2>1. mutex = t
    BY DEF InByte
  <2>2. /\ at[t].startbit \in Bit /\ at[t].run \in Nat
        /\ Low(call[t]) \in Nat /\ A!Start(call[t]) <= Low(call[t])
        /\ A!Start(call[t]) \in Nat
        /\ call[t].mapblock * MapBits <= Low(call[t]) /\ call[t].mapblock * MapBits \in Nat
        /\ Base(t) \in Nat
        /\ RunUpTo(Bitmap, Low(call[t]), Base(t) + at[t].startbit, at[t].run)
    BY <2>1, WalkNumbers
  <2>3. at[t].startbit # 0 => at[t].run = 0
    BY <2>1 DEF Loops, Kept, Walk
  <2>4. here(t) = Base(t)
    BY DEF Base
  <2> HIDE DEF here
  <2>5. at[t].startbit = 0
    BY <2>2, <2>3, <2>4
  <2>6. RunUpTo(Bitmap, Low(call[t]), Base(t), at[t].run)
    BY <2>2, <2>5
  <2>7. b \notin Bitmap /\ Low(call[t]) <= b /\ b \in Int
    BY <2>2, <2>4, <2>6 DEF RunUpTo
  <2> QED
    BY <2>2, <2>7
<1> QED
  BY <1>1, BytesTypeCorrect, PTL

(* The byte walk implements Balloc: every map block is searched as if in   *)
(* one step, the first fit is found and no map block is passed over that   *)
(* has one.                                                                *)
THEOREM Implementation == Spec => ImplementsBalloc
<1>1. Init => Loops /\ A!Init
  BY InitLoops
<1>2. Loops /\ [Next]_vars => Loops' /\ [A!Next]_(A!vars)
  BY LoopsStep
<1> QED
  BY <1>1, <1>2, PTL DEF Spec, ImplementsBalloc, A!SafeSpec

(* What Balloc promises therefore holds of the bytes: no block is handed   *)
(* out twice, the free count is the number of zero bits of the volume, and *)
(* a call that gives up has missed nothing that was free all along in the  *)
(* map blocks that it could read.                                          *)
THEOREM BytesAllocation ==
  Spec => [](A!HeldDisjoint /\ A!FreeblocksMatches /\ A!EnospcJustified)
<1>1. A!Init => AP!Init
  <2>1. A!Cardinality(Reserved) = AP!Cardinality(Reserved)
    BY DEF AP!Cardinality, A!Cardinality
  <2> QED
    BY <2>1 DEF A!Init, AP!Init, A!Idle, AP!Idle
<1>2. [A!Next]_(A!vars) => [AP!Next]_(AP!vars)
  BY AbstractStep
<1>3. A!SafeSpec => AP!SafeSpec
  BY <1>1, <1>2, PTL DEF A!SafeSpec, AP!SafeSpec
<1>4. AP!SafeSpec => [](AP!HeldDisjoint /\ AP!BitmapIsOwned /\ AP!InOneMapBlock)
  BY AP!OwnershipCorrect, AbstractAssumption
<1>5. AP!SafeSpec => []AP!FreeblocksMatches
  BY AP!FreeblocksCorrect, AbstractAssumption
<1>6. AP!SafeSpec => []AP!EnospcJustified
  BY AP!EnospcCorrect, AbstractAssumption
<1>7. AP!HeldDisjoint => A!HeldDisjoint
  BY Zenon DEF A!HeldDisjoint, AP!HeldDisjoint, A!Owned, AP!Owned, A!Extent, AP!Extent
<1>8. AP!FreeblocksMatches => A!FreeblocksMatches
  <2>1. A!Cardinality(Bitmap) = AP!Cardinality(Bitmap)
    BY DEF AP!Cardinality, A!Cardinality
  <2> QED
    BY <2>1 DEF A!FreeblocksMatches, AP!FreeblocksMatches
<1>9. AP!EnospcJustified => A!EnospcJustified
  BY Zenon DEF A!EnospcJustified, AP!EnospcJustified, A!Extent, AP!Extent, A!Blocks, AP!Blocks
<1> QED
  BY <1>3, <1>4, <1>5, <1>6, <1>7, <1>8, <1>9, Implementation, PTL DEF ImplementsBalloc
=============================================================================
