-------------------------------- MODULE Bits --------------------------------
(***************************************************************************)
(* The bit-run operations on a block of the allocation bitmap              *)
(* (user/kernel/utility.c).  A byte is the set of its one bits, so that    *)
(* the mask arithmetic of the code becomes set algebra: `|=' is \cup,      *)
(* `&= ~' is \ and `(byte & mask) == mask' is \subseteq.  A bitmap is a    *)
(* function from byte offsets 0..n-1 to bytes, little endian as in the     *)
(* code: bit b of the bitmap is bit b % 8 of byte b \div 8.                *)
(***************************************************************************)
EXTENDS Integers

Bit  == 0..7
Byte == SUBSET Bit

Bitmaps(n) == [0..(n - 1) -> Byte]

(* The reference: the value of one bit of a bitmap.                        *)
BitAt(bitmap, b) == (b % 8) \in bitmap[b \div 8]

(* The masks of the first and of the last byte of a run [start, limit).    *)
LMask(start) == {i \in Bit : i >= start % 8}
RMask(limit) == {i \in Bit : i < limit % 8}

(***************************************************************************)
(* The mask under which byte k takes part in the run [start, start+count): *)
(* one byte under both masks, or a first byte, whole bytes between and a   *)
(* last byte.                                                              *)
(***************************************************************************)
RunMask(start, count, k) ==
  LET limit == start + count
      loff  == start \div 8
      roff  == limit \div 8
  IN  CASE k = loff /\ loff = roff -> LMask(start) \cap RMask(limit)
        [] k = loff /\ loff # roff -> LMask(start)
        [] loff < k /\ k < roff    -> Bit
        [] k = roff /\ loff # roff -> RMask(limit)
        [] OTHER                   -> {}

(* The bytes that the run operations read or write: the last one only if   *)
(* its mask is not zero, for it may lie beyond the end of the map.         *)
Touched(start, count) ==
  LET limit == start + count
      loff  == start \div 8
      roff  == limit \div 8
  IN  {loff} \cup {k \in loff..roff : k < roff}
             \cup (IF RMask(limit) # {} THEN {roff} ELSE {})

set_bits(bitmap, start, count) ==
  [k \in DOMAIN bitmap |->
     IF k \in Touched(start, count)
     THEN bitmap[k] \cup RunMask(start, count, k) ELSE bitmap[k]]

clear_bits(bitmap, start, count) ==
  [k \in DOMAIN bitmap |->
     IF k \in Touched(start, count)
     THEN bitmap[k] \ RunMask(start, count, k) ELSE bitmap[k]]

all_set(bitmap, start, count) ==
  \A k \in Touched(start, count) : RunMask(start, count, k) \subseteq bitmap[k]

all_clear(bitmap, start, count) ==
  \A k \in Touched(start, count) : RunMask(start, count, k) \cap bitmap[k] = {}

=============================================================================
