------------------------------ MODULE Numbers ------------------------------
(***************************************************************************)
(* Facts about the naturals that several proofs need: quotients, and       *)
(* induction over the naturals in a first-order form.  The induction       *)
(* theorems of the library take an operator as a parameter; these take a   *)
(* set, and rest on the well-foundedness of < alone.  They are what the    *)
(* proofs about the recursive functions of the models use.                 *)
(***************************************************************************)
EXTENDS Integers, TLAPS, WellFoundedInduction

(* Every set of naturals that has an element has a least one.              *)
LEMMA LeastNat ==
  ASSUME NEW T, T \subseteq Nat, T # {}
  PROVE  \E x \in T : \A y \in T : x <= y
<1> DEFINE R == {z \in Nat \X Nat : z[1] < z[2]}
<1>1. OpToRel(<, Nat) = R
  BY DEF OpToRel
<1>2. IsWellFoundedOn(R, Nat)
  BY <1>1, NatLessThanWellFounded
<1> HIDE DEF R
<1>3. \E x \in T : \A y \in T : ~(<<y, x>> \in R)
  BY <1>2, WFMin
<1>4. ASSUME NEW x \in T, NEW y \in T, ~(<<y, x>> \in R)
      PROVE  x <= y
  <2>1. x \in Nat /\ y \in Nat
    OBVIOUS
  <2>2. <<y, x>> \in Nat \X Nat /\ <<y, x>>[1] = y /\ <<y, x>>[2] = x
    BY <2>1
  <2>3. ~(y < x)
    BY <1>4, <2>2 DEF R
  <2> QED
    BY <2>1, <2>3
<1> QED
  BY <1>3, <1>4

(* A set that holds 0 and the successor of each of its naturals holds all. *)
LEMMA SetInduction ==
  ASSUME NEW S, 0 \in S, \A n \in Nat : n \in S => n + 1 \in S
  PROVE  Nat \subseteq S
<1> DEFINE T == Nat \ S
<1> SUFFICES ASSUME T # {} PROVE FALSE
  OBVIOUS
<1>1. PICK x \in T : \A y \in T : x <= y
  BY LeastNat
<1>2. x - 1 \in Nat
  BY <1>1
<1>3. x - 1 \notin T
  BY <1>1, <1>2
<1> QED
  BY <1>1, <1>2, <1>3

(* The same up to a bound.                                                 *)
LEMMA BoundedInduction ==
  ASSUME NEW S, NEW n \in Nat, 0 \in S,
         \A i \in 0..(n - 1) : i \in S => i + 1 \in S
  PROVE  0..n \subseteq S
<1> DEFINE U == {i \in Nat : i <= n => i \in S}
<1>1. 0 \in U
  OBVIOUS
<1>2. \A i \in Nat : i \in U => i + 1 \in U
  OBVIOUS
<1> HIDE DEF U
<1>3. Nat \subseteq U
  BY <1>1, <1>2, SetInduction
<1> QED
  BY <1>3 DEF U

(* A recursion along 0..n: the value at 0 is given, and the table F gives  *)
(* each value from the one before.                                         *)
Follows(f, n, x0, F) == f[0] = x0 /\ \A i \in 1..n : f[i] = F[<<i, f[i - 1]>>]

(* It has a solution.                                                      *)
LEMMA RecursionExists ==
  ASSUME NEW X, NEW n \in Nat, NEW x0 \in X, NEW F \in [(1..n) \X X -> X]
  PROVE  \E f \in [0..n -> X] : Follows(f, n, x0, F)
<1> DEFINE Solves(f, m) == f[0] = x0 /\ \A i \in 1..m : f[i] = F[<<i, f[i - 1]>>]
           S == {m \in 0..n : \E f \in [0..m -> X] : Solves(f, m)}
<1>1. 0 \in S
  <2> DEFINE g == [i \in 0..0 |-> x0]
  <2>1. g \in [0..0 -> X] /\ Solves(g, 0)
    OBVIOUS
  <2>2. 0 \in 0..n
    OBVIOUS
  <2> HIDE DEF g
  <2> QED
    BY <2>1, <2>2
<1>2. ASSUME NEW m \in 0..(n - 1), m \in S
      PROVE  m + 1 \in S
  <2>1. PICK f \in [0..m -> X] : Solves(f, m)
    BY <1>2
  <2> DEFINE g == [i \in 0..(m + 1) |-> IF i <= m THEN f[i] ELSE F[<<i, f[i - 1]>>]]
  <2>2. <<m + 1, f[m]>> \in (1..n) \X X
    OBVIOUS
  <2>3. \A i \in 0..(m + 1) : i <= m \/ (i = m + 1 /\ i - 1 = m)
    OBVIOUS
  <2>4. F[<<m + 1, f[m]>>] \in X
    BY <2>2
  <2>5. g \in [0..(m + 1) -> X]
    BY <2>3, <2>4
  <2>6. \A i \in 0..m : g[i] = f[i]
    OBVIOUS
  <2>7. g[m + 1] = F[<<m + 1, f[m]>>]
    OBVIOUS
  <2> HIDE DEF g
  <2>8. g[0] = x0
    BY <2>1, <2>6
  <2>9. ASSUME NEW i \in 1..(m + 1)
        PROVE  g[i] = F[<<i, g[i - 1]>>]
    <3>1. CASE i <= m
      <4>1. i \in 1..m /\ i \in 0..m /\ i - 1 \in 0..m
        BY <3>1
      <4> QED
        BY <2>1, <2>6, <4>1
    <3>2. CASE i = m + 1
      <4>1. i - 1 = m /\ m \in 0..m
        BY <3>2
      <4> QED
        BY <2>6, <2>7, <3>2, <4>1
    <3> QED
      BY <3>1, <3>2
  <2>10. m + 1 \in 0..n /\ Solves(g, m + 1)
    BY <2>8, <2>9
  <2> QED
    BY <2>5, <2>10
<1> HIDE DEF S
<1>3. 0..n \subseteq S
  BY <1>1, <1>2, BoundedInduction
<1>4. n \in S
  BY <1>3
<1> QED
  BY <1>4 DEF S, Follows

-----------------------------------------------------------------------------
(* Products grow with their factor, and a quotient is the number of the    *)
(* part that holds the dividend.                                           *)
LEMMA MulMono ==
  ASSUME NEW i \in Nat, NEW j \in Nat, NEW n \in Nat, i <= j
  PROVE  i * n <= j * n
<1>1. PICK d \in Nat : j = i + d
  <2>1. j = i + (j - i) /\ j - i \in Nat
    BY SMT
  <2> QED
    BY <2>1
<1>2. j * n = i * n + d * n
  BY <1>1, SMT
<1>3. d * n >= 0 /\ i * n \in Int /\ d * n \in Int
  BY SMT
<1> QED
  BY <1>2, <1>3

(* A number lies in the part that its quotient names.                      *)
LEMMA DivBounds ==
  ASSUME NEW s \in Nat, NEW n \in Nat \ {0}
  PROVE  s \div n \in Nat /\ (s \div n) * n <= s /\ s < (s \div n + 1) * n
BY SMT

(* A number is in one part only.                                           *)
LEMMA DivUnique ==
  ASSUME NEW n \in Nat \ {0}, NEW m \in Nat, NEW r \in 0..(n - 1)
  PROVE  (m * n + r) \div n = m /\ (m * n + r) % n = r
<1> DEFINE s == m * n + r
           q == s \div n
<1>1. m * n \in Nat /\ s \in Nat /\ (m + 1) * n = m * n + n /\ (m + 1) * n \in Nat
  BY SMT
<1>2. q \in Nat /\ q * n <= s /\ s < (q + 1) * n
  BY <1>1, DivBounds
<1>3. s % n = s - n * q
  BY <1>1, <1>2, SMT
<1> HIDE DEF q
<1>4. q * n \in Nat /\ (q + 1) * n \in Nat /\ n * q = q * n
  BY <1>2, SMT
<1>5. ~(q < m)
  <2> SUFFICES ASSUME q + 1 <= m PROVE FALSE
    BY <1>2
  <2>1. (q + 1) * n <= m * n
    BY <1>2, MulMono
  <2> QED
    BY <1>1, <1>2, <1>4, <2>1
<1>6. ~(m < q)
  <2> SUFFICES ASSUME m + 1 <= q PROVE FALSE
    BY <1>2
  <2>1. (m + 1) * n <= q * n
    BY <1>2, MulMono
  <2> QED
    BY <1>1, <1>2, <1>4, <2>1
<1>7. q = m
  BY <1>2, <1>5, <1>6
<1> QED
  BY <1>1, <1>3, <1>4, <1>7

(* A number is made of its quotient and its remainder.                     *)
LEMMA DivRest ==
  ASSUME NEW s \in Nat, NEW n \in Nat \ {0}
  PROVE  /\ s \div n \in Nat /\ s % n \in 0..(n - 1)
         /\ (s \div n) * n \in Nat
         /\ s = (s \div n) * n + (s % n)
BY SMT

(* Division that rounds up: the number of parts that a length reaches into.*)
LEMMA CeilDiv ==
  ASSUME NEW limit \in Nat, NEW n \in Nat \ {0}, NEW m \in Nat
  PROVE  /\ (limit + n - 1) \div n \in Nat
         /\ m < (limit + n - 1) \div n <=> m * n < limit
<1> DEFINE k == (limit + n - 1) \div n
<1>1. limit + n - 1 \in Nat
  BY SMT
<1>2. k \in Nat /\ k * n <= limit + n - 1 /\ limit + n - 1 < (k + 1) * n
  BY <1>1, DivBounds
<1> HIDE DEF k
<1>3. /\ k * n \in Nat /\ (k + 1) * n = k * n + n
      /\ m * n \in Nat /\ (m + 1) * n = m * n + n
  BY <1>2, SMT
<1>4. ASSUME m < k PROVE m * n < limit
  <2>1. (m + 1) * n <= k * n
    BY <1>2, <1>4, MulMono
  <2> QED
    BY <1>2, <1>3, <2>1
<1>5. ASSUME ~(m < k) PROVE ~(m * n < limit)
  <2>1. k * n <= m * n
    BY <1>2, <1>5, MulMono
  <2> QED
    BY <1>2, <1>3, <2>1
<1> QED
  BY <1>2, <1>4, <1>5 DEF k
=============================================================================
