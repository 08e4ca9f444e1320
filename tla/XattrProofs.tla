---------------------------- MODULE XattrProofs ----------------------------
(***************************************************************************)
(* The atom table and the attributes: every name has its atom, every atom  *)
(* is in one place, the references are those there are, and every inode    *)
(* reads what was set, through any sequence of operations, also those that *)
(* fail, for any number of inodes, names, values and atoms, until a        *)
(* failing read leaves the table torn.                                     *)
(***************************************************************************)
EXTENDS Xattr, DirProofs, SequenceTheorems

(* The parts of an atom table.                                             *)
IsTable(T) ==
  T = [dict |-> T.dict, low |-> T.low, high |-> T.high, revmap |-> T.revmap,
       freeatom |-> T.freeatom, atomgen |-> T.atomgen]

Halves == 0..(HalfRange - 1)

(* Halves of a count that go out of range by one.                          *)
LEMMA HalfType ==
  ASSUME NEW n \in Int, -1 <= n, n <= HalfRange
  PROVE  /\ n % HalfRange \in Halves /\ Carry(n) \in Int /\ -1 <= Carry(n) /\ Carry(n) <= 1
         /\ n = -1 => Carry(n) = -1 /\ n % HalfRange = HalfRange - 1
         /\ n \in Halves => Carry(n) = 0 /\ n % HalfRange = n
         /\ n = HalfRange => Carry(n) = 1 /\ n % HalfRange = 0
<1>1. HalfRange \in Nat /\ HalfRange >= 2
  BY XattrAssumption
<1>2. CASE n = -1
  <2>1. (-1) \div HalfRange = -1 /\ (-1) % HalfRange = HalfRange - 1
    BY <1>1, SMT
  <2> QED
    BY <1>1, <1>2, <2>1 DEF Halves, Carry
<1>3. CASE n \in Halves
  <2>1. (0 * HalfRange + n) \div HalfRange = 0 /\ (0 * HalfRange + n) % HalfRange = n
    BY <1>1, <1>3, DivUnique DEF Halves
  <2> QED
    BY <1>1, <1>3, <2>1 DEF Halves, Carry
<1>4. CASE n = HalfRange
  <2>1. (1 * HalfRange + 0) \div HalfRange = 1 /\ (1 * HalfRange + 0) % HalfRange = 0
    BY <1>1, DivUnique
  <2> QED
    BY <1>1, <1>4, <2>1 DEF Halves, Carry
<1> QED
  BY <1>1, <1>2, <1>3, <1>4 DEF Halves

-----------------------------------------------------------------------------
(***************************************************************************)
(* Free atoms.  The free list, counted from its end: L[n] is the first     *)
(* free atom, L[1] the last one, and 0 ends the list.                      *)
(***************************************************************************)
IsFree(T, a, next) ==
  a \in Atom /\ T.revmap[a] = FreeLink(next) /\ T.low[a] = 0 /\ T.high[a] = 0

Chain(T, L, n) ==
  /\ L \in [0..n -> 0..MaxAtom] /\ L[0] = 0 /\ L[n] = T.freeatom
  /\ \A k \in 1..n : IsFree(T, L[k], L[k - 1])
  /\ \A j, k \in 1..n : L[j] = L[k] => j = k

On(L, n) == {L[k] : k \in 1..n}

(* An atom that was ever taken is in one of three places.                  *)
Apart(free, taken, astray, gen) ==
  /\ free \cap taken = {} /\ free \cap astray = {} /\ taken \cap astray = {}
  /\ free \cup taken \cup astray = 1..(gen - 1)

FreeOK(T, taken, astray) ==
  \E n \in Nat : \E L : Chain(T, L, n) /\ Apart(On(L, n), taken, astray, T.atomgen)

(* Atoms are positive.                                                     *)
LEMMA AtomNot0 == 0 \notin Atom /\ Atom \subseteq Nat /\ MaxAtom \in Nat /\ Atom \subseteq 0..MaxAtom
BY XattrAssumption DEF Atom

(* The list and the tables are the same but for an atom that is not free.  *)
AlikeBut(T, G, a) ==
  \A b \in Atom : b # a => G.revmap[b] = T.revmap[b] /\ G.low[b] = T.low[b] /\ G.high[b] = T.high[b]

(* A change of an atom that is taken does not disturb the list.            *)
LEMMA FreeSame ==
  ASSUME NEW T, NEW taken, NEW astray, FreeOK(T, taken, astray), NEW a \in taken,
         NEW G, G.freeatom = T.freeatom, G.atomgen = T.atomgen, AlikeBut(T, G, a)
  PROVE  FreeOK(G, taken, astray)
<1>1. PICK n \in Nat : \E L : Chain(T, L, n) /\ Apart(On(L, n), taken, astray, T.atomgen)
  BY DEF FreeOK
<1>2. PICK L : Chain(T, L, n) /\ Apart(On(L, n), taken, astray, T.atomgen)
  BY <1>1
<1>3. ASSUME NEW k \in 1..n PROVE IsFree(G, L[k], L[k - 1])
  <2>1. IsFree(T, L[k], L[k - 1]) /\ L[k] \in Atom
    BY <1>2 DEF Chain, IsFree
  <2>2. L[k] # a
    BY <1>2 DEF Apart, On
  <2> QED
    BY <2>1, <2>2 DEF IsFree, AlikeBut
<1>4. Chain(G, L, n)
  BY <1>2, <1>3 DEF Chain
<1> QED
  BY <1>2, <1>4 DEF FreeOK

(* kill_atom puts an atom at the front of the list.                        *)
LEMMA FreeMore ==
  ASSUME NEW T, NEW taken, NEW astray, FreeOK(T, taken, astray), NEW a \in Atom, a \in taken,
         NEW G, G.freeatom = a, G.atomgen = T.atomgen, AlikeBut(T, G, a),
         IsFree(G, a, T.freeatom)
  PROVE  FreeOK(G, taken \ {a}, astray)
<1>1. PICK n \in Nat : \E L : Chain(T, L, n) /\ Apart(On(L, n), taken, astray, T.atomgen)
  BY DEF FreeOK
<1>2. PICK L : Chain(T, L, n) /\ Apart(On(L, n), taken, astray, T.atomgen)
  BY <1>1
<1> DEFINE m == n + 1
           M == [k \in 0..m |-> IF k = m THEN a ELSE L[k]]
<1>3. m \in Nat /\ m = n + 1
  OBVIOUS
<1>4. /\ M[m] = a /\ M \in [0..m -> 0..MaxAtom]
      /\ \A k \in 0..n : M[k] = L[k]
  <2>1. L \in [0..n -> 0..MaxAtom] /\ a \in 0..MaxAtom
    BY <1>2, AtomNot0 DEF Chain
  <2>2. \A k \in 0..m : k = m \/ k \in 0..n
    BY <1>3
  <2>3. m \in 0..m /\ \A k \in 0..n : k \in 0..m /\ k # m
    BY <1>3
  <2> QED
    BY <2>1, <2>2, <2>3
<1> HIDE DEF m, M
<1>5. ASSUME NEW k \in 1..n PROVE IsFree(G, M[k], M[k - 1]) /\ M[k] = L[k] /\ M[k] # a
  <2>1. IsFree(T, L[k], L[k - 1]) /\ L[k] \in Atom
    BY <1>2 DEF Chain, IsFree
  <2>2. L[k] # a
    BY <1>2 DEF Apart, On
  <2>3. k \in 0..n /\ k - 1 \in 0..n
    OBVIOUS
  <2>4. M[k] = L[k] /\ M[k - 1] = L[k - 1]
    BY <1>4, <2>3
  <2> QED
    BY <2>1, <2>2, <2>4 DEF IsFree, AlikeBut
<1>6. m - 1 = n /\ M[n] = T.freeatom /\ M[0] = 0 /\ n \in 0..n /\ 0 \in 0..n
  BY <1>2, <1>3, <1>4 DEF Chain
<1>7. \A k \in 1..m : k = m \/ k \in 1..n
  BY <1>3
<1>8. ASSUME NEW k \in 1..m PROVE IsFree(G, M[k], M[k - 1])
  <2>1. CASE k = m
    BY <1>4, <1>6, <2>1
  <2> QED
    BY <1>5, <1>7, <2>1
<1>9. ASSUME NEW j \in 1..m, NEW k \in 1..m, M[j] = M[k] PROVE j = k
  <2>1. CASE j \in 1..n /\ k \in 1..n
    BY <1>2, <1>5, <1>9, <2>1 DEF Chain
  <2> QED
    BY <1>4, <1>5, <1>7, <1>9, <2>1
<1>10. Chain(G, M, m)
  BY <1>4, <1>6, <1>8, <1>9 DEF Chain
<1>11. On(M, m) = On(L, n) \cup {a}
  <2>1. ASSUME NEW x \in On(M, m) PROVE x \in On(L, n) \cup {a}
    <3>1. PICK k \in 1..m : x = M[k]
      BY <2>1 DEF On
    <3> QED
      BY <1>4, <1>5, <1>7, <3>1 DEF On
  <2>2. ASSUME NEW x \in On(L, n) PROVE x \in On(M, m)
    <3>1. PICK k \in 1..n : x = L[k]
      BY <2>2 DEF On
    <3>2. k \in 1..m
      BY <1>3
    <3> QED
      BY <1>5, <3>1, <3>2 DEF On
  <2>3. a \in On(M, m)
    <3>1. m \in 1..m
      BY <1>3
    <3> QED
      BY <1>4, <3>1 DEF On
  <2> QED
    BY <2>1, <2>2, <2>3
<1>12. Apart(On(M, m), taken \ {a}, astray, G.atomgen)
  BY <1>2, <1>11 DEF Apart
<1> QED
  BY <1>3, <1>10, <1>12 DEF FreeOK

(* The parts of the table that get_freeatom leaves.                        *)
LEMMA GetFreeIs ==
  ASSUME NEW T, IsTable(T), NEW G, G = get_freeatom(T)
  PROVE  /\ IsTable(G) /\ G.dict = T.dict /\ G.low = T.low /\ G.high = T.high /\ G.revmap = T.revmap
         /\ T.freeatom = 0 => G.freeatom = 0 /\ G.atomgen = T.atomgen + 1
         /\ T.freeatom # 0 => G.freeatom = T.revmap[T.freeatom].next /\ G.atomgen = T.atomgen
<1> DEFINE g == T.atomgen + 1
           f == T.revmap[T.freeatom].next
<1>1. CASE T.freeatom = 0
  <2>1. G = [T EXCEPT !.atomgen = g]
    BY <1>1 DEF get_freeatom
  <2> HIDE DEF g
  <2>2. /\ IsTable(G) /\ G.dict = T.dict /\ G.low = T.low /\ G.high = T.high /\ G.revmap = T.revmap
        /\ G.freeatom = T.freeatom /\ G.atomgen = g
    BY <2>1, Zenon DEF IsTable
  <2> QED
    BY <1>1, <2>2 DEF g
<1>2. CASE T.freeatom # 0
  <2>1. G = [T EXCEPT !.freeatom = f]
    BY <1>2 DEF get_freeatom
  <2> HIDE DEF f
  <2>2. /\ IsTable(G) /\ G.dict = T.dict /\ G.low = T.low /\ G.high = T.high /\ G.revmap = T.revmap
        /\ G.freeatom = f /\ G.atomgen = T.atomgen
    BY <2>1, Zenon DEF IsTable
  <2> QED
    BY <1>2, <2>2 DEF f
<1> QED
  BY <1>1, <1>2

(* The atom that get_freeatom gives was free or new.                       *)
LEMMA FreeLess ==
  ASSUME NEW T, IsTable(T), NEW taken, NEW astray, FreeOK(T, taken, astray),
         T.atomgen \in 1..(MaxAtom + 1), NEW a, a = FreeAtom(T), a \in Atom, NEW G, G = get_freeatom(T)
  PROVE  /\ a \notin taken /\ a \notin astray /\ G.atomgen \in 1..(MaxAtom + 1) /\ G.freeatom \in 0..MaxAtom
         /\ FreeOK(G, taken \cup {a}, astray) /\ FreeOK(G, taken, astray \cup {a})
<1>1. PICK n \in Nat : \E L : Chain(T, L, n) /\ Apart(On(L, n), taken, astray, T.atomgen)
  BY DEF FreeOK
<1>2. PICK L : Chain(T, L, n) /\ Apart(On(L, n), taken, astray, T.atomgen)
  BY <1>1
<1>3. /\ L \in [0..n -> 0..MaxAtom] /\ L[0] = 0 /\ L[n] = T.freeatom /\ n \in 0..n
      /\ \A k \in 1..n : IsFree(T, L[k], L[k - 1]) /\ L[k] \in Atom
  BY <1>2 DEF Chain, IsFree
<1>4. ASSUME NEW m \in Nat, NEW M, Chain(G, M, m), a \notin On(M, m), a \notin taken, a \notin astray,
             On(M, m) \subseteq On(L, n), On(M, m) \cup {a} \cup taken \cup astray = 1..(G.atomgen - 1)
      PROVE  FreeOK(G, taken \cup {a}, astray) /\ FreeOK(G, taken, astray \cup {a})
  <2>1. Apart(On(M, m), taken \cup {a}, astray, G.atomgen)
    BY <1>2, <1>4 DEF Apart
  <2>2. Apart(On(M, m), taken, astray \cup {a}, G.atomgen)
    BY <1>2, <1>4 DEF Apart
  <2> QED
    BY <1>4, <2>1, <2>2 DEF FreeOK
<1>5. CASE T.freeatom = 0
  <2>1. a = T.atomgen /\ G.freeatom = 0 /\ G.atomgen = T.atomgen + 1 /\ G.revmap = T.revmap /\ G.low = T.low /\ G.high = T.high
    BY <1>5, GetFreeIs DEF FreeAtom
  <2>2. a \in 1..MaxAtom /\ MaxAtom \in Nat
    BY AtomNot0 DEF Atom
  <2>3. G.atomgen \in 1..(MaxAtom + 1) /\ G.freeatom \in 0..MaxAtom
    BY <2>1, <2>2
  <2>4. a \notin 1..(T.atomgen - 1) /\ 1..(T.atomgen - 1) \cup {a} = 1..(G.atomgen - 1)
    BY <2>1, <2>2
  <2>5. /\ a \notin taken /\ a \notin astray /\ a \notin On(L, n)
        /\ On(L, n) \cup {a} \cup taken \cup astray = 1..(G.atomgen - 1)
    BY <1>2, <2>4 DEF Apart
  <2>6. Chain(G, L, n)
    BY <1>2, <1>5, <2>1 DEF Chain, IsFree
  <2> QED
    BY <1>4, <2>3, <2>5, <2>6
<1>6. CASE T.freeatom # 0
  <2>1. a = T.freeatom /\ G.freeatom = T.revmap[a].next /\ G.atomgen = T.atomgen /\ G.revmap = T.revmap
        /\ G.low = T.low /\ G.high = T.high
    BY <1>6, GetFreeIs DEF FreeAtom
  <2>2. n # 0
    BY <1>3, <1>6
  <2> DEFINE m == n - 1
             M == [k \in 0..m |-> L[k]]
  <2>3. m \in Nat /\ n = m + 1 /\ n \in 1..n
    BY <2>2
  <2>4. M \in [0..m -> 0..MaxAtom] /\ \A k \in 0..m : M[k] = L[k]
    <3>1. \A k \in 0..m : k \in 0..n
      BY <2>3
    <3> QED
      BY <1>3, <3>1
  <2>5. \A k \in 1..m : k \in 1..n /\ k \in 0..m /\ k - 1 \in 0..m /\ k # n
    BY <2>3
  <2>6. 0 \in 0..m /\ m \in 0..m /\ n - 1 = m
    BY <2>3
  <2> HIDE DEF m, M
  <2>7. IsFree(T, a, L[m])
    BY <1>3, <2>1, <2>3, <2>6
  <2>8. G.freeatom = L[m] /\ G.freeatom \in 0..MaxAtom
    <3>1. T.revmap[a].next = L[m]
      BY <2>7 DEF IsFree, FreeLink
    <3> QED
      BY <1>3, <2>1, <2>3, <2>6, <3>1
  <2>9. Chain(G, M, m)
    <3>1. ASSUME NEW k \in 1..m PROVE IsFree(G, M[k], M[k - 1])
      BY <1>3, <2>1, <2>4, <2>5 DEF IsFree
    <3>2. ASSUME NEW j \in 1..m, NEW k \in 1..m, M[j] = M[k] PROVE j = k
      BY <1>2, <2>4, <2>5, <3>2 DEF Chain
    <3> QED
      BY <1>3, <2>4, <2>6, <2>8, <3>1, <3>2 DEF Chain
  <2>10. On(L, n) = On(M, m) \cup {a} /\ a \notin On(M, m)
    <3>1. \A k \in 1..n : k = n \/ k \in 1..m
      BY <2>3
    <3>2. ASSUME NEW x \in On(L, n) PROVE x \in On(M, m) \cup {a}
      <4>1. PICK k \in 1..n : x = L[k]
        BY <3>2 DEF On
      <4> QED
        BY <1>3, <2>1, <2>4, <2>5, <3>1, <4>1 DEF On
    <3>3. ASSUME NEW x \in On(M, m) PROVE x \in On(L, n) /\ x # a
      <4>1. PICK k \in 1..m : x = M[k]
        BY <3>3 DEF On
      <4>2. x = L[k] /\ k \in 1..n /\ k # n
        BY <2>4, <2>5, <4>1
      <4> QED
        BY <1>2, <1>3, <2>1, <2>3, <4>2 DEF On, Chain
    <3>4. a \in On(L, n)
      BY <1>3, <2>1, <2>3 DEF On
    <3> QED
      BY <3>2, <3>3, <3>4
  <2>11. /\ a \notin taken /\ a \notin astray
         /\ On(M, m) \cup {a} \cup taken \cup astray = 1..(G.atomgen - 1)
    BY <1>2, <2>1, <2>10 DEF Apart
  <2>12. FreeOK(G, taken \cup {a}, astray) /\ FreeOK(G, taken, astray \cup {a})
    BY <1>4, <2>3, <2>9, <2>10, <2>11
  <2> QED
    BY <2>1, <2>8, <2>11, <2>12
<1> QED
  BY <1>5, <1>6

(* The list has at most all the atoms on it.                               *)
LEMMA ChainLength ==
  ASSUME NEW T, NEW n \in Nat, NEW L, Chain(T, L, n)
  PROVE  n <= MaxAtom
<1>1. IsFiniteSet(1..n) /\ Cardinality(1..n) = n /\ IsFiniteSet(Atom) /\ Cardinality(Atom) = MaxAtom
  BY FS_Interval, AtomNot0 DEF Atom
<1> DEFINE f == [k \in 1..n |-> L[k]]
<1>2. \A k \in 1..n : f[k] = L[k] /\ L[k] \in Atom
  BY DEF Chain, IsFree
<1>3. f \in [1..n -> Atom]
  BY <1>2
<1> HIDE DEF f
<1> SUFFICES ASSUME ~(n <= MaxAtom) PROVE FALSE
  OBVIOUS
<1>4. Cardinality(Atom) < Cardinality(1..n)
  BY <1>1, AtomNot0
<1>5. PICK j \in 1..n, k \in 1..n : j # k /\ f[j] = f[k]
  BY <1>1, <1>3, <1>4, FS_PigeonHole
<1> QED
  BY <1>2, <1>5 DEF Chain

(* show_freeatoms walks the list from its front to its end.                *)
LEMMA ListWalked ==
  ASSUME NEW n \in Nat, NEW L, Chain(atable, L, n)
  PROVE  FreeList[MaxAtom + 1] = 0 /\ Range(FreeList) \ {0} = On(L, n)
<1> DEFINE N == MaxAtom + 1
           Step(w, k) == IF w[k - 1] = 0 THEN 0 ELSE atable.revmap[w[k - 1]].next
           walk == CHOOSE w : w = [k \in 1..N |-> IF k = 1 THEN atable.freeatom ELSE Step(w, k)]
           g == [k \in 1..N |-> IF k <= n THEN L[n + 1 - k] ELSE 0]
<1>1. FreeList = walk
  BY Zenon DEF FreeList
<1>2. n <= MaxAtom /\ MaxAtom \in Nat /\ N \in Nat /\ N = MaxAtom + 1
  BY ChainLength, AtomNot0
<1>3. /\ L \in [0..n -> 0..MaxAtom] /\ L[0] = 0 /\ L[n] = atable.freeatom
      /\ \A k \in 1..n : L[k] # 0 /\ atable.revmap[L[k]].next = L[k - 1]
  <2>1. L \in [0..n -> 0..MaxAtom] /\ L[0] = 0 /\ L[n] = atable.freeatom
    BY DEF Chain
  <2>2. ASSUME NEW k \in 1..n PROVE L[k] # 0 /\ atable.revmap[L[k]].next = L[k - 1]
    <3>1. L[k] \in Atom /\ atable.revmap[L[k]] = FreeLink(L[k - 1])
      BY DEF Chain, IsFree
    <3> QED
      BY <3>1, AtomNot0 DEF FreeLink
  <2> QED
    BY <2>1, <2>2
<1>4. \A k \in 1..N : g[k] = IF k <= n THEN L[n + 1 - k] ELSE 0
  OBVIOUS
<1> HIDE DEF N
<1>5. g[1] = atable.freeatom
  <2>1. 1 \in 1..N
    BY <1>2
  <2>2. CASE n = 0
    BY <1>3, <1>4, <2>1, <2>2
  <2>3. CASE n # 0
    <3>1. 1 <= n /\ n + 1 - 1 = n
      BY <2>3
    <3> QED
      BY <1>3, <1>4, <2>1, <3>1
  <2> QED
    BY <2>2, <2>3
<1>6. ASSUME NEW k \in 1..N, k # 1 PROVE g[k] = Step(g, k)
  <2>1. k - 1 \in 1..N /\ k \in Nat
    BY <1>2, <1>6
  <2>2. CASE k <= n
    <3>1. k - 1 <= n /\ n + 1 - (k - 1) \in 1..n /\ n + 1 - k = (n + 1 - (k - 1)) - 1
      BY <1>6, <2>1, <2>2
    <3>2. g[k - 1] = L[n + 1 - (k - 1)] /\ g[k] = L[n + 1 - k]
      BY <1>4, <2>1, <2>2, <3>1
    <3> QED
      BY <1>3, <3>1, <3>2
  <2>3. CASE k = n + 1
    <3>1. k - 1 = n /\ n \in 1..n /\ n + 1 - n = 1 /\ ~(k <= n) /\ 1 \in 1..n
      BY <1>6, <2>1, <2>3
    <3>2. g[k - 1] = L[1] /\ g[k] = 0
      BY <1>4, <2>1, <3>1
    <3>3. atable.revmap[L[1]].next = L[1 - 1] /\ 1 - 1 = 0
      BY <1>3, <3>1
    <3> QED
      BY <1>3, <3>1, <3>2, <3>3
  <2>4. CASE k > n + 1
    <3>1. ~(k - 1 <= n) /\ ~(k <= n)
      BY <2>1, <2>4
    <3> QED
      BY <1>4, <2>1, <3>1
  <2> QED
    BY <2>1, <2>2, <2>3, <2>4
<1>7. g = [k \in 1..N |-> IF k = 1 THEN atable.freeatom ELSE Step(g, k)]
  <2>1. \A k \in 1..N : g[k] = IF k = 1 THEN atable.freeatom ELSE Step(g, k)
    BY <1>5, <1>6
  <2> HIDE DEF Step
  <2> QED
    BY <2>1
<1>8. walk = [k \in 1..N |-> IF k = 1 THEN atable.freeatom ELSE Step(walk, k)]
  <2> HIDE DEF Step, g
  <2> QED
    BY <1>7
<1>9. DOMAIN walk = 1..N /\ DOMAIN g = 1..N
  <2> HIDE DEF Step, walk
  <2> QED
    BY <1>8
<1>10. walk[1] = atable.freeatom /\ \A k \in 1..N : k # 1 => walk[k] = Step(walk, k)
  <2>1. 1 \in 1..N
    BY <1>2
  <2> HIDE DEF Step, walk
  <2> QED
    BY <1>8, <2>1
<1> HIDE DEF walk, g
<1> DEFINE S == {i \in 0..N : i \in 1..N => walk[i] = g[i]}
<1>11. 0..N \subseteq S
  <2>1. 0 \in S
    BY <1>2
  <2>2. ASSUME NEW i \in 0..(N - 1), i \in S PROVE i + 1 \in S
    <3>1. i + 1 \in 0..N /\ (i + 1) - 1 = i
      BY <1>2
    <3>2. CASE i = 0
      BY <1>5, <1>10, <3>1, <3>2
    <3>3. CASE i # 0
      <4>1. i \in 1..N /\ i + 1 \in 1..N /\ i + 1 # 1
        BY <1>2, <3>3
      <4>2. walk[i] = g[i]
        BY <2>2, <4>1
      <4>3. walk[i + 1] = Step(walk, i + 1) /\ g[i + 1] = Step(g, i + 1)
        BY <1>6, <1>10, <4>1
      <4> QED
        BY <3>1, <4>2, <4>3
    <3> QED
      BY <3>2, <3>3
  <2> HIDE DEF S
  <2> QED
    BY <1>2, <2>1, <2>2, BoundedInduction
<1>12. \A k \in 1..N : walk[k] = g[k]
  BY <1>2, <1>11
<1>13. walk[N] = 0
  <2>1. N \in 1..N /\ ~(N <= n)
    BY <1>2
  <2> QED
    BY <1>4, <1>12, <2>1
<1>14. Range(walk) \ {0} = On(L, n)
  <2>1. ASSUME NEW x \in Range(walk), x # 0 PROVE x \in On(L, n)
    <3>1. PICK k \in 1..N : x = walk[k]
      BY <1>9, <2>1 DEF Range
    <3>2. k <= n /\ x = L[n + 1 - k]
      BY <1>4, <1>12, <2>1, <3>1
    <3>3. n + 1 - k \in 1..n
      BY <1>2, <3>2
    <3> QED
      BY <3>2, <3>3 DEF On
  <2>2. ASSUME NEW x \in On(L, n) PROVE x \in Range(walk) /\ x # 0
    <3>1. PICK k \in 1..n : x = L[k]
      BY <2>2 DEF On
    <3>2. n + 1 - k \in 1..N /\ n + 1 - k <= n /\ n + 1 - (n + 1 - k) = k
      BY <1>2
    <3>3. walk[n + 1 - k] = x
      BY <1>4, <1>12, <3>1, <3>2
    <3> QED
      BY <1>3, <1>9, <3>1, <3>2, <3>3 DEF Range
  <2> QED
    BY <2>1, <2>2
<1> QED
  BY <1>1, <1>2, <1>13, <1>14
-----------------------------------------------------------------------------
(***************************************************************************)
(* The atom table.  Its dictionary is in order, the reverse map leads to   *)
(* the entry of every atom in it, and every atom is in one place.          *)
(***************************************************************************)
Inums == 0..MaxAtom

Taken(T) == {At(T.dict, at).inum : at \in Entries(T.dict)}

Mapped(T) ==
  \A at \in Entries(T.dict) :
    At(T.dict, at).inum \in Atom /\ T.revmap[At(T.dict, at).inum] = Mapping(at)

RevLinks == [dead : BOOLEAN, next : 0..MaxAtom, where : Nat \X (0..BlockSize)]

TableType(T) ==
  /\ IsTable(T) /\ T.dict \in Dirs(Inums) /\ WellFormed(T.dict)
  /\ T.low \in [Atom -> Halves] /\ T.high \in [Atom -> Halves] /\ T.revmap \in [Atom -> RevLinks]
  /\ T.freeatom \in 0..MaxAtom /\ T.atomgen \in 1..(MaxAtom + 1)

TableKept(T, astray) == TableType(T) /\ Mapped(T) /\ FreeOK(T, Taken(T), astray)

(* The atom of a name, in a dictionary.                                    *)
NameOf(dict, n, a) == \E at \in Entries(dict) : At(dict, at).name = n /\ At(dict, at).inum = a

(* A dictionary in order.                                                  *)
LEMMA DictIs ==
  ASSUME NEW T, TableType(T)
  PROVE  /\ T.dict \in Dirs(Inums) /\ WellFormed(T.dict) /\ AllTiled(T.dict) /\ OneEach(T.dict) /\ 0 \in Inums
<1>1. T.dict \in Dirs(Inums) /\ WellFormed(T.dict) /\ 0 \in Inums
  BY AtomNot0 DEF TableType, Inums
<1> QED
  BY <1>1, WellFormedIs

(* What a lookup of a name in it finds.                                    *)
LEMMA AtomFound ==
  ASSUME NEW T, TableType(T), NEW n \in Name
  PROVE  /\ HasAtom(T, n) <=> \E at \in Entries(T.dict) : At(T.dict, at).name = n
         /\ HasAtom(T, n) => /\ tux_find_entry(T.dict, n) \in Entries(T.dict)
                            /\ At(T.dict, tux_find_entry(T.dict, n)).name = n
                            /\ At(T.dict, tux_find_entry(T.dict, n)).inum = find_atom(T, n)
<1>1. T.dict \in Dirs(Inums) /\ WellFormed(T.dict) /\ AllTiled(T.dict)
  BY DictIs
<1>2. Matches(T.dict, n) = {at \in Entries(T.dict) : At(T.dict, at).name = n}
  BY <1>1, MatchesAre
<1>3. HasAtom(T, n) <=> \E at \in Entries(T.dict) : At(T.dict, at).name = n
  BY <1>2 DEF HasAtom
<1>4. ASSUME HasAtom(T, n)
      PROVE  tux_find_entry(T.dict, n) \in Entries(T.dict) /\ At(T.dict, tux_find_entry(T.dict, n)).name = n
  <2>1. Matches(T.dict, n) # {}
    BY <1>4 DEF HasAtom
  <2> QED
    BY <1>1, <2>1, FindCorrect
<1>5. At(T.dict, tux_find_entry(T.dict, n)).inum = find_atom(T, n)
  BY DEF find_atom, entry_atom, At
<1> QED
  BY <1>3, <1>4, <1>5

(* Two entries do not have the same atom.                                  *)
LEMMA AtomOnce ==
  ASSUME NEW T, Mapped(T), NEW x \in Entries(T.dict), NEW y \in Entries(T.dict),
         At(T.dict, x).inum = At(T.dict, y).inum
  PROVE  x = y
<1>1. Mapping(x) = Mapping(y)
  BY DEF Mapped
<1> QED
  BY <1>1 DEF Mapping

(* Where an entry is.                                                      *)
LEMMA EntryWhere ==
  ASSUME NEW dir \in Dirs(Inums), NEW at \in Entries(dir)
  PROVE  at \in Nat \X (0..BlockSize) /\ at[1] \in DOMAIN dir /\ at[2] \in DOMAIN dir[at[1]]
<1>1. at = <<at[1], at[2]>> /\ at[1] \in DOMAIN dir /\ at[2] \in DOMAIN dir[at[1]]
  BY EntryIs
<1>2. at[1] \in Nat /\ dir[at[1]] \in DirBlocks(Inums)
  BY <1>1, DirBlock
<1>3. at[2] \in 0..(BlockSize - 1)
  BY <1>1, <1>2, BlockType
<1>4. at[2] \in 0..BlockSize
  BY <1>3, DirAssumption
<1> QED
  BY <1>1, <1>2, <1>4

(* A dictionary with an entry more.                                        *)
OneName(dict, new, n, a) == \E w : Adds(dict, new, w, n, a)

(* A table in which a name gets an atom.                                   *)
LEMMA MakeNew ==
  ASSUME NEW T, NEW astray, TableKept(T, astray), NEW n \in Name, ~HasAtom(T, n),
         NEW a, a = FreeAtom(T), a \in Atom, NEW R, R = make_atom(T, n).table
  PROVE  /\ TableKept(R, astray) /\ R.low = T.low /\ R.high = T.high
         /\ a \notin Taken(T) /\ OneName(T.dict, R.dict, n, a)
<1> DEFINE E == tux_create_entry(T.dict, n, a)
           G == get_freeatom(T)
           dir == E.dir
           w == E.where
           m == Mapping(w)
<1>1. /\ TableType(T) /\ IsTable(T) /\ Mapped(T) /\ FreeOK(T, Taken(T), astray)
      /\ T.atomgen \in 1..(MaxAtom + 1) /\ T.revmap \in [Atom -> RevLinks]
      /\ T.low \in [Atom -> Halves] /\ T.high \in [Atom -> Halves]
  BY DEF TableKept, TableType
<1>2. R = [G EXCEPT !.dict = dir, !.revmap[a] = m]
  BY DEF make_atom
<1>3. dir \in Dirs(Inums) /\ WellFormed(dir) /\ Adds(T.dict, dir, w, n, a)
  <2>1. Matches(T.dict, n) = {} /\ a \in Inums
    BY AtomNot0 DEF HasAtom, Inums
  <2>2. T.dict \in Dirs(Inums) /\ WellFormed(T.dict) /\ 0 \in Inums
    BY <1>1, DictIs
  <2> QED
    BY <2>1, <2>2, CreateCorrect
<1>4. w \in Entries(dir) /\ w \in Nat \X (0..BlockSize)
  BY <1>3, EntryWhere DEF Adds
<1>5. m \in RevLinks
  BY <1>4, AtomNot0 DEF Mapping, RevLinks
<1>6. m = Mapping(w)
  OBVIOUS
<1> HIDE DEF m
<1>7. /\ IsTable(G) /\ G.dict = T.dict /\ G.low = T.low /\ G.high = T.high /\ G.revmap = T.revmap
  BY <1>1, GetFreeIs
<1>8. /\ a \notin Taken(T) /\ G.atomgen \in 1..(MaxAtom + 1) /\ G.freeatom \in 0..MaxAtom
      /\ FreeOK(G, Taken(T) \cup {a}, astray)
  BY <1>1, FreeLess, ZenonT(60)
<1> HIDE DEF E, G, dir, w
<1>9. /\ IsTable(R) /\ R.dict = dir /\ R.low = G.low /\ R.high = G.high
      /\ R.revmap = [G.revmap EXCEPT ![a] = m] /\ R.freeatom = G.freeatom /\ R.atomgen = G.atomgen
  BY <1>2, <1>7, Zenon DEF IsTable
<1>10. /\ R.revmap \in [Atom -> RevLinks] /\ R.revmap[a] = m
       /\ \A b \in Atom : b # a => R.revmap[b] = T.revmap[b]
  BY <1>1, <1>5, <1>7, <1>9
<1>11. Taken(R) = Taken(T) \cup {a}
  BY <1>3, <1>9 DEF Taken, Adds, SameEntry
<1>12. Mapped(R)
  <2> SUFFICES ASSUME NEW x \in Entries(dir)
               PROVE  At(dir, x).inum \in Atom /\ R.revmap[At(dir, x).inum] = Mapping(x)
    BY <1>9 DEF Mapped
  <2>1. CASE x = w
    BY <1>3, <1>6, <1>10, <2>1 DEF Adds
  <2>2. CASE x # w
    <3>1. x \in Entries(T.dict) /\ At(dir, x).inum = At(T.dict, x).inum
      BY <1>3, <2>2 DEF Adds, SameEntry
    <3>2. At(T.dict, x).inum # a
      BY <1>8, <3>1 DEF Taken
    <3> QED
      BY <1>1, <1>10, <3>1, <3>2 DEF Mapped
  <2> QED
    BY <2>1, <2>2
<1>13. FreeOK(R, Taken(R), astray)
  <2>1. AlikeBut(G, R, a)
    BY <1>7, <1>9, <1>10 DEF AlikeBut
  <2> QED
    BY <1>8, <1>9, <1>11, <2>1, FreeSame
<1>14. TableType(R)
  BY <1>1, <1>3, <1>7, <1>8, <1>9, <1>10 DEF TableType
<1> QED
  BY <1>3, <1>7, <1>8, <1>9, <1>12, <1>13, <1>14 DEF TableKept, OneName

(* make_atom gives the atom of the name, which may be new.                 *)
LEMMA MakeParts ==
  ASSUME NEW T, NEW astray, TableKept(T, astray), NEW n \in Name, HasAtom(T, n) \/ FreeAtom(T) \in Atom,
         NEW M, M = make_atom(T, n)
  PROVE  /\ TableKept(M.table, astray) /\ M.table.low = T.low /\ M.table.high = T.high
         /\ M.atom \in Atom /\ NameOf(M.table.dict, n, M.atom)
         /\ \/ M.table.dict = T.dict
            \/ ~HasAtom(T, n) /\ M.atom \notin Taken(T) /\ OneName(T.dict, M.table.dict, n, M.atom)
<1>1. TableType(T) /\ Mapped(T)
  BY DEF TableKept
<1>2. CASE HasAtom(T, n)
  <2>1. M.atom = find_atom(T, n) /\ M.table = T
    BY <1>2 DEF make_atom
  <2>2. NameOf(T.dict, n, find_atom(T, n))
    BY <1>1, <1>2, AtomFound DEF NameOf
  <2>3. find_atom(T, n) \in Atom
    BY <1>1, <2>2 DEF Mapped, NameOf
  <2> QED
    BY <2>1, <2>2, <2>3
<1>3. CASE ~HasAtom(T, n)
  <2> DEFINE a == FreeAtom(T)
             R == make_atom(T, n).table
  <2>1. M.atom = a /\ M.table = R /\ a \in Atom
    BY <1>3 DEF make_atom
  <2>2. /\ TableKept(R, astray) /\ R.low = T.low /\ R.high = T.high
        /\ a \notin Taken(T) /\ OneName(T.dict, R.dict, n, a)
    BY <1>3, <2>1, MakeNew
  <2> HIDE DEF a, R
  <2>3. NameOf(R.dict, n, a)
    BY <2>2 DEF OneName, NameOf, Adds
  <2> QED
    BY <1>3, <2>1, <2>2, <2>3
<1> QED
  BY <1>2, <1>3

-----------------------------------------------------------------------------
(* A dictionary without the entry of an atom.                              *)
OneGone(dict, new, a) == \E at \in Entries(dict) : At(dict, at).inum = a /\ Removes(dict, new, at)

(* The reference count of an atom, as its two halves.                      *)
CountIs(T, a, l, h) == [T EXCEPT !.low[a] = l, !.high[a] = h]

(* Only the count changes.                                                 *)
LEMMA CountParts ==
  ASSUME NEW T, IsTable(T), T.low \in [Atom -> Halves], T.high \in [Atom -> Halves],
         NEW a \in Atom, NEW l \in Halves, NEW h \in Halves, NEW C, C = CountIs(T, a, l, h)
  PROVE  /\ IsTable(C) /\ C.dict = T.dict /\ C.revmap = T.revmap /\ C.freeatom = T.freeatom
         /\ C.atomgen = T.atomgen /\ C.low \in [Atom -> Halves] /\ C.high \in [Atom -> Halves]
         /\ C.low[a] = l /\ C.high[a] = h
         /\ \A b \in Atom : b # a => C.low[b] = T.low[b] /\ C.high[b] = T.high[b]
<1>1. C = [T EXCEPT !.low[a] = l, !.high[a] = h]
  BY DEF CountIs
<1>2. /\ IsTable(C) /\ C.dict = T.dict /\ C.revmap = T.revmap /\ C.freeatom = T.freeatom
      /\ C.atomgen = T.atomgen /\ C.low = [T.low EXCEPT ![a] = l] /\ C.high = [T.high EXCEPT ![a] = h]
  BY <1>1, Zenon DEF IsTable
<1> QED
  BY <1>2

(* A table with another count is as good, when its atom has a name.        *)
LEMMA CountKept ==
  ASSUME NEW T, NEW astray, TableKept(T, astray), NEW a \in Taken(T), NEW l \in Halves, NEW h \in Halves
  PROVE  TableKept(CountIs(T, a, l, h), astray) /\ a \in Atom
<1> DEFINE C == CountIs(T, a, l, h)
<1>1. /\ TableType(T) /\ IsTable(T) /\ Mapped(T) /\ FreeOK(T, Taken(T), astray)
      /\ T.low \in [Atom -> Halves] /\ T.high \in [Atom -> Halves]
  BY DEF TableKept, TableType
<1>2. a \in Atom
  BY <1>1 DEF Taken, Mapped
<1>3. /\ IsTable(C) /\ C.dict = T.dict /\ C.revmap = T.revmap /\ C.freeatom = T.freeatom
      /\ C.atomgen = T.atomgen /\ C.low \in [Atom -> Halves] /\ C.high \in [Atom -> Halves]
      /\ \A b \in Atom : b # a => C.low[b] = T.low[b] /\ C.high[b] = T.high[b]
  BY <1>1, <1>2, CountParts
<1> HIDE DEF C
<1>4. Taken(C) = Taken(T) /\ Mapped(C)
  BY <1>1, <1>3 DEF Taken, Mapped
<1>5. AlikeBut(T, C, a)
  BY <1>3 DEF AlikeBut
<1>6. FreeOK(C, Taken(C), astray)
  BY <1>1, <1>3, <1>4, <1>5, FreeSame
<1>7. TableType(C)
  BY <1>1, <1>3 DEF TableType
<1> QED
  BY <1>2, <1>4, <1>6, <1>7 DEF TableKept, C

(* kill_atom takes the name out of the dictionary and frees the atom.      *)
LEMMA KillParts ==
  ASSUME NEW T, NEW astray, TableKept(T, astray), NEW a \in Taken(T), T.low[a] = 0, T.high[a] = 0,
         NEW G, G = kill_atom(T, a)
  PROVE  TableKept(G, astray) /\ G.low = T.low /\ G.high = T.high /\ OneGone(T.dict, G.dict, a)
<1>1. /\ TableType(T) /\ IsTable(T) /\ Mapped(T) /\ FreeOK(T, Taken(T), astray) /\ T.freeatom \in 0..MaxAtom
      /\ T.low \in [Atom -> Halves] /\ T.high \in [Atom -> Halves] /\ T.revmap \in [Atom -> RevLinks]
  BY DEF TableKept, TableType
<1>2. PICK at \in Entries(T.dict) : At(T.dict, at).inum = a
  BY DEF Taken
<1>3. a \in Atom /\ T.revmap[a] = Mapping(at)
  BY <1>1, <1>2 DEF Mapped
<1>4. T.revmap[a].where = at
  BY <1>3 DEF Mapping
<1> DEFINE new == tux_delete_entry(T.dict, at)
           f == FreeLink(T.freeatom)
<1>5. new \in Dirs(Inums) /\ WellFormed(new) /\ Removes(T.dict, new, at)
  BY <1>1, DictIs, DeleteCorrect
<1>6. entry_atom(T, at) = a
  BY <1>2 DEF entry_atom, At
<1>7. G = [T EXCEPT !.revmap[a] = f, !.freeatom = a, !.dict = new]
  BY <1>4, <1>6 DEF kill_atom
<1>8. f \in RevLinks
  <2>1. <<0, 0>> \in Nat \X (0..BlockSize)
    BY DirAssumption
  <2> QED
    BY <1>1, <2>1 DEF FreeLink, RevLinks
<1>9. f = FreeLink(T.freeatom)
  OBVIOUS
<1> HIDE DEF new, f
<1>10. /\ IsTable(G) /\ G.dict = new /\ G.low = T.low /\ G.high = T.high
       /\ G.revmap = [T.revmap EXCEPT ![a] = f] /\ G.freeatom = a /\ G.atomgen = T.atomgen
  BY <1>1, <1>7, Zenon DEF IsTable
<1>11. /\ G.revmap \in [Atom -> RevLinks] /\ G.revmap[a] = f
       /\ \A b \in Atom : b # a => G.revmap[b] = T.revmap[b]
  BY <1>1, <1>3, <1>8, <1>10
<1>12. \A x \in Entries(new) : x \in Entries(T.dict) /\ x # at /\ At(new, x).inum = At(T.dict, x).inum
                             /\ At(T.dict, x).inum # a
  <2>1. ASSUME NEW x \in Entries(new)
        PROVE  x \in Entries(T.dict) /\ x # at /\ At(new, x).inum = At(T.dict, x).inum
    BY <1>5 DEF Removes, SameEntry
  <2> QED
    BY <1>1, <1>2, <2>1, AtomOnce
<1>13. Taken(G) = Taken(T) \ {a}
  <2>1. ASSUME NEW b \in Taken(G) PROVE b \in Taken(T) /\ b # a
    BY <1>10, <1>12 DEF Taken
  <2>2. ASSUME NEW b \in Taken(T), b # a PROVE b \in Taken(G)
    <3>1. PICK x \in Entries(T.dict) : b = At(T.dict, x).inum
      BY DEF Taken
    <3>2. x \in Entries(new)
      BY <1>2, <1>5, <2>2, <3>1 DEF Removes
    <3> QED
      BY <1>10, <1>12, <3>1, <3>2 DEF Taken
  <2> QED
    BY <2>1, <2>2
<1>14. Mapped(G)
  BY <1>1, <1>10, <1>11, <1>12 DEF Mapped
<1>15. FreeOK(G, Taken(G), astray)
  <2>1. AlikeBut(T, G, a)
    BY <1>10, <1>11 DEF AlikeBut
  <2>2. IsFree(G, a, T.freeatom)
    BY <1>3, <1>9, <1>10, <1>11 DEF IsFree
  <2> QED
    BY <1>1, <1>3, <1>10, <1>13, <2>1, <2>2, FreeMore
<1>16. TableType(G)
  BY <1>1, <1>3, <1>5, <1>10, <1>11, AtomNot0 DEF TableType
<1> QED
  BY <1>2, <1>5, <1>10, <1>14, <1>15, <1>16 DEF TableKept, OneGone

(* A count, from its halves.                                               *)
Count(T, a) == T.high[a] * HalfRange + T.low[a]

(* Both halves after a step, and that the atom goes when nothing is left,  *)
(* as long as the count is one.                                            *)
LEMMA CountMoves ==
  ASSUME NEW l \in Halves, NEW h \in Halves, NEW use \in {1, -1}, NEW lo, lo = l + use,
         NEW hi, hi = h + Carry(lo), NEW v, v = h * HalfRange + l, 0 <= v + use, v + use < HalfRange * HalfRange
  PROVE  /\ (hi % HalfRange) * HalfRange + (lo % HalfRange) = v + use
         /\ Unused(lo, hi) <=> v + use = 0
<1>1. HalfRange \in Nat /\ HalfRange >= 2
  BY XattrAssumption
<1>2. l \in Nat /\ h \in Nat /\ l < HalfRange /\ h < HalfRange
  BY <1>1 DEF Halves
<1>3. h * HalfRange \in Nat /\ v \in Nat /\ v = h * HalfRange + l
  BY <1>1, <1>2
<1>4. CASE lo \in Halves
  <2>1. Carry(lo) = 0 /\ lo % HalfRange = lo
    <3>1. lo \in Int /\ -1 <= lo /\ lo <= HalfRange
      BY <1>1, <1>4 DEF Halves
    <3> QED
      BY <1>4, <3>1, HalfType
  <2>2. hi = h /\ hi % HalfRange = h
    <3>1. hi = h
      BY <1>2, <2>1
    <3>2. h \in Int /\ -1 <= h /\ h <= HalfRange
      BY <1>1, <1>2
    <3> QED
      BY <3>1, <3>2, HalfType
  <2>3. v + use = h * HalfRange + lo /\ lo \in Nat
    BY <1>1, <1>2, <1>3, <1>4 DEF Halves
  <2>4. h = 0 => h * HalfRange = 0
    BY <1>1
  <2>5. h # 0 => h * HalfRange >= HalfRange
    BY <1>1, <1>2
  <2>6. (hi % HalfRange) * HalfRange + (lo % HalfRange) = v + use
    <3>1. (hi % HalfRange) * HalfRange + (lo % HalfRange) = h * HalfRange + lo
      BY <2>1, <2>2, Zenon
    <3> QED
      BY <2>3, <3>1
  <2>7. Unused(lo, hi) <=> v + use = 0
    BY <1>1, <1>2, <1>3, <2>2, <2>3, <2>4, <2>5 DEF Unused
  <2> QED
    BY <2>6, <2>7
<1>5. CASE lo = HalfRange
  <2>1. lo \in Int /\ -1 <= lo /\ lo <= HalfRange
    BY <1>1, <1>5
  <2>2. Carry(lo) = 1 /\ lo % HalfRange = 0 /\ hi = h + 1
    BY <1>2, <1>5, <2>1, HalfType
  <2>3. use = 1 /\ l = HalfRange - 1
    BY <1>1, <1>2, <1>5
  <2>4. v + use = h * HalfRange + HalfRange /\ h * HalfRange + HalfRange = (h + 1) * HalfRange
    BY <1>1, <1>2, <1>3, <2>3
  <2>5. h + 1 # HalfRange
    BY <1>1, <1>2, <1>3, <2>4
  <2>6. h + 1 \in Halves /\ h + 1 \in Int /\ -1 <= h + 1 /\ h + 1 <= HalfRange
    BY <1>1, <1>2, <2>5 DEF Halves
  <2>7. hi % HalfRange = h + 1
    BY <2>2, <2>6, HalfType
  <2>8. (hi % HalfRange) * HalfRange + (lo % HalfRange) = v + use
    <3>1. (hi % HalfRange) * HalfRange + (lo % HalfRange) = (h + 1) * HalfRange + 0
      BY <2>2, <2>7, Zenon
    <3>2. (h + 1) * HalfRange \in Nat
      BY <1>1, <1>2
    <3> QED
      BY <2>4, <3>1, <3>2
  <2>9. ~Unused(lo, hi) /\ v + use # 0
    BY <1>1, <1>3, <1>5, <2>4 DEF Unused
  <2> QED
    BY <2>8, <2>9
<1>6. CASE lo = -1
  <2>1. lo \in Int /\ -1 <= lo /\ lo <= HalfRange
    BY <1>1, <1>6
  <2>2. Carry(lo) = -1 /\ lo % HalfRange = HalfRange - 1 /\ hi = h - 1
    BY <1>2, <1>6, <2>1, HalfType
  <2>3. use = -1 /\ l = 0
    BY <1>2, <1>6
  <2>4. v + use = h * HalfRange - 1 /\ h * HalfRange = (h - 1) * HalfRange + HalfRange
    BY <1>1, <1>2, <1>3, <2>3
  <2>5. h # 0
    <3>1. h = 0 => h * HalfRange = 0
      BY <1>1
    <3> QED
      BY <1>3, <2>4, <3>1
  <2>6. h - 1 \in Halves /\ h - 1 \in Int /\ -1 <= h - 1 /\ h - 1 <= HalfRange
    BY <1>1, <1>2, <2>5 DEF Halves
  <2>7. hi % HalfRange = h - 1
    BY <2>2, <2>6, HalfType
  <2>8. (hi % HalfRange) * HalfRange + (lo % HalfRange) = v + use
    <3>1. (hi % HalfRange) * HalfRange + (lo % HalfRange) = (h - 1) * HalfRange + (HalfRange - 1)
      BY <2>2, <2>7, Zenon
    <3>2. (h - 1) * HalfRange \in Nat
      <4>1. h - 1 \in Nat
        BY <1>2, <2>5
      <4> QED
        BY <1>1, <4>1
    <3> QED
      BY <1>1, <1>3, <2>4, <3>1, <3>2
  <2>9. h * HalfRange >= HalfRange
    BY <1>1, <1>2, <2>5
  <2>10. ~Unused(lo, hi) /\ v + use # 0
    BY <1>1, <1>3, <1>6, <2>4, <2>9 DEF Unused
  <2> QED
    BY <2>8, <2>10
<1>7. lo \in Halves \/ lo = HalfRange \/ lo = -1
  BY <1>1, <1>2 DEF Halves
<1> QED
  BY <1>4, <1>5, <1>6, <1>7

(* use_atom changes the count of one atom, and forgets its name with the   *)
(* last reference.                                                         *)
LEMMA UseParts ==
  ASSUME NEW T, NEW astray, TableKept(T, astray), NEW a \in Taken(T), NEW use \in {1, -1},
         NEW G, G = use_atom(T, a, use)
  PROVE  /\ TableKept(G, astray) /\ a \in Atom
         /\ \A b \in Atom : b # a => G.low[b] = T.low[b] /\ G.high[b] = T.high[b]
         /\ G.dict = T.dict \/ OneGone(T.dict, G.dict, a)
         /\ Count(T, a) + use \in 0..(HalfRange * HalfRange - 1) =>
              /\ Count(G, a) = Count(T, a) + use
              /\ IF Count(G, a) = 0 THEN OneGone(T.dict, G.dict, a) ELSE G.dict = T.dict
<1> DEFINE lo == T.low[a] + use
           hi == T.high[a] + Carry(lo)
           l == lo % HalfRange
           h == hi % HalfRange
           C == CountIs(T, a, l, h)
<1>1. G = IF Unused(lo, hi) THEN kill_atom(C, a) ELSE C
  BY DEF use_atom, CountIs
<1>2. /\ TableType(T) /\ IsTable(T) /\ Mapped(T) /\ T.low \in [Atom -> Halves] /\ T.high \in [Atom -> Halves]
      /\ a \in Atom
  BY DEF TableKept, TableType, Mapped, Taken
<1>3. HalfRange \in Nat /\ HalfRange >= 2 /\ T.low[a] \in Halves /\ T.high[a] \in Halves
  BY <1>2, XattrAssumption
<1>4. lo \in Int /\ -1 <= lo /\ lo <= HalfRange
  BY <1>3 DEF Halves
<1>5. l \in Halves /\ Carry(lo) \in Int /\ -1 <= Carry(lo) /\ Carry(lo) <= 1
  BY <1>4, HalfType
<1>6. hi \in Int /\ -1 <= hi /\ hi <= HalfRange
  BY <1>3, <1>5 DEF Halves
<1>7. h \in Halves
  BY <1>6, HalfType
<1>8. ASSUME Unused(lo, hi) PROVE l = 0 /\ h = 0
  <2>1. lo = 0 /\ hi = 0 /\ 0 \in Halves
    BY <1>3, <1>8 DEF Unused, Halves
  <2> QED
    BY <1>4, <1>6, <2>1, HalfType
<1>9. ASSUME Count(T, a) + use \in 0..(HalfRange * HalfRange - 1)
      PROVE  h * HalfRange + l = Count(T, a) + use /\ (Unused(lo, hi) <=> Count(T, a) + use = 0)
  <2>1. HalfRange * HalfRange \in Nat
    BY <1>3
  <2>2. 0 <= Count(T, a) + use /\ Count(T, a) + use < HalfRange * HalfRange
    BY <1>9, <2>1
  <2>3. Count(T, a) = T.high[a] * HalfRange + T.low[a]
    BY DEF Count
  <2> QED
    BY <1>3, <2>2, <2>3, CountMoves
<1> HIDE DEF l, h, lo, hi
<1>10. /\ TableKept(C, astray) /\ C.dict = T.dict /\ C.low[a] = l /\ C.high[a] = h
       /\ \A b \in Atom : b # a => C.low[b] = T.low[b] /\ C.high[b] = T.high[b]
  BY <1>2, <1>5, <1>7, CountKept, CountParts
<1> HIDE DEF C
<1>11. CASE Unused(lo, hi)
  <2>1. a \in Taken(C)
    BY <1>10 DEF Taken
  <2>2. TableKept(G, astray) /\ G.low = C.low /\ G.high = C.high /\ OneGone(T.dict, G.dict, a)
    BY <1>1, <1>8, <1>10, <1>11, <2>1, KillParts
  <2> QED
    BY <1>2, <1>9, <1>10, <1>11, <2>2 DEF Count
<1>12. CASE ~Unused(lo, hi)
  <2>1. G = C
    BY <1>1, <1>12
  <2> QED
    BY <1>2, <1>9, <1>10, <1>12, <2>1 DEF Count
<1> QED
  BY <1>11, <1>12

(* A count that falls by one in its low half, while the name stays.        *)
LEMMA HalfParts ==
  ASSUME NEW T, NEW astray, TableKept(T, astray), NEW a \in Taken(T), T.low[a] = 1,
         NEW G, G = use_atom_half(T, a, -1)
  PROVE  /\ TableKept(G, astray) /\ G.dict = T.dict /\ G.atomgen = T.atomgen
         /\ \A b \in Atom : b # a => G.low[b] = T.low[b] /\ G.high[b] = T.high[b]
         /\ Count(G, a) = Count(T, a) + (-1)
<1> DEFINE C == CountIs(T, a, 0, T.high[a])
<1>1. /\ TableType(T) /\ IsTable(T) /\ T.low \in [Atom -> Halves] /\ T.high \in [Atom -> Halves]
      /\ a \in Atom
  BY DEF TableKept, TableType, Mapped, Taken
<1>2. HalfRange \in Nat /\ 0 \in Halves /\ T.high[a] \in Halves
  BY <1>1, XattrAssumption DEF Halves
<1>3. (T.low[a] + (-1)) % HalfRange = 0
  <2>1. 0 \in Int /\ -1 <= 0 /\ 0 <= HalfRange
    BY <1>2
  <2>2. 0 % HalfRange = 0
    BY <1>2, <2>1, HalfType
  <2> QED
    BY <2>2
<1>4. G = C
  <2>1. G = [T EXCEPT !.low[a] = 0]
    BY <1>3 DEF use_atom_half
  <2>2. PICK h : h = T.high[a]
    OBVIOUS
  <2>3. C = [T EXCEPT !.low[a] = 0, !.high[a] = h]
    BY <2>2 DEF CountIs
  <2>4. [T.high EXCEPT ![a] = h] = T.high
    BY <1>1, <2>2
  <2>5. /\ G = [dict |-> T.dict, low |-> [T.low EXCEPT ![a] = 0], high |-> T.high, revmap |-> T.revmap,
                freeatom |-> T.freeatom, atomgen |-> T.atomgen]
    BY <1>1, <2>1, Zenon DEF IsTable
  <2> HIDE DEF C
  <2>6. C = [dict |-> T.dict, low |-> [T.low EXCEPT ![a] = 0], high |-> [T.high EXCEPT ![a] = h],
             revmap |-> T.revmap, freeatom |-> T.freeatom, atomgen |-> T.atomgen]
    BY <1>1, <2>3, Zenon DEF IsTable
  <2> QED
    BY <2>4, <2>5, <2>6
<1>5. TableKept(C, astray)
  BY <1>2, CountKept
<1>6. /\ C.dict = T.dict /\ C.atomgen = T.atomgen /\ C.low[a] = 0 /\ C.high[a] = T.high[a]
      /\ \A b \in Atom : b # a => C.low[b] = T.low[b] /\ C.high[b] = T.high[b]
  BY <1>1, <1>2, CountParts
<1> HIDE DEF C
<1>7. T.high[a] * HalfRange \in Int
  BY <1>2 DEF Halves
<1>8. T.high[a] * HalfRange + 0 = T.high[a] * HalfRange + 1 + (-1)
  BY <1>7
<1> QED
  BY <1>4, <1>5, <1>6, <1>8 DEF Count

(* No operation takes back an atom that was handed out.                    *)
LEMMA GenParts ==
  ASSUME NEW T, IsTable(T), T.atomgen \in Nat
  PROVE  /\ get_freeatom(T).atomgen \in Nat /\ get_freeatom(T).atomgen >= T.atomgen
         /\ \A n : /\ make_atom(T, n).table.atomgen \in Nat /\ make_atom(T, n).table.atomgen >= T.atomgen
                   /\ IsTable(make_atom(T, n).table)
         /\ \A a, use : use_atom(T, a, use).atomgen = T.atomgen
<1>1. get_freeatom(T).atomgen \in Nat /\ get_freeatom(T).atomgen >= T.atomgen /\ IsTable(get_freeatom(T))
  BY GetFreeIs
<1>2. ASSUME NEW n
      PROVE  /\ make_atom(T, n).table.atomgen \in Nat /\ make_atom(T, n).table.atomgen >= T.atomgen
             /\ IsTable(make_atom(T, n).table)
  <2>1. CASE HasAtom(T, n)
    <3>1. make_atom(T, n).table = T
      BY <2>1 DEF make_atom
    <3> QED
      BY <3>1
  <2>2. CASE ~HasAtom(T, n)
    <3>1. PICK G, E, a : G = get_freeatom(T) /\ a = FreeAtom(T) /\ E = tux_create_entry(T.dict, n, a)
      OBVIOUS
    <3>2. make_atom(T, n).table = [G EXCEPT !.dict = E.dir, !.revmap[a] = Mapping(E.where)]
      BY <2>2, <3>1 DEF make_atom
    <3>3. IsTable(make_atom(T, n).table) /\ make_atom(T, n).table.atomgen = G.atomgen
      BY <1>1, <3>1, <3>2, Zenon DEF IsTable
    <3> QED
      BY <1>1, <3>1, <3>3
  <2> QED
    BY <2>1, <2>2
<1>3. ASSUME NEW C, IsTable(C), NEW a PROVE kill_atom(C, a).atomgen = C.atomgen
  BY <1>3, Zenon DEF IsTable, kill_atom
<1>4. ASSUME NEW a, NEW use PROVE use_atom(T, a, use).atomgen = T.atomgen
  <2> DEFINE l == (T.low[a] + use) % HalfRange
             h == (T.high[a] + Carry(T.low[a] + use)) % HalfRange
             C == [T EXCEPT !.low[a] = l, !.high[a] = h]
  <2>1. use_atom(T, a, use) = IF Unused(T.low[a] + use, T.high[a] + Carry(T.low[a] + use)) THEN kill_atom(C, a) ELSE C
    BY DEF use_atom
  <2>2. IsTable(C) /\ C.atomgen = T.atomgen
    <3>1. PICK c, i, j : c = C /\ i = l /\ j = h
      OBVIOUS
    <3>2. c = [T EXCEPT !.low[a] = i, !.high[a] = j]
      BY <3>1
    <3>3. IsTable(c) /\ c.atomgen = T.atomgen
      BY <3>2, Zenon DEF IsTable
    <3> QED
      BY <3>1, <3>3
  <2> HIDE DEF C
  <2>3. kill_atom(C, a).atomgen = C.atomgen
    BY <1>3, <2>2
  <2> QED
    BY <2>1, <2>2, <2>3
<1> QED
  BY <1>1, <1>2, <1>4

(* An atom that is taken and lost to an error.                             *)
LEMMA StrayParts ==
  ASSUME NEW T, NEW astray, TableKept(T, astray), NEW a, a = FreeAtom(T), a \in Atom,
         NEW G, G = get_freeatom(T)
  PROVE  /\ TableKept(G, astray \cup {a}) /\ G.dict = T.dict /\ G.low = T.low /\ G.high = T.high
<1>1. /\ TableType(T) /\ IsTable(T) /\ Mapped(T) /\ FreeOK(T, Taken(T), astray) /\ T.atomgen \in 1..(MaxAtom + 1)
  BY DEF TableKept, TableType
<1>2. IsTable(G) /\ G.dict = T.dict /\ G.low = T.low /\ G.high = T.high /\ G.revmap = T.revmap
  BY <1>1, GetFreeIs
<1>3. /\ G.atomgen \in 1..(MaxAtom + 1) /\ G.freeatom \in 0..MaxAtom
      /\ FreeOK(G, Taken(T), astray \cup {a})
  BY <1>1, FreeLess
<1>4. Taken(G) = Taken(T) /\ Mapped(G)
  BY <1>1, <1>2 DEF Taken, Mapped
<1> QED
  BY <1>1, <1>2, <1>3, <1>4 DEF TableKept, TableType

-----------------------------------------------------------------------------
(***************************************************************************)
(* Attributes of an inode, as a list.                                      *)
(***************************************************************************)
Attr == [atom : 0..(AtomRange - 1), value : Value]

HasAtomIn(x, a) == \E k \in DOMAIN x : x[k].atom = a

HasValue(x, a, v) == \E k \in DOMAIN x : x[k].atom = a /\ x[k].value = v

(* No atom is in the list twice.                                           *)
Once(x) == \A j, k \in DOMAIN x : x[j].atom = x[k].atom => j = k

(* The list has the same values under all other atoms.                     *)
SameBut(x, y, a) == \A b : b # a => \A v : HasValue(y, b, v) <=> HasValue(x, b, v)

(* The list has a value, or none, under an atom.                           *)
Gives(y, a, w) == \A v \in Value : HasValue(y, a, v) <=> v = w

(* A list without one of its members.                                      *)
LEMMA RemoveAtIs ==
  ASSUME NEW S, NEW x \in Seq(S), NEW i \in DOMAIN x, NEW y, y = RemoveAt(x, i)
  PROVE  /\ y \in Seq(S) /\ Len(y) = Len(x) - 1
         /\ \A k \in DOMAIN y : y[k] = IF k < i THEN x[k] ELSE x[k + 1]
<1> DEFINE n == Len(x)
           s == SubSeq(x, 1, i - 1)
           t == SubSeq(x, i + 1, n)
<1>1. n \in Nat /\ i \in 1..n /\ DOMAIN x = 1..n /\ \A k \in 1..n : x[k] \in S
  OBVIOUS
<1>2. y = s \o t
  BY DEF RemoveAt
<1> HIDE DEF n
<1>3. i - 1 \in Int /\ i + 1 \in Int /\ n \in Int /\ 1 \in Int
  BY <1>1
<1>4. (\A k \in 1..(i - 1) : x[k] \in S) /\ (\A k \in (i + 1)..n : x[k] \in S)
  <2>1. \A k \in 1..(i - 1) : k \in 1..n
    BY <1>1
  <2>2. \A k \in (i + 1)..n : k \in 1..n
    BY <1>1
  <2> QED
    BY <1>1, <2>1, <2>2
<1>5. s \in Seq(S) /\ Len(s) = i - 1 /\ \A k \in 1..(i - 1) : s[k] = x[k]
  <2>1. /\ s \in Seq(S) /\ Len(s) = IF 1 <= i - 1 THEN (i - 1) - 1 + 1 ELSE 0
        /\ \A k \in 1..((i - 1) - 1 + 1) : s[k] = x[1 + k - 1]
    BY <1>3, <1>4, SubSeqProperties
  <2>2. (i - 1) - 1 + 1 = i - 1 /\ (~(1 <= i - 1) => i - 1 = 0) /\ \A k \in 1..(i - 1) : 1 + k - 1 = k
    BY <1>1
  <2> QED
    BY <2>1, <2>2
<1>6. t \in Seq(S) /\ Len(t) = n - i /\ \A k \in 1..(n - i) : t[k] = x[i + k]
  <2>1. /\ t \in Seq(S) /\ Len(t) = IF i + 1 <= n THEN n - (i + 1) + 1 ELSE 0
        /\ \A k \in 1..(n - (i + 1) + 1) : t[k] = x[(i + 1) + k - 1]
    BY <1>3, <1>4, SubSeqProperties
  <2>2. n - (i + 1) + 1 = n - i /\ (~(i + 1 <= n) => n - i = 0) /\ \A k \in 1..(n - i) : (i + 1) + k - 1 = i + k
    BY <1>1
  <2> QED
    BY <2>1, <2>2
<1> HIDE DEF s, t
<1>7. /\ y \in Seq(S) /\ Len(y) = Len(s) + Len(t)
      /\ \A k \in 1..(Len(s) + Len(t)) : y[k] = IF k <= Len(s) THEN s[k] ELSE t[k - Len(s)]
  BY <1>2, <1>5, <1>6, ConcatProperties, SMTT(60)
<1>8. Len(s) + Len(t) = n - 1
  BY <1>1, <1>5, <1>6
<1>9. ASSUME NEW k \in 1..(n - 1) PROVE y[k] = IF k < i THEN x[k] ELSE x[k + 1]
  <2>1. k <= i - 1 <=> k < i
    BY <1>1
  <2>2. CASE k < i
    <3>1. k \in 1..(i - 1)
      BY <1>1, <2>2
    <3> QED
      BY <1>5, <1>7, <1>8, <2>1, <2>2, <3>1
  <2>3. CASE ~(k < i)
    <3>1. k - (i - 1) \in 1..(n - i) /\ i + (k - (i - 1)) = k + 1
      BY <1>1, <2>3
    <3> QED
      BY <1>5, <1>6, <1>7, <1>8, <2>1, <2>3, <3>1
  <2> QED
    BY <2>2, <2>3
<1>10. DOMAIN y = 1..(n - 1)
  BY <1>7, <1>8
<1> QED
  BY <1>7, <1>8, <1>9, <1>10 DEF n

(* What removing a member leaves.                                          *)
LEMMA RemoveAtParts ==
  ASSUME NEW x \in Seq(Attr), NEW i \in DOMAIN x, NEW y, y = RemoveAt(x, i)
  PROVE  /\ y \in Seq(Attr)
         /\ Once(x) => Once(y) /\ ~HasAtomIn(y, x[i].atom) /\ SameBut(x, y, x[i].atom)
<1> DEFINE n == Len(x)
           f(k) == IF k < i THEN k ELSE k + 1
<1>1. /\ y \in Seq(Attr) /\ Len(y) = Len(x) - 1
      /\ \A k \in DOMAIN y : y[k] = IF k < i THEN x[k] ELSE x[k + 1]
  BY RemoveAtIs
<1>2. n \in Nat /\ i \in 1..n /\ DOMAIN x = 1..n /\ DOMAIN y = 1..(n - 1)
  BY <1>1
<1> HIDE DEF n
<1>3. \A k \in DOMAIN y : f(k) \in DOMAIN x /\ f(k) # i /\ y[k] = x[f(k)]
  BY <1>1, <1>2
<1>4. \A j, k \in DOMAIN y : f(j) = f(k) => j = k
  BY <1>2
<1>5. ASSUME NEW j \in DOMAIN x, j # i PROVE \E k \in DOMAIN y : f(k) = j
  <2>1. CASE j < i
    <3>1. j \in DOMAIN y
      BY <1>2, <2>1
    <3> QED
      BY <2>1, <3>1
  <2>2. CASE j > i
    <3>1. j - 1 \in DOMAIN y /\ ~(j - 1 < i) /\ (j - 1) + 1 = j
      BY <1>2, <2>2
    <3> QED
      BY <3>1
  <2> QED
    BY <1>2, <1>5, <2>1, <2>2
<1> HIDE DEF f
<1>6. ASSUME Once(x) PROVE Once(y) /\ ~HasAtomIn(y, x[i].atom)
  BY <1>3, <1>4, <1>6 DEF Once, HasAtomIn
<1>7. ASSUME NEW b, b # x[i].atom, NEW v PROVE HasValue(y, b, v) <=> HasValue(x, b, v)
  <2>1. ASSUME HasValue(y, b, v) PROVE HasValue(x, b, v)
    BY <1>3, <2>1 DEF HasValue
  <2>2. ASSUME HasValue(x, b, v) PROVE HasValue(y, b, v)
    <3>1. PICK j \in DOMAIN x : x[j].atom = b /\ x[j].value = v
      BY <2>2 DEF HasValue
    <3>2. PICK k \in DOMAIN y : f(k) = j
      BY <1>5, <1>7, <3>1
    <3> QED
      BY <1>3, <3>1, <3>2 DEF HasValue
  <2> QED
    BY <2>1, <2>2
<1> QED
  BY <1>1, <1>6, <1>7 DEF SameBut

Lists == [Inode -> Seq(Attr)]

(* A lookup in the list of an inode finds the first attribute with the     *)
(* atom.                                                                   *)
LEMMA LookupIs ==
  ASSUME xcache \in Lists, NEW i \in Inode, NEW a, Holds(i, a)
  PROVE  xcache_lookup(i, a) \in DOMAIN xcache[i] /\ xcache[i][xcache_lookup(i, a)].atom = a
<1> DEFINE x == xcache[i]
           K == {k \in DOMAIN x : x[k].atom = a}
           IsIt(k) == x[k].atom = a /\ \A j \in 1..(k - 1) : x[j].atom # a
<1>1. x \in Seq(Attr)
  BY DEF Lists
<1>2. DOMAIN x \subseteq Nat /\ \A k \in DOMAIN x : \A j \in 1..(k - 1) : j \in DOMAIN x /\ j < k
  <2>1. PICK n \in Nat : DOMAIN x = 1..n
    BY <1>1
  <2> HIDE DEF x
  <2> QED
    BY <2>1
<1>3. K # {}
  BY DEF Holds
<1>4. PICK k \in K : \A j \in K : k <= j
  BY <1>2, <1>3, LeastNat
<1>5. IsIt(k)
  <2> SUFFICES ASSUME NEW j \in 1..(k - 1), x[j].atom = a PROVE FALSE
    OBVIOUS
  <2>1. j \in DOMAIN x /\ j < k
    BY <1>2, <1>4
  <2>2. j \in K /\ j \in Nat /\ k \in Nat
    BY <1>2, <2>1
  <2> QED
    BY <1>4, <2>1, <2>2
<1>6. xcache_lookup(i, a) = CHOOSE m \in DOMAIN x : IsIt(m)
  BY Zenon DEF xcache_lookup
<1>7. k \in DOMAIN x
  OBVIOUS
<1> HIDE DEF IsIt, K, x
<1>8. xcache_lookup(i, a) \in DOMAIN x /\ IsIt(xcache_lookup(i, a))
  BY <1>5, <1>6, <1>7, Zenon
<1> QED
  BY <1>8 DEF IsIt, x

(* remove_old takes the attribute with an atom out of the list.            *)
LEMMA RemoveOldParts ==
  ASSUME xcache \in Lists, NEW i \in Inode, NEW a, NEW y, y = remove_old(i, a)
  PROVE  /\ y \in Seq(Attr)
         /\ Once(xcache[i]) => Once(y) /\ ~HasAtomIn(y, a) /\ SameBut(xcache[i], y, a)
<1>1. xcache[i] \in Seq(Attr)
  BY DEF Lists
<1>2. CASE Holds(i, a)
  <2> DEFINE k == xcache_lookup(i, a)
  <2>1. y = RemoveAt(xcache[i], k)
    BY <1>2 DEF remove_old
  <2>2. k \in DOMAIN xcache[i] /\ xcache[i][k].atom = a
    BY <1>2, LookupIs
  <2> HIDE DEF k
  <2> QED
    BY <1>1, <2>1, <2>2, RemoveAtParts
<1>3. CASE ~Holds(i, a)
  <2>1. y = xcache[i] /\ ~HasAtomIn(y, a)
    BY <1>3 DEF remove_old, Holds, HasAtomIn
  <2> QED
    BY <1>1, <2>1 DEF SameBut
<1> QED
  BY <1>2, <1>3

(* A list with an attribute more.                                          *)
LEMMA AppendParts ==
  ASSUME NEW x \in Seq(Attr), NEW e \in Attr, NEW a, a = e.atom, NEW v, v = e.value, NEW y, y = Append(x, e)
  PROVE  /\ y \in Seq(Attr) /\ SameBut(x, y, a) /\ HasAtomIn(y, a)
         /\ Once(x) /\ ~HasAtomIn(x, a) => Once(y) /\ Gives(y, a, v)
<1> DEFINE n == Len(x)
<1>1. e.atom = a /\ e.value = v
  OBVIOUS
<1>3. y \in Seq(Attr) /\ Len(y) = n + 1 /\ (\A k \in 1..n : y[k] = x[k]) /\ y[n + 1] = e
  BY AppendProperties
<1>4. n \in Nat /\ DOMAIN x = 1..n /\ DOMAIN y = 1..(n + 1)
  BY <1>3
<1> HIDE DEF n
<1>5. /\ \A k \in DOMAIN x : k \in DOMAIN y /\ y[k] = x[k]
      /\ \A k \in DOMAIN y : k \in DOMAIN x \/ k = n + 1
      /\ n + 1 \in DOMAIN y
  BY <1>3, <1>4
<1>6. ASSUME NEW b, NEW v_1 PROVE HasValue(y, b, v_1) <=> HasValue(x, b, v_1) \/ (b = a /\ v_1 = v)
  BY <1>1, <1>3, <1>5 DEF HasValue
<1>7. SameBut(x, y, a) /\ HasAtomIn(y, a)
  BY <1>1, <1>3, <1>5, <1>6 DEF SameBut, HasAtomIn
<1>8. ASSUME Once(x), ~HasAtomIn(x, a) PROVE Once(y) /\ Gives(y, a, v)
  <2>1. \A k \in DOMAIN x : x[k].atom # a
    BY <1>8 DEF HasAtomIn
  <2>2. \A w : ~HasValue(x, a, w)
    BY <2>1 DEF HasValue
  <2>3. Once(y)
    <3> SUFFICES ASSUME NEW j \in DOMAIN y, NEW k \in DOMAIN y, y[j].atom = y[k].atom PROVE j = k
      BY DEF Once
    <3> QED
      BY <1>1, <1>3, <1>5, <1>8, <2>1 DEF Once
  <2> QED
    BY <1>6, <2>2, <2>3 DEF Gives
<1> QED
  BY <1>3, <1>7, <1>8

-----------------------------------------------------------------------------
(***************************************************************************)
(* The atom table through every operation, whatever becomes of the lists.  *)
(***************************************************************************)
Sound == TableKept(atable, stray) /\ xcache \in Lists

(* An empty table.                                                         *)
LEMMA InitTable ==
  ASSUME Init
  PROVE  Sound /\ torn = FALSE
<1> DEFINE r == [dead |-> FALSE, next |-> 0, where |-> <<0, 0>>]
           L == [k \in 0..0 |-> 0]
<1>1. /\ atable = [dict |-> <<>>, low |-> [a \in Atom |-> 0], high |-> [a \in Atom |-> 0],
                   revmap |-> [a \in Atom |-> r], freeatom |-> 0, atomgen |-> 1]
      /\ xcache = [i \in Inode |-> <<>>] /\ stray = {} /\ torn = FALSE
  BY DEF Init
<1>2. /\ MaxAtom \in Nat /\ HalfRange \in Nat /\ HalfRange >= 2 /\ BlockSize \in Nat
  BY XattrAssumption, DirAssumption
<1>3. r \in RevLinks
  BY <1>2 DEF RevLinks
<1> HIDE DEF r
<1>4. IsTable(atable) /\ atable.dict = <<>> /\ atable.freeatom = 0 /\ atable.atomgen = 1
  BY <1>1 DEF IsTable
<1>5. /\ atable.low \in [Atom -> Halves] /\ atable.high \in [Atom -> Halves]
      /\ atable.revmap \in [Atom -> RevLinks]
  BY <1>1, <1>2, <1>3 DEF Halves
<1>6. atable.dict \in Dirs(Inums) /\ Entries(atable.dict) = {}
  BY <1>4 DEF Dirs, Entries
<1>7. WellFormed(atable.dict)
  <2>1. AllTiled(atable.dict) /\ OneEach(atable.dict)
    BY <1>4, <1>6 DEF AllTiled, OneEach
  <2> QED
    BY <1>6, <2>1, WellFormedIs
<1>8. TableType(atable) /\ Mapped(atable) /\ Taken(atable) = {}
  BY <1>2, <1>4, <1>5, <1>6, <1>7 DEF TableType, Mapped, Taken
<1>9. Chain(atable, L, 0)
  BY <1>2, <1>4 DEF Chain
<1>10. Apart(On(L, 0), Taken(atable), stray, atable.atomgen)
  BY <1>1, <1>4, <1>8 DEF Apart, On
<1>11. FreeOK(atable, Taken(atable), stray)
  BY <1>9, <1>10 DEF FreeOK
<1>12. xcache \in Lists
  BY <1>1 DEF Lists
<1> QED
  BY <1>1, <1>8, <1>11, <1>12 DEF Sound, TableKept

(* A list in its place.                                                    *)
LEMMA ListSet ==
  ASSUME xcache \in Lists, NEW i \in Inode, NEW y \in Seq(Attr), NEW z, z = [xcache EXCEPT ![i] = y]
  PROVE  z \in Lists /\ z[i] = y /\ \A j \in Inode : j # i => z[j] = xcache[j]
BY DEF Lists

(* A number of an atom as an attribute has it.                             *)
LEMMA AtomMod ==
  ASSUME NEW a \in Atom
  PROVE  /\ a % AtomRange \in 0..(AtomRange - 1)
         /\ a < AtomRange => a % AtomRange = a
<1>1. AtomRange \in Nat /\ AtomRange > 0 /\ a \in Nat
  BY XattrAssumption DEF Atom
<1>2. a % AtomRange \in 0..(AtomRange - 1)
  BY <1>1
<1>3. ASSUME a < AtomRange PROVE a % AtomRange = a
  <2>1. (0 * AtomRange + a) % AtomRange = a
    BY <1>1, <1>3, DivUnique
  <2> QED
    BY <1>1, <2>1
<1> QED
  BY <1>2, <1>3

(* Every operation that is not torn keeps the atom table.                  *)
LEMMA SoundStep ==
  ASSUME Sound, Whole
  PROVE  Sound'
<1>1. TableKept(atable, stray) /\ xcache \in Lists
  BY DEF Sound
<1>2. ASSUME NEW n \in Name, set_xattr_eio(n) PROVE Sound'
  <2>1. FreeAtom(atable) \in Atom /\ atable' = get_freeatom(atable)
        /\ stray' = stray \cup {FreeAtom(atable)} /\ xcache' = xcache
    BY <1>2 DEF set_xattr_eio, AtomLeft
  <2>2. TableKept(atable', stray')
    BY <1>1, <2>1, StrayParts
  <2> QED
    BY <1>1, <2>1, <2>2 DEF Sound
<1>3. ASSUME NEW n \in Name, NEW M, M = make_atom(atable, n), AtomLeft(n)
      PROVE  TableKept(M.table, stray) /\ M.atom \in Atom /\ M.atom \in Taken(M.table)
  <2>1. HasAtom(atable, n) \/ FreeAtom(atable) \in Atom
    BY <1>3 DEF AtomLeft
  <2>2. TableKept(M.table, stray) /\ M.atom \in Atom /\ NameOf(M.table.dict, n, M.atom)
    BY <1>1, <1>3, <2>1, MakeParts
  <2> QED
    BY <2>2 DEF NameOf, Taken
<1>4. ASSUME NEW n \in Name, NEW i \in Inode, set_xattr(i, n) PROVE Sound'
  <2>1. PICK M : M = make_atom(atable, n)
    OBVIOUS
  <2>2. AtomLeft(n) /\ stray' = stray
    BY <1>4 DEF set_xattr
  <2>3. atable' = IF NewUse(i, M.atom) = 0 THEN M.table ELSE use_atom(M.table, M.atom, NewUse(i, M.atom))
    BY <1>4, <2>1 DEF set_xattr
  <2>4. PICK v \in Value : xcache' = [xcache EXCEPT ![i] =
               Append(remove_old(i, M.atom), [atom |-> M.atom % AtomRange, value |-> v])]
    BY <1>4, <2>1 DEF set_xattr
  <2>5. TableKept(M.table, stray) /\ M.atom \in Atom /\ M.atom \in Taken(M.table)
    BY <1>3, <2>1, <2>2
  <2>6. TableKept(atable', stray')
    <3>1. CASE NewUse(i, M.atom) = 0
      BY <2>2, <2>3, <2>5, <3>1
    <3>2. CASE NewUse(i, M.atom) # 0
      <4>1. NewUse(i, M.atom) = 1 /\ 1 \in {1, -1}
        BY <3>2 DEF NewUse
      <4>2. atable' = use_atom(M.table, M.atom, 1)
        BY <2>3, <4>1
      <4> QED
        BY <2>2, <2>5, <4>1, <4>2, UseParts
    <3> QED
      BY <3>1, <3>2
  <2>7. Append(remove_old(i, M.atom), [atom |-> M.atom % AtomRange, value |-> v]) \in Seq(Attr)
    <3> DEFINE y == remove_old(i, M.atom)
               b == M.atom % AtomRange
    <3>1. y \in Seq(Attr) /\ b \in 0..(AtomRange - 1)
      BY <1>1, <2>5, RemoveOldParts, AtomMod
    <3> HIDE DEF y, b
    <3>2. Append(y, [atom |-> b, value |-> v]) \in Seq(Attr)
      <4>1. [atom |-> b, value |-> v] \in Attr
        BY <2>4, <3>1 DEF Attr
      <4> QED
        BY <3>1, <4>1
    <3> QED
      BY <3>2 DEF y, b
  <2>8. xcache' \in Lists
    BY <1>1, <2>4, <2>7, ListSet
  <2> QED
    BY <2>6, <2>8 DEF Sound
<1>5. ASSUME NEW n \in Name, NEW i \in Inode, set_xattr_refused(i, n) PROVE Sound'
  <2>1. AtomLeft(n) /\ stray' = stray /\ xcache' = xcache /\ atable' = make_atom(atable, n).table
    BY <1>5 DEF set_xattr_refused
  <2> QED
    BY <1>1, <1>3, <2>1 DEF Sound
<1>6. ASSUME NEW n \in Name, NEW i \in Inode, set_xattr_nomem(i, n) PROVE Sound'
  <2>1. PICK M : M = make_atom(atable, n)
    OBVIOUS
  <2>2. AtomLeft(n) /\ stray' = stray /\ atable' = M.table /\ xcache' = [xcache EXCEPT ![i] = remove_old(i, M.atom)]
    BY <1>6, <2>1 DEF set_xattr_nomem
  <2>3. xcache' \in Lists
    BY <1>1, <2>2, RemoveOldParts, ListSet
  <2> QED
    BY <1>3, <2>1, <2>2, <2>3 DEF Sound
<1>7. ASSUME NEW n \in Name, NEW i \in Inode, del_xattr(i, n) PROVE Sound'
  <2> DEFINE a == find_atom(atable, n)
  <2>1. /\ HasAtom(atable, n) /\ stray' = stray /\ atable' = use_atom(atable, a, -1)
        /\ xcache' = [xcache EXCEPT ![i] = remove_old(i, a)]
    BY <1>7 DEF del_xattr
  <2>2. a \in Taken(atable)
    BY <1>1, <2>1, AtomFound DEF TableKept, Taken
  <2> HIDE DEF a
  <2>3. TableKept(atable', stray)
    BY <1>1, <2>1, <2>2, UseParts
  <2>4. xcache' \in Lists
    BY <1>1, <2>1, RemoveOldParts, ListSet
  <2> QED
    BY <2>1, <2>3, <2>4 DEF Sound
<1>8. ASSUME NEW i \in Inode, tux_delete_inode(i) PROVE Sound'
  <2>1. atable' = atable /\ stray' = stray /\ xcache' = [xcache EXCEPT ![i] = <<>>]
    BY <1>8 DEF tux_delete_inode
  <2>2. <<>> \in Seq(Attr)
    OBVIOUS
  <2>3. xcache' \in Lists
    BY <1>1, <2>1, <2>2, ListSet
  <2> QED
    BY <1>1, <2>1, <2>3 DEF Sound
<1>9. ASSUME NEW n \in Name, NEW i \in Inode, del_xattr_uncounted(i, n) PROVE Sound'
  <2>1. atable' = atable /\ stray' = stray /\ xcache' = [xcache EXCEPT ![i] = remove_old(i, find_atom(atable, n))]
    BY <1>9 DEF del_xattr_uncounted
  <2>2. xcache' \in Lists
    BY <1>1, <2>1, RemoveOldParts, ListSet
  <2> QED
    BY <1>1, <2>1, <2>2 DEF Sound
<1>10. ASSUME NEW n \in Name, NEW i \in Inode, del_xattr_unkilled(i, n) PROVE Sound'
  <2> DEFINE a == find_atom(atable, n)
  <2>1. /\ HasAtom(atable, n) /\ stray' = stray /\ atable.low[a] = 1 /\ atable' = use_atom_half(atable, a, -1)
        /\ xcache' = [xcache EXCEPT ![i] = remove_old(i, a)]
    BY <1>10 DEF del_xattr_unkilled
  <2>2. a \in Taken(atable)
    BY <1>1, <2>1, AtomFound DEF TableKept, Taken
  <2> HIDE DEF a
  <2>3. TableKept(atable', stray)
    BY <1>1, <2>1, <2>2, HalfParts
  <2>4. xcache' \in Lists
    BY <1>1, <2>1, RemoveOldParts, ListSet
  <2> QED
    BY <2>1, <2>3, <2>4 DEF Sound
<1> QED
  BY <1>2, <1>4, <1>5, <1>6, <1>7, <1>8, <1>9, <1>10 DEF Whole

(* Until the table is torn it is sound.                                    *)
SoundUntorn == torn \in BOOLEAN /\ (~torn => Sound)

(* What the atom table is in every state.                                  *)
LEMMA SpecSound == Spec => []SoundUntorn
<1>1. Init => SoundUntorn
  BY InitTable DEF SoundUntorn
<1>2. ASSUME SoundUntorn, [Next]_vars PROVE SoundUntorn'
  <2>1. CASE UNCHANGED vars
    BY <1>2, <2>1 DEF SoundUntorn, Sound, vars
  <2>2. CASE ~torn /\ Whole /\ torn' = FALSE
    BY <1>2, <2>2, SoundStep DEF SoundUntorn
  <2>3. CASE ~torn /\ Torn /\ torn' = TRUE
    BY <2>3 DEF SoundUntorn
  <2> QED
    BY <1>2, <2>1, <2>2, <2>3 DEF Next
<1> QED
  BY <1>1, <1>2, PTL DEF Spec

(* An operation that is not torn takes no atom back.                       *)
LEMMA GenStep ==
  ASSUME Sound, Whole
  PROVE  atable.atomgen \in Nat /\ atable'.atomgen \in Nat /\ atable'.atomgen >= atable.atomgen
<1>1. IsTable(atable) /\ atable.atomgen \in Nat
  BY XattrAssumption DEF Sound, TableKept, TableType
<1> DEFINE Up == atable'.atomgen \in Nat /\ atable'.atomgen >= atable.atomgen
<1>2. ASSUME NEW n \in Name, set_xattr_eio(n) PROVE Up
  BY <1>1, <1>2, GenParts DEF set_xattr_eio
<1>3. ASSUME NEW n \in Name, NEW i \in Inode, set_xattr(i, n) PROVE Up
  <2>1. PICK T, a : /\ T = make_atom(atable, n).table
                    /\ atable' = T \/ atable' = use_atom(T, a, NewUse(i, a))
    <3>1. PICK M : M = make_atom(atable, n)
      OBVIOUS
    <3>2. atable' = IF NewUse(i, M.atom) = 0 THEN M.table ELSE use_atom(M.table, M.atom, NewUse(i, M.atom))
      BY <1>3, <3>1 DEF set_xattr
    <3> QED
      BY <3>1, <3>2
  <2>2. IsTable(T) /\ T.atomgen \in Nat /\ T.atomgen >= atable.atomgen
    BY <1>1, <2>1, GenParts
  <2>3. use_atom(T, a, NewUse(i, a)).atomgen = T.atomgen
    BY <2>2, GenParts
  <2> QED
    BY <2>1, <2>2, <2>3
<1>4. ASSUME NEW n \in Name, NEW i \in Inode, set_xattr_refused(i, n) \/ set_xattr_nomem(i, n) PROVE Up
  <2>1. atable' = make_atom(atable, n).table
    BY <1>4 DEF set_xattr_refused, set_xattr_nomem
  <2> QED
    BY <1>1, <2>1, GenParts
<1>5. ASSUME NEW n \in Name, NEW i \in Inode, del_xattr(i, n) PROVE Up
  <2>1. atable' = use_atom(atable, find_atom(atable, n), -1)
    BY <1>5 DEF del_xattr
  <2>2. atable'.atomgen = atable.atomgen
    BY <1>1, <2>1, GenParts
  <2> QED
    BY <1>1, <2>2
<1>6. ASSUME NEW n \in Name, NEW i \in Inode, del_xattr_unkilled(i, n) PROVE Up
  <2> DEFINE a == find_atom(atable, n)
  <2>1. HasAtom(atable, n) /\ atable.low[a] = 1 /\ atable' = use_atom_half(atable, a, -1)
    BY <1>6 DEF del_xattr_unkilled
  <2>2. TableKept(atable, stray) /\ a \in Taken(atable)
    BY <2>1, AtomFound DEF Sound, TableKept, Taken
  <2> HIDE DEF a
  <2>3. atable'.atomgen = atable.atomgen
    BY <2>1, <2>2, HalfParts
  <2> QED
    BY <1>1, <2>3
<1>7. ASSUME NEW n, NEW i, del_xattr_uncounted(i, n) \/ tux_delete_inode(i) PROVE Up
  BY <1>1, <1>7 DEF del_xattr_uncounted, tux_delete_inode
<1> QED
  BY <1>1, <1>2, <1>3, <1>4, <1>5, <1>6, <1>7 DEF Whole

(* The atoms that lookups find are those of the entries.                   *)
LEMMA NamedIs ==
  ASSUME TableKept(atable, stray)
  PROVE  Named = Taken(atable)
<1>1. TableType(atable)
  BY DEF TableKept
<1>2. ASSUME NEW a \in Named PROVE a \in Taken(atable)
  <2>1. PICK n \in Name : HasAtom(atable, n) /\ a = find_atom(atable, n)
    BY <1>2 DEF Named
  <2> QED
    BY <1>1, <2>1, AtomFound DEF Taken
<1>3. ASSUME NEW a \in Taken(atable) PROVE a \in Named
  <2>1. PICK at \in Entries(atable.dict) : a = At(atable.dict, at).inum
    BY <1>3 DEF Taken
  <2> DEFINE n == At(atable.dict, at).name
  <2>2. atable.dict \in Dirs(Inums) /\ WellFormed(atable.dict)
    BY <1>1, DictIs
  <2>3. at[1] \in DOMAIN atable.dict /\ at[2] \in DOMAIN atable.dict[at[1]]
    BY EntryIs
  <2>4. atable.dict[at[1]] \in DirBlocks(Inums)
    BY <2>2, <2>3, DirBlock
  <2>5. n \in Name
    <3>1. atable.dict[at[1]][at[2]].name \in Name \cup {NoName}
      BY <2>3, <2>4, BlockType
    <3>2. n # NoName
      BY DEF Entries, is_deleted
    <3> QED
      BY <3>1, <3>2 DEF At
  <2>6. HasAtom(atable, n)
    BY <1>1, <2>5, AtomFound
  <2>7. tux_find_entry(atable.dict, n) = at
    <3>1. Matches(atable.dict, n) # {}
      BY <2>6 DEF HasAtom
    <3> QED
      BY <2>2, <2>5, <3>1, FindCorrect
  <2>8. find_atom(atable, n) = a
    BY <1>1, <2>1, <2>5, <2>6, <2>7, AtomFound
  <2> QED
    BY <2>5, <2>6, <2>8 DEF Named
<1> QED
  BY <1>2, <1>3

(* Types: the table, its dictionary and the lists keep theirs through      *)
(* every operation, also those that fail, until one leaves the table torn. *)
THEOREM XattrTypeCorrect == Spec => []TypeOK
<1>1. SoundUntorn => TypeOK
  <2> SUFFICES ASSUME torn \in BOOLEAN, Sound PROVE TypeOK
    BY DEF SoundUntorn, TypeOK
  <2> DEFINE T == atable
             Types == [name : Name \cup {NoName}, inum : 0..MaxAtom, rec_len : 1..BlockSize]
  <2>1. TableType(T) /\ xcache \in Lists
    BY DEF Sound, TableKept
  <2>2. T.dict \in Dirs(Inums) /\ AllTiled(T.dict)
    BY <2>1, DictIs
  <2>3. ASSUME NEW b \in DOMAIN T.dict, NEW o \in DOMAIN T.dict[b]
        PROVE  o \in 0..(BlockSize - 1) /\ T.dict[b][o] \in Types
    <3> DEFINE block == T.dict[b]
    <3>1. block \in DirBlocks(Inums) /\ Tiled(block) /\ o \in DOMAIN block
      BY <2>2, DirBlock DEF AllTiled
    <3> HIDE DEF block
    <3>2. o \in 0..(BlockSize - 1) /\ o \in Nat /\ block[o] \in Records(Inums) /\ block[o].rec_len \in Nat
      BY <3>1, BlockType
    <3>3. block[o].rec_len >= 16 /\ o + block[o].rec_len <= BlockSize /\ BlockSize \in Nat
      BY <3>1, TiledFacts, DirAssumption
    <3>4. block[o].rec_len \in 1..BlockSize
      BY <3>2, <3>3
    <3>5. block[o] \in Types
      BY <3>2, <3>4 DEF Records, Inums
    <3> QED
      BY <3>2, <3>5 DEF block
  <2> QED
    BY <2>1, <2>3 DEF TypeOK, TableType, Lists, Attr, Halves, RevLinks
<1> QED
  BY <1>1, SpecSound, PTL

(* The free list ends, and an atom that was ever taken is free, named or   *)
(* lost to an error, and never two of these: get_freeatom never hands out  *)
(* an atom that a name or an attribute still stands for.  (Until a failing *)
(* read leaves the table torn.)                                            *)
THEOREM FreeListCorrect == Spec => []FreeListSound
<1>1. SoundUntorn => FreeListSound
  <2> SUFFICES ASSUME Sound PROVE FreeListSound
    BY DEF SoundUntorn, FreeListSound
  <2>1. TableKept(atable, stray)
    BY DEF Sound
  <2>2. Named = Taken(atable)
    BY <2>1, NamedIs
  <2>3. PICK n \in Nat : \E L : Chain(atable, L, n) /\ Apart(On(L, n), Taken(atable), stray, atable.atomgen)
    BY <2>1 DEF TableKept, FreeOK
  <2>4. PICK L : Chain(atable, L, n) /\ Apart(On(L, n), Taken(atable), stray, atable.atomgen)
    BY <2>3
  <2>5. FreeList[MaxAtom + 1] = 0 /\ Range(FreeList) \ {0} = On(L, n)
    BY <2>4, ListWalked
  <2>6. ASSUME NEW a \in On(L, n) PROVE atable.revmap[a].dead /\ refs(a) = 0
    <3>1. PICK k \in 1..n : IsFree(atable, a, L[k - 1])
      BY <2>4 DEF On, Chain
    <3>2. atable.revmap[a].dead
      BY <3>1 DEF IsFree, FreeLink
    <3>3. atable.low[a] = 0 /\ atable.high[a] = 0
      BY <3>1 DEF IsFree
    <3> QED
      BY <3>2, <3>3, XattrAssumption DEF refs
  <2> QED
    BY <2>2, <2>4, <2>5, <2>6 DEF FreeListSound, Apart
<1> QED
  BY <1>1, SpecSound, PTL

(* The reverse map leads to the entry of every name, wherever creating and *)
(* deleting entries has split and merged the records around it, as long as *)
(* no failing read of make_atom or use_atom has left the table torn.       *)
THEOREM ReverseMapCorrect == Spec => []ReverseMap
<1>1. SoundUntorn => ReverseMap
  <2> SUFFICES ASSUME Sound PROVE ReverseMap
    BY DEF SoundUntorn, ReverseMap
  <2>1. TableType(atable) /\ Mapped(atable) /\ WellFormed(atable.dict)
    BY DEF Sound, TableKept, TableType
  <2>2. ASSUME NEW n \in Name, HasAtom(atable, n)
        PROVE  atable.revmap[find_atom(atable, n)] = Mapping(tux_find_entry(atable.dict, n))
    <3> DEFINE at == tux_find_entry(atable.dict, n)
    <3>1. at \in Entries(atable.dict) /\ At(atable.dict, at).inum = find_atom(atable, n)
      BY <2>1, <2>2, AtomFound
    <3> HIDE DEF at
    <3>2. atable.revmap[At(atable.dict, at).inum] = Mapping(at)
      BY <2>1, <3>1 DEF Mapped
    <3> QED
      BY <3>1, <3>2 DEF at
  <2> QED
    BY <2>1, <2>2 DEF ReverseMap
<1> QED
  BY <1>1, SpecSound, PTL

-----------------------------------------------------------------------------
(***************************************************************************)
(* The references.  A count is that of the inodes that hold the atom and   *)
(* of the references that were lost; Bit counts the attribute of one list. *)
(***************************************************************************)
Bit(x, a) == IF HasAtomIn(x, a) THEN 1 ELSE 0

Holders(xs, a) == {i \in Inode : HasAtomIn(xs[i], a)}

LostBy(l, a) == {k \in DOMAIN l : l[k] = a}

Uses(xs, l, a) == Cardinality(Holders(xs, a)) + Cardinality(LostBy(l, a))

Counted(T, xs, l) == \A a \in Atom : Count(T, a) = Uses(xs, l, a)

(* What is lost is within its bound.                                       *)
LostOK(l, s) == l \in Seq(Atom) /\ IsFiniteSet(s) /\ Cardinality(s) + Len(l) <= MaxLost

(* The list of one inode changes.                                          *)
ListMoved(xs, ys, i) == \A j \in Inode : j # i => ys[j] = xs[j]

(* When one list changes, at most that inode joins or leaves the holders of *)
(* an atom.                                                                *)
LEMMA HoldersMove ==
  ASSUME NEW xs, NEW ys, NEW i \in Inode, ListMoved(xs, ys, i), NEW a
  PROVE  /\ Cardinality(Holders(xs, a)) \in Nat /\ Cardinality(Holders(xs, a)) <= Cardinality(Inode)
         /\ IsFiniteSet(Holders(xs, a))
         /\ Cardinality(Holders(ys, a)) = Cardinality(Holders(xs, a)) + Bit(ys[i], a) - Bit(xs[i], a)
<1> DEFINE X == Holders(xs, a)
           Y == Holders(ys, a)
<1>1. IsFiniteSet(Inode) /\ X \in SUBSET Inode
  BY XattrAssumption DEF Holders
<1>2. IsFiniteSet(X) /\ Cardinality(X) <= Cardinality(Inode) /\ Cardinality(X) \in Nat
  BY <1>1, FS_Subset, FS_CardinalityType
<1>3. \A j \in Inode : j # i => (j \in X <=> j \in Y)
  BY DEF Holders, ListMoved
<1>4. X \subseteq Inode /\ Y \subseteq Inode
  BY DEF Holders
<1>5. (i \in X <=> HasAtomIn(xs[i], a)) /\ (i \in Y <=> HasAtomIn(ys[i], a))
  BY DEF Holders
<1> HIDE DEF X, Y
<1>6. CASE i \in X /\ i \notin Y
  <2>1. Y = X \ {i}
    BY <1>3, <1>4, <1>6
  <2>2. Cardinality(Y) = Cardinality(X) - 1
    BY <1>2, <1>6, <2>1, FS_RemoveElement
  <2> QED
    BY <1>2, <1>5, <1>6, <2>2 DEF Bit, X, Y
<1>7. CASE i \notin X /\ i \in Y
  <2>1. Y = X \cup {i}
    BY <1>3, <1>4, <1>7
  <2>2. Cardinality(Y) = Cardinality(X) + 1
    BY <1>2, <1>7, <2>1, FS_AddElement
  <2> QED
    BY <1>2, <1>5, <1>7, <2>2 DEF Bit, X, Y
<1>8. CASE i \in X <=> i \in Y
  <2>1. X = Y
    BY <1>3, <1>4, <1>8
  <2> QED
    BY <1>2, <1>5, <1>8, <2>1 DEF Bit, X, Y
<1> QED
  BY <1>6, <1>7, <1>8

(* References that are in the list of the lost ones.                       *)
LEMMA LostCount ==
  ASSUME NEW l \in Seq(Atom), NEW a
  PROVE  /\ IsFiniteSet(LostBy(l, a)) /\ Cardinality(LostBy(l, a)) \in Nat
         /\ Cardinality(LostBy(l, a)) <= Len(l) /\ Len(l) \in Nat
<1> DEFINE n == Len(l)
<1>1. n \in Nat /\ LostBy(l, a) \in SUBSET (1..n)
  BY DEF LostBy
<1> HIDE DEF n
<1>2. IsFiniteSet(1..n) /\ Cardinality(1..n) = n
  BY <1>1, FS_Interval
<1> QED
  BY <1>1, <1>2, FS_Subset, FS_CardinalityType DEF n

(* One when the lost reference is to the atom that is counted.             *)
Same(a, b) == IF a = b THEN 1 ELSE 0

(* One reference is lost.                                                  *)
LEMMA LostOne ==
  ASSUME NEW l \in Seq(Atom), NEW b \in Atom, NEW m, m = Append(l, b), NEW a
  PROVE  /\ m \in Seq(Atom) /\ Len(m) = Len(l) + 1
         /\ Cardinality(LostBy(m, a)) = Cardinality(LostBy(l, a)) + Same(a, b)
<1> DEFINE n == Len(l)
           L == LostBy(l, a)
           M == LostBy(m, a)
<1>1. m \in Seq(Atom) /\ Len(m) = n + 1 /\ (\A k \in 1..n : m[k] = l[k]) /\ m[n + 1] = b
  BY AppendProperties
<1>2. n \in Nat /\ DOMAIN l = 1..n /\ DOMAIN m = 1..(n + 1)
  BY <1>1
<1>3. IsFiniteSet(L) /\ Cardinality(L) \in Nat
  BY LostCount
<1> HIDE DEF n
<1>4. CASE a = b
  <2>1. M = L \cup {n + 1} /\ n + 1 \notin L
    BY <1>1, <1>2, <1>4 DEF LostBy
  <2> HIDE DEF L, M
  <2>2. Cardinality(M) = Cardinality(L) + 1
    BY <1>3, <2>1, FS_AddElement
  <2> QED
    BY <1>1, <1>4, <2>2 DEF L, M, n, Same
<1>5. CASE a # b
  <2>1. M = L
    BY <1>1, <1>2, <1>5 DEF LostBy
  <2> HIDE DEF L, M
  <2> QED
    BY <1>1, <1>3, <1>5, <2>1 DEF L, M, n, Same
<1> QED
  BY <1>4, <1>5

(* The atoms of a list, in its order, and that all of them are atoms.       *)
AtomsOf(x) == [k \in DOMAIN x |-> x[k].atom]
AllAtoms(x) == \A k \in DOMAIN x : x[k].atom \in Atom

(* The references of a whole list are lost.                                *)
LEMMA LostAll ==
  ASSUME NEW l \in Seq(Atom), NEW x \in Seq(Attr), Once(x), AllAtoms(x),
         NEW m, m = l \o AtomsOf(x), NEW a
  PROVE  /\ m \in Seq(Atom) /\ Len(m) = Len(l) + Len(x)
         /\ Cardinality(LostBy(m, a)) = Cardinality(LostBy(l, a)) + Bit(x, a)
<1> DEFINE n == Len(l)
           c == Len(x)
           z == AtomsOf(x)
           L == LostBy(l, a)
           M == LostBy(m, a)
<1>1. n \in Nat /\ c \in Nat /\ DOMAIN l = 1..n /\ DOMAIN x = 1..c
  OBVIOUS
<1>2. z \in Seq(Atom) /\ Len(z) = c /\ \A k \in DOMAIN x : z[k] = x[k].atom
  <2>1. z \in [1..c -> Atom] /\ \A k \in DOMAIN x : z[k] = x[k].atom
    BY <1>1 DEF AtomsOf, AllAtoms
  <2> HIDE DEF z
  <2> HIDE DEF c
  <2> QED
    BY <1>1, <2>1
<1>3. m = l \o z
  OBVIOUS
<1> HIDE DEF z
<1>4. /\ m \in Seq(Atom) /\ Len(m) = n + c
      /\ \A k \in 1..(n + c) : m[k] = IF k <= n THEN l[k] ELSE z[k - n]
  <2>1. /\ m \in Seq(Atom) /\ Len(m) = Len(l) + Len(z)
        /\ \A k \in 1..(Len(l) + Len(z)) : m[k] = IF k <= Len(l) THEN l[k] ELSE z[k - Len(l)]
    <3>1. l \in Seq(Atom) /\ z \in Seq(Atom)
      BY <1>2
    <3>2. /\ l \o z \in Seq(Atom) /\ Len(l \o z) = Len(l) + Len(z)
          /\ \A k \in 1..(Len(l) + Len(z)) : (l \o z)[k] = IF k <= Len(l) THEN l[k] ELSE z[k - Len(l)]
      BY ONLY <3>1, ConcatProperties, Zenon
    <3> QED
      BY <1>3, <3>2, Zenon
  <2>2. Len(l) = n /\ Len(z) = c
    BY <1>2
  <2> HIDE DEF n, c
  <2> QED
    BY <2>1, <2>2
<1>5. DOMAIN m = 1..(n + c)
  BY <1>1, <1>4
<1>6. IsFiniteSet(L) /\ Cardinality(L) \in Nat
  BY LostCount
<1> HIDE DEF n, c
<1>7. ASSUME NEW k \in DOMAIN m
      PROVE  \/ k \in DOMAIN l /\ m[k] = l[k]
             \/ k - n \in DOMAIN x /\ m[k] = x[k - n].atom /\ k \notin DOMAIN l
  <2>1. CASE k <= n
    BY <1>1, <1>4, <1>5, <2>1
  <2>2. CASE ~(k <= n)
    <3>1. k - n \in DOMAIN x /\ k \notin DOMAIN l
      BY <1>1, <1>5, <2>2
    <3> QED
      BY <1>2, <1>4, <1>5, <2>2, <3>1
  <2> QED
    BY <2>1, <2>2
<1>8. ASSUME NEW k \in DOMAIN l PROVE k \in DOMAIN m /\ m[k] = l[k]
  <2>1. k \in 1..(n + c) /\ k <= n
    BY <1>1
  <2> QED
    BY <1>4, <1>5, <2>1
<1>9. CASE HasAtomIn(x, a)
  <2>1. PICK j \in DOMAIN x : x[j].atom = a
    BY <1>9 DEF HasAtomIn
  <2> DEFINE q == n + j
  <2>2. q \in DOMAIN m /\ q \notin DOMAIN l /\ q - n = j /\ ~(q <= n) /\ q \in Int
    BY <1>1, <1>5
  <2>3. m[q] = a
    BY <1>2, <1>4, <1>5, <2>1, <2>2
  <2>4. ASSUME NEW k \in DOMAIN m, k \notin DOMAIN l, m[k] = a PROVE k = q
    <3>1. k - n \in DOMAIN x /\ x[k - n].atom = a
      BY <1>7, <2>4
    <3>2. k - n = j
      BY <2>1, <3>1 DEF Once
    <3>3. k \in Int
      BY <1>5, <2>4
    <3> QED
      BY <1>1, <3>2, <3>3
  <2> HIDE DEF q
  <2>5. M = L \cup {q} /\ q \notin L
    BY <1>7, <1>8, <2>2, <2>3, <2>4 DEF LostBy
  <2> HIDE DEF L, M
  <2>6. Cardinality(M) = Cardinality(L) + 1
    BY <1>6, <2>5, FS_AddElement
  <2> QED
    BY <1>4, <1>9, <2>6 DEF Bit, L, M, n, c
<1>10. CASE ~HasAtomIn(x, a)
  <2>1. M = L
    BY <1>7, <1>8, <1>10 DEF LostBy, HasAtomIn
  <2> HIDE DEF L, M
  <2> QED
    BY <1>4, <1>6, <1>10, <2>1 DEF Bit, L, M, n, c
<1> QED
  BY <1>9, <1>10

-----------------------------------------------------------------------------
(***************************************************************************)
(* What users read.  The dictionary is a set of pairs, name and atom; an   *)
(* inode holds under the atom of each name what was set for that name.     *)
(***************************************************************************)
Pairs(dict) == {<<At(dict, at).name, At(dict, at).inum>> : at \in Entries(dict)}

Values == [Name -> Value \cup {NoValue}]

(* No name has two atoms and no atom two names.                            *)
OneToOne(P) == P \subseteq Name \X Atom /\ \A p, q \in P : p[1] = q[1] <=> p[2] = q[2]

(* What one inode holds is what was set for it.                            *)
ReadsIn(P, x, h) ==
  /\ h \in Values
  /\ \A p \in P : \A v \in Value : h[p[1]] = v <=> HasValue(x, p[2], v)
  /\ \A n \in Name : (\A p \in P : p[1] # n) => h[n] = NoValue
  /\ \A k \in DOMAIN x : \E p \in P : p[2] = x[k].atom

(* The pairs of a table.                                                   *)
LEMMA PairsAre ==
  ASSUME NEW T, NEW astray, TableKept(T, astray)
  PROVE  /\ OneToOne(Pairs(T.dict))
         /\ \A a : a \in Taken(T) <=> \E p \in Pairs(T.dict) : p[2] = a
         /\ \A n \in Name : HasAtom(T, n) <=> \E p \in Pairs(T.dict) : p[1] = n
         /\ \A n \in Name : HasAtom(T, n) => <<n, find_atom(T, n)>> \in Pairs(T.dict)
<1> DEFINE P == Pairs(T.dict)
<1>1. TableType(T) /\ Mapped(T) /\ OneEach(T.dict) /\ T.dict \in Dirs(Inums)
  BY DictIs DEF TableKept
<1>2. \A p \in P : \E at \in Entries(T.dict) : p[1] = At(T.dict, at).name /\ p[2] = At(T.dict, at).inum
  BY DEF Pairs
<1>3. \A at \in Entries(T.dict) : <<At(T.dict, at).name, At(T.dict, at).inum>> \in P
  BY DEF Pairs
<1>4. P \subseteq Name \X Atom
  <2> SUFFICES ASSUME NEW at \in Entries(T.dict)
               PROVE  At(T.dict, at).name \in Name /\ At(T.dict, at).inum \in Atom
    BY DEF Pairs
  <2>1. at[1] \in DOMAIN T.dict /\ at[2] \in DOMAIN T.dict[at[1]]
    BY EntryIs
  <2>2. T.dict[at[1]] \in DirBlocks(Inums)
    BY <1>1, <2>1, DirBlock
  <2>3. T.dict[at[1]][at[2]].name \in Name \cup {NoName}
    BY <2>1, <2>2, BlockType
  <2>4. At(T.dict, at).name # NoName
    BY DEF Entries, is_deleted
  <2> QED
    BY <1>1, <2>3, <2>4 DEF At, Mapped
<1>5. ASSUME NEW p \in P, NEW q \in P PROVE p[1] = q[1] <=> p[2] = q[2]
  <2>1. PICK x \in Entries(T.dict) : p[1] = At(T.dict, x).name /\ p[2] = At(T.dict, x).inum
    BY <1>2
  <2>2. PICK y \in Entries(T.dict) : q[1] = At(T.dict, y).name /\ q[2] = At(T.dict, y).inum
    BY <1>2
  <2>3. p[1] = q[1] => x = y
    BY <1>1, <2>1, <2>2 DEF OneEach
  <2>4. p[2] = q[2] => x = y
    BY <1>1, <2>1, <2>2, AtomOnce
  <2> QED
    BY <2>1, <2>2, <2>3, <2>4
<1>6. ASSUME NEW a PROVE a \in Taken(T) <=> \E p \in P : p[2] = a
  BY <1>2, <1>3 DEF Taken
<1>7. ASSUME NEW n \in Name PROVE HasAtom(T, n) <=> \E p \in P : p[1] = n
  <2>1. HasAtom(T, n) <=> \E at \in Entries(T.dict) : At(T.dict, at).name = n
    BY <1>1, AtomFound
  <2> QED
    BY <1>2, <1>3, <2>1
<1>8. ASSUME NEW n \in Name, HasAtom(T, n) PROVE <<n, find_atom(T, n)>> \in P
  <2>1. PICK at \in Entries(T.dict) : At(T.dict, at).name = n /\ At(T.dict, at).inum = find_atom(T, n)
    BY <1>1, <1>8, AtomFound
  <2> QED
    BY <1>3, <2>1
<1> QED
  BY <1>4, <1>5, <1>6, <1>7, <1>8 DEF OneToOne

(* An entry more is a pair more.                                           *)
LEMMA PairsMore ==
  ASSUME NEW dict, NEW new, NEW n, NEW a, OneName(dict, new, n, a)
  PROVE  Pairs(new) = Pairs(dict) \cup {<<n, a>>}
<1>1. PICK w : Adds(dict, new, w, n, a)
  BY DEF OneName
<1>2. \A at \in Entries(dict) : at \in Entries(new) /\ At(new, at).name = At(dict, at).name
                             /\ At(new, at).inum = At(dict, at).inum
  BY <1>1 DEF Adds, SameEntry
<1>3. \A at \in Entries(new) : at \in Entries(dict) \/ at = w
  BY <1>1 DEF Adds
<1>4. w \in Entries(new) /\ At(new, w).name = n /\ At(new, w).inum = a
  BY <1>1 DEF Adds
<1> QED
  BY <1>2, <1>3, <1>4 DEF Pairs

(* An entry less is a pair less.                                           *)
LEMMA PairsLess ==
  ASSUME NEW T, NEW astray, TableKept(T, astray), NEW new, NEW a, OneGone(T.dict, new, a)
  PROVE  Pairs(new) = {p \in Pairs(T.dict) : p[2] # a}
<1>1. Mapped(T)
  BY DEF TableKept
<1>2. PICK w \in Entries(T.dict) : At(T.dict, w).inum = a /\ Removes(T.dict, new, w)
  BY DEF OneGone
<1>3. ASSUME NEW at \in Entries(new)
      PROVE  /\ at \in Entries(T.dict) /\ at # w
             /\ At(new, at).name = At(T.dict, at).name /\ At(new, at).inum = At(T.dict, at).inum
  BY <1>2 DEF Removes, SameEntry
<1>4. ASSUME NEW at \in Entries(T.dict) PROVE at \in Entries(new) <=> At(T.dict, at).inum # a
  BY <1>1, <1>2, AtomOnce DEF Removes
<1>5. ASSUME NEW p \in Pairs(new) PROVE p \in Pairs(T.dict) /\ p[2] # a
  <2>1. PICK at \in Entries(new) : p = <<At(new, at).name, At(new, at).inum>>
    BY DEF Pairs
  <2> QED
    BY <1>3, <1>4, <2>1 DEF Pairs
<1>6. ASSUME NEW p \in Pairs(T.dict), p[2] # a PROVE p \in Pairs(new)
  <2>1. PICK at \in Entries(T.dict) : p = <<At(T.dict, at).name, At(T.dict, at).inum>>
    BY DEF Pairs
  <2>2. at \in Entries(new)
    BY <1>4, <1>6, <2>1
  <2> QED
    BY <1>3, <2>1, <2>2 DEF Pairs
<1> QED
  BY <1>5, <1>6

(* A new name with a new atom.                                             *)
LEMMA ReadMore ==
  ASSUME NEW P, NEW x, NEW h, ReadsIn(P, x, h), NEW n \in Name, NEW a,
         \A p \in P : p[1] # n /\ p[2] # a
  PROVE  ReadsIn(P \cup {<<n, a>>}, x, h)
<1> DEFINE Q == P \cup {<<n, a>>}
<1>1. h[n] = NoValue /\ NoValue \notin Value
  BY XattrAssumption DEF ReadsIn
<1>2. \A v : ~HasValue(x, a, v)
  BY DEF ReadsIn, HasValue
<1>3. \A p \in Q : p \in P \/ (p[1] = n /\ p[2] = a)
  OBVIOUS
<1>4. P \subseteq Q
  OBVIOUS
<1> HIDE DEF Q
<1> QED
  BY <1>1, <1>2, <1>3, <1>4 DEF ReadsIn, Q

(* A name without its atom, which nothing holds.                           *)
LEMMA ReadLess ==
  ASSUME NEW P, NEW x, NEW h, ReadsIn(P, x, h), NEW a, ~HasAtomIn(x, a)
  PROVE  ReadsIn({p \in P : p[2] # a}, x, h)
<1> DEFINE Q == {p \in P : p[2] # a}
<1>1. \A p \in Q : p \in P
  OBVIOUS
<1>2. \A p \in P : p \in Q \/ p[2] = a
  OBVIOUS
<1> HIDE DEF Q
<1>3. \A v : ~HasValue(x, a, v)
  BY DEF HasValue, HasAtomIn
<1>4. h \in Values
  BY DEF ReadsIn
<1>5. ASSUME NEW n \in Name, \A p \in Q : p[1] # n PROVE h[n] = NoValue
  <2>1. CASE \E p \in P : p[1] = n
    <3>1. PICK p \in P : p[1] = n
      BY <2>1
    <3>2. p[2] = a
      BY <1>2, <1>5, <3>1
    <3>3. h[n] \notin Value
      BY <1>3, <3>1, <3>2 DEF ReadsIn
    <3> QED
      BY <1>4, <3>3 DEF Values
  <2>2. CASE ~\E p \in P : p[1] = n
    BY <2>2 DEF ReadsIn
  <2> QED
    BY <2>1, <2>2
<1>6. ASSUME NEW k \in DOMAIN x PROVE \E p \in Q : p[2] = x[k].atom
  <2>1. PICK p \in P : p[2] = x[k].atom
    BY DEF ReadsIn
  <2>2. p[2] # a
    BY <2>1 DEF HasAtomIn
  <2> QED
    BY <1>2, <2>1, <2>2
<1>7. \A p \in Q : \A v \in Value : h[p[1]] = v <=> HasValue(x, p[2], v)
  BY <1>1 DEF ReadsIn
<1> QED
  BY <1>4, <1>5, <1>6, <1>7 DEF ReadsIn, Q

(* One name is given a value or none.                                      *)
LEMMA ReadSet ==
  ASSUME NEW P, OneToOne(P), NEW x, NEW h, ReadsIn(P, x, h), NEW n, NEW a, <<n, a>> \in P,
         NEW w \in Value \cup {NoValue}, NEW y, SameBut(x, y, a),
         Gives(y, a, w), NEW g, g = [h EXCEPT ![n] = w]
  PROVE  ReadsIn(P, y, g)
<1>1. h \in Values /\ n \in Name
  BY DEF ReadsIn, OneToOne
<1>2. g \in Values /\ g[n] = w /\ \A m \in Name : m # n => g[m] = h[m]
  BY <1>1 DEF Values
<1>3. ASSUME NEW p \in P, NEW v \in Value PROVE g[p[1]] = v <=> HasValue(y, p[2], v)
  <2>1. p[1] = n <=> p[2] = a
    BY DEF OneToOne
  <2>2. p[1] \in Name
    BY DEF OneToOne
  <2>3. CASE p[1] = n
    BY <1>2, <2>1, <2>3 DEF Gives
  <2>4. CASE p[1] # n
    BY <1>2, <2>1, <2>2, <2>4 DEF ReadsIn, SameBut
  <2> QED
    BY <2>3, <2>4
<1>4. ASSUME NEW m \in Name, \A p \in P : p[1] # m PROVE g[m] = NoValue
  <2>1. m # n
    BY <1>4
  <2> QED
    BY <1>2, <1>4, <2>1 DEF ReadsIn
<1>5. ASSUME NEW k \in DOMAIN y PROVE \E p \in P : p[2] = y[k].atom
  <2>1. CASE y[k].atom = a
    BY <2>1
  <2>2. CASE y[k].atom # a
    <3>1. HasValue(y, y[k].atom, y[k].value)
      BY DEF HasValue
    <3>2. HasValue(x, y[k].atom, y[k].value)
      BY <2>2, <3>1 DEF SameBut
    <3>3. PICK j \in DOMAIN x : x[j].atom = y[k].atom
      BY <3>2 DEF HasValue
    <3> QED
      BY <3>3 DEF ReadsIn
  <2> QED
    BY <2>1, <2>2
<1> QED
  BY <1>2, <1>3, <1>4, <1>5 DEF ReadsIn

(* An inode without attributes.                                            *)
LEMMA ReadNone ==
  ASSUME NEW P, OneToOne(P)
  PROVE  ReadsIn(P, <<>>, [n \in Name |-> NoValue])
<1> DEFINE h == [n \in Name |-> NoValue]
<1>1. h \in Values /\ \A n \in Name : h[n] = NoValue
  BY DEF Values
<1> HIDE DEF h
<1>2. \A a, v : ~HasValue(<<>>, a, v)
  BY DEF HasValue
<1>3. \A p \in P : p[1] \in Name
  BY DEF OneToOne
<1> QED
  BY <1>1, <1>2, <1>3, XattrAssumption DEF ReadsIn, h

-----------------------------------------------------------------------------
(***************************************************************************)
(* Attributes and references through every operation, as long as an atom   *)
(* fits in the field that an attribute has for it.                         *)
(***************************************************************************)
AllRead(P, xs, hs) == \A i \in Inode : Once(xs[i]) /\ ReadsIn(P, xs[i], hs[i])

(* The state of a table and of lists.                                      *)
Right(T, xs, hs, l, s) ==
  /\ TableKept(T, s) /\ xs \in Lists /\ hs \in [Inode -> Values]
  /\ AllRead(Pairs(T.dict), xs, hs) /\ Counted(T, xs, l) /\ LostOK(l, s)

(* A list that has the same values under an atom has it as often.          *)
LEMMA SameBits ==
  ASSUME NEW x, NEW y, NEW a, SameBut(x, y, a), NEW b, b # a
  PROVE  Bit(y, b) = Bit(x, b)
<1>1. \A z : HasAtomIn(z, b) <=> \E v : HasValue(z, b, v)
  BY DEF HasAtomIn, HasValue
<1> QED
  BY <1>1 DEF SameBut, Bit

(* Uses are few enough for a count.                                        *)
LEMMA UsesBound ==
  ASSUME NEW xs, NEW l, NEW s, LostOK(l, s), NEW a
  PROVE  Uses(xs, l, a) \in 0..(HalfRange * HalfRange - 1) /\ (Uses(xs, l, a) = 0 => Holders(xs, a) = {})
<1> DEFINE H == Holders(xs, a)
           L == LostBy(l, a)
<1>1. l \in Seq(Atom) /\ Cardinality(s) \in Nat /\ Len(l) \in Nat /\ Len(l) <= MaxLost
  <2>1. l \in Seq(Atom) /\ Cardinality(s) \in Nat /\ Cardinality(s) + Len(l) <= MaxLost
    BY FS_CardinalityType DEF LostOK
  <2>2. Len(l) \in Nat /\ MaxLost \in Nat
    BY <2>1, XattrAssumption
  <2> QED
    BY <2>1, <2>2
<1>2. H \in SUBSET Inode /\ IsFiniteSet(Inode)
  BY XattrAssumption DEF Holders
<1>3. Cardinality(H) \in Nat /\ Cardinality(H) <= Cardinality(Inode) /\ Cardinality(Inode) \in Nat /\ IsFiniteSet(H)
  BY <1>2, FS_Subset, FS_CardinalityType
<1>4. Cardinality(L) \in Nat /\ Cardinality(L) <= Len(l)
  BY <1>1, LostCount
<1>5. Uses(xs, l, a) = Cardinality(H) + Cardinality(L)
  BY DEF Uses
<1> HIDE DEF H, L
<1>6. Cardinality(H) = 0 => H = {}
  BY <1>3, FS_EmptySet
<1>7. HalfRange * HalfRange \in Nat /\ Cardinality(Inode) + MaxLost < HalfRange * HalfRange /\ MaxLost \in Nat
  BY XattrAssumption
<1> QED
  BY <1>1, <1>3, <1>4, <1>5, <1>6, <1>7 DEF H

(* How the uses change with one list.                                      *)
LEMMA UsesMove ==
  ASSUME NEW xs, NEW ys, NEW i \in Inode, ListMoved(xs, ys, i), NEW l \in Seq(Atom), NEW m \in Seq(Atom), NEW a,
         NEW d \in Int, Cardinality(LostBy(m, a)) = Cardinality(LostBy(l, a)) + d
  PROVE  Uses(ys, m, a) = Uses(xs, l, a) + Bit(ys[i], a) - Bit(xs[i], a) + d /\ Uses(xs, l, a) \in Nat
<1>1. /\ Cardinality(Holders(xs, a)) \in Nat
      /\ Cardinality(Holders(ys, a)) = Cardinality(Holders(xs, a)) + Bit(ys[i], a) - Bit(xs[i], a)
  BY HoldersMove
<1>2. Cardinality(LostBy(l, a)) \in Nat
  BY LostCount
<1>3. Bit(ys[i], a) \in Int /\ Bit(xs[i], a) \in Int
  BY DEF Bit
<1> QED
  BY <1>1, <1>2, <1>3 DEF Uses

(* A table in which a name has its atom.                                   *)
LEMMA Made ==
  ASSUME NEW T, NEW xs, NEW hs, NEW l, NEW s, Right(T, xs, hs, l, s), NEW n \in Name,
         HasAtom(T, n) \/ FreeAtom(T) \in Atom, NEW M, M = make_atom(T, n)
  PROVE  Right(M.table, xs, hs, l, s) /\ M.atom \in Atom /\ <<n, M.atom>> \in Pairs(M.table.dict)
<1> DEFINE R == M.table
           a == M.atom
           P == Pairs(T.dict)
<1>1. TableKept(T, s) /\ AllRead(P, xs, hs) /\ Counted(T, xs, l)
  BY DEF Right
<1>2. /\ TableKept(R, s) /\ R.low = T.low /\ R.high = T.high /\ a \in Atom /\ NameOf(R.dict, n, a)
      /\ R.dict = T.dict \/ (~HasAtom(T, n) /\ a \notin Taken(T) /\ OneName(T.dict, R.dict, n, a))
  BY <1>1, MakeParts
<1>3. <<n, a>> \in Pairs(R.dict)
  BY <1>2 DEF NameOf, Pairs
<1> HIDE DEF R, a
<1>4. Counted(R, xs, l)
  BY <1>1, <1>2 DEF Counted, Count
<1>5. AllRead(Pairs(R.dict), xs, hs)
  <2>1. CASE R.dict = T.dict
    BY <1>1, <2>1
  <2>2. CASE ~HasAtom(T, n) /\ a \notin Taken(T) /\ OneName(T.dict, R.dict, n, a)
    <3>1. \A p \in P : p[1] # n /\ p[2] # a
      BY <1>1, <2>2, PairsAre
    <3>2. Pairs(R.dict) = P \cup {<<n, a>>}
      BY <2>2, PairsMore
    <3> HIDE DEF P
    <3>3. ASSUME NEW i \in Inode PROVE Once(xs[i]) /\ ReadsIn(P \cup {<<n, a>>}, xs[i], hs[i])
      <4>1. PICK x, h : x = xs[i] /\ h = hs[i]
        OBVIOUS
      <4>2. Once(x) /\ ReadsIn(P, x, h)
        BY <1>1, <4>1 DEF AllRead
      <4>3. ReadsIn(P \cup {<<n, a>>}, x, h)
        BY <3>1, <4>2, ReadMore
      <4> QED
        BY <4>1, <4>2, <4>3
    <3> QED
      BY <3>2, <3>3 DEF AllRead
  <2> QED
    BY <1>2, <2>1, <2>2
<1> QED
  BY <1>2, <1>3, <1>4, <1>5 DEF Right, R, a

(* An attribute of one inode is set, and the list of one inode replaced.   *)
IsSet(hs, gs, i, n, w) == gs = [hs EXCEPT ![i][n] = w]

IsPut(xs, ys, i, y) == ys = [xs EXCEPT ![i] = y]

(* One name of one inode is given a value or none.                         *)
LEMMA Given ==
  ASSUME NEW P, OneToOne(P), NEW xs \in Lists, NEW hs \in [Inode -> Values], AllRead(P, xs, hs),
         NEW i \in Inode, NEW n, NEW a, <<n, a>> \in P, NEW w \in Value \cup {NoValue},
         NEW y \in Seq(Attr), Once(y), SameBut(xs[i], y, a), Gives(y, a, w),
         NEW ys, IsPut(xs, ys, i, y), NEW gs, IsSet(hs, gs, i, n, w)
  PROVE  /\ ys \in Lists /\ gs \in [Inode -> Values] /\ AllRead(P, ys, gs)
         /\ ys[i] = y /\ ListMoved(xs, ys, i)
<1>1. ys \in Lists /\ ys[i] = y /\ \A j \in Inode : j # i => ys[j] = xs[j]
  BY DEF Lists, IsPut
<1>2. PICK g : g = [hs[i] EXCEPT ![n] = w]
  OBVIOUS
<1>3. gs = [hs EXCEPT ![i] = g]
  BY <1>2 DEF IsSet
<1>4. ReadsIn(P, y, g)
  <2>1. ReadsIn(P, xs[i], hs[i])
    BY DEF AllRead
  <2>2. PICK x, h : x = xs[i] /\ h = hs[i]
    OBVIOUS
  <2>3. ReadsIn(P, x, h) /\ SameBut(x, y, a) /\ g = [h EXCEPT ![n] = w]
    BY <1>2, <2>1, <2>2
  <2> QED
    BY <2>3, ReadSet
<1>5. g \in Values
  BY <1>4 DEF ReadsIn
<1>6. gs \in [Inode -> Values] /\ gs[i] = g /\ \A j \in Inode : j # i => gs[j] = hs[j]
  BY <1>3, <1>5
<1>7. AllRead(P, ys, gs)
  <2> SUFFICES ASSUME NEW j \in Inode PROVE Once(ys[j]) /\ ReadsIn(P, ys[j], gs[j])
    BY DEF AllRead
  <2>1. CASE j = i
    BY <1>1, <1>4, <1>6, <2>1
  <2>2. CASE j # i
    BY <1>1, <1>6, <2>2 DEF AllRead
  <2> QED
    BY <2>1, <2>2
<1> QED
  BY <1>1, <1>6, <1>7 DEF ListMoved

(* use_atom after the list has changed.                                    *)
LEMMA Used ==
  ASSUME NEW T, NEW s, TableKept(T, s), NEW xs \in Lists, NEW hs \in [Inode -> Values],
         AllRead(Pairs(T.dict), xs, hs), NEW l, LostOK(l, s), NEW a \in Taken(T), NEW use \in {1, -1},
         \A b \in Atom : b # a => Count(T, b) = Uses(xs, l, b), Count(T, a) + use = Uses(xs, l, a),
         NEW G, G = use_atom(T, a, use)
  PROVE  Right(G, xs, hs, l, s)
<1>1. Count(T, a) + use \in 0..(HalfRange * HalfRange - 1) /\ (Uses(xs, l, a) = 0 => Holders(xs, a) = {})
  BY UsesBound
<1>2. /\ TableKept(G, s) /\ a \in Atom
      /\ \A b \in Atom : b # a => G.low[b] = T.low[b] /\ G.high[b] = T.high[b]
      /\ Count(G, a) = Count(T, a) + use
      /\ IF Count(G, a) = 0 THEN OneGone(T.dict, G.dict, a) ELSE G.dict = T.dict
  BY <1>1, UseParts
<1>3. Counted(G, xs, l)
  BY <1>2 DEF Counted, Count
<1>4. AllRead(Pairs(G.dict), xs, hs)
  <2>1. CASE Count(G, a) = 0
    <3>1. \A i \in Inode : ~HasAtomIn(xs[i], a)
      BY <1>1, <1>2, <2>1 DEF Holders
    <3>2. Pairs(G.dict) = {p \in Pairs(T.dict) : p[2] # a}
      <4>1. PICK new : new = G.dict
        OBVIOUS
      <4>2. OneGone(T.dict, new, a)
        BY <1>2, <2>1, <4>1
      <4>3. Pairs(new) = {p \in Pairs(T.dict) : p[2] # a}
        BY <4>2, PairsLess
      <4> QED
        BY <4>1, <4>3
    <3> QED
      BY <3>1, <3>2, ReadLess DEF AllRead
  <2>2. CASE Count(G, a) # 0
    BY <1>2, <2>2
  <2> QED
    BY <2>1, <2>2
<1> QED
  BY <1>2, <1>3, <1>4 DEF Right

References == Right(atable, xcache, attrs, lost, stray)

(* At the beginning there is nothing to read and nothing is counted.       *)
LEMMA InitReferences ==
  ASSUME Init
  PROVE  References
<1>1. /\ atable.dict = <<>> /\ atable.low = [a \in Atom |-> 0] /\ atable.high = [a \in Atom |-> 0]
      /\ xcache = [i \in Inode |-> <<>>] /\ lost = <<>> /\ stray = {}
      /\ attrs = [i \in Inode |-> [n \in Name |-> NoValue]]
  BY DEF Init, A!Init
<1>2. Sound
  BY InitTable
<1>3. OneToOne(Pairs(atable.dict))
  BY <1>2, PairsAre DEF Sound
<1>4. attrs \in [Inode -> Values]
  BY <1>1 DEF Values
<1>5. ASSUME NEW i \in Inode PROVE Once(xcache[i]) /\ ReadsIn(Pairs(atable.dict), xcache[i], attrs[i])
  <2>1. xcache[i] = <<>> /\ attrs[i] = [n \in Name |-> NoValue]
    BY <1>1
  <2>2. Once(<<>>)
    BY DEF Once
  <2> QED
    BY <1>3, <2>1, <2>2, ReadNone
<1>6. LostOK(lost, stray)
  BY <1>1, FS_EmptySet, XattrAssumption DEF LostOK
<1>7. ASSUME NEW a \in Atom PROVE Count(atable, a) = Uses(xcache, lost, a)
  <2>1. Holders(xcache, a) = {} /\ LostBy(lost, a) = {}
    BY <1>1 DEF Holders, HasAtomIn, LostBy
  <2>2. Uses(xcache, lost, a) = 0
    BY <2>1, FS_EmptySet DEF Uses
  <2> QED
    BY <1>1, <2>2, XattrAssumption DEF Count
<1> QED
  BY <1>2, <1>4, <1>5, <1>6, <1>7 DEF References, Right, Sound, AllRead, Counted

(* set_xattr gives the inode the attribute, and the atom a reference when  *)
(* there was none to replace.                                              *)
LEMMA SetKept ==
  ASSUME References, NEW n \in Name, NEW i \in Inode, set_xattr(i, n), atable'.atomgen <= AtomRange
  PROVE  References'
<1>1. PICK M : M = make_atom(atable, n)
  OBVIOUS
<1> DEFINE T == M.table
           a == M.atom
           x == xcache[i]
<1>2. (HasAtom(atable, n) \/ FreeAtom(atable) \in Atom) /\ lost' = lost /\ stray' = stray
  BY DEF set_xattr, AtomLeft
<1>3. atable' = IF NewUse(i, a) = 0 THEN T ELSE use_atom(T, a, NewUse(i, a))
  BY <1>1 DEF set_xattr
<1>4. PICK v \in Value :
        /\ xcache' = [xcache EXCEPT ![i] = Append(remove_old(i, a), [atom |-> a % AtomRange, value |-> v])]
        /\ attrs' = [attrs EXCEPT ![i][n] = v]
  BY <1>1 DEF set_xattr, A!Set
<1>5. Right(T, xcache, attrs, lost, stray) /\ a \in Atom /\ <<n, a>> \in Pairs(T.dict)
  BY <1>1, <1>2, Made DEF References
<1> HIDE DEF T, a
<1>6. /\ TableKept(T, stray) /\ xcache \in Lists /\ attrs \in [Inode -> Values] /\ x \in Seq(Attr) /\ Once(x)
      /\ AllRead(Pairs(T.dict), xcache, attrs) /\ Counted(T, xcache, lost) /\ LostOK(lost, stray)
      /\ lost \in Seq(Atom)
  BY <1>5 DEF Right, AllRead, Lists, LostOK
<1>7. OneToOne(Pairs(T.dict)) /\ a \in Taken(T)
  BY <1>5, <1>6, PairsAre
<1>8. PICK y : y = remove_old(i, a)
  OBVIOUS
<1>9. y \in Seq(Attr) /\ Once(y) /\ ~HasAtomIn(y, a) /\ SameBut(x, y, a)
  BY <1>6, <1>8, RemoveOldParts
<1>10. PICK e, z : e = [atom |-> a, value |-> v] /\ z = Append(y, e)
  OBVIOUS
<1>11. e \in Attr /\ e.atom = a /\ e.value = v /\ xcache' = [xcache EXCEPT ![i] = z]
  <2>1. a % AtomRange = a /\ a % AtomRange \in 0..(AtomRange - 1)
    <3>1. IsTable(T) /\ T.atomgen \in Nat
      BY <1>6, XattrAssumption DEF TableKept, TableType
    <3>2. atable'.atomgen = T.atomgen
      BY <1>3, <3>1, GenParts
    <3>3. a \in 1..(T.atomgen - 1)
      BY <1>6, <1>7 DEF TableKept, FreeOK, Apart
    <3>4. AtomRange \in Nat /\ a < AtomRange
      BY <3>1, <3>2, <3>3, XattrAssumption
    <3> QED
      BY <1>5, <3>4, AtomMod
  <2> QED
    BY <1>4, <1>8, <1>10, <2>1 DEF Attr
<1>12. z \in Seq(Attr) /\ Once(z) /\ HasAtomIn(z, a) /\ SameBut(y, z, a) /\ Gives(z, a, v)
  BY <1>9, <1>10, <1>11, AppendParts
<1>13. SameBut(x, z, a)
  BY <1>9, <1>12 DEF SameBut
<1>14. /\ xcache' \in Lists /\ attrs' \in [Inode -> Values] /\ AllRead(Pairs(T.dict), xcache', attrs')
       /\ xcache'[i] = z /\ ListMoved(xcache, xcache', i)
  <2>1. PICK xs, hs, ys, gs : xs = xcache /\ hs = attrs /\ ys = xcache' /\ gs = attrs'
    OBVIOUS
  <2>2. /\ xs \in Lists /\ hs \in [Inode -> Values] /\ AllRead(Pairs(T.dict), xs, hs) /\ SameBut(xs[i], z, a)
        /\ IsPut(xs, ys, i, z) /\ IsSet(hs, gs, i, n, v) /\ v \in Value \cup {NoValue}
    BY <1>4, <1>6, <1>11, <1>13, <2>1 DEF IsPut, IsSet
  <2>3. /\ ys \in Lists /\ gs \in [Inode -> Values] /\ AllRead(Pairs(T.dict), ys, gs)
        /\ ys[i] = z /\ ListMoved(xs, ys, i)
    <3>1. OneToOne(Pairs(T.dict)) /\ <<n, a>> \in Pairs(T.dict) /\ z \in Seq(Attr) /\ Once(z) /\ Gives(z, a, v)
      BY <1>5, <1>7, <1>12
    <3> QED
      BY <2>2, <3>1, Given
  <2> QED
    BY <2>1, <2>3
<1>15. ASSUME NEW b PROVE Uses(xcache', lost, b) = Uses(xcache, lost, b) + Bit(z, b) - Bit(x, b) /\ Uses(xcache, lost, b) \in Nat
  <2>1. Cardinality(LostBy(lost, b)) = Cardinality(LostBy(lost, b)) + 0
    BY <1>6, LostCount
  <2>2. /\ Uses(xcache', lost, b) = Uses(xcache, lost, b) + Bit(xcache'[i], b) - Bit(xcache[i], b) + 0
        /\ Uses(xcache, lost, b) \in Nat
    BY <1>6, <1>14, <2>1, UsesMove
  <2>3. Bit(z, b) \in Int /\ Bit(x, b) \in Int
    BY DEF Bit
  <2> QED
    BY <1>14, <2>2, <2>3
<1>16. ASSUME NEW b \in Atom, b # a PROVE Count(T, b) = Uses(xcache', lost, b)
  <2>1. Bit(z, b) = Bit(x, b) /\ Bit(x, b) \in Int
    BY <1>13, <1>16, SameBits DEF Bit
  <2>2. Count(T, b) = Uses(xcache, lost, b)
    BY <1>6 DEF Counted
  <2> QED
    BY <1>15, <2>1, <2>2
<1>17. Count(T, a) = Uses(xcache, lost, a) /\ Bit(z, a) = 1 /\ NewUse(i, a) = 1 - Bit(x, a)
       /\ (NewUse(i, a) = 0 \/ NewUse(i, a) = 1)
  BY <1>5, <1>6, <1>12 DEF Counted, Bit, NewUse, Holds, HasAtomIn
<1>18. Count(T, a) + NewUse(i, a) = Uses(xcache', lost, a)
  <2>1. Bit(x, a) \in Int
    BY DEF Bit
  <2> QED
    BY <1>15, <1>17, <2>1
<1>19. CASE NewUse(i, a) = 0
  <2>1. atable' = T /\ Counted(T, xcache', lost)
    <3>1. Count(T, a) = Uses(xcache', lost, a)
      BY <1>15, <1>17, <1>18, <1>19
    <3> QED
      BY <1>3, <1>16, <1>19, <3>1 DEF Counted
  <2> QED
    BY <1>2, <1>6, <1>14, <2>1 DEF References, Right
<1>20. CASE NewUse(i, a) = 1
  <2>1. PICK G : G = use_atom(T, a, 1)
    OBVIOUS
  <2>2. atable' = G
    BY <1>3, <1>20, <2>1
  <2>3. Count(T, a) + 1 = Uses(xcache', lost, a) /\ 1 \in {1, -1}
    BY <1>18, <1>20
  <2>4. Right(G, xcache', attrs', lost, stray)
    BY <1>6, <1>7, <1>14, <1>16, <2>1, <2>3, Used
  <2> QED
    BY <1>2, <2>2, <2>4 DEF References
<1> QED
  BY <1>17, <1>19, <1>20

(* An attribute is taken out of a list, and its name reads as none.        *)
LEMMA Cleared ==
  ASSUME NEW T, Right(T, xcache, attrs, lost, stray), NEW i \in Inode, NEW n, NEW a, <<n, a>> \in Pairs(T.dict),
         NEW ys, IsPut(xcache, ys, i, remove_old(i, a)), NEW gs, IsSet(attrs, gs, i, n, NoValue)
  PROVE  /\ ys \in Lists /\ gs \in [Inode -> Values] /\ AllRead(Pairs(T.dict), ys, gs)
         /\ ListMoved(xcache, ys, i) /\ Bit(ys[i], a) = 0
         /\ \A b : b # a => Bit(ys[i], b) = Bit(xcache[i], b)
<1>1. PICK y, xs, hs : y = remove_old(i, a) /\ xs = xcache /\ hs = attrs
  OBVIOUS
<1>2. /\ TableKept(T, stray) /\ xs \in Lists /\ hs \in [Inode -> Values] /\ AllRead(Pairs(T.dict), xs, hs)
      /\ xcache \in Lists /\ Once(xcache[i])
  BY <1>1 DEF Right, AllRead
<1>3. OneToOne(Pairs(T.dict))
  BY <1>2, PairsAre
<1>4. y \in Seq(Attr) /\ Once(y) /\ ~HasAtomIn(y, a) /\ SameBut(xs[i], y, a)
  BY <1>1, <1>2, RemoveOldParts
<1>5. Gives(y, a, NoValue)
  BY <1>4, XattrAssumption DEF Gives, HasValue, HasAtomIn
<1>6. IsPut(xs, ys, i, y) /\ IsSet(hs, gs, i, n, NoValue) /\ NoValue \in Value \cup {NoValue}
  BY <1>1
<1>7. ys \in Lists /\ gs \in [Inode -> Values] /\ AllRead(Pairs(T.dict), ys, gs) /\ ys[i] = y /\ ListMoved(xs, ys, i)
  <2>1. PICK w \in Value \cup {NoValue} : w = NoValue
    BY <1>6
  <2>2. Gives(y, a, w) /\ IsSet(hs, gs, i, n, w)
    BY <1>5, <1>6, <2>1
  <2> QED
    BY <1>2, <1>3, <1>4, <1>6, <2>2, Given
<1>8. Bit(y, a) = 0 /\ \A b : b # a => Bit(y, b) = Bit(xs[i], b)
  BY <1>4, SameBits DEF Bit
<1> QED
  BY <1>1, <1>7, <1>8

(* The attribute of a name is gone and its reference lost.                 *)
LosesOld(i, n) ==
  /\ Lost < MaxLost /\ AtomLeft(n)
  /\ \E M \in {make_atom(atable, n)} :
       /\ atable' = M.table
       /\ xcache' = [xcache EXCEPT ![i] = remove_old(i, M.atom)]
       /\ lost' = IF Holds(i, M.atom) THEN Append(lost, M.atom) ELSE lost
  /\ A!Remove(i, n)
  /\ UNCHANGED stray

(* So it is when set_xattr finds no memory for the new attribute, and when *)
(* del_xattr cannot read the count.                                        *)
LEMMA LosesKept ==
  ASSUME References, NEW n \in Name, NEW i \in Inode, LosesOld(i, n)
  PROVE  References'
<1>1. PICK M : M = make_atom(atable, n)
  OBVIOUS
<1> DEFINE T == M.table
           a == M.atom
           x == xcache[i]
<1>2. /\ HasAtom(atable, n) \/ FreeAtom(atable) \in Atom
      /\ atable' = T /\ stray' = stray /\ Lost < MaxLost
      /\ IsPut(xcache, xcache', i, remove_old(i, a)) /\ IsSet(attrs, attrs', i, n, NoValue)
      /\ lost' = IF Holds(i, a) THEN Append(lost, a) ELSE lost
  BY <1>1 DEF LosesOld, AtomLeft, IsPut, IsSet, A!Remove, A!Set
<1>3. Right(T, xcache, attrs, lost, stray) /\ a \in Atom /\ <<n, a>> \in Pairs(T.dict)
  BY <1>1, <1>2, Made DEF References
<1> HIDE DEF T, a
<1>4. TableKept(T, stray) /\ Counted(T, xcache, lost) /\ LostOK(lost, stray) /\ lost \in Seq(Atom)
  BY <1>3 DEF Right, LostOK
<1>5. PICK ys, gs : ys = xcache' /\ gs = attrs'
  OBVIOUS
<1>6. /\ ys \in Lists /\ gs \in [Inode -> Values] /\ AllRead(Pairs(T.dict), ys, gs)
      /\ ListMoved(xcache, ys, i) /\ Bit(ys[i], a) = 0
      /\ \A b : b # a => Bit(ys[i], b) = Bit(xcache[i], b)
  <2>1. IsPut(xcache, ys, i, remove_old(i, a)) /\ IsSet(attrs, gs, i, n, NoValue)
    BY <1>2, <1>5
  <2> QED
    BY <1>3, <2>1, Cleared
<1> DEFINE d(b) == IF b = a /\ Holds(i, a) THEN 1 ELSE 0
<1>7. LostOK(lost', stray) /\ lost' \in Seq(Atom)
      /\ \A b : Cardinality(LostBy(lost', b)) = Cardinality(LostBy(lost, b)) + d(b)
  <2>1. CASE Holds(i, a)
    <3>1. PICK l, m : l = lost /\ m = Append(l, a)
      OBVIOUS
    <3>2. /\ m \in Seq(Atom) /\ Len(m) = Len(lost) + 1
          /\ \A b : Cardinality(LostBy(m, b)) = Cardinality(LostBy(lost, b)) + Same(b, a)
      <4>1. l \in Seq(Atom) /\ a \in Atom
        BY <1>3, <1>4, <3>1
      <4>2. ASSUME NEW b
            PROVE  /\ m \in Seq(Atom) /\ Len(m) = Len(l) + 1
                   /\ Cardinality(LostBy(m, b)) = Cardinality(LostBy(l, b)) + Same(b, a)
        BY <3>1, <4>1, LostOne, ZenonT(60)
      <4> QED
        BY <3>1, <4>2
    <3>3. Cardinality(stray) + Len(m) <= MaxLost
      <4>1. Cardinality(stray) \in Nat /\ Cardinality(stray) + Len(lost) < MaxLost
        BY <1>2, <1>4, FS_CardinalityType DEF Lost, LostOK
      <4>2. Len(lost) \in Nat /\ MaxLost \in Nat
        BY <1>4, XattrAssumption
      <4> QED
        BY <3>2, <4>1, <4>2
    <3> QED
      BY <1>2, <1>4, <2>1, <3>1, <3>2, <3>3 DEF LostOK, Same
  <2>2. CASE ~Holds(i, a)
    <3>1. lost' = lost /\ \A b : d(b) = 0
      BY <1>2, <2>2
    <3>2. \A b : Cardinality(LostBy(lost, b)) \in Nat
      BY <1>4, LostCount
    <3> QED
      BY <1>4, <3>1, <3>2
  <2> QED
    BY <2>1, <2>2
<1>8. Holds(i, a) <=> Bit(x, a) = 1
  BY DEF Holds, Bit, HasAtomIn
<1>9. ASSUME NEW b \in Atom PROVE Count(T, b) = Uses(ys, lost', b)
  <2>1. d(b) \in Int /\ Cardinality(LostBy(lost', b)) = Cardinality(LostBy(lost, b)) + d(b)
    BY <1>7
  <2>2. PICK e \in Int : e = d(b)
    BY <2>1
  <2>3. Uses(ys, lost', b) = Uses(xcache, lost, b) + Bit(ys[i], b) - Bit(x, b) + e /\ Uses(xcache, lost, b) \in Nat
    BY <1>4, <1>6, <1>7, <2>1, <2>2, UsesMove
  <2>4. Bit(ys[i], b) - Bit(x, b) + e = 0
    <3>1. Bit(x, b) = 0 \/ Bit(x, b) = 1
      BY DEF Bit
    <3>2. CASE b = a
      BY <1>6, <1>8, <2>2, <3>1, <3>2
    <3>3. CASE b # a
      BY <1>6, <2>2, <3>1, <3>3
    <3> QED
      BY <3>2, <3>3
  <2>5. Bit(ys[i], b) \in Int /\ Bit(x, b) \in Int
    BY DEF Bit
  <2>6. Count(T, b) = Uses(xcache, lost, b)
    BY <1>4 DEF Counted
  <2> HIDE DEF d, x
  <2> QED
    BY <2>2, <2>3, <2>4, <2>5, <2>6
<1> QED
  BY <1>2, <1>4, <1>5, <1>6, <1>7, <1>9 DEF References, Right, Counted

(* An attribute goes out of its list: the count is one too high.           *)
LEMMA Released ==
  ASSUME References, NEW n \in Name, NEW i \in Inode, HasAtom(atable, n), NEW a, a = find_atom(atable, n), Holds(i, a),
         NEW ys, IsPut(xcache, ys, i, remove_old(i, a)), NEW gs, IsSet(attrs, gs, i, n, NoValue)
  PROVE  /\ a \in Taken(atable) /\ a \in Atom
         /\ ys \in Lists /\ gs \in [Inode -> Values] /\ AllRead(Pairs(atable.dict), ys, gs)
         /\ \A b \in Atom : b # a => Count(atable, b) = Uses(ys, lost, b)
         /\ Count(atable, a) + (-1) = Uses(ys, lost, a)
<1>1. /\ Right(atable, xcache, attrs, lost, stray) /\ TableKept(atable, stray) /\ Counted(atable, xcache, lost)
      /\ LostOK(lost, stray) /\ lost \in Seq(Atom)
  BY DEF References, Right, LostOK
<1>2. <<n, a>> \in Pairs(atable.dict)
  BY <1>1, PairsAre
<1>3. a \in Taken(atable) /\ a \in Atom
  BY <1>1, <1>2, PairsAre DEF OneToOne
<1>4. /\ ys \in Lists /\ gs \in [Inode -> Values] /\ AllRead(Pairs(atable.dict), ys, gs)
      /\ ListMoved(xcache, ys, i) /\ Bit(ys[i], a) = 0
      /\ \A b : b # a => Bit(ys[i], b) = Bit(xcache[i], b)
  BY <1>1, <1>2, Cleared
<1>5. Bit(xcache[i], a) = 1
  BY DEF Holds, Bit, HasAtomIn
<1>6. ASSUME NEW b \in Atom
      PROVE  /\ Uses(ys, lost, b) = Count(atable, b) + Bit(ys[i], b) - Bit(xcache[i], b) /\ Count(atable, b) \in Nat
             /\ Bit(xcache[i], b) \in Int
  <2>1. Cardinality(LostBy(lost, b)) = Cardinality(LostBy(lost, b)) + 0
    BY <1>1, LostCount
  <2>2. /\ Uses(ys, lost, b) = Uses(xcache, lost, b) + Bit(ys[i], b) - Bit(xcache[i], b) + 0
        /\ Uses(xcache, lost, b) \in Nat
    BY <1>1, <1>4, <2>1, UsesMove
  <2>3. Bit(ys[i], b) \in Int /\ Bit(xcache[i], b) \in Int
    BY DEF Bit
  <2>4. Count(atable, b) = Uses(xcache, lost, b)
    BY <1>1 DEF Counted
  <2> QED
    BY <2>2, <2>3, <2>4
<1>7. \A b \in Atom : b # a => Count(atable, b) = Uses(ys, lost, b)
  BY <1>4, <1>6
<1>8. Count(atable, a) + (-1) = Uses(ys, lost, a)
  BY <1>3, <1>4, <1>5, <1>6
<1> QED
  BY <1>3, <1>4, <1>7, <1>8

(* del_xattr gives the reference back.                                     *)
LEMMA DelKept ==
  ASSUME References, NEW n \in Name, NEW i \in Inode, del_xattr(i, n)
  PROVE  References'
<1>1. PICK a : a = find_atom(atable, n)
  OBVIOUS
<1>2. /\ HasAtom(atable, n) /\ Holds(i, a) /\ atable' = use_atom(atable, a, -1)
      /\ stray' = stray /\ lost' = lost
      /\ IsPut(xcache, xcache', i, remove_old(i, a)) /\ IsSet(attrs, attrs', i, n, NoValue)
  BY <1>1 DEF del_xattr, IsPut, IsSet, A!Remove, A!Set
<1> DEFINE use == -1
<1>3. PICK ys, gs, G : ys = xcache' /\ gs = attrs' /\ G = atable'
  OBVIOUS
<1>4. /\ a \in Taken(atable)
      /\ ys \in Lists /\ gs \in [Inode -> Values] /\ AllRead(Pairs(atable.dict), ys, gs)
      /\ \A b \in Atom : b # a => Count(atable, b) = Uses(ys, lost, b)
      /\ Count(atable, a) + use = Uses(ys, lost, a)
  <2>1. IsPut(xcache, ys, i, remove_old(i, a)) /\ IsSet(attrs, gs, i, n, NoValue)
    BY <1>2, <1>3
  <2> QED
    BY <1>1, <1>2, <1>3, <2>1, Released
<1>5. TableKept(atable, stray) /\ LostOK(lost, stray)
  BY DEF References, Right
<1>6. G = use_atom(atable, a, use) /\ use \in {1, -1}
  BY <1>2, <1>3
<1> HIDE DEF use
<1>7. Right(G, ys, gs, lost, stray)
  BY <1>4, <1>5, <1>6, Used
<1> QED
  BY <1>2, <1>3, <1>7 DEF References

(* del_xattr gives it back in the low half, and the name stays.            *)
LEMMA UnkilledKept ==
  ASSUME References, NEW n \in Name, NEW i \in Inode, del_xattr_unkilled(i, n)
  PROVE  References'
<1>1. PICK a : a = find_atom(atable, n)
  OBVIOUS
<1>2. /\ HasAtom(atable, n) /\ Holds(i, a) /\ atable.low[a] = 1 /\ atable' = use_atom_half(atable, a, -1)
      /\ stray' = stray /\ lost' = lost
      /\ IsPut(xcache, xcache', i, remove_old(i, a)) /\ IsSet(attrs, attrs', i, n, NoValue)
  BY <1>1 DEF del_xattr_unkilled, IsPut, IsSet, A!Remove, A!Set
<1>3. PICK ys, gs, G : ys = xcache' /\ gs = attrs' /\ G = atable'
  OBVIOUS
<1>4. /\ a \in Taken(atable)
      /\ ys \in Lists /\ gs \in [Inode -> Values] /\ AllRead(Pairs(atable.dict), ys, gs)
      /\ \A b \in Atom : b # a => Count(atable, b) = Uses(ys, lost, b)
      /\ Count(atable, a) + (-1) = Uses(ys, lost, a)
  <2>1. IsPut(xcache, ys, i, remove_old(i, a)) /\ IsSet(attrs, gs, i, n, NoValue)
    BY <1>2, <1>3
  <2> QED
    BY <1>1, <1>2, <2>1, Released
<1>5. TableKept(atable, stray) /\ LostOK(lost, stray)
  BY DEF References, Right
<1>6. /\ TableKept(G, stray) /\ G.dict = atable.dict
      /\ \A b \in Atom : b # a => G.low[b] = atable.low[b] /\ G.high[b] = atable.high[b]
      /\ Count(G, a) = Count(atable, a) + (-1)
  BY <1>2, <1>3, <1>4, <1>5, HalfParts
<1>7. Counted(G, ys, lost)
  BY <1>4, <1>6 DEF Counted, Count
<1>8. Right(G, ys, gs, lost, stray)
  BY <1>4, <1>5, <1>6, <1>7 DEF Right
<1> QED
  BY <1>2, <1>3, <1>8 DEF References

(* The references of a deleted inode are lost.                             *)
LEMMA DropKept ==
  ASSUME References, NEW i \in Inode, tux_delete_inode(i)
  PROVE  References'
<1> DEFINE x == xcache[i]
           h == [n \in Name |-> NoValue]
           P == Pairs(atable.dict)
<1>1. /\ atable' = atable /\ stray' = stray /\ Lost + Len(x) <= MaxLost
      /\ xcache' = [xcache EXCEPT ![i] = <<>>] /\ attrs' = [attrs EXCEPT ![i] = h]
      /\ lost' = lost \o [k \in DOMAIN x |-> x[k].atom]
  BY DEF tux_delete_inode, A!Drop
<1>2. /\ TableKept(atable, stray) /\ Counted(atable, xcache, lost) /\ LostOK(lost, stray) /\ lost \in Seq(Atom)
      /\ xcache \in Lists /\ attrs \in [Inode -> Values] /\ AllRead(P, xcache, attrs)
      /\ x \in Seq(Attr) /\ Once(x) /\ ReadsIn(P, x, attrs[i])
  BY DEF References, Right, LostOK, AllRead, Lists
<1>3. OneToOne(P)
  BY <1>2, PairsAre
<1>4. AllAtoms(x)
  BY <1>2, <1>3 DEF ReadsIn, OneToOne, AllAtoms
<1>5. h \in Values /\ ReadsIn(P, <<>>, h) /\ Once(<<>>) /\ <<>> \in Seq(Attr)
  BY <1>3, ReadNone DEF Values, Once
<1> HIDE DEF P, h
<1>6. xcache' \in Lists /\ xcache'[i] = <<>> /\ \A j \in Inode : j # i => xcache'[j] = xcache[j]
  BY <1>1, <1>2, <1>5 DEF Lists
<1>7. attrs' \in [Inode -> Values] /\ attrs'[i] = h /\ \A j \in Inode : j # i => attrs'[j] = attrs[j]
  BY <1>1, <1>2, <1>5
<1>8. AllRead(P, xcache', attrs')
  <2> SUFFICES ASSUME NEW j \in Inode PROVE Once(xcache'[j]) /\ ReadsIn(P, xcache'[j], attrs'[j])
    BY DEF AllRead
  <2>1. CASE j = i
    BY <1>5, <1>6, <1>7, <2>1
  <2>2. CASE j # i
    BY <1>2, <1>6, <1>7, <2>2 DEF AllRead
  <2> QED
    BY <2>1, <2>2
<1> HIDE DEF x
<1>9. /\ lost' \in Seq(Atom) /\ Len(lost') = Len(lost) + Len(x)
      /\ \A b : Cardinality(LostBy(lost', b)) = Cardinality(LostBy(lost, b)) + Bit(x, b)
  <2>1. PICK l, m : l = lost /\ m = lost'
    OBVIOUS
  <2>2. ASSUME NEW b
        PROVE  /\ m \in Seq(Atom) /\ Len(m) = Len(l) + Len(x)
               /\ Cardinality(LostBy(m, b)) = Cardinality(LostBy(l, b)) + Bit(x, b)
    <3>1. PICK y : y = x
      OBVIOUS
    <3>2. l \in Seq(Atom) /\ y \in Seq(Attr) /\ Once(y) /\ AllAtoms(y) /\ m = l \o AtomsOf(y)
      BY <1>1, <1>2, <1>4, <2>1, <3>1 DEF AtomsOf, x
    <3>3. /\ m \in Seq(Atom) /\ Len(m) = Len(l) + Len(y)
          /\ Cardinality(LostBy(m, b)) = Cardinality(LostBy(l, b)) + Bit(y, b)
      BY ONLY <3>2, LostAll
    <3> QED
      BY ONLY <3>1, <3>3
  <2> QED
    BY <2>1, <2>2
<1>10. LostOK(lost', stray)
  <2>1. /\ Cardinality(stray) \in Nat /\ IsFiniteSet(stray)
        /\ Cardinality(stray) + Len(lost) + Len(x) <= MaxLost
    BY <1>1, <1>2, FS_CardinalityType DEF Lost, LostOK
  <2>2. Len(lost) \in Nat /\ Len(x) \in Nat /\ MaxLost \in Nat
    BY <1>2, XattrAssumption
  <2> QED
    BY <1>9, <2>1, <2>2 DEF LostOK
<1>11. ASSUME NEW b \in Atom PROVE Count(atable, b) = Uses(xcache', lost', b)
  <2>1. PICK ys, m, d : ys = xcache' /\ m = lost' /\ d = Bit(x, b) /\ d \in Int
    BY DEF Bit
  <2>2. ListMoved(xcache, ys, i) /\ Bit(ys[i], b) = 0
    BY <1>6, <2>1 DEF ListMoved, Bit, HasAtomIn
  <2>3. Cardinality(LostBy(m, b)) = Cardinality(LostBy(lost, b)) + d /\ m \in Seq(Atom)
    BY <1>9, <2>1
  <2>4. /\ Uses(ys, m, b) = Uses(xcache, lost, b) + Bit(ys[i], b) - Bit(xcache[i], b) + d
        /\ Uses(xcache, lost, b) \in Nat
    BY <1>2, <2>1, <2>2, <2>3, UsesMove
  <2>5. Bit(xcache[i], b) = d
    BY <2>1 DEF x
  <2>6. Count(atable, b) = Uses(xcache, lost, b)
    BY <1>2 DEF Counted
  <2> QED
    BY <2>1, <2>2, <2>4, <2>5, <2>6
<1> QED
  BY <1>1, <1>2, <1>6, <1>7, <1>8, <1>10, <1>11 DEF References, Right, Counted, P

(* tux_create_entry fails, and an atom is lost.                            *)
LEMMA EioKept ==
  ASSUME References, NEW n \in Name, set_xattr_eio(n)
  PROVE  References'
<1>1. /\ TableKept(atable, stray) /\ Counted(atable, xcache, lost) /\ LostOK(lost, stray) /\ lost \in Seq(Atom)
      /\ xcache \in Lists /\ attrs \in [Inode -> Values] /\ AllRead(Pairs(atable.dict), xcache, attrs)
  BY DEF References, Right, LostOK
<1>2. PICK a, G : a = FreeAtom(atable) /\ G = get_freeatom(atable)
  OBVIOUS
<1>3. /\ a \in Atom /\ Lost < MaxLost /\ atable' = G /\ stray' = stray \cup {a}
      /\ xcache' = xcache /\ attrs' = attrs /\ lost' = lost
  BY <1>2 DEF set_xattr_eio, AtomLeft
<1>4. TableKept(G, stray \cup {a}) /\ G.dict = atable.dict /\ G.low = atable.low /\ G.high = atable.high
  BY <1>1, <1>2, <1>3, StrayParts
<1>5. LostOK(lost, stray \cup {a})
  <2>1. /\ Cardinality(stray) \in Nat /\ IsFiniteSet(stray)
        /\ Cardinality(stray) + Len(lost) < MaxLost
    BY <1>1, <1>3, FS_CardinalityType DEF Lost, LostOK
  <2>2. IsFiniteSet(stray \cup {a}) /\ Cardinality(stray \cup {a}) \in Nat /\ Cardinality(stray \cup {a}) <= Cardinality(stray) + 1
    <3>1. IsFiniteSet(stray \cup {a})
      BY <2>1, FS_AddElement
    <3>2. Cardinality(stray \cup {a}) = IF a \in stray THEN Cardinality(stray) ELSE Cardinality(stray) + 1
      BY <2>1, FS_AddElement
    <3>3. Cardinality(stray \cup {a}) \in Nat
      BY <3>1, FS_CardinalityType
    <3> QED
      BY <2>1, <3>1, <3>2, <3>3
  <2>3. Len(lost) \in Nat /\ MaxLost \in Nat
    BY <1>1, XattrAssumption
  <2> QED
    BY <1>1, <2>1, <2>2, <2>3 DEF LostOK
<1>6. Counted(G, xcache, lost)
  BY <1>1, <1>4 DEF Counted, Count
<1> QED
  BY <1>1, <1>3, <1>4, <1>5, <1>6 DEF References, Right

(* Every operation that is not torn keeps what is read and counted right,  *)
(* when the atoms it leaves all fit.                                       *)
LEMMA ReferencesStep ==
  ASSUME References, Whole, atable'.atomgen <= AtomRange
  PROVE  References'
<1>1. ASSUME NEW n \in Name, NEW i \in Inode, set_xattr_refused(i, n) PROVE References'
  <2>1. PICK M : M = make_atom(atable, n)
    OBVIOUS
  <2>2. /\ HasAtom(atable, n) \/ FreeAtom(atable) \in Atom
        /\ atable' = M.table /\ UNCHANGED <<xcache, attrs, lost, stray>>
    BY <1>1, <2>1 DEF set_xattr_refused, AtomLeft
  <2>3. Right(M.table, xcache, attrs, lost, stray)
    BY <2>1, <2>2, Made DEF References
  <2> QED
    BY <2>2, <2>3 DEF References
<1>2. ASSUME NEW n \in Name, NEW i \in Inode, set_xattr_nomem(i, n) PROVE References'
  <2>1. LosesOld(i, n)
    BY <1>2 DEF set_xattr_nomem, LosesOld
  <2> QED
    BY <2>1, LosesKept
<1>3. ASSUME NEW n \in Name, NEW i \in Inode, del_xattr_uncounted(i, n) PROVE References'
  <2>1. PICK M : M = make_atom(atable, n)
    OBVIOUS
  <2>2. HasAtom(atable, n) /\ M.atom = find_atom(atable, n) /\ M.table = atable
    BY <1>3, <2>1 DEF del_xattr_uncounted, make_atom
  <2>3. LosesOld(i, n)
    BY <1>3, <2>1, <2>2 DEF del_xattr_uncounted, LosesOld, AtomLeft
  <2> QED
    BY <2>3, LosesKept
<1> QED
  BY <1>1, <1>2, <1>3, SetKept, EioKept, DelKept, UnkilledKept, DropKept DEF Whole

(* What a sane table gives.                                                *)
ReferencesSane == Sane => References

(* What is read and counted in every state.                                *)
LEMMA SpecReferences == Spec => []ReferencesSane
<1>1. Init => ReferencesSane
  BY InitReferences DEF ReferencesSane
<1>2. ASSUME SoundUntorn, ReferencesSane, [Next]_vars PROVE ReferencesSane'
  <2> SUFFICES ASSUME Sane' PROVE References'
    BY DEF ReferencesSane
  <2>1. ~torn' /\ atable'.atomgen <= AtomRange
    BY DEF Sane
  <2>2. CASE UNCHANGED vars
    BY <1>2, <2>1, <2>2 DEF vars, Sane, ReferencesSane, References
  <2>3. CASE ~torn /\ Whole /\ torn' = FALSE
    <3>1. atable.atomgen \in Nat /\ atable'.atomgen \in Nat /\ atable'.atomgen >= atable.atomgen
      BY <1>2, <2>3, GenStep DEF SoundUntorn
    <3>2. Sane
      BY <2>1, <2>3, <3>1, XattrAssumption DEF Sane
    <3> QED
      BY <1>2, <2>1, <2>3, <3>2, ReferencesStep DEF ReferencesSane
  <2> QED
    BY <1>2, <2>1, <2>2, <2>3 DEF Next
<1> QED
  BY <1>1, <1>2, SpecSound, PTL DEF Spec

(* While no atom that was handed out exceeds the 16 bits that an attribute *)
(* has for it (the state says which that is: make_atom does not see to it) *)
(* and no failing read has torn the table, the two halves of the reference *)
(* count of an atom make the number of inodes that have an attribute with  *)
(* it and of the references that failed and deleted operations left        *)
(* behind: the count never goes wrong where the low half wraps, and no     *)
(* atom is freed that an attribute still uses.                             *)
THEOREM RefsCorrect == Spec => []RefsMatch
<1>1. ReferencesSane => RefsMatch
  <2> SUFFICES ASSUME References, NEW a \in Atom
               PROVE  refs(a) = Cardinality({i \in Inode : Holds(i, a)}) + Cardinality({k \in DOMAIN lost : lost[k] = a})
    BY DEF RefsMatch, ReferencesSane
  <2>1. Count(atable, a) = Uses(xcache, lost, a)
    BY DEF References, Right, Counted
  <2>2. {i \in Inode : Holds(i, a)} = Holders(xcache, a)
    BY DEF Holds, Holders, HasAtomIn
  <2>3. {k \in DOMAIN lost : lost[k] = a} = LostBy(lost, a)
    BY DEF LostBy
  <2>4. refs(a) = Count(atable, a)
    BY DEF refs, Count
  <2> QED
    BY <2>1, <2>2, <2>3, <2>4 DEF Uses
<1> QED
  BY <1>1, SpecReferences, PTL

(* The name of an atom that an inode holds, and its place.                 *)
LEMMA Unatom ==
  ASSUME TableKept(atable, stray), NEW a \in Taken(atable)
  PROVE  <<unatom(a), a>> \in Pairs(atable.dict)
<1>1. Mapped(atable)
  BY DEF TableKept
<1>2. PICK at \in Entries(atable.dict) : At(atable.dict, at).inum = a
  BY DEF Taken
<1>3. atable.revmap[a].where = at
  <2>1. atable.revmap[a] = Mapping(at)
    BY <1>1, <1>2 DEF Mapped
  <2> QED
    BY <2>1 DEF Mapping
<1>4. unatom(a) = At(atable.dict, at).name
  BY <1>2, <1>3 DEF unatom, entry_atom, At
<1> QED
  BY <1>2, <1>4 DEF Pairs

(* While no atom that was handed out exceeds 16 bits and no failing read   *)
(* has torn the table, every inode reads what was set, under every name,   *)
(* and lists just those names, each once: no atom that was freed and taken *)
(* for another name brings an old attribute back.                          *)
THEOREM AttrsCorrect == Spec => []AttrsKept
<1>1. ReferencesSane => AttrsKept
  <2> SUFFICES ASSUME References, NEW i \in Inode
               PROVE  /\ \A n \in Name : get_xattr(i, n) = attrs[i][n]
                      /\ IsInjective(xattr_list(i))
                      /\ Range(xattr_list(i)) = {n \in Name : attrs[i][n] # NoValue}
    BY DEF AttrsKept, ReferencesSane
  <2> DEFINE x == xcache[i]
             h == attrs[i]
             P == Pairs(atable.dict)
             name == xattr_list(i)
  <2>1. TableKept(atable, stray) /\ xcache \in Lists /\ Once(x) /\ ReadsIn(P, x, h) /\ x \in Seq(Attr)
    BY DEF References, Right, AllRead, Lists
  <2>2. OneToOne(P) /\ h \in Values
    BY <2>1, PairsAre DEF ReadsIn
  <2>3. ASSUME NEW n \in Name PROVE get_xattr(i, n) = h[n]
    <3> DEFINE a == find_atom(atable, n)
    <3>1. CASE HasAtom(atable, n) /\ Holds(i, a)
      <4> DEFINE k == xcache_lookup(i, a)
      <4>1. k \in DOMAIN x /\ x[k].atom = a
        BY <2>1, <3>1, LookupIs
      <4>2. get_xattr(i, n) = x[k].value
        BY <3>1 DEF get_xattr
      <4>3. <<n, a>> \in P
        BY <2>1, <3>1, PairsAre
      <4> HIDE DEF k, a, P
      <4>4. HasValue(x, a, x[k].value)
        BY <4>1 DEF HasValue
      <4>5. x[k].value \in Value
        <5>1. x[k] \in Attr
          BY <2>1, <4>1
        <5> QED
          BY <5>1 DEF Attr
      <4>6. h[n] = x[k].value
        BY <2>1, <4>3, <4>4, <4>5 DEF ReadsIn
      <4> QED
        BY <4>2, <4>6
    <3>2. CASE HasAtom(atable, n) /\ ~Holds(i, a)
      <4>1. get_xattr(i, n) = NoValue
        BY <3>2 DEF get_xattr
      <4>2. <<n, a>> \in P
        BY <2>1, <3>2, PairsAre
      <4>3. \A v : ~HasValue(x, a, v)
        BY <3>2 DEF HasValue, Holds
      <4> HIDE DEF a, P
      <4>4. h[n] \notin Value
        BY <2>1, <4>2, <4>3 DEF ReadsIn
      <4> QED
        BY <2>2, <4>1, <4>4 DEF Values
    <3>3. CASE ~HasAtom(atable, n)
      <4>1. get_xattr(i, n) = NoValue
        BY <3>3 DEF get_xattr
      <4>2. \A p \in P : p[1] # n
        BY <2>1, <3>3, PairsAre
      <4> QED
        BY <2>1, <4>1, <4>2 DEF ReadsIn
    <3> QED
      BY <3>1, <3>2, <3>3
  <2>4. DOMAIN name = DOMAIN x /\ \A k \in DOMAIN x : name[k] = unatom(x[k].atom)
    BY DEF xattr_list
  <2>5. ASSUME NEW k \in DOMAIN x PROVE <<name[k], x[k].atom>> \in P
    <3>1. PICK p \in P : p[2] = x[k].atom
      BY <2>1 DEF ReadsIn
    <3>2. x[k].atom \in Taken(atable)
      BY <2>1, <3>1, PairsAre
    <3> QED
      BY <2>1, <2>4, <3>2, Unatom
  <2> HIDE DEF name, P, x, h
  <2>6. IsInjective(name)
    <3> SUFFICES ASSUME NEW j \in DOMAIN x, NEW k \in DOMAIN x, name[j] = name[k] PROVE j = k
      BY <2>4 DEF IsInjective
    <3>1. x[j].atom = x[k].atom
      BY <2>2, <2>5 DEF OneToOne
    <3> QED
      BY <2>1, <3>1 DEF Once
  <2>7. ASSUME NEW n \in Range(name) PROVE n \in Name /\ h[n] # NoValue
    <3>1. PICK k \in DOMAIN x : n = name[k]
      BY <2>4 DEF Range
    <3>2. <<n, x[k].atom>> \in P
      BY <2>5, <3>1
    <3>3. HasValue(x, x[k].atom, x[k].value) /\ x[k].value \in Value
      <4>1. x[k] \in Attr
        BY <2>1
      <4> QED
        BY <4>1 DEF HasValue, Attr
    <3>4. h[n] = x[k].value
      BY <2>1, <3>2, <3>3 DEF ReadsIn
    <3> QED
      BY <2>2, <3>2, <3>3, <3>4, XattrAssumption DEF OneToOne
  <2>8. ASSUME NEW n \in Name, h[n] # NoValue PROVE n \in Range(name)
    <3>1. PICK p \in P : p[1] = n
      BY <2>1, <2>8 DEF ReadsIn
    <3>2. h[n] \in Value
      BY <2>2, <2>8 DEF Values
    <3>3. HasValue(x, p[2], h[n])
      BY <2>1, <3>1, <3>2 DEF ReadsIn
    <3>4. PICK k \in DOMAIN x : x[k].atom = p[2]
      BY <3>3 DEF HasValue
    <3>5. name[k] = n
      BY <2>2, <2>5, <3>1, <3>4 DEF OneToOne
    <3> QED
      BY <2>4, <3>5 DEF Range
  <2> QED
    BY <2>3, <2>6, <2>7, <2>8 DEF name, h
<1> QED
  BY <1>1, SpecReferences, PTL
=============================================================================
