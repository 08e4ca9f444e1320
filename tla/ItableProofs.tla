---------------------------- MODULE ItableProofs ----------------------------
(***************************************************************************)
(* The inode table, for any inode numbers, attributes with any sizes, and  *)
(* sizes of leaves and nodes, and for trees of any depth: every inode is   *)
(* found with what was saved last, and no number is given out twice.       *)
(***************************************************************************)
EXTENDS Itable, Numbers, FiniteSetTheorems, SequenceTheorems

(***************************************************************************)
(* A tree as what it is for a search: its leaves with the intervals of     *)
(* keys that lead to them.  An interval has a first key and a bound that   *)
(* is behind it, or none.                                                  *)
(***************************************************************************)
NoBound == -1

Below(k, hi) == hi = NoBound \/ k < hi

Interval(lo, hi) == lo \in Nat /\ hi \in Int /\ Below(lo, hi)

IsSeq(s) == \E S : s \in Seq(S)

(* An index node for an interval of keys: its keys, the first left aside,  *)
(* divide the interval.                                                    *)
Divides(node, lo, hi) ==
  /\ IsSeq(node) /\ Len(node) >= 1
  /\ \A i \in DOMAIN node : node[i] = index_entry(node[i].key, node[i].child) /\ node[i].key \in Nat
  /\ \A i \in DOMAIN node \ {1} : lo < node[i].key /\ Below(node[i].key, hi)
  /\ \A i, j \in DOMAIN node \ {1} : i < j => node[i].key < node[j].key

(* The interval of an entry.                                               *)
From(node, i, lo) == IF i = 1 THEN lo ELSE node[i].key
To(node, i, hi) == IF i = Len(node) THEN hi ELSE node[i + 1].key

(* A tree of a height has the leaves S between two keys when a set of such *)
(* claims holds this one, and each claim in it rests on others in it about *)
(* the children.  (The claims are there in place of a recursion.)          *)
Rests(D, h, node, lo, hi, S) ==
  /\ Interval(lo, hi)
  /\ h = 0 => S = {<<lo, hi, node>>}
  /\ h # 0 =>
       /\ h \in Nat /\ Divides(node, lo, hi)
       /\ \E C : /\ S = UNION {C[i] : i \in DOMAIN node}
                 /\ \A i \in DOMAIN node :
                      <<h - 1, node[i].child, From(node, i, lo), To(node, i, hi), C[i]>> \in D

Justified(D) ==
  \A h, node, lo, hi, S : <<h, node, lo, hi, S>> \in D => Rests(D, h, node, lo, hi, S)

Spans(h, node, lo, hi, S) == \E D : Justified(D) /\ <<h, node, lo, hi, S>> \in D

-----------------------------------------------------------------------------
(* More claims do no harm.                                                 *)
LEMMA RestsMore ==
  ASSUME NEW D, NEW E, D \subseteq E, NEW h, NEW node, NEW lo, NEW hi, NEW S,
         Rests(D, h, node, lo, hi, S)
  PROVE  Rests(E, h, node, lo, hi, S)
BY DEF Rests

(* A leaf.                                                                 *)
LEMMA SpansLeaf ==
  ASSUME NEW leaf, NEW lo, NEW hi, Interval(lo, hi)
  PROVE  Spans(0, leaf, lo, hi, {<<lo, hi, leaf>>})
<1> DEFINE x == <<0, leaf, lo, hi, {<<lo, hi, leaf>>}>>
<1>1. ASSUME NEW h, NEW node, NEW a, NEW b, NEW S, <<h, node, a, b, S>> = x
      PROVE  h = 0 /\ node = leaf /\ a = lo /\ b = hi /\ S = {<<lo, hi, leaf>>}
  BY <1>1
<1> HIDE DEF x
<1>2. Justified({x})
  BY <1>1 DEF Justified, Rests
<1> QED
  BY <1>2 DEF Spans, x

(* What a claim about a leaf says.                                         *)
LEMMA LeafSpans ==
  ASSUME NEW leaf, NEW lo, NEW hi, NEW S, Spans(0, leaf, lo, hi, S)
  PROVE  Interval(lo, hi) /\ S = {<<lo, hi, leaf>>}
BY DEF Spans, Justified, Rests

(* What a claim about a node says.                                         *)
LEMMA NodeSpans ==
  ASSUME NEW h \in Nat \ {0}, NEW node, NEW lo, NEW hi, NEW S, Spans(h, node, lo, hi, S)
  PROVE  /\ Interval(lo, hi) /\ Divides(node, lo, hi)
         /\ \E C : /\ S = UNION {C[i] : i \in DOMAIN node}
                   /\ \A i \in DOMAIN node :
                        Spans(h - 1, node[i].child, From(node, i, lo), To(node, i, hi), C[i])
<1>1. PICK D : Justified(D) /\ <<h, node, lo, hi, S>> \in D
  BY DEF Spans
<1>2. Rests(D, h, node, lo, hi, S)
  BY <1>1 DEF Justified
<1>3. PICK C : /\ S = UNION {C[i] : i \in DOMAIN node}
               /\ \A i \in DOMAIN node :
                    <<h - 1, node[i].child, From(node, i, lo), To(node, i, hi), C[i]>> \in D
  BY <1>2 DEF Rests
<1>4. \A i \in DOMAIN node : Spans(h - 1, node[i].child, From(node, i, lo), To(node, i, hi), C[i])
  BY <1>1, <1>3 DEF Spans
<1> QED
  BY <1>2, <1>3, <1>4 DEF Rests

(* Claims about the children make one about the node.                      *)
LEMMA SpansNode ==
  ASSUME NEW h \in Nat \ {0}, NEW node, NEW lo, NEW hi, NEW C,
         Interval(lo, hi), Divides(node, lo, hi),
         \A i \in DOMAIN node :
           Spans(h - 1, node[i].child, From(node, i, lo), To(node, i, hi), C[i])
  PROVE  Spans(h, node, lo, hi, UNION {C[i] : i \in DOMAIN node})
<1> DEFINE S == UNION {C[i] : i \in DOMAIN node}
           y(i) == <<h - 1, node[i].child, From(node, i, lo), To(node, i, hi), C[i]>>
           x == <<h, node, lo, hi, S>>
           Ds == [i \in DOMAIN node |-> CHOOSE D : Justified(D) /\ y(i) \in D]
           E == UNION {Ds[i] : i \in DOMAIN node}
           U == E \cup {x}
<1>1. ASSUME NEW i \in DOMAIN node PROVE Justified(Ds[i]) /\ y(i) \in Ds[i]
  <2>1. \E D : Justified(D) /\ y(i) \in D
    BY DEF Spans
  <2>2. Ds[i] = CHOOSE D : Justified(D) /\ y(i) \in D
    OBVIOUS
  <2> HIDE DEF Ds, y
  <2> QED
    BY <2>1, <2>2
<1> HIDE DEF Ds
<1>2. \A i \in DOMAIN node : y(i) \in U
  BY <1>1
<1>3. Rests(U, h, node, lo, hi, S)
  BY <1>2 DEF Rests
<1>4. ASSUME NEW g, NEW nd, NEW a, NEW b, NEW R, <<g, nd, a, b, R>> \in U
      PROVE  Rests(U, g, nd, a, b, R)
  <2> HIDE DEF S, y
  <2>1. CASE <<g, nd, a, b, R>> = x
    <3>1. g = h /\ nd = node /\ a = lo /\ b = hi /\ R = S
      BY <2>1
    <3> QED
      BY <1>3, <3>1
  <2>2. CASE <<g, nd, a, b, R>> # x
    <3>1. PICK i \in DOMAIN node : <<g, nd, a, b, R>> \in Ds[i]
      BY <1>4, <2>2
    <3>2. Rests(Ds[i], g, nd, a, b, R)
      BY <1>1, <3>1 DEF Justified
    <3>3. Ds[i] \subseteq U
      OBVIOUS
    <3> HIDE DEF U
    <3> QED
      BY <3>2, <3>3, RestsMore
  <2> QED
    BY <2>1, <2>2
<1>5. Justified(U) /\ x \in U
  BY <1>4 DEF Justified
<1> QED
  BY <1>5 DEF Spans

-----------------------------------------------------------------------------
(* The entries of a node, by their places.                                 *)
LEMMA Entries ==
  ASSUME NEW node, NEW lo, NEW hi, Interval(lo, hi), Divides(node, lo, hi)
  PROVE  /\ Len(node) \in Nat \ {0} /\ DOMAIN node = 1..Len(node)
         /\ 1 \in DOMAIN node /\ Len(node) \in DOMAIN node
         /\ \A i \in DOMAIN node : node[i].key \in Nat /\ i \in Nat
<1>1. PICK R : node \in Seq(R)
  BY DEF Divides, IsSeq
<1>2. Len(node) \in Nat /\ DOMAIN node = 1..Len(node) /\ Len(node) >= 1
  BY <1>1 DEF Divides
<1>3. \A i \in DOMAIN node : node[i].key \in Nat
  BY DEF Divides
<1> HIDE DEF Divides
<1> QED
  BY <1>2, <1>3

(* The interval of a child is one, and is within that of the node.         *)
LEMMA ChildInterval ==
  ASSUME NEW node, NEW lo, NEW hi, Interval(lo, hi), Divides(node, lo, hi), NEW i \in DOMAIN node
  PROVE  LET a == From(node, i, lo)
             b == To(node, i, hi)
         IN  /\ Interval(a, b) /\ lo <= a
             /\ hi # NoBound => b # NoBound /\ b <= hi
<1> DEFINE n == Len(node)
           a == From(node, i, lo)
           b == To(node, i, hi)
<1>1. /\ n \in Nat \ {0} /\ DOMAIN node = 1..n
      /\ \A j \in DOMAIN node : node[j].key \in Nat /\ j \in Nat
  BY Entries
<1> HIDE DEF n
<1>2. a \in Nat /\ lo <= a /\ (i # 1 => a = node[i].key /\ lo < a /\ Below(a, hi)) /\ (i = 1 => a = lo)
  BY <1>1 DEF From, Divides, Interval
<1>3. CASE i = n
  <2>1. b = hi
    BY <1>3 DEF To, n
  <2>2. Below(a, hi)
    BY <1>2 DEF Interval
  <2> QED
    BY <1>2, <2>1, <2>2 DEF Interval
<1>4. CASE i # n
  <2>1. i + 1 \in DOMAIN node \ {1} /\ b = node[i + 1].key
    BY <1>1, <1>4 DEF To, n
  <2>2. lo < b /\ Below(b, hi) /\ b \in Nat
    BY <1>1, <2>1 DEF Divides
  <2>3. i # 1 => a < b
    BY <1>1, <1>2, <2>1 DEF Divides
  <2>4. a < b
    BY <1>2, <2>2, <2>3
  <2> QED
    BY <1>2, <2>2, <2>4 DEF Interval, Below, NoBound
<1> QED
  BY <1>3, <1>4

(* Slot is the place of the child whose interval has the key.              *)
LEMMA SlotIn ==
  ASSUME NEW node, NEW lo, NEW hi, Interval(lo, hi), Divides(node, lo, hi),
         NEW k \in Nat, lo <= k, Below(k, hi)
  PROVE  LET i == Slot(node, k)
         IN  /\ i \in DOMAIN node
             /\ From(node, i, lo) <= k /\ Below(k, To(node, i, hi))
<1> DEFINE n == Len(node)
           Ok(i) == (\A j \in 2..i : node[j].key <= k) /\ (i < n => node[i + 1].key > k)
           T == {i \in DOMAIN node : i < n => node[i + 1].key > k}
           s == Slot(node, k)
<1>1. /\ n \in Nat \ {0} /\ DOMAIN node = 1..n
      /\ \A j \in DOMAIN node : node[j].key \in Nat /\ j \in Nat
  BY Entries
<1>2. s = CHOOSE i \in DOMAIN node : Ok(i)
  BY DEF Slot
<1> HIDE DEF n, s
<1>3. n \in T /\ T \subseteq Nat
  BY <1>1
<1>4. PICK x \in T : \A y \in T : x <= y
  BY <1>3, LeastNat
<1>5. ASSUME NEW j \in 2..x PROVE node[j].key <= k
  <2>1. j - 1 \in DOMAIN node /\ j \in DOMAIN node /\ ~(x <= j - 1) /\ j - 1 < n
    BY <1>1, <1>4
  <2>2. j - 1 \notin T
    BY <1>4, <2>1
  <2>3. ~(node[(j - 1) + 1].key > k)
    BY <2>1, <2>2
  <2>4. (j - 1) + 1 = j
    BY <1>1, <2>1
  <2>5. ~(node[j].key > k) /\ node[j].key \in Nat
    BY <1>1, <2>1, <2>3, <2>4
  <2> QED
    BY <2>5
<1>6. x \in DOMAIN node /\ Ok(x)
  BY <1>4, <1>5
<1>7. s \in DOMAIN node /\ Ok(s)
  <2> HIDE DEF Ok
  <2> QED
    BY <1>2, <1>6
<1>8. From(node, s, lo) <= k
  <2>1. CASE s = 1
    BY <2>1 DEF From
  <2>2. CASE s # 1
    <3>1. s \in 2..s
      BY <1>1, <1>7, <2>2
    <3> QED
      BY <1>7, <2>2, <3>1 DEF From
  <2> QED
    BY <2>1, <2>2
<1>9. Below(k, To(node, s, hi))
  <2>1. CASE s = n
    BY <2>1 DEF To, n
  <2>2. CASE s # n
    <3>1. s < n /\ s + 1 \in DOMAIN node
      BY <1>1, <1>7, <2>2
    <3>2. To(node, s, hi) = node[s + 1].key /\ node[s + 1].key \in Nat
      BY <1>1, <2>2, <3>1 DEF To, n
    <3> QED
      BY <1>7, <3>1, <3>2 DEF Below
  <2> QED
    BY <2>1, <2>2
<1> QED
  BY <1>7, <1>8, <1>9 DEF s

(* No two children have a key in common.                                   *)
LEMMA ChildrenApart ==
  ASSUME NEW node, NEW lo, NEW hi, Interval(lo, hi), Divides(node, lo, hi),
         NEW i \in DOMAIN node, NEW j \in DOMAIN node, NEW k \in Nat,
         From(node, i, lo) <= k, Below(k, To(node, i, hi)),
         From(node, j, lo) <= k, Below(k, To(node, j, hi))
  PROVE  i = j
<1> DEFINE n == Len(node)
<1>1. /\ n \in Nat \ {0} /\ DOMAIN node = 1..n
      /\ \A h \in DOMAIN node : node[h].key \in Nat /\ h \in Nat
  BY Entries
<1> HIDE DEF n
<1>2. ASSUME NEW x \in DOMAIN node, NEW y \in DOMAIN node, x < y,
             Below(k, To(node, x, hi)), From(node, y, lo) <= k
      PROVE  FALSE
  <2>1. x # n /\ x + 1 \in DOMAIN node \ {1} /\ y \in DOMAIN node \ {1} /\ (x + 1 = y \/ x + 1 < y)
    BY <1>1, <1>2
  <2>2. To(node, x, hi) = node[x + 1].key /\ From(node, y, lo) = node[y].key
    BY <2>1 DEF To, From, n
  <2>3. node[x + 1].key <= node[y].key /\ node[x + 1].key \in Nat /\ node[y].key \in Nat
    <3>1. x + 1 < y => node[x + 1].key < node[y].key
      BY <2>1 DEF Divides
    <3> QED
      BY <1>1, <2>1, <3>1
  <2> QED
    BY <1>2, <2>2, <2>3 DEF Below, NoBound
<1>3. i < j \/ j < i \/ i = j
  BY <1>1
<1> QED
  BY <1>2, <1>3

-----------------------------------------------------------------------------
(* What the leaves of a tree are for a search: every key is in the interval *)
(* of one leaf.                                                            *)
Covers(s, k) == s[1] <= k /\ Below(k, s[2])

Within(s, lo, hi) ==
  /\ s = <<s[1], s[2], s[3]>> /\ Interval(s[1], s[2])
  /\ lo <= s[1] /\ (hi # NoBound => s[2] # NoBound /\ s[2] <= hi)

Parted(lo, hi, S) ==
  /\ \A s \in S : Within(s, lo, hi)
  /\ \A k \in Nat : lo <= k /\ Below(k, hi) => \E s \in S : Covers(s, k)
  /\ \A s, t \in S : \A k \in Nat : Covers(s, k) /\ Covers(t, k) => s = t

(* The parts of a part are parts.                                          *)
LEMMA WithinOuter ==
  ASSUME NEW s, NEW a, NEW b, Within(s, a, b), Interval(a, b), NEW lo, NEW hi, Interval(lo, hi),
         lo <= a, hi # NoBound => b # NoBound /\ b <= hi
  PROVE  Within(s, lo, hi)
BY DEF Within, Interval

(* What is covered by a part of an interval is in the interval.            *)
LEMMA WithinCovers ==
  ASSUME NEW s, NEW a, NEW b, Within(s, a, b), Interval(a, b), NEW k \in Nat, Covers(s, k)
  PROVE  a <= k /\ Below(k, b)
BY DEF Within, Interval, Covers, Below

(* The leaves of a tree part its keys.                                     *)
LEMMA SpansPart ==
  ASSUME NEW h \in Nat, NEW node, NEW lo, NEW hi, NEW S, Spans(h, node, lo, hi, S)
  PROVE  Parted(lo, hi, S) /\ Interval(lo, hi)
<1> DEFINE P == {g \in Nat : \A nd, a, b, R : Spans(g, nd, a, b, R) => Parted(a, b, R) /\ Interval(a, b)}
<1>1. 0 \in P
  <2> SUFFICES ASSUME NEW nd, NEW a, NEW b, NEW R, Spans(0, nd, a, b, R)
               PROVE  Parted(a, b, R) /\ Interval(a, b)
    OBVIOUS
  <2>1. Interval(a, b) /\ R = {<<a, b, nd>>}
    BY LeafSpans
  <2> QED
    BY <2>1 DEF Parted, Within, Covers, Interval
<1>2. ASSUME NEW g \in Nat, g \in P PROVE g + 1 \in P
  <2> SUFFICES ASSUME NEW nd, NEW a, NEW b, NEW R, Spans(g + 1, nd, a, b, R)
               PROVE  Parted(a, b, R) /\ Interval(a, b)
    BY <1>2
  <2>1. g + 1 \in Nat \ {0} /\ (g + 1) - 1 = g
    OBVIOUS
  <2>2. Interval(a, b) /\ Divides(nd, a, b)
    BY <2>1, NodeSpans
  <2>3. PICK C : /\ R = UNION {C[i] : i \in DOMAIN nd}
                 /\ \A i \in DOMAIN nd : Spans((g + 1) - 1, nd[i].child, From(nd, i, a), To(nd, i, b), C[i])
    BY <2>1, NodeSpans
  <2>4. ASSUME NEW i \in DOMAIN nd
        PROVE  /\ Parted(From(nd, i, a), To(nd, i, b), C[i])
               /\ Interval(From(nd, i, a), To(nd, i, b)) /\ a <= From(nd, i, a)
               /\ b # NoBound => To(nd, i, b) # NoBound /\ To(nd, i, b) <= b
    <3>1. Spans(g, nd[i].child, From(nd, i, a), To(nd, i, b), C[i])
      BY <2>1, <2>3
    <3> QED
      BY <1>2, <2>2, <3>1, ChildInterval
  <2>5. ASSUME NEW s \in R PROVE Within(s, a, b)
    <3>1. PICK i \in DOMAIN nd : s \in C[i]
      BY <2>3
    <3>2. Within(s, From(nd, i, a), To(nd, i, b))
      BY <2>4, <3>1 DEF Parted
    <3> QED
      BY <2>2, <2>4, <3>2, WithinOuter
  <2>6. ASSUME NEW k \in Nat, a <= k, Below(k, b) PROVE \E s \in R : Covers(s, k)
    <3>1. PICK i \in DOMAIN nd : From(nd, i, a) <= k /\ Below(k, To(nd, i, b))
      BY <2>2, <2>6, SlotIn
    <3>2. PICK s \in C[i] : Covers(s, k)
      BY <2>4, <3>1 DEF Parted
    <3> QED
      BY <2>3, <3>2
  <2>7. ASSUME NEW s \in R, NEW t \in R, NEW k \in Nat, Covers(s, k), Covers(t, k) PROVE s = t
    <3>1. PICK i \in DOMAIN nd : s \in C[i]
      BY <2>3
    <3>2. PICK j \in DOMAIN nd : t \in C[j]
      BY <2>3
    <3>3. From(nd, i, a) <= k /\ Below(k, To(nd, i, b))
      BY <2>4, <2>7, <3>1, WithinCovers DEF Parted
    <3>4. From(nd, j, a) <= k /\ Below(k, To(nd, j, b))
      BY <2>4, <2>7, <3>2, WithinCovers DEF Parted
    <3>5. i = j
      BY <2>2, <3>3, <3>4, ChildrenApart
    <3> QED
      BY <2>4, <2>7, <3>1, <3>2, <3>5 DEF Parted
  <2> QED
    BY <2>2, <2>5, <2>6, <2>7 DEF Parted
<1> HIDE DEF P
<1>3. Nat \subseteq P
  BY <1>1, <1>2, SetInduction
<1> QED
  BY <1>3 DEF P

-----------------------------------------------------------------------------
(***************************************************************************)
(* Cursors.  N has the nodes on the way down that the places p give, and   *)
(* L and H their intervals.                                                *)
(***************************************************************************)
Way(h, node, lo, hi, p, N, L, H) ==
  /\ N[1] = node /\ L[1] = lo /\ H[1] = hi
  /\ \A l \in 1..h : /\ N[l + 1] = N[l][p[l]].child
                     /\ L[l + 1] = From(N[l], p[l], L[l]) /\ H[l + 1] = To(N[l], p[l], H[l])

Inside(h, p, N) == p \in Seq(Nat) /\ Len(p) = h /\ \A l \in 1..h : p[l] \in DOMAIN N[l]

(* Recursion down the levels: the nodes along a cursor.                    *)
LEMMA CursorRec ==
  ASSUME NEW T, T.depth \in Nat, NEW p
  PROVE  LET N == CursorNodes(T, p)
         IN  N[1] = T.root /\ \A l \in 1..T.depth : N[l + 1] = N[l][p[l]].child
<1> DEFINE d == T.depth
           Body(N, l) == IF l = 1 THEN T.root ELSE N[l - 1][p[l - 1]].child
           Solves(N, m) == N = [l \in 1..(m + 1) |-> Body(N, l)]
           P == {m \in Nat : \E N : Solves(N, m)}
<1>1. 0 \in P
  <2> DEFINE N == [l \in 1..(0 + 1) |-> T.root]
  <2>1. \A l \in 1..(0 + 1) : Body(N, l) = N[l]
    OBVIOUS
  <2>2. N = [l \in 1..(0 + 1) |-> N[l]]
    OBVIOUS
  <2>3. Solves(N, 0)
    BY <2>1, <2>2
  <2> QED
    BY <2>3
<1>2. ASSUME NEW m \in Nat, m \in P PROVE m + 1 \in P
  <2>1. PICK N : Solves(N, m)
    BY <1>2
  <2> DEFINE M == [l \in 1..((m + 1) + 1) |-> IF l = (m + 1) + 1 THEN N[l - 1][p[l - 1]].child ELSE N[l]]
  <2>2. ASSUME NEW l \in 1..((m + 1) + 1) PROVE M[l] = Body(M, l)
    <3>1. CASE l = 1
      <4>1. M[l] = N[l] /\ l \in 1..(m + 1)
        BY <3>1
      <4>2. N[l] = Body(N, l)
        BY <2>1, <4>1
      <4> QED
        BY <3>1, <4>1, <4>2
    <3>2. CASE l # 1 /\ l # (m + 1) + 1
      <4>1. M[l] = N[l] /\ l \in 1..(m + 1) /\ M[l - 1] = N[l - 1]
        BY <3>2
      <4>2. N[l] = Body(N, l)
        BY <2>1, <4>1
      <4> QED
        BY <3>2, <4>1, <4>2
    <3>3. CASE l # 1 /\ l = (m + 1) + 1
      <4>1. M[l] = N[l - 1][p[l - 1]].child /\ M[l - 1] = N[l - 1]
        BY <3>3
      <4> QED
        BY <3>3, <4>1
    <3> QED
      BY <3>1, <3>2, <3>3
  <2>3. M = [l \in 1..((m + 1) + 1) |-> M[l]]
    OBVIOUS
  <2> HIDE DEF M, Body
  <2>4. M = [l \in 1..((m + 1) + 1) |-> Body(M, l)]
    BY <2>2, <2>3
  <2> QED
    BY <2>4
<1> HIDE DEF P
<1>3. d \in P
  BY <1>1, <1>2, SetInduction
<1>4. CursorNodes(T, p) = CHOOSE N : Solves(N, d)
  BY Zenon DEF CursorNodes
<1> DEFINE R == CursorNodes(T, p)
<1>5. Solves(R, d)
  <2> HIDE DEF Solves
  <2>1. \E N : Solves(N, d)
    BY <1>3 DEF P
  <2> QED
    BY <1>4, <2>1
<1> HIDE DEF R
<1>6. \A l \in 1..(d + 1) : R[l] = Body(R, l)
  BY <1>5
<1>7. ASSUME NEW l \in 1..d PROVE R[l + 1] = R[l][p[l]].child
  <2>1. l + 1 \in 1..(d + 1) /\ l + 1 # 1 /\ (l + 1) - 1 = l
    OBVIOUS
  <2>2. R[l + 1] = R[(l + 1) - 1][p[(l + 1) - 1]].child
    BY <1>6, <2>1
  <2> QED
    BY <2>1, <2>2
<1>8. R[1] = T.root
  BY <1>6
<1> QED
  BY <1>7, <1>8 DEF R

(* The intervals along a cursor, and the recursion down the levels that    *)
(* they come from.                                                         *)
Edges(h, lo, hi, p, N, L, H) ==
  /\ L[1] = lo /\ H[1] = hi
  /\ \A l \in 1..h : L[l + 1] = From(N[l], p[l], L[l]) /\ H[l + 1] = To(N[l], p[l], H[l])

(* They exist.                                                             *)
LEMMA BoundsExist ==
  ASSUME NEW h \in Nat, NEW lo, NEW hi, NEW p, NEW N
  PROVE  \E L, H : Edges(h, lo, hi, p, N, L, H)
<1> DEFINE Ok(L, H, m) ==
             /\ L[1] = lo /\ H[1] = hi
             /\ \A l \in 1..m : L[l + 1] = From(N[l], p[l], L[l]) /\ H[l + 1] = To(N[l], p[l], H[l])
           P == {m \in Nat : \E L, H : Ok(L, H, m)}
<1>1. 0 \in P
  <2>1. PICK L, H : L = [l \in 1..1 |-> lo] /\ H = [l \in 1..1 |-> hi]
    OBVIOUS
  <2>2. Ok(L, H, 0)
    BY <2>1
  <2> QED
    BY <2>2
<1>2. ASSUME NEW m \in Nat, m \in P PROVE m + 1 \in P
  <2>1. PICK L, H : Ok(L, H, m)
    BY <1>2
  <2> DEFINE n == m + 1
             a == From(N[n], p[n], L[n])
             b == To(N[n], p[n], H[n])
             K == [l \in 1..(n + 1) |-> IF l = n + 1 THEN a ELSE L[l]]
             J == [l \in 1..(n + 1) |-> IF l = n + 1 THEN b ELSE H[l]]
  <2> HIDE DEF a, b
  <2>2. \A l \in 1..n : K[l] = L[l] /\ J[l] = H[l]
    OBVIOUS
  <2>3. K[n + 1] = a /\ J[n + 1] = b
    OBVIOUS
  <2> HIDE DEF K, J
  <2>4. K[1] = lo /\ J[1] = hi
    BY <2>1, <2>2
  <2>5. ASSUME NEW l \in 1..n
        PROVE  K[l + 1] = From(N[l], p[l], K[l]) /\ J[l + 1] = To(N[l], p[l], J[l])
    <3>1. CASE l = n
      BY <2>2, <2>3, <3>1 DEF a, b
    <3>2. CASE l # n
      <4>1. l \in 1..m /\ l + 1 \in 1..n
        BY <3>2
      <4> QED
        BY <2>1, <2>2, <4>1
    <3> QED
      BY <3>1, <3>2
  <2>6. Ok(K, J, m + 1)
    BY <2>4, <2>5
  <2> QED
    BY <2>6
<1> HIDE DEF P
<1>3. h \in P
  BY <1>1, <1>2, SetInduction
<1> QED
  BY <1>3 DEF P, Edges

(* So every cursor has its way, whether it leads anywhere or not.          *)
LEMMA WayExists ==
  ASSUME NEW T, T.depth \in Nat, NEW p, NEW lo, NEW hi
  PROVE  \E L, H : Way(T.depth, T.root, lo, hi, p, CursorNodes(T, p), L, H)
<1> DEFINE N == CursorNodes(T, p)
<1>1. N[1] = T.root /\ \A l \in 1..T.depth : N[l + 1] = N[l][p[l]].child
  BY CursorRec
<1> HIDE DEF N
<1>2. PICK L, H : Edges(T.depth, lo, hi, p, N, L, H)
  BY BoundsExist
<1>3. Way(T.depth, T.root, lo, hi, p, N, L, H)
  BY <1>1, <1>2 DEF Way, Edges
<1> QED
  BY <1>3 DEF N

(* On a way that stays inside down to a level, the node there is a tree    *)
(* with some of the leaves.                                                *)
LEMMA LevelSpans ==
  ASSUME NEW h \in Nat, NEW node, NEW lo, NEW hi, NEW S, Spans(h, node, lo, hi, S),
         NEW p, NEW N, NEW L, NEW H, Way(h, node, lo, hi, p, N, L, H),
         NEW m \in 0..h, \A l \in 1..m : p[l] \in DOMAIN N[l]
  PROVE  \E R : R \subseteq S /\ Spans(h - m, N[m + 1], L[m + 1], H[m + 1], R)
<1> DEFINE P == {l \in 0..m : \E R : R \subseteq S /\ Spans(h - l, N[l + 1], L[l + 1], H[l + 1], R)}
<1>1. 0 \in P
  BY DEF Way
<1>2. ASSUME NEW l \in 0..(m - 1), l \in P PROVE l + 1 \in P
  <2>1. PICK R : R \subseteq S /\ Spans(h - l, N[l + 1], L[l + 1], H[l + 1], R)
    BY <1>2
  <2>2. h - l \in Nat \ {0} /\ (h - l) - 1 = h - (l + 1) /\ l + 1 \in 1..m /\ l + 1 \in 1..h /\ l + 1 \in 0..m
    OBVIOUS
  <2> DEFINE n == l + 1
             i == p[n]
  <2>3. PICK C : /\ R = UNION {C[j] : j \in DOMAIN N[n]}
                 /\ \A j \in DOMAIN N[n] :
                      Spans((h - l) - 1, N[n][j].child, From(N[n], j, L[n]), To(N[n], j, H[n]), C[j])
    BY <2>1, <2>2, NodeSpans
  <2>4. i \in DOMAIN N[n]
    BY <2>2
  <2>5. /\ N[n + 1] = N[n][i].child
        /\ L[n + 1] = From(N[n], i, L[n]) /\ H[n + 1] = To(N[n], i, H[n])
    BY <2>2 DEF Way
  <2> HIDE DEF n, i
  <2>6. C[i] \subseteq S /\ Spans(h - (l + 1), N[n + 1], L[n + 1], H[n + 1], C[i])
    BY <2>1, <2>2, <2>3, <2>4, <2>5
  <2> QED
    BY <2>2, <2>6 DEF n
<1> HIDE DEF P
<1>3. m \in P
  BY <1>1, <1>2, BoundedInduction
<1> QED
  BY <1>3 DEF P

(* The leaf at the end of it is one of the leaves.                         *)
LEMMA WayEnds ==
  ASSUME NEW h \in Nat, NEW node, NEW lo, NEW hi, NEW S, Spans(h, node, lo, hi, S),
         NEW p, NEW N, NEW L, NEW H, Way(h, node, lo, hi, p, N, L, H), Inside(h, p, N)
  PROVE  <<L[h + 1], H[h + 1], N[h + 1]>> \in S /\ Interval(L[h + 1], H[h + 1])
<1>1. PICK R : R \subseteq S /\ Spans(h - h, N[h + 1], L[h + 1], H[h + 1], R)
  BY LevelSpans DEF Inside
<1>2. h - h = 0
  OBVIOUS
<1>3. R = {<<L[h + 1], H[h + 1], N[h + 1]>>} /\ Interval(L[h + 1], H[h + 1])
  BY <1>1, <1>2, LeafSpans
<1> QED
  BY <1>1, <1>3

(* Ways to the same places are the same.                                   *)
LEMMA WaySame ==
  ASSUME NEW h \in Nat, NEW node, NEW lo, NEW hi,
         NEW p, NEW N, NEW L, NEW H, Way(h, node, lo, hi, p, N, L, H),
         NEW q, NEW M, NEW K, NEW J, Way(h, node, lo, hi, q, M, K, J),
         NEW m \in 0..h, \A l \in 1..m : p[l] = q[l]
  PROVE  \A l \in 1..(m + 1) : N[l] = M[l] /\ L[l] = K[l] /\ H[l] = J[l]
<1> DEFINE P == {l \in 0..m : N[l + 1] = M[l + 1] /\ L[l + 1] = K[l + 1] /\ H[l + 1] = J[l + 1]}
<1>1. 0 \in P
  BY DEF Way
<1>2. ASSUME NEW l \in 0..(m - 1), l \in P PROVE l + 1 \in P
  <2> DEFINE n == l + 1
  <2>1. n \in 1..h /\ n \in 1..m /\ n \in 0..m
    OBVIOUS
  <2>2. N[n] = M[n] /\ L[n] = K[n] /\ H[n] = J[n] /\ p[n] = q[n]
    BY <1>2, <2>1
  <2>3. /\ N[n + 1] = N[n][p[n]].child
        /\ L[n + 1] = From(N[n], p[n], L[n]) /\ H[n + 1] = To(N[n], p[n], H[n])
    BY <2>1 DEF Way
  <2>4. /\ M[n + 1] = M[n][q[n]].child
        /\ K[n + 1] = From(M[n], q[n], K[n]) /\ J[n + 1] = To(M[n], q[n], J[n])
    BY <2>1 DEF Way
  <2> HIDE DEF n
  <2> QED
    BY <2>1, <2>2, <2>3, <2>4 DEF n
<1> HIDE DEF P
<1>3. 0..m \subseteq P
  BY <1>1, <1>2, BoundedInduction
<1>4. ASSUME NEW l \in 1..(m + 1) PROVE N[l] = M[l] /\ L[l] = K[l] /\ H[l] = J[l]
  <2>1. l - 1 \in P /\ (l - 1) + 1 = l
    BY <1>3
  <2> QED
    BY <2>1 DEF P
<1> QED
  BY <1>4

-----------------------------------------------------------------------------
(* A tree and its leaves, and a cursor in it with the leaf it has.         *)
Tree(T, S) ==
  /\ T.depth \in Nat \ {0} /\ T = [depth |-> T.depth, root |-> T.root]
  /\ Spans(T.depth, T.root, 0, NoBound, S)

At(T, p, s) ==
  LET N == CursorNodes(T, p)
      d == T.depth
  IN  /\ Inside(d, p, N)
      /\ \E L, H : /\ Way(d, T.root, 0, NoBound, p, N, L, H)
                   /\ s = <<L[d + 1], H[d + 1], N[d + 1]>>

(* The leaf of a cursor is one of the leaves.                              *)
LEMMA AtLeaf ==
  ASSUME NEW T, NEW S, Tree(T, S), NEW p, NEW s, At(T, p, s)
  PROVE  s \in S /\ cursor_leaf(T, p) = s[3] /\ Interval(s[1], s[2])
<1> DEFINE N == CursorNodes(T, p)
           d == T.depth
<1>1. d \in Nat /\ Inside(d, p, N) /\ Spans(d, T.root, 0, NoBound, S)
  BY DEF At, Tree
<1>2. PICK L, H : Way(d, T.root, 0, NoBound, p, N, L, H) /\ s = <<L[d + 1], H[d + 1], N[d + 1]>>
  BY DEF At
<1>3. cursor_leaf(T, p) = N[d + 1]
  BY DEF cursor_leaf, cursor_node
<1> HIDE DEF N, d
<1>4. <<L[d + 1], H[d + 1], N[d + 1]>> \in S /\ Interval(L[d + 1], H[d + 1])
  BY <1>1, <1>2, WayEnds
<1> QED
  BY <1>2, <1>3, <1>4

(* Recursion down the levels: probe.                                       *)
LEMMA ProbeRec ==
  ASSUME NEW T, T.depth \in Nat, NEW k
  PROVE  \E P : /\ probe(T, k) = P[T.depth] /\ P[0] = <<>>
                /\ \A l \in 1..T.depth : P[l] = Append(P[l - 1], Slot(CursorNodes(T, P[l - 1])[l], k))
<1> DEFINE d == T.depth
           Next1(q, l) == Append(q, Slot(cursor_node(T, q, l), k))
           Body(P, l) == IF l = 0 THEN <<>> ELSE Next1(P[l - 1], l)
           Solves(P, m) == P = [l \in 0..m |-> Body(P, l)]
           Q == {m \in Nat : \E P : Solves(P, m)}
<1> HIDE DEF Next1
<1>1. 0 \in Q
  <2>1. PICK P : P = [l \in 0..0 |-> <<>>]
    OBVIOUS
  <2>2. \A l \in 0..0 : Body(P, l) = <<>>
    OBVIOUS
  <2>3. Solves(P, 0)
    BY <2>1, <2>2
  <2> QED
    BY <2>3
<1>2. ASSUME NEW m \in Nat, m \in Q PROVE m + 1 \in Q
  <2>1. PICK P : Solves(P, m)
    BY <1>2
  <2> DEFINE M == [l \in 0..(m + 1) |-> IF l = m + 1 THEN Next1(P[m], m + 1) ELSE P[l]]
  <2>2. ASSUME NEW l \in 0..(m + 1) PROVE M[l] = Body(M, l)
    <3>1. CASE l = m + 1
      <4>1. M[l] = Next1(P[m], m + 1) /\ M[l - 1] = P[m] /\ l # 0
        BY <3>1
      <4> QED
        BY <3>1, <4>1
    <3>2. CASE l # m + 1 /\ l # 0
      <4>1. M[l] = P[l] /\ l \in 0..m /\ M[l - 1] = P[l - 1]
        BY <3>2
      <4>2. P[l] = Body(P, l)
        BY <2>1, <4>1
      <4> QED
        BY <3>2, <4>1, <4>2
    <3>3. CASE l = 0
      <4>1. M[l] = P[l] /\ l \in 0..m
        BY <3>3
      <4>2. P[l] = Body(P, l)
        BY <2>1, <4>1
      <4> QED
        BY <3>3, <4>1, <4>2
    <3> QED
      BY <3>1, <3>2, <3>3
  <2>3. M = [l \in 0..(m + 1) |-> M[l]]
    OBVIOUS
  <2> HIDE DEF M, Body
  <2>4. M = [l \in 0..(m + 1) |-> Body(M, l)]
    BY <2>2, <2>3
  <2> QED
    BY <2>4
<1> HIDE DEF Q
<1>3. d \in Q
  BY <1>1, <1>2, SetInduction
<1>4. PICK P : P = CHOOSE R : Solves(R, d)
  OBVIOUS
<1>5. probe(T, k) = P[d]
  BY <1>4, Zenon DEF probe, Next1
<1>6. Solves(P, d)
  <2> HIDE DEF Solves
  <2>1. \E R : Solves(R, d)
    BY <1>3 DEF Q
  <2> QED
    BY <1>4, <2>1
<1>7. ASSUME NEW l \in 1..d PROVE P[l] = Append(P[l - 1], Slot(CursorNodes(T, P[l - 1])[l], k))
  <2>1. P[l] = Next1(P[l - 1], l)
    BY <1>6
  <2> QED
    BY <2>1 DEF Next1, cursor_node
<1>8. P[0] = <<>>
  BY <1>6
<1> QED
  BY <1>5, <1>7, <1>8

(* probe finds the leaf that has the key.                                  *)
LEMMA ProbeAt ==
  ASSUME NEW T, NEW S, Tree(T, S), NEW k \in Nat
  PROVE  \E s \in S : At(T, probe(T, k), s) /\ Covers(s, k)
<1> DEFINE d == T.depth
           Good(q, m) ==
             /\ q \in Seq(Nat) /\ Len(q) = m
             /\ \E N, L, H : /\ N = CursorNodes(T, q) /\ Way(d, T.root, 0, NoBound, q, N, L, H)
                             /\ \A l \in 1..m : q[l] \in DOMAIN N[l]
                             /\ L[m + 1] <= k /\ Below(k, H[m + 1])
<1>1. d \in Nat \ {0} /\ Spans(d, T.root, 0, NoBound, S)
  BY DEF Tree
<1>2. PICK P : /\ probe(T, k) = P[d] /\ P[0] = <<>>
               /\ \A l \in 1..d : P[l] = Append(P[l - 1], Slot(CursorNodes(T, P[l - 1])[l], k))
  BY <1>1, ProbeRec
<1> DEFINE Q == {m \in 0..d : Good(P[m], m)}
<1>3. 0 \in Q
  <2>1. P[0] \in Seq(Nat) /\ Len(P[0]) = 0
    BY <1>2
  <2>2. PICK L, H : Way(d, T.root, 0, NoBound, P[0], CursorNodes(T, P[0]), L, H)
    BY <1>1, WayExists
  <2>3. L[1] = 0 /\ H[1] = NoBound
    BY <2>2 DEF Way
  <2>4. Good(P[0], 0)
    BY <2>1, <2>2, <2>3 DEF Below
  <2> HIDE DEF Good
  <2> QED
    BY <1>1, <2>4
<1>4. ASSUME NEW m \in 0..(d - 1), m \in Q PROVE m + 1 \in Q
  <2> DEFINE n == m + 1
             q == P[m]
             r == P[n]
  <2>1. n \in 1..d /\ n - 1 = m /\ n \in 0..d /\ m \in 0..d /\ m \in Nat /\ n \in Nat
    BY <1>1
  <2>2. q \in Seq(Nat) /\ Len(q) = m
    BY <1>4
  <2>3. PICK N, L, H : /\ N = CursorNodes(T, q) /\ Way(d, T.root, 0, NoBound, q, N, L, H)
                       /\ \A l \in 1..m : q[l] \in DOMAIN N[l]
                       /\ L[n] <= k /\ Below(k, H[n])
    BY <1>4
  <2> DEFINE i == Slot(N[n], k)
  <2>4. r = Append(q, i)
    BY <1>2, <2>1, <2>3
  <2> HIDE DEF q, r, n, Q
  <2>5. PICK R : Spans(d - m, N[n], L[n], H[n], R)
    <3>1. \E R : R \subseteq S /\ Spans(d - m, N[m + 1], L[m + 1], H[m + 1], R)
      BY <1>1, <2>1, <2>3, LevelSpans
    <3> QED
      BY <3>1 DEF n
  <2>6. Interval(L[n], H[n]) /\ Divides(N[n], L[n], H[n])
    <3>1. d - m \in Nat \ {0}
      BY <1>1, <2>1
    <3> QED
      BY <2>5, <3>1, NodeSpans
  <2>7. i \in DOMAIN N[n] /\ From(N[n], i, L[n]) <= k /\ Below(k, To(N[n], i, H[n]))
    BY <2>3, <2>6, SlotIn
  <2>8. i \in Nat
    BY <2>6, <2>7, Entries
  <2> HIDE DEF i
  <2>9. r \in Seq(Nat) /\ Len(r) = n /\ r[n] = i /\ \A l \in 1..m : r[l] = q[l]
    BY <2>1, <2>2, <2>4, <2>8
  <2>10. PICK M : M = CursorNodes(T, r)
    OBVIOUS
  <2>11. PICK K, J : Way(d, T.root, 0, NoBound, r, M, K, J)
    BY <1>1, <2>10, WayExists
  <2>12. \A l \in 1..n : N[l] = M[l] /\ L[l] = K[l] /\ H[l] = J[l]
    <3>1. \A l \in 1..(m + 1) : N[l] = M[l] /\ L[l] = K[l] /\ H[l] = J[l]
      <4>1. \A l \in 1..m : q[l] = r[l]
        BY <2>9
      <4>2. d \in Nat
        BY <1>1
      <4> HIDE DEF d
      <4> QED
        BY <2>1, <2>3, <2>11, <4>1, <4>2, WaySame
    <3> QED
      BY <3>1 DEF n
  <2>13. ASSUME NEW l \in 1..n PROVE r[l] \in DOMAIN M[l]
    <3>1. CASE l = n
      BY <2>7, <2>9, <2>12, <3>1
    <3>2. CASE l # n
      <4>1. l \in 1..m
        BY <2>1, <3>2
      <4> QED
        BY <2>3, <2>9, <2>12, <4>1
    <3> QED
      BY <3>1, <3>2
  <2>14. K[n + 1] <= k /\ Below(k, J[n + 1])
    <3>1. K[n + 1] = From(M[n], r[n], K[n]) /\ J[n + 1] = To(M[n], r[n], J[n])
      BY <2>1, <2>11 DEF Way
    <3>2. N[n] = M[n] /\ L[n] = K[n] /\ H[n] = J[n]
      BY <2>1, <2>12
    <3> QED
      BY <2>7, <2>9, <3>1, <3>2
  <2>15. Good(r, n)
    BY <2>9, <2>10, <2>11, <2>13, <2>14
  <2> HIDE DEF Good
  <2> QED
    BY <2>1, <2>15 DEF r, n, Q
<1>5. 0..d \subseteq Q
  <2> HIDE DEF Q, d
  <2> QED
    BY <1>1, <1>3, <1>4, BoundedInduction
<1>6. Good(P[d], d)
  <2> HIDE DEF Good
  <2>1. d \in 0..d
    BY <1>1
  <2> QED
    BY <1>5, <2>1
<1> DEFINE p == P[d]
<1>7. p \in Seq(Nat) /\ Len(p) = d
  BY <1>6
<1>8. PICK N, L, H : /\ N = CursorNodes(T, p) /\ Way(d, T.root, 0, NoBound, p, N, L, H)
                     /\ \A l \in 1..d : p[l] \in DOMAIN N[l]
                     /\ L[d + 1] <= k /\ Below(k, H[d + 1])
  BY <1>6
<1> HIDE DEF p
<1> DEFINE s == <<L[d + 1], H[d + 1], N[d + 1]>>
<1>9. At(T, p, s)
  BY <1>7, <1>8 DEF At, Inside
<1>10. Covers(s, k)
  BY <1>8 DEF Covers
<1>11. s \in S
  <2> HIDE DEF s
  <2> QED
    BY <1>9, AtLeaf
<1> QED
  BY <1>2, <1>9, <1>10, <1>11 DEF p

(* Below the last level in which a cursor has room, the intervals end      *)
(* together; below the last in which it is not at the start they begin     *)
(* together.                                                               *)
LEMMA EndsTogether ==
  ASSUME NEW h \in Nat, NEW node, NEW lo, NEW hi,
         NEW p, NEW N, NEW L, NEW H, Way(h, node, lo, hi, p, N, L, H), NEW m \in 0..h
  PROVE  /\ (\A l \in (m + 1)..h : p[l] = Len(N[l])) => H[h + 1] = H[m + 1]
         /\ (\A l \in (m + 1)..h : p[l] = 1) => L[h + 1] = L[m + 1]
<1>1. ASSUME \A l \in (m + 1)..h : p[l] = Len(N[l]) PROVE H[h + 1] = H[m + 1]
  <2> DEFINE P == {j \in 0..(h - m) : H[(m + 1) + j] = H[m + 1]}
  <2>1. 0 \in P
    OBVIOUS
  <2>2. ASSUME NEW j \in 0..((h - m) - 1), j \in P PROVE j + 1 \in P
    <3> DEFINE l == (m + 1) + j
    <3>1. l \in (m + 1)..h /\ l \in 1..h /\ l + 1 = (m + 1) + (j + 1) /\ j + 1 \in 0..(h - m)
      OBVIOUS
    <3>2. H[l + 1] = To(N[l], p[l], H[l])
      BY <3>1 DEF Way
    <3>3. p[l] = Len(N[l]) /\ H[l] = H[m + 1]
      BY <1>1, <2>2, <3>1
    <3> HIDE DEF l
    <3> QED
      BY <3>1, <3>2, <3>3 DEF To
  <2>3. h - m \in Nat
    OBVIOUS
  <2> HIDE DEF P
  <2>4. h - m \in P
    BY <2>1, <2>2, <2>3, BoundedInduction
  <2> QED
    BY <2>4 DEF P
<1>2. ASSUME \A l \in (m + 1)..h : p[l] = 1 PROVE L[h + 1] = L[m + 1]
  <2> DEFINE P == {j \in 0..(h - m) : L[(m + 1) + j] = L[m + 1]}
  <2>1. 0 \in P
    OBVIOUS
  <2>2. ASSUME NEW j \in 0..((h - m) - 1), j \in P PROVE j + 1 \in P
    <3> DEFINE l == (m + 1) + j
    <3>1. l \in (m + 1)..h /\ l \in 1..h /\ l + 1 = (m + 1) + (j + 1) /\ j + 1 \in 0..(h - m)
      OBVIOUS
    <3>2. L[l + 1] = From(N[l], p[l], L[l])
      BY <3>1 DEF Way
    <3>3. p[l] = 1 /\ L[l] = L[m + 1]
      BY <1>2, <2>2, <3>1
    <3> HIDE DEF l
    <3> QED
      BY <3>1, <3>2, <3>3 DEF From
  <2>3. h - m \in Nat
    OBVIOUS
  <2> HIDE DEF P
  <2>4. h - m \in P
    BY <2>1, <2>2, <2>3, BoundedInduction
  <2> QED
    BY <2>4 DEF P
<1> QED
  BY <1>1, <1>2

(* Of the levels with room there is a deepest.                             *)
LEMMA DeepestIs ==
  ASSUME NEW d \in Nat, NEW R, R \subseteq 1..d, R # {}
  PROVE  Deepest(R) \in R /\ \A l \in R : l <= Deepest(R)
<1> DEFINE F == {d - l : l \in R}
<1>1. F \subseteq Nat /\ F # {}
  OBVIOUS
<1>2. PICK x \in F : \A y \in F : x <= y
  BY <1>1, LeastNat
<1>3. PICK l \in R : x = d - l
  BY <1>2
<1>4. \A k \in R : k <= l
  <2> SUFFICES ASSUME NEW k \in R PROVE k <= l
    OBVIOUS
  <2>1. d - l <= d - k
    BY <1>2, <1>3
  <2> QED
    BY <2>1
<1>5. \E m \in R : \A k \in R : k <= m
  BY <1>4
<1> QED
  BY <1>5 DEF Deepest

(* The deepest level with room: the interval of the leaf ends with that of *)
(* the entry there.  Without one it has no bound.                          *)
LEMMA RoomAt ==
  ASSUME NEW T, NEW S, Tree(T, S), NEW p, NEW N, NEW L, NEW H, N = CursorNodes(T, p),
         Inside(T.depth, p, N), Way(T.depth, T.root, 0, NoBound, p, N, L, H)
  PROVE  LET R == Open(T, p, T.depth)
             m == Deepest(R)
         IN  /\ R = {} => H[T.depth + 1] = NoBound
             /\ R # {} => /\ m \in 1..T.depth /\ Divides(N[m], L[m], H[m]) /\ Interval(L[m], H[m])
                          /\ p[m] \in DOMAIN N[m] /\ p[m] + 1 \in DOMAIN N[m] \ {1}
                          /\ H[T.depth + 1] = N[m][p[m] + 1].key /\ N[m][p[m] + 1].key \in Nat
<1> DEFINE d == T.depth
           R == Open(T, p, d)
           m == Deepest(R)
<1>1. d \in Nat \ {0} /\ Spans(d, T.root, 0, NoBound, S)
  BY DEF Tree
<1>2. R = {l \in 1..d : p[l] # Len(N[l])}
  BY DEF Open, level_finished, cursor_node
<1> HIDE DEF R, d
<1>3. CASE R = {}
  <2>1. \A l \in (0 + 1)..d : p[l] = Len(N[l])
    BY <1>2, <1>3
  <2>2. H[d + 1] = H[0 + 1]
    <3>1. PICK z : z = 0
      OBVIOUS
    <3>2. z \in 0..d /\ d \in Nat /\ Way(d, T.root, 0, NoBound, p, N, L, H)
      BY <1>1, <3>1 DEF d
    <3>3. (\A l \in (z + 1)..d : p[l] = Len(N[l])) => H[d + 1] = H[z + 1]
      BY ONLY <3>2, EndsTogether
    <3> QED
      BY <2>1, <3>1, <3>3
  <2>3. H[0 + 1] = NoBound
    BY DEF Way
  <2> QED
    BY <1>3, <2>2, <2>3 DEF R, d
<1>4. CASE R # {}
  <2>1. m \in R /\ \A l \in R : l <= m
    BY <1>1, <1>2, <1>4, DeepestIs
  <2> HIDE DEF m
  <2>2. m \in 1..d /\ p[m] # Len(N[m]) /\ \A l \in (m + 1)..d : p[l] = Len(N[l])
    <3>1. ASSUME NEW l \in (m + 1)..d PROVE p[l] = Len(N[l])
      <4>1. l \in 1..d /\ ~(l <= m)
        BY <1>1, <1>2, <2>1
      <4>2. l \notin R
        BY <2>1, <4>1
      <4> QED
        BY <1>2, <4>1, <4>2
    <3> QED
      BY <1>2, <2>1, <3>1
  <2>3. H[d + 1] = H[m + 1]
    <3>1. m \in 0..d /\ d \in Nat /\ Way(d, T.root, 0, NoBound, p, N, L, H)
      BY <1>1, <2>2 DEF d
    <3> QED
      BY <2>2, <3>1, EndsTogether
  <2>4. H[m + 1] = To(N[m], p[m], H[m]) /\ p[m] \in DOMAIN N[m]
    BY <2>2 DEF Way, Inside, d
  <2>5. \E X : X \subseteq S /\ Spans(d - (m - 1), N[(m - 1) + 1], L[(m - 1) + 1], H[(m - 1) + 1], X)
    <3>1. m - 1 \in 0..d /\ d \in Nat /\ Way(d, T.root, 0, NoBound, p, N, L, H)
      BY <1>1, <2>2 DEF d
    <3>2. \A l \in 1..(m - 1) : p[l] \in DOMAIN N[l]
      BY <1>1, <2>2 DEF Inside, d
    <3> QED
      BY <1>1, <3>1, <3>2, LevelSpans
  <2>6. (m - 1) + 1 = m /\ d - (m - 1) \in Nat \ {0}
    BY <1>1, <2>2
  <2>7. Interval(L[m], H[m]) /\ Divides(N[m], L[m], H[m])
    BY <2>5, <2>6, NodeSpans
  <2> DEFINE n == Len(N[m])
  <2>8. /\ n \in Nat \ {0} /\ DOMAIN N[m] = 1..n
        /\ \A i \in DOMAIN N[m] : N[m][i].key \in Nat /\ i \in Nat
    BY <2>7, Entries
  <2>9. p[m] # n
    BY <2>2
  <2>10. H[m + 1] = N[m][p[m] + 1].key
    BY <2>4, <2>9 DEF To
  <2> HIDE DEF n
  <2>11. p[m] + 1 \in DOMAIN N[m] \ {1}
    BY <2>4, <2>8, <2>9
  <2> QED
    BY <1>4, <2>2, <2>3, <2>4, <2>7, <2>8, <2>10, <2>11 DEF R, m, d
<1> QED
  BY <1>3, <1>4

(* next_key is the bound of the leaf.                                      *)
LEMMA NextKey ==
  ASSUME NEW T, NEW S, Tree(T, S), NEW p, NEW s, At(T, p, s), NEW none
  PROVE  /\ s[2] = NoBound => next_key(T, p, T.depth, none) = none
         /\ s[2] # NoBound => next_key(T, p, T.depth, none) = s[2]
<1>1. PICK N : N = CursorNodes(T, p)
  OBVIOUS
<1>2. PICK L, H : /\ Way(T.depth, T.root, 0, NoBound, p, N, L, H)
                  /\ s = <<L[T.depth + 1], H[T.depth + 1], N[T.depth + 1]>>
  BY <1>1 DEF At
<1> DEFINE R == Open(T, p, T.depth)
           m == Deepest(R)
<1>3. /\ R = {} => H[T.depth + 1] = NoBound
      /\ R # {} => H[T.depth + 1] = N[m][p[m] + 1].key /\ N[m][p[m] + 1].key \in Nat
  BY <1>1, <1>2, RoomAt DEF At
<1>4. next_key(T, p, T.depth, none) = IF R = {} THEN none ELSE N[m][p[m] + 1].key
  BY <1>1 DEF next_key, cursor_node
<1> HIDE DEF R, m
<1> QED
  BY <1>2, <1>3, <1>4 DEF NoBound

(* advance leads to the leaf that begins where the last one ends.          *)
LEMMA AdvanceAt ==
  ASSUME NEW T, NEW S, Tree(T, S), NEW p, NEW s, At(T, p, s), s[2] # NoBound
  PROVE  \E t \in S : At(T, advance(T, p), t) /\ t[1] = s[2]
<1> DEFINE d == T.depth
           m == Deepest(Open(T, p, d))
           q == [l \in DOMAIN p |-> IF l < m THEN p[l] ELSE IF l = m THEN p[l] + 1 ELSE 1]
<1>1. d \in Nat \ {0} /\ Spans(d, T.root, 0, NoBound, S)
  BY DEF Tree
<1>2. PICK N : N = CursorNodes(T, p)
  OBVIOUS
<1>3. PICK L, H : Way(d, T.root, 0, NoBound, p, N, L, H) /\ s = <<L[d + 1], H[d + 1], N[d + 1]>>
  BY <1>2 DEF At
<1>4. Inside(d, p, N)
  BY <1>2 DEF At
<1>5. /\ m \in 1..d /\ Divides(N[m], L[m], H[m]) /\ Interval(L[m], H[m])
      /\ p[m] \in DOMAIN N[m] /\ p[m] + 1 \in DOMAIN N[m] \ {1}
      /\ s[2] = N[m][p[m] + 1].key
  BY <1>2, <1>3, <1>4, RoomAt
<1>6. advance(T, p) = q
  BY DEF advance
<1>7. p \in Seq(Nat) /\ Len(p) = d /\ DOMAIN p = 1..d
  BY <1>4 DEF Inside
<1> HIDE DEF m
<1>8. q \in Seq(Nat) /\ Len(q) = d /\ \A l \in 1..d : q[l] = IF l < m THEN p[l] ELSE IF l = m THEN p[l] + 1 ELSE 1
  <2> HIDE DEF d
  <2>1. q \in [1..d -> Nat]
    BY <1>5, <1>7
  <2>2. \A l \in 1..d : q[l] = IF l < m THEN p[l] ELSE IF l = m THEN p[l] + 1 ELSE 1
    BY <1>7
  <2> HIDE DEF q
  <2> QED
    BY <1>1, <2>1, <2>2
<1> HIDE DEF q
<1>9. PICK M : M = CursorNodes(T, q)
  OBVIOUS
<1>10. PICK K, J : Way(d, T.root, 0, NoBound, q, M, K, J)
  BY <1>1, <1>9, WayExists
<1> HIDE DEF d
<1>11. \A l \in 1..m : N[l] = M[l] /\ L[l] = K[l] /\ H[l] = J[l]
  <2>1. m - 1 \in 0..d /\ (m - 1) + 1 = m /\ d \in Nat
    BY <1>1, <1>5
  <2>2. \A l \in 1..(m - 1) : p[l] = q[l]
    BY <1>1, <1>5, <1>8
  <2>3. \A l \in 1..((m - 1) + 1) : N[l] = M[l] /\ L[l] = K[l] /\ H[l] = J[l]
    BY <1>3, <1>10, <2>1, <2>2, WaySame
  <2> QED
    BY <2>1, <2>3
<1> DEFINE P == {l \in 0..d : \A j \in 1..l : q[j] \in DOMAIN M[j]}
<1>12. 0 \in P
  BY <1>1
<1>13. ASSUME NEW l \in 0..(d - 1), l \in P PROVE l + 1 \in P
  <2>1. l + 1 \in 1..d /\ l \in 0..d /\ d - l \in Nat \ {0}
    BY <1>1
  <2>2. q[l + 1] \in DOMAIN M[l + 1]
    <3>1. CASE l + 1 < m
      <4>1. M[l + 1] = N[l + 1] /\ q[l + 1] = p[l + 1]
        BY <1>5, <1>8, <1>11, <2>1, <3>1
      <4> QED
        BY <1>4, <2>1, <4>1 DEF Inside
    <3>2. CASE l + 1 = m
      <4>1. M[m] = N[m] /\ q[m] = p[m] + 1
        BY <1>5, <1>8, <1>11, <2>1, <3>2
      <4> QED
        BY <1>5, <3>2, <4>1
    <3>3. CASE l + 1 > m
      <4>1. q[l + 1] = 1
        BY <1>5, <1>8, <2>1, <3>3
      <4>2. \E X : X \subseteq S /\ Spans(d - l, M[l + 1], K[l + 1], J[l + 1], X)
        <5>1. \A j \in 1..l : q[j] \in DOMAIN M[j]
          BY <1>13
        <5>2. d \in Nat /\ Spans(d, T.root, 0, NoBound, S)
          BY <1>1
        <5> QED
          BY <1>10, <2>1, <5>1, <5>2, LevelSpans
      <4>3. Interval(K[l + 1], J[l + 1]) /\ Divides(M[l + 1], K[l + 1], J[l + 1])
        BY <2>1, <4>2, NodeSpans
      <4> QED
        BY <4>1, <4>3, Entries
    <3> QED
      BY <1>5, <2>1, <3>1, <3>2, <3>3
  <2>3. ASSUME NEW j \in 1..(l + 1) PROVE q[j] \in DOMAIN M[j]
    <3>1. j = l + 1 \/ j \in 1..l
      BY <2>1
    <3> QED
      BY <1>13, <2>2, <3>1
  <2> QED
    BY <2>1, <2>3
<1>14. d \in P
  <2> HIDE DEF P
  <2> QED
    BY <1>1, <1>12, <1>13, BoundedInduction
<1>15. Inside(d, q, M)
  BY <1>8, <1>14 DEF Inside
<1>16. K[d + 1] = s[2]
  <2>1. \A l \in (m + 1)..d : q[l] = 1
    BY <1>1, <1>5, <1>8
  <2>2. m \in 0..d /\ d \in Nat
    BY <1>1, <1>5
  <2>3. K[d + 1] = K[m + 1]
    BY <1>10, <2>1, <2>2, EndsTogether
  <2>4. K[m + 1] = From(M[m], q[m], K[m])
    BY <1>5, <1>10 DEF Way
  <2>5. M[m] = N[m] /\ q[m] = p[m] + 1 /\ q[m] # 1
    <3>1. m \in 1..m /\ ~(m < m)
      BY <1>5
    <3> QED
      BY <1>5, <1>8, <1>11, <3>1
  <2> QED
    BY <1>5, <2>3, <2>4, <2>5 DEF From
<1> DEFINE t == <<K[d + 1], J[d + 1], M[d + 1]>>
<1>17. At(T, q, t)
  BY <1>9, <1>10, <1>15 DEF At, d
<1>18. t \in S
  <2> HIDE DEF t
  <2> QED
    BY <1>17, AtLeaf
<1>19. t[1] = s[2]
  BY <1>16
<1> QED
  BY <1>6, <1>17, <1>18, <1>19

-----------------------------------------------------------------------------
(***************************************************************************)
(* Changes of a node: a child is replaced, an entry is added, the node is  *)
(* cut in two.                                                             *)
(***************************************************************************)

(* Sequences by their places.                                              *)
Numbered(s, n) == s = [i \in 1..n |-> s[i]]

(* A sequence is a function on the first naturals.                         *)
LEMMA SeqNumbered ==
  ASSUME NEW s, IsSeq(s)
  PROVE  Len(s) \in Nat /\ DOMAIN s = 1..Len(s) /\ Numbered(s, Len(s))
<1>1. PICK S : s \in Seq(S)
  BY DEF IsSeq
<1> QED
  BY <1>1 DEF Numbered

(* And the other way round.                                                *)
LEMMA NumberedSeq ==
  ASSUME NEW n \in Nat, NEW s, Numbered(s, n)
  PROVE  IsSeq(s) /\ Len(s) = n /\ DOMAIN s = 1..n
<1>1. DOMAIN s = 1..n
  BY DEF Numbered
<1>2. s \in [1..n -> {s[i] : i \in 1..n}]
  BY DEF Numbered
<1> DEFINE R == {s[i] : i \in 1..n}
<1> HIDE DEF R
<1>3. s \in Seq(R)
  BY <1>2 DEF R
<1>4. Len(s) = n
  BY <1>2, <1>3 DEF R
<1> QED
  BY <1>1, <1>3, <1>4 DEF IsSeq

(* The child of an entry is another.                                       *)
IsChild(new, node, i, x) == new = [node EXCEPT ![i].child = x]

(* Its key ranges stay those it had, and so do the others.                 *)
LEMMA PutChild ==
  ASSUME NEW node, NEW lo, NEW hi, Interval(lo, hi), Divides(node, lo, hi), NEW i \in DOMAIN node,
         NEW x, NEW new, IsChild(new, node, i, x)
  PROVE  /\ Divides(new, lo, hi) /\ DOMAIN new = DOMAIN node /\ Len(new) = Len(node)
         /\ new[i].child = x /\ \A j \in DOMAIN node \ {i} : new[j] = node[j]
         /\ \A j \in DOMAIN node : From(new, j, lo) = From(node, j, lo) /\ To(new, j, hi) = To(node, j, hi)
<1>1. /\ Len(node) \in Nat \ {0} /\ DOMAIN node = 1..Len(node)
      /\ \A j \in DOMAIN node : node[j].key \in Nat /\ j \in Nat
  BY Entries
<1>2. node[i] = index_entry(node[i].key, node[i].child)
  BY DEF Divides
<1>3. IsSeq(node)
  BY DEF Divides
<1>4. Numbered(node, Len(node))
  BY <1>3, SeqNumbered
<1> DEFINE n == Len(node)
           k == node[i].key
           c == node[i].child
<1> HIDE DEF n, k, c
<1>5. Numbered(new, n)
  BY <1>1, <1>4 DEF IsChild, n, Numbered
<1>6. \A j \in DOMAIN node \ {i} : new[j] = node[j]
  BY DEF IsChild
<1>7. new[i] = index_entry(k, x)
  <2>1. new[i] = [node[i] EXCEPT !.child = x]
    BY DEF IsChild
  <2>2. node[i] = [key |-> k, child |-> c]
    BY <1>2 DEF index_entry, k, c
  <2> QED
    BY <2>1, <2>2 DEF index_entry
<1>8. new[i].key = k /\ new[i].child = x
  BY <1>7 DEF index_entry
<1>9. IsSeq(new) /\ Len(new) = n /\ DOMAIN new = 1..n
  BY <1>1, <1>5, NumberedSeq DEF n
<1>10. \A j \in DOMAIN node : new[j].key = node[j].key
  BY <1>6, <1>8 DEF k
<1>11. ASSUME NEW j \in DOMAIN node PROVE new[j] = index_entry(new[j].key, new[j].child)
  <2>1. CASE j = i
    BY <1>7, <1>8, <2>1
  <2>2. CASE j # i
    <3>1. node[j] = index_entry(node[j].key, node[j].child)
      BY DEF Divides
    <3> QED
      BY <1>6, <2>2, <3>1
  <2> QED
    BY <2>1, <2>2
<1>12. DOMAIN new = DOMAIN node
  BY <1>1, <1>9 DEF n
<1>13. Divides(new, lo, hi)
  <2>1. Len(new) >= 1
    BY <1>1, <1>9 DEF n
  <2>2. \A j \in DOMAIN new : new[j] = index_entry(new[j].key, new[j].child) /\ new[j].key \in Nat
    BY <1>1, <1>10, <1>11, <1>12
  <2>3. \A j \in DOMAIN new \ {1} : lo < new[j].key /\ Below(new[j].key, hi)
    BY <1>10, <1>12 DEF Divides
  <2>4. \A j, l \in DOMAIN new \ {1} : j < l => new[j].key < new[l].key
    BY <1>10, <1>12 DEF Divides
  <2> QED
    BY <1>9, <2>1, <2>2, <2>3, <2>4 DEF Divides
<1>14. ASSUME NEW j \in DOMAIN node
       PROVE  From(new, j, lo) = From(node, j, lo) /\ To(new, j, hi) = To(node, j, hi)
  <2>1. j # Len(node) => j + 1 \in DOMAIN node
    BY <1>1
  <2>2. Len(new) = Len(node)
    BY <1>9 DEF n
  <2> QED
    BY <1>10, <2>1, <2>2 DEF From, To
<1> QED
  BY <1>6, <1>8, <1>9, <1>12, <1>13, <1>14 DEF n

(* The children but one, and the leaves they have.                         *)
OthersSpan(h, node, lo, hi, i, Rest) ==
  \E C : /\ Rest = UNION {C[j] : j \in DOMAIN node \ {i}}
         /\ \A j \in DOMAIN node \ {i} :
              Spans(h - 1, node[j].child, From(node, j, lo), To(node, j, hi), C[j])

(* A node spans what its child at i spans and what the others do.          *)
LEMMA OpenSpans ==
  ASSUME NEW h \in Nat \ {0}, NEW node, NEW lo, NEW hi, NEW S, Spans(h, node, lo, hi, S),
         NEW i \in DOMAIN node
  PROVE  \E R, Rest : /\ S = Rest \cup R /\ OthersSpan(h, node, lo, hi, i, Rest)
                      /\ Spans(h - 1, node[i].child, From(node, i, lo), To(node, i, hi), R)
<1>1. PICK C : /\ S = UNION {C[j] : j \in DOMAIN node}
               /\ \A j \in DOMAIN node :
                    Spans(h - 1, node[j].child, From(node, j, lo), To(node, j, hi), C[j])
  BY NodeSpans
<1> DEFINE Rest == UNION {C[j] : j \in DOMAIN node \ {i}}
<1>2. OthersSpan(h, node, lo, hi, i, Rest)
  BY <1>1 DEF OthersSpan
<1>3. S = Rest \cup C[i]
  BY <1>1
<1> QED
  BY <1>1, <1>2, <1>3

(* The node with another child there.                                      *)
LEMMA PutSpans ==
  ASSUME NEW h \in Nat \ {0}, NEW node, NEW lo, NEW hi, Interval(lo, hi), Divides(node, lo, hi),
         NEW i \in DOMAIN node, NEW Rest, OthersSpan(h, node, lo, hi, i, Rest),
         NEW x, NEW Q, Spans(h - 1, x, From(node, i, lo), To(node, i, hi), Q),
         NEW new, IsChild(new, node, i, x)
  PROVE  Spans(h, new, lo, hi, Rest \cup Q)
<1>1. PICK C : /\ Rest = UNION {C[j] : j \in DOMAIN node \ {i}}
               /\ \A j \in DOMAIN node \ {i} :
                    Spans(h - 1, node[j].child, From(node, j, lo), To(node, j, hi), C[j])
  BY DEF OthersSpan
<1>2. /\ Divides(new, lo, hi) /\ DOMAIN new = DOMAIN node
      /\ new[i].child = x /\ \A j \in DOMAIN node \ {i} : new[j] = node[j]
      /\ \A j \in DOMAIN node : From(new, j, lo) = From(node, j, lo) /\ To(new, j, hi) = To(node, j, hi)
  BY PutChild
<1>3. PICK B : B = [j \in DOMAIN node |-> IF j = i THEN Q ELSE C[j]]
  OBVIOUS
<1>4. B[i] = Q /\ \A j \in DOMAIN node \ {i} : B[j] = C[j]
  BY <1>3
<1>5. ASSUME NEW j \in DOMAIN new
      PROVE  Spans(h - 1, new[j].child, From(new, j, lo), To(new, j, hi), B[j])
  BY <1>1, <1>2, <1>4
<1>6. Spans(h, new, lo, hi, UNION {B[j] : j \in DOMAIN new})
  BY <1>2, <1>5, SpansNode
<1>7. UNION {B[j] : j \in DOMAIN new} = Rest \cup Q
  BY <1>1, <1>2, <1>4
<1> QED
  BY <1>6, <1>7

(* An element is inserted behind the first i of a sequence.                *)
LEMMA InsertParts ==
  ASSUME NEW s, IsSeq(s), NEW i \in 0..Len(s), NEW e, NEW t, t = InsertAt(s, i + 1, e)
  PROVE  /\ IsSeq(t) /\ Len(t) = Len(s) + 1 /\ DOMAIN t = 1..(Len(s) + 1)
         /\ \A j \in 1..i : t[j] = s[j]
         /\ t[i + 1] = e
         /\ \A j \in (i + 1)..Len(s) : t[j + 1] = s[j]
<1>1. PICK S : s \in Seq(S)
  BY DEF IsSeq
<1> DEFINE R == S \cup {e}
<1>2. PICK n, k, u, v, w : /\ n = Len(s) /\ k = (i + 1) - 1
                           /\ u = SubSeq(s, 1, k) /\ v = <<e>> /\ w = SubSeq(s, i + 1, n)
  OBVIOUS
<1>3. n \in Nat /\ i \in 0..n /\ i \in Nat /\ k = i /\ \A j \in 1..n : s[j] \in R
  <2>1. Len(s) \in Nat /\ \A j \in 1..Len(s) : s[j] \in S
    BY <1>1
  <2>2. n \in Nat /\ i \in 0..n /\ \A j \in 1..n : s[j] \in S
    BY ONLY <1>2, <2>1, i \in 0..Len(s), Zenon
  <2> QED
    BY <1>2, <2>2
<1>4. u \in Seq(R) /\ Len(u) = i /\ \A j \in 1..i : u[j] = s[j]
  <2>1. \A j \in 1..k : s[j] \in R
    BY <1>3
  <2>2. /\ u \in Seq(R) /\ Len(u) = IF 1 <= k THEN k - 1 + 1 ELSE 0
        /\ \A j \in 1..(k - 1 + 1) : u[j] = s[1 + j - 1]
    BY <1>2, <1>3, <2>1, SubSeqProperties
  <2> HIDE DEF R
  <2> QED
    BY <1>3, <2>2
<1>5. v \in Seq(R) /\ Len(v) = 1 /\ v[1] = e
  BY <1>2
<1>6. w \in Seq(R) /\ Len(w) = n - i /\ \A j \in 1..(n - i) : w[j] = s[j + i]
  <2>1. i + 1 \in Int /\ n \in Int /\ \A j \in (i + 1)..n : s[j] \in R
    BY <1>3
  <2>2. /\ w \in Seq(R) /\ Len(w) = IF i + 1 <= n THEN n - (i + 1) + 1 ELSE 0
        /\ \A j \in 1..(n - (i + 1) + 1) : w[j] = s[(i + 1) + j - 1]
    BY <1>2, <2>1, SubSeqProperties
  <2> HIDE DEF R
  <2>3. n - (i + 1) + 1 = n - i /\ (~(i + 1 <= n) => n - i = 0)
    BY <1>3
  <2>4. Len(w) = n - i
    BY <2>2, <2>3
  <2>5. \A j \in 1..(n - i) : (i + 1) + j - 1 = j + i
    BY <1>3
  <2> QED
    BY <2>2, <2>3, <2>4, <2>5
<1>7. t = (u \o v) \o w
  <2>1. t = (SubSeq(s, 1, (i + 1) - 1) \o <<e>>) \o SubSeq(s, i + 1, Len(s))
    BY Zenon DEF InsertAt
  <2> QED
    BY ONLY <1>2, <2>1, Zenon
<1> HIDE DEF R
<1>8. PICK x : x = u \o v
  OBVIOUS
<1>9. x \in Seq(R) /\ Len(x) = i + 1 /\ x[i + 1] = e /\ \A j \in 1..i : x[j] = u[j]
  <2>1. /\ x \in Seq(R) /\ Len(x) = Len(u) + Len(v)
        /\ \A j \in 1..(Len(u) + Len(v)) : x[j] = IF j <= Len(u) THEN u[j] ELSE v[j - Len(u)]
    BY <1>4, <1>5, <1>8, ConcatProperties, Zenon
  <2> QED
    BY <1>3, <1>4, <1>5, <2>1
<1>10. /\ t \in Seq(R) /\ Len(t) = (i + 1) + (n - i)
       /\ \A j \in 1..((i + 1) + (n - i)) : t[j] = IF j <= i + 1 THEN x[j] ELSE w[j - (i + 1)]
  <2>1. t = x \o w
    BY <1>7, <1>8
  <2>2. /\ x \o w \in Seq(R) /\ Len(x \o w) = Len(x) + Len(w)
        /\ \A j \in 1..(Len(x) + Len(w)) : (x \o w)[j] = IF j <= Len(x) THEN x[j] ELSE w[j - Len(x)]
    BY ONLY <1>6, <1>9, ConcatProperties, Zenon
  <2>3. Len(x) = i + 1 /\ Len(w) = n - i
    BY <1>6, <1>9
  <2> QED
    BY ONLY <2>1, <2>2, <2>3, Zenon
<1>11. i \in 0..n
  BY <1>3
<1>12. Len(t) = n + 1 /\ DOMAIN t = 1..(n + 1) /\ IsSeq(t)
  <2>1. DOMAIN t = 1..Len(t)
    BY <1>10
  <2>2. (i + 1) + (n - i) = n + 1
    BY <1>3, <1>11
  <2> QED
    BY <1>10, <2>1, <2>2 DEF IsSeq
<1>13. ASSUME NEW j \in 1..i PROVE t[j] = s[j]
  <2>1. j \in 1..((i + 1) + (n - i)) /\ j <= i + 1
    BY <1>3, <1>11
  <2> QED
    BY <1>4, <1>9, <1>10, <2>1
<1>14. t[i + 1] = e
  <2>1. i + 1 \in 1..((i + 1) + (n - i)) /\ i + 1 <= i + 1
    BY <1>3, <1>11
  <2> QED
    BY <1>9, <1>10, <2>1
<1>15. ASSUME NEW j \in (i + 1)..n PROVE t[j + 1] = s[j]
  <2>1. /\ j + 1 \in 1..((i + 1) + (n - i)) /\ ~(j + 1 <= i + 1)
        /\ (j + 1) - (i + 1) \in 1..(n - i) /\ (j + 1) - (i + 1) + i = j
    BY <1>3, <1>11
  <2>2. t[j + 1] = w[(j + 1) - (i + 1)]
    BY <1>10, <2>1
  <2> QED
    BY <1>6, <2>1, <2>2
<1> QED
  BY ONLY <1>2, <1>12, <1>13, <1>14, <1>15, Zenon

(* The node with another child at an entry, whose interval now ends at the *)
(* key of a new entry behind it.                                           *)
LEMMA AddSpans ==
  ASSUME NEW h \in Nat \ {0}, NEW node, NEW lo, NEW hi, Interval(lo, hi), Divides(node, lo, hi),
         NEW i \in DOMAIN node, NEW Rest, OthersSpan(h, node, lo, hi, i, Rest),
         NEW key \in Nat, From(node, i, lo) < key, Below(key, To(node, i, hi)),
         NEW x, NEW Q, Spans(h - 1, x, From(node, i, lo), key, Q),
         NEW y, NEW R, Spans(h - 1, y, key, To(node, i, hi), R),
         NEW new, IsChild(new, node, i, x),
         NEW full, full = add_child(new, i, index_entry(key, y))
  PROVE  /\ Spans(h, full, lo, hi, Rest \cup (Q \cup R)) /\ Len(full) = Len(node) + 1
         /\ full[i].child = x /\ full[i + 1].child = y
         /\ From(full, i, lo) = From(node, i, lo) /\ To(full, i, hi) = key
         /\ From(full, i + 1, lo) = key /\ To(full, i + 1, hi) = To(node, i, hi)
         /\ \A j \in 1..i : full[j].key = node[j].key
         /\ \A j \in (i + 1)..Len(node) : full[j + 1].key = node[j].key
<1> DEFINE n == Len(node)
           e == index_entry(key, y)
           a == From(node, i, lo)
           b == To(node, i, hi)
<1>1. PICK C : /\ Rest = UNION {C[j] : j \in DOMAIN node \ {i}}
               /\ \A j \in DOMAIN node \ {i} :
                    Spans(h - 1, node[j].child, From(node, j, lo), To(node, j, hi), C[j])
  BY DEF OthersSpan
<1>2. /\ n \in Nat \ {0} /\ DOMAIN node = 1..n
      /\ \A j \in DOMAIN node : node[j].key \in Nat /\ j \in Nat
  BY Entries
<1>3. /\ Divides(new, lo, hi) /\ DOMAIN new = DOMAIN node /\ Len(new) = n
      /\ new[i].child = x /\ \A j \in DOMAIN node \ {i} : new[j] = node[j]
      /\ \A j \in DOMAIN node : From(new, j, lo) = From(node, j, lo) /\ To(new, j, hi) = To(node, j, hi)
  BY PutChild
<1>4. IsSeq(new) /\ i \in 0..n
  BY <1>2, <1>3 DEF Divides
<1>5. /\ IsSeq(full) /\ Len(full) = n + 1 /\ DOMAIN full = 1..(n + 1)
      /\ \A j \in 1..i : full[j] = new[j]
      /\ full[i + 1] = e
      /\ \A j \in (i + 1)..n : full[j + 1] = new[j]
  <2>1. full = InsertAt(new, i + 1, e)
    BY DEF add_child
  <2> HIDE DEF e
  <2> QED
    BY <1>3, <1>4, <2>1, InsertParts
<1>6. e.key = key /\ e.child = y /\ e = index_entry(e.key, e.child)
  BY DEF index_entry
<1> HIDE DEF n, e
<1>7. ASSUME NEW j \in 1..(n + 1)
      PROVE  \/ j \in 1..i /\ j \in DOMAIN node /\ full[j] = new[j]
             \/ j = i + 1 /\ full[j] = e
             \/ j - 1 \in (i + 1)..n /\ j - 1 \in DOMAIN node /\ full[j] = new[j - 1]
  <2>1. CASE j <= i
    BY <1>2, <1>4, <1>5, <2>1
  <2>2. CASE j = i + 1
    BY <1>5, <2>2
  <2>3. CASE j > i + 1
    <3>1. j - 1 \in (i + 1)..n /\ (j - 1) + 1 = j /\ j - 1 \in DOMAIN node
      BY <1>2, <1>4, <2>3
    <3>2. full[(j - 1) + 1] = new[j - 1]
      BY <1>5, <3>1
    <3> QED
      BY <3>1, <3>2
  <2> QED
    BY <1>4, <2>1, <2>2, <2>3
<1>8. \A j \in DOMAIN node : new[j].key = node[j].key
  <2>1. new[i].key = node[i].key
    <3>1. node[i] = index_entry(node[i].key, node[i].child)
      BY DEF Divides
    <3>2. new[i] = [node[i] EXCEPT !.child = x]
      BY DEF IsChild
    <3>3. PICK k, c : k = node[i].key /\ c = node[i].child
      OBVIOUS
    <3>4. node[i] = [key |-> k, child |-> c]
      BY <3>1, <3>3 DEF index_entry
    <3>5. [node[i] EXCEPT !.child = x] = [key |-> k, child |-> x]
      BY <3>4
    <3> QED
      BY <3>2, <3>3, <3>5
  <2> QED
    BY <1>3, <2>1
<1>9. /\ lo <= a /\ a \in Nat /\ (hi # NoBound => b # NoBound /\ b <= hi) /\ b \in Int
      /\ lo \in Nat /\ hi \in Int
  BY ChildInterval DEF Interval
<1>10. Below(key, hi) /\ lo < key
  BY <1>9 DEF Below
<1>11. Divides(full, lo, hi)
  <2>1. ASSUME NEW j \in DOMAIN full
        PROVE  full[j] = index_entry(full[j].key, full[j].child) /\ full[j].key \in Nat
    <3>1. CASE j \in 1..i /\ j \in DOMAIN node /\ full[j] = new[j]
      BY <1>3, <3>1 DEF Divides
    <3>2. CASE j = i + 1 /\ full[j] = e
      BY <1>6, <3>2
    <3>3. CASE j - 1 \in (i + 1)..n /\ j - 1 \in DOMAIN node /\ full[j] = new[j - 1]
      BY <1>3, <3>3 DEF Divides
    <3> QED
      BY <1>5, <1>7, <3>1, <3>2, <3>3
  <2>2. ASSUME NEW j \in DOMAIN full \ {1} PROVE lo < full[j].key /\ Below(full[j].key, hi)
    <3>1. CASE j \in 1..i /\ j \in DOMAIN node /\ full[j] = new[j]
      BY <1>3, <3>1 DEF Divides
    <3>2. CASE j = i + 1 /\ full[j] = e
      BY <1>6, <1>10, <3>2
    <3>3. CASE j - 1 \in (i + 1)..n /\ j - 1 \in DOMAIN node /\ full[j] = new[j - 1]
      <4>1. j - 1 \in DOMAIN new \ {1}
        BY <1>2, <1>3, <3>3
      <4> QED
        BY <1>3, <3>3, <4>1 DEF Divides
    <3> QED
      BY <1>5, <1>7, <3>1, <3>2, <3>3
  <2>3. \A j \in DOMAIN node \ {1} : j <= i => node[j].key <= a
    <3> SUFFICES ASSUME NEW j \in DOMAIN node \ {1}, j <= i PROVE node[j].key <= a
      OBVIOUS
    <3>1. i # 1 /\ i \in DOMAIN node \ {1} /\ (j < i \/ j = i)
      BY <1>2
    <3>2. a = node[i].key
      BY <3>1 DEF From
    <3>3. j < i => node[j].key < node[i].key
      BY <3>1 DEF Divides
    <3> QED
      BY <1>2, <3>1, <3>2, <3>3
  <2>4. \A j \in DOMAIN node : j > i => Below(key, node[j].key) /\ key < node[j].key
    <3> SUFFICES ASSUME NEW j \in DOMAIN node, j > i PROVE key < node[j].key
      BY DEF Below
    <3>1. i # Len(node) /\ i + 1 \in DOMAIN node \ {1} /\ j \in DOMAIN node \ {1} /\ (i + 1 < j \/ j = i + 1)
      BY <1>2 DEF n
    <3>2. b = node[i + 1].key
      BY <3>1 DEF To
    <3>3. i + 1 < j => node[i + 1].key < node[j].key
      BY <3>1 DEF Divides
    <3>4. b <= node[j].key /\ b \in Nat /\ node[j].key \in Nat
      BY <1>2, <3>1, <3>2, <3>3
    <3> QED
      BY <3>4 DEF Below, NoBound
  <2>5. ASSUME NEW j \in DOMAIN full \ {1}, NEW l \in DOMAIN full \ {1}, j < l
        PROVE  full[j].key < full[l].key
    <3>1. j \in 1..(n + 1) /\ l \in 1..(n + 1)
      BY <1>5
    <3>2. CASE j \in 1..i /\ j \in DOMAIN node /\ full[j] = new[j]
      <4>1. CASE l \in 1..i /\ l \in DOMAIN node /\ full[l] = new[l]
        BY <1>3, <2>5, <3>2, <4>1 DEF Divides
      <4>2. CASE l = i + 1 /\ full[l] = e
        <5>1. full[j].key = node[j].key /\ node[j].key <= a /\ node[j].key \in Nat
          BY <1>2, <1>8, <2>3, <3>2
        <5> QED
          BY <1>6, <1>9, <4>2, <5>1
      <4>3. CASE l - 1 \in (i + 1)..n /\ l - 1 \in DOMAIN node /\ full[l] = new[l - 1]
        <5>1. j \in DOMAIN new \ {1} /\ l - 1 \in DOMAIN new \ {1} /\ j < l - 1
          BY <1>2, <1>3, <3>2, <4>3
        <5> QED
          BY <1>3, <3>2, <4>3, <5>1 DEF Divides
      <4> QED
        BY <1>7, <3>1, <4>1, <4>2, <4>3
    <3>3. CASE j = i + 1 /\ full[j] = e
      <4>1. l - 1 \in (i + 1)..n /\ l - 1 \in DOMAIN node /\ full[l] = new[l - 1]
        BY <1>4, <1>7, <2>5, <3>1, <3>3
      <4>2. key < node[l - 1].key
        BY <1>4, <2>4, <4>1
      <4> QED
        BY <1>6, <1>8, <3>3, <4>1, <4>2
    <3>4. CASE j - 1 \in (i + 1)..n /\ j - 1 \in DOMAIN node /\ full[j] = new[j - 1]
      <4>1. l - 1 \in (i + 1)..n /\ l - 1 \in DOMAIN node /\ full[l] = new[l - 1]
        BY <1>4, <1>7, <2>5, <3>1, <3>4
      <4>2. j - 1 \in DOMAIN new \ {1} /\ l - 1 \in DOMAIN new \ {1} /\ j - 1 < l - 1
        BY <1>2, <1>3, <2>5, <3>1, <3>4, <4>1
      <4> QED
        BY <1>3, <3>4, <4>1, <4>2 DEF Divides
    <3> QED
      BY <1>7, <3>1, <3>2, <3>3, <3>4
  <2>6. Len(full) >= 1
    BY <1>2, <1>5
  <2> HIDE DEF e
  <2> QED
    BY <1>5, <2>1, <2>2, <2>5, <2>6 DEF Divides
<1>12. ASSUME NEW j \in 1..i PROVE full[j].key = node[j].key
  <2>1. j \in DOMAIN node
    BY <1>2, <1>4
  <2> QED
    BY <1>5, <1>8, <2>1
<1>13. ASSUME NEW j \in (i + 1)..n PROVE full[j + 1].key = node[j].key
  <2>1. j \in DOMAIN node
    BY <1>2, <1>4
  <2> QED
    BY <1>5, <1>8, <2>1
<1>14. /\ From(full, i, lo) = a /\ To(full, i, hi) = key
       /\ From(full, i + 1, lo) = key /\ To(full, i + 1, hi) = b
  <2>1. i # n + 1 /\ i + 1 # 1 /\ i \in 1..i
    BY <1>2, <1>4
  <2>2. From(full, i, lo) = a
    BY <1>12, <2>1 DEF From
  <2>3. To(full, i, hi) = key
    BY <1>5, <1>6, <2>1 DEF To
  <2>4. From(full, i + 1, lo) = key
    BY <1>5, <1>6, <2>1 DEF From
  <2>5. To(full, i + 1, hi) = b
    <3>1. CASE i = n
      BY <1>5, <3>1 DEF To, n
    <3>2. CASE i # n
      <4>1. i + 1 # n + 1 /\ i + 1 \in (i + 1)..n
        BY <1>2, <1>4, <3>2
      <4>2. full[(i + 1) + 1].key = node[i + 1].key
        BY <1>13, <4>1
      <4> QED
        BY <1>5, <3>2, <4>1, <4>2 DEF To, n
    <3> QED
      BY <3>1, <3>2
  <2> QED
    BY <2>2, <2>3, <2>4, <2>5
<1>15. PICK B : B = [j \in 1..(n + 1) |-> IF j < i THEN C[j] ELSE IF j = i THEN Q
                                         ELSE IF j = i + 1 THEN R ELSE C[j - 1]]
  OBVIOUS
<1>16. /\ B[i] = Q /\ B[i + 1] = R /\ \A j \in 1..n : j < i => B[j] = C[j]
       /\ \A j \in 1..n : j > i => B[j + 1] = C[j]
  <2>1. i \in 1..(n + 1) /\ i + 1 \in 1..(n + 1) /\ ~(i + 1 < i) /\ i + 1 # i
    BY <1>2, <1>4
  <2>2. ASSUME NEW j \in 1..n, j > i PROVE B[j + 1] = C[j]
    <3>1. j + 1 \in 1..(n + 1) /\ ~(j + 1 < i) /\ j + 1 # i /\ j + 1 # i + 1 /\ (j + 1) - 1 = j
      BY <1>2, <1>4, <2>2
    <3> QED
      BY <1>15, <3>1
  <2>3. ASSUME NEW j \in 1..n, j < i PROVE B[j] = C[j]
    <3>1. j \in 1..(n + 1)
      BY <1>2
    <3> QED
      BY <1>15, <2>3, <3>1
  <2> QED
    BY <1>15, <2>1, <2>2, <2>3
<1>17. ASSUME NEW j \in DOMAIN full
       PROVE  Spans(h - 1, full[j].child, From(full, j, lo), To(full, j, hi), B[j])
  <2>1. CASE j = i
    <3>1. full[j].child = x
      <4>1. i \in 1..i
        BY <1>2, <1>4
      <4> QED
        BY <1>3, <1>5, <2>1, <4>1
    <3> QED
      BY <1>14, <1>16, <2>1, <3>1
  <2>2. CASE j = i + 1
    BY <1>5, <1>6, <1>14, <1>16, <2>2
  <2>3. CASE j < i
    <3>1. j \in 1..i /\ j \in DOMAIN node \ {i} /\ j + 1 \in 1..i /\ j # n /\ j # n + 1 /\ j \in 1..n
      BY <1>2, <1>4, <1>5, <2>3
    <3>2. From(full, j, lo) = From(node, j, lo)
      BY <1>12, <3>1 DEF From
    <3>3. To(full, j, hi) = To(node, j, hi)
      BY <1>5, <1>12, <3>1 DEF To, n
    <3>4. full[j].child = node[j].child /\ B[j] = C[j]
      BY <1>3, <1>5, <1>16, <2>3, <3>1
    <3> QED
      BY <1>1, <3>1, <3>2, <3>3, <3>4
  <2>4. CASE j > i + 1
    <3> DEFINE l == j - 1
    <3>1. l \in (i + 1)..n /\ l \in DOMAIN node \ {i} /\ l + 1 = j /\ l # 1 /\ j # 1 /\ l \in 1..n /\ l > i
      BY <1>2, <1>4, <1>5, <2>4
    <3> HIDE DEF l
    <3>2. From(full, j, lo) = From(node, l, lo)
      <4>1. full[l + 1].key = node[l].key
        BY <1>13, <3>1
      <4> QED
        BY <3>1, <4>1 DEF From
    <3>3. To(full, j, hi) = To(node, l, hi)
      <4>1. CASE l = n
        <5>1. j = n + 1
          BY <3>1, <4>1
        <5> QED
          BY <1>5, <4>1, <5>1 DEF To, n
      <4>2. CASE l # n
        <5>1. l + 1 \in (i + 1)..n /\ j # n + 1 /\ (l + 1) + 1 = j + 1
          BY <1>2, <1>4, <3>1, <4>2
        <5>2. full[(l + 1) + 1].key = node[l + 1].key
          BY <1>13, <5>1
        <5> QED
          BY <1>5, <4>2, <5>1, <5>2 DEF To, n
      <4> QED
        BY <4>1, <4>2
    <3>4. full[j].child = node[l].child /\ B[j] = C[l]
      <4>1. full[l + 1] = new[l] /\ new[l] = node[l]
        BY <1>3, <1>5, <3>1
      <4>2. B[l + 1] = C[l]
        BY <1>16, <3>1
      <4> QED
        BY <3>1, <4>1, <4>2
    <3> QED
      BY <1>1, <3>1, <3>2, <3>3, <3>4
  <2> QED
    BY <1>2, <1>4, <1>5, <2>1, <2>2, <2>3, <2>4
<1>18. UNION {B[j] : j \in DOMAIN full} = Rest \cup (Q \cup R)
  <2>1. ASSUME NEW z, z \in Rest PROVE z \in UNION {B[j] : j \in DOMAIN full}
    <3>1. PICK j \in DOMAIN node \ {i} : z \in C[j]
      BY <1>1, <2>1
    <3>2. j \in 1..n /\ (j < i \/ j > i) /\ j \in DOMAIN full /\ j + 1 \in DOMAIN full
      BY <1>2, <1>4, <1>5, <3>1
    <3> QED
      BY <1>16, <3>1, <3>2
  <2>2. i \in DOMAIN full /\ i + 1 \in DOMAIN full
    BY <1>2, <1>4, <1>5
  <2>3. ASSUME NEW j \in DOMAIN full PROVE B[j] \subseteq Rest \cup (Q \cup R)
    <3>1. j \in 1..(n + 1)
      BY <1>5
    <3>2. CASE j < i
      <4>1. j \in DOMAIN node \ {i} /\ j \in 1..n
        BY <1>2, <1>4, <3>1, <3>2
      <4> QED
        BY <1>1, <1>16, <3>2, <4>1
    <3>3. CASE j = i \/ j = i + 1
      BY <1>16, <3>3
    <3>4. CASE j > i + 1
      <4>1. j - 1 \in DOMAIN node \ {i} /\ j - 1 \in 1..n /\ j - 1 > i /\ (j - 1) + 1 = j
        BY <1>2, <1>4, <3>1, <3>4
      <4>2. B[(j - 1) + 1] = C[j - 1]
        BY <1>16, <4>1
      <4> QED
        BY <1>1, <4>1, <4>2
    <3> QED
      BY <1>4, <3>1, <3>2, <3>3, <3>4
  <2> QED
    BY <1>16, <2>1, <2>2, <2>3
<1>19. Spans(h, full, lo, hi, Rest \cup (Q \cup R))
  <2>1. Spans(h, full, lo, hi, UNION {B[j] : j \in DOMAIN full})
    BY <1>11, <1>17, SpansNode
  <2> QED
    BY <1>18, <2>1
<1>20. full[i].child = x /\ full[i + 1].child = y
  <2>1. i \in 1..i
    BY <1>2, <1>4
  <2> QED
    BY <1>3, <1>5, <1>6, <2>1
<1> QED
  BY <1>5, <1>12, <1>13, <1>14, <1>19, <1>20 DEF n

IsPart(t, s, n, c, d) ==
  /\ IsSeq(s) /\ n = Len(s) /\ c \in 0..n /\ d \in c..n /\ t = SubSeq(s, c + 1, d)

(* A part of a sequence.                                                   *)
LEMMA PartOf ==
  ASSUME NEW s, NEW n, NEW c, NEW d, NEW t, IsPart(t, s, n, c, d)
  PROVE  /\ IsSeq(t) /\ Len(t) = d - c /\ DOMAIN t = 1..(d - c)
         /\ \A j \in 1..(d - c) : t[j] = s[c + j]
<1>1. PICK S : s \in Seq(S)
  BY DEF IsSeq, IsPart
<1>2. n \in Nat /\ \A j \in 1..n : s[j] \in S
  <2>1. Len(s) \in Nat /\ \A j \in 1..Len(s) : s[j] \in S
    BY <1>1
  <2> QED
    BY ONLY <2>1, IsPart(t, s, n, c, d), Zenon DEF IsPart
<1>3. c + 1 \in Int /\ d \in Int /\ c \in Nat /\ c <= d /\ \A j \in (c + 1)..d : s[j] \in S
  <2>1. c \in 0..n /\ d \in c..n
    BY DEF IsPart
  <2> QED
    BY <1>2, <2>1
<1>4. /\ t \in Seq(S) /\ Len(t) = IF c + 1 <= d THEN d - (c + 1) + 1 ELSE 0
      /\ \A j \in 1..(d - (c + 1) + 1) : t[j] = s[(c + 1) + j - 1]
  <2>1. t = SubSeq(s, c + 1, d)
    BY DEF IsPart
  <2> QED
    BY ONLY <1>3, <2>1, SubSeqProperties
<1>5. d - (c + 1) + 1 = d - c /\ (~(c + 1 <= d) => d - c = 0)
  BY <1>2, <1>3
<1>6. Len(t) = d - c
  BY <1>4, <1>5
<1>7. \A j \in 1..(d - c) : t[j] = s[c + j]
  <2>1. \A j \in 1..(d - c) : (c + 1) + j - 1 = c + j
    BY <1>3
  <2> QED
    BY <1>4, <1>5, <2>1
<1>8. DOMAIN t = 1..Len(t)
  BY <1>4
<1> QED
  BY <1>4, <1>6, <1>7, <1>8 DEF IsSeq

IsCut(node, n, c, key, left, right) ==
  /\ n = Len(node) /\ c \in 1..(n - 1) /\ key = node[c + 1].key
  /\ left = SubSeq(node, 1, c) /\ right = SubSeq(node, c + 1, n)

(* A node cut in two: the key of the first entry of the second part ends   *)
(* the interval of the first.                                              *)
LEMMA NodeCut ==
  ASSUME NEW h \in Nat \ {0}, NEW node, NEW lo, NEW hi, NEW S, Spans(h, node, lo, hi, S),
         NEW n, NEW c, NEW key, NEW left, NEW right, IsCut(node, n, c, key, left, right)
  PROVE  /\ key \in Nat /\ lo < key /\ Below(key, hi)
         /\ \E S1, S2 : /\ S = S1 \cup S2
                        /\ Spans(h, left, lo, key, S1) /\ Spans(h, right, key, hi, S2)
         /\ Len(left) = c /\ DOMAIN left = 1..c /\ Len(right) = n - c /\ DOMAIN right = 1..(n - c)
         /\ \A j \in 1..c : /\ left[j] = node[j]
                            /\ From(left, j, lo) = From(node, j, lo)
                            /\ To(left, j, key) = To(node, j, hi)
         /\ \A j \in 1..(n - c) : /\ right[j] = node[c + j]
                                  /\ From(right, j, key) = From(node, c + j, lo)
                                  /\ To(right, j, hi) = To(node, c + j, hi)
<1>0. /\ n = Len(node) /\ c \in 1..(n - 1) /\ key = node[c + 1].key
      /\ left = SubSeq(node, 1, c) /\ right = SubSeq(node, c + 1, n)
  BY DEF IsCut
<1>1. Interval(lo, hi) /\ Divides(node, lo, hi)
  BY ONLY Spans(h, node, lo, hi, S), h \in Nat \ {0}, NodeSpans
<1>2. PICK C : /\ S = UNION {C[i] : i \in DOMAIN node}
               /\ \A i \in DOMAIN node :
                    Spans(h - 1, node[i].child, From(node, i, lo), To(node, i, hi), C[i])
  BY ONLY Spans(h, node, lo, hi, S), h \in Nat \ {0}, NodeSpans
<1>3. /\ n \in Nat \ {0} /\ DOMAIN node = 1..n
      /\ \A i \in DOMAIN node : node[i].key \in Nat /\ i \in Nat
  <2>1. /\ Len(node) \in Nat \ {0} /\ DOMAIN node = 1..Len(node)
        /\ \A i \in DOMAIN node : node[i].key \in Nat /\ i \in Nat
    BY <1>1, Entries
  <2> QED
    BY ONLY <1>0, <2>1, Zenon
<1>4. IsSeq(node)
  BY <1>1 DEF Divides
<1>5. c + 1 \in DOMAIN node \ {1} /\ c \in Nat \ {0} /\ n - c \in Nat \ {0} /\ 0 + 1 = 1 /\ c - 0 = c
  BY ONLY <1>0, <1>3
<1>6. key \in Nat /\ lo < key /\ Below(key, hi)
  BY <1>0, <1>1, <1>3, <1>5 DEF Divides
<1>7. IsSeq(left) /\ Len(left) = c /\ DOMAIN left = 1..c /\ \A j \in 1..c : left[j] = node[j]
  <2>1. 0 \in 0..n /\ c \in 0..n /\ left = SubSeq(node, 0 + 1, c)
    BY <1>0, <1>3, <1>5
  <2>4. IsPart(left, node, n, 0, c)
    BY <1>0, <1>4, <2>1 DEF IsPart
  <2>2. /\ IsSeq(left) /\ Len(left) = c - 0 /\ DOMAIN left = 1..(c - 0)
        /\ \A j \in 1..(c - 0) : left[j] = node[0 + j]
    BY ONLY <2>4, PartOf
  <2>3. \A j \in 1..c : 0 + j = j
    BY <1>5
  <2> QED
    BY <1>5, <2>2, <2>3
<1>8. /\ IsSeq(right) /\ Len(right) = n - c /\ DOMAIN right = 1..(n - c)
      /\ \A j \in 1..(n - c) : right[j] = node[c + j]
  <2>1. c \in 0..n /\ n \in c..n
    BY <1>0, <1>3
  <2>2. IsPart(right, node, n, c, n)
    BY <1>0, <1>4, <2>1 DEF IsPart
  <2> QED
    BY ONLY <2>2, PartOf
<1>9. ASSUME NEW j \in 1..c
      PROVE  From(left, j, lo) = From(node, j, lo) /\ To(left, j, key) = To(node, j, hi)
  <2>1. j # n /\ n = Len(node) /\ j + 1 \in DOMAIN node
    BY <1>0, <1>3, <1>5
  <2>2. From(left, j, lo) = From(node, j, lo)
    BY <1>7 DEF From
  <2>3. To(left, j, key) = To(node, j, hi)
    <3>1. CASE j = c
      BY <1>0, <1>7, <2>1, <3>1 DEF To
    <3>2. CASE j # c
      <4>1. j + 1 \in 1..c
        BY <1>5, <3>2
      <4> QED
        BY <1>7, <2>1, <3>2, <4>1 DEF To
    <3> QED
      BY <3>1, <3>2
  <2> QED
    BY <2>2, <2>3
<1>10. ASSUME NEW j \in 1..(n - c)
       PROVE  From(right, j, key) = From(node, c + j, lo) /\ To(right, j, hi) = To(node, c + j, hi)
  <2>1. c + j # 1 /\ c + j \in DOMAIN node
    BY <1>3, <1>5
  <2>2. From(right, j, key) = From(node, c + j, lo)
    <3>1. key = node[c + 1].key
      BY <1>0
    <3> QED
      BY ONLY <1>8, <2>1, <3>1, j \in 1..(n - c) DEF From
  <2>3. To(right, j, hi) = To(node, c + j, hi)
    <3>1. CASE j = n - c
      <4>1. c + j = n
        BY <1>3, <1>5, <3>1
      <4> QED
        BY <1>0, <1>8, <3>1, <4>1 DEF To
    <3>2. CASE j # n - c
      <4>1. j + 1 \in 1..(n - c) /\ c + j # n /\ c + (j + 1) = (c + j) + 1
        BY <1>3, <1>5, <3>2
      <4>2. right[j + 1] = node[(c + j) + 1]
        BY <1>8, <4>1
      <4> QED
        BY <1>0, <1>8, <3>2, <4>1, <4>2 DEF To
    <3> QED
      BY <3>1, <3>2
  <2> QED
    BY <2>2, <2>3
<1>11. Interval(lo, key) /\ Interval(key, hi)
  BY <1>1, <1>6 DEF Interval, Below
<1>12. Divides(left, lo, key)
  <2>1. ASSUME NEW j \in DOMAIN left
        PROVE  left[j] = index_entry(left[j].key, left[j].child) /\ left[j].key \in Nat
    <3>1. j \in DOMAIN node /\ left[j] = node[j]
      BY <1>3, <1>5, <1>7
    <3> QED
      BY <1>1, <3>1 DEF Divides
  <2>2. ASSUME NEW j \in DOMAIN left \ {1} PROVE lo < left[j].key /\ Below(left[j].key, key)
    <3>1. j \in DOMAIN node \ {1} /\ left[j] = node[j] /\ j < c + 1
      BY <1>3, <1>5, <1>7
    <3> QED
      BY <1>0, <1>1, <1>5, <3>1 DEF Divides, Below
  <2>3. ASSUME NEW j \in DOMAIN left \ {1}, NEW l \in DOMAIN left \ {1}, j < l
        PROVE  left[j].key < left[l].key
    <3>1. j \in DOMAIN node \ {1} /\ left[j] = node[j] /\ l \in DOMAIN node \ {1} /\ left[l] = node[l]
      BY <1>3, <1>5, <1>7
    <3> QED
      BY <1>1, <2>3, <3>1 DEF Divides
  <2>4. Len(left) >= 1
    BY <1>5, <1>7
  <2> QED
    BY <1>7, <2>1, <2>2, <2>3, <2>4 DEF Divides
<1>13. Divides(right, key, hi)
  <2>0. \A j \in DOMAIN right : c + j \in DOMAIN node \ {1} /\ right[j] = node[c + j] /\ (j # 1 => c + 1 < c + j)
    BY <1>3, <1>5, <1>8
  <2>1. ASSUME NEW j \in DOMAIN right
        PROVE  right[j] = index_entry(right[j].key, right[j].child) /\ right[j].key \in Nat
    BY <1>1, <2>0 DEF Divides
  <2>2. ASSUME NEW j \in DOMAIN right \ {1} PROVE key < right[j].key /\ Below(right[j].key, hi)
    BY <1>0, <1>1, <1>5, <2>0 DEF Divides
  <2>3. ASSUME NEW j \in DOMAIN right \ {1}, NEW l \in DOMAIN right \ {1}, j < l
        PROVE  right[j].key < right[l].key
    <3>1. c + j < c + l
      BY <1>5, <1>8, <2>3
    <3> QED
      BY <1>1, <2>0, <3>1 DEF Divides
  <2>4. Len(right) >= 1
    BY <1>5, <1>8
  <2> QED
    BY <1>8, <2>1, <2>2, <2>3, <2>4 DEF Divides
<1>14. PICK C2 : C2 = [j \in 1..(n - c) |-> C[c + j]]
  OBVIOUS
<1>15. Spans(h, left, lo, key, UNION {C[j] : j \in DOMAIN left})
  <2>1. ASSUME NEW j \in DOMAIN left
        PROVE  Spans(h - 1, left[j].child, From(left, j, lo), To(left, j, key), C[j])
    <3>1. j \in DOMAIN node /\ left[j] = node[j] /\ j \in 1..c
      BY <1>3, <1>5, <1>7
    <3> QED
      BY <1>2, <1>9, <3>1
  <2> QED
    BY ONLY <1>11, <1>12, <2>1, h \in Nat \ {0}, SpansNode
<1>16. Spans(h, right, key, hi, UNION {C2[j] : j \in DOMAIN right})
  <2>1. ASSUME NEW j \in DOMAIN right
        PROVE  Spans(h - 1, right[j].child, From(right, j, key), To(right, j, hi), C2[j])
    <3>1. c + j \in DOMAIN node /\ right[j] = node[c + j] /\ j \in 1..(n - c) /\ C2[j] = C[c + j]
      BY <1>3, <1>5, <1>8, <1>14
    <3> QED
      BY <1>2, <1>10, <3>1
  <2> QED
    BY ONLY <1>11, <1>13, <2>1, h \in Nat \ {0}, SpansNode
<1>17. S = (UNION {C[j] : j \in DOMAIN left}) \cup (UNION {C2[j] : j \in DOMAIN right})
  <2>1. ASSUME NEW i \in DOMAIN node
        PROVE  i \in DOMAIN left \/ (i - c \in DOMAIN right /\ C2[i - c] = C[i])
    <3>1. i \in 1..c \/ (i - c \in 1..(n - c) /\ c + (i - c) = i)
      BY <1>3, <1>5
    <3> QED
      BY <1>7, <1>8, <1>14, <3>1
  <2>2. \A j \in DOMAIN left : j \in DOMAIN node
    BY <1>3, <1>5, <1>7
  <2>3. \A j \in DOMAIN right : c + j \in DOMAIN node /\ C2[j] = C[c + j]
    BY <1>3, <1>5, <1>8, <1>14
  <2>4. ASSUME NEW z \in S
        PROVE  z \in UNION {C[j] : j \in DOMAIN left} \/ z \in UNION {C2[j] : j \in DOMAIN right}
    <3>1. PICK i \in DOMAIN node : z \in C[i]
      BY <1>2
    <3> QED
      BY <2>1, <3>1
  <2>5. ASSUME NEW z, z \in UNION {C[j] : j \in DOMAIN left} \/ z \in UNION {C2[j] : j \in DOMAIN right}
        PROVE  z \in S
    <3>1. PICK i \in DOMAIN node : z \in C[i]
      BY <2>2, <2>3, <2>5
    <3> QED
      BY <1>2, <3>1
  <2> QED
    BY ONLY <2>4, <2>5
<1> QED
  BY <1>6, <1>7, <1>8, <1>9, <1>10, <1>15, <1>16, <1>17

-----------------------------------------------------------------------------
(* A cursor from a node down, and the leaf it leads to.                    *)
Leads(h, node, q, lo, hi, s) ==
  \E N, L, H : /\ Way(h, node, lo, hi, q, N, L, H) /\ Inside(h, q, N)
               /\ s = <<L[h + 1], H[h + 1], N[h + 1]>>

(* At a leaf.                                                              *)
LEMMA LeadsLeaf ==
  ASSUME NEW leaf, NEW lo, NEW hi
  PROVE  Leads(0, leaf, <<>>, lo, hi, <<lo, hi, leaf>>)
<1>1. PICK N, L, H : /\ N = [l \in 1..1 |-> leaf] /\ L = [l \in 1..1 |-> lo] /\ H = [l \in 1..1 |-> hi]
  OBVIOUS
<1>2. N[1] = leaf /\ L[1] = lo /\ H[1] = hi /\ 0 + 1 = 1
  BY <1>1
<1>3. Way(0, leaf, lo, hi, <<>>, N, L, H) /\ Inside(0, <<>>, N)
  BY <1>2 DEF Way, Inside
<1> QED
  BY <1>2, <1>3 DEF Leads

(* A place more, in front.                                                 *)
LEMMA Longer ==
  ASSUME NEW i \in Nat, NEW h \in Nat, NEW q \in Seq(Nat), Len(q) = h, NEW p, p = <<i>> \o q
  PROVE  p \in Seq(Nat) /\ Len(p) = h + 1 /\ p[1] = i /\ \A l \in 1..h : p[l + 1] = q[l]
<1>1. <<i>> \in Seq(Nat) /\ Len(<<i>>) = 1 /\ <<i>>[1] = i
  OBVIOUS
<1>2. PICK u : u = <<i>>
  OBVIOUS
<1>3. /\ p \in Seq(Nat) /\ Len(p) = Len(u) + Len(q)
      /\ \A l \in 1..(Len(u) + Len(q)) : p[l] = IF l <= Len(u) THEN u[l] ELSE q[l - Len(u)]
  <2>1. u \in Seq(Nat) /\ p = u \o q
    BY <1>1, <1>2
  <2> QED
    BY ONLY <2>1, <1>1, ConcatProperties, ZenonT(60)
<1>4. Len(u) = 1 /\ u[1] = i
  BY <1>1, <1>2
<1>5. /\ p \in Seq(Nat) /\ Len(p) = 1 + h
      /\ \A l \in 1..(1 + h) : p[l] = IF l <= 1 THEN u[l] ELSE q[l - 1]
  BY ONLY <1>3, <1>4, Len(q) = h, Zenon
<1>6. ASSUME NEW l \in 1..h PROVE p[l + 1] = q[l]
  <2>1. l + 1 \in 1..(1 + h) /\ ~(l + 1 <= 1) /\ (l + 1) - 1 = l
    OBVIOUS
  <2> QED
    BY ONLY <1>5, <2>1
<1>7. p[1] = i /\ 1 + h = h + 1
  <2>1. 1 \in 1..(1 + h) /\ 1 <= 1
    OBVIOUS
  <2> QED
    BY ONLY <1>4, <1>5, <2>1, h \in Nat
<1> QED
  BY ONLY <1>5, <1>6, <1>7, Zenon

(* From a node, at one of its children.                                    *)
LEMMA LeadsNode ==
  ASSUME NEW h \in Nat \ {0}, NEW node, NEW lo, NEW hi, NEW i \in DOMAIN node, i \in Nat,
         NEW q, NEW s, Leads(h - 1, node[i].child, q, From(node, i, lo), To(node, i, hi), s),
         NEW p, p = <<i>> \o q
  PROVE  Leads(h, node, p, lo, hi, s)
<1> DEFINE g == h - 1
           a == From(node, i, lo)
           b == To(node, i, hi)
<1>1. PICK N, L, H : /\ Way(g, node[i].child, a, b, q, N, L, H) /\ Inside(g, q, N)
                     /\ s = <<L[g + 1], H[g + 1], N[g + 1]>>
  BY DEF Leads
<1>2. g \in Nat /\ h = g + 1
  OBVIOUS
<1> HIDE DEF g
<1>3. p \in Seq(Nat) /\ Len(p) = h /\ p[1] = i /\ \A l \in 1..g : p[l + 1] = q[l]
  BY <1>1, <1>2, Longer DEF Inside
<1>4. PICK M, K, J : /\ M = [l \in 1..(h + 1) |-> IF l = 1 THEN node ELSE N[l - 1]]
                     /\ K = [l \in 1..(h + 1) |-> IF l = 1 THEN lo ELSE L[l - 1]]
                     /\ J = [l \in 1..(h + 1) |-> IF l = 1 THEN hi ELSE H[l - 1]]
  OBVIOUS
<1> HIDE DEF a, b
<1>5. /\ M[1] = node /\ K[1] = lo /\ J[1] = hi
      /\ \A l \in 1..h : M[l + 1] = N[l] /\ K[l + 1] = L[l] /\ J[l + 1] = H[l]
  BY <1>2, <1>4
<1>6. ASSUME NEW l \in 1..h
      PROVE  /\ M[l + 1] = M[l][p[l]].child /\ p[l] \in DOMAIN M[l]
             /\ K[l + 1] = From(M[l], p[l], K[l]) /\ J[l + 1] = To(M[l], p[l], J[l])
  <2>1. CASE l = 1
    <3>1. M[l + 1] = N[1] /\ K[l + 1] = L[1] /\ J[l + 1] = H[1]
      BY <1>5, <2>1
    <3>2. N[1] = node[i].child /\ L[1] = a /\ H[1] = b
      BY <1>1 DEF Way
    <3> QED
      BY <1>3, <1>5, <2>1, <3>1, <3>2 DEF a, b
  <2>2. CASE l # 1
    <3>1. PICK m \in 1..g : l = m + 1
      <4>1. l - 1 \in 1..g /\ l = (l - 1) + 1
        BY <1>2, <2>2
      <4> QED
        BY <4>1
    <3>2. /\ N[m + 1] = N[m][q[m]].child /\ q[m] \in DOMAIN N[m]
          /\ L[m + 1] = From(N[m], q[m], L[m]) /\ H[m + 1] = To(N[m], q[m], H[m])
      BY <1>1 DEF Way, Inside
    <3>3. m + 1 \in 1..h /\ m \in 1..h
      BY <1>2
    <3>4. /\ M[(m + 1) + 1] = N[m + 1] /\ K[(m + 1) + 1] = L[m + 1] /\ J[(m + 1) + 1] = H[m + 1]
          /\ M[m + 1] = N[m] /\ K[m + 1] = L[m] /\ J[m + 1] = H[m] /\ p[m + 1] = q[m]
      BY <1>3, <1>5, <3>3
    <3> QED
      BY <3>1, <3>2, <3>4
  <2> QED
    BY <2>1, <2>2
<1>7. Way(h, node, lo, hi, p, M, K, J) /\ Inside(h, p, M)
  BY <1>3, <1>5, <1>6 DEF Way, Inside
<1>8. s = <<K[h + 1], J[h + 1], M[h + 1]>>
  BY <1>1, <1>2, <1>5
<1> QED
  BY <1>7, <1>8 DEF Leads

(* From the root.                                                          *)
LEMMA LeadsAt ==
  ASSUME NEW T, T.depth \in Nat, NEW q, NEW s, Leads(T.depth, T.root, q, 0, NoBound, s)
  PROVE  At(T, q, s)
<1> DEFINE d == T.depth
<1>1. PICK N, L, H : /\ Way(d, T.root, 0, NoBound, q, N, L, H) /\ Inside(d, q, N)
                     /\ s = <<L[d + 1], H[d + 1], N[d + 1]>>
  BY DEF Leads
<1>2. PICK M : M = CursorNodes(T, q)
  OBVIOUS
<1>3. PICK K, J : Way(d, T.root, 0, NoBound, q, M, K, J)
  BY <1>2, WayExists
<1> HIDE DEF d
<1>4. \A l \in 1..(d + 1) : N[l] = M[l] /\ L[l] = K[l] /\ H[l] = J[l]
  <2>1. d \in Nat /\ d \in 0..d /\ \A l \in 1..d : q[l] = q[l]
    BY DEF d
  <2> QED
    BY ONLY <1>1, <1>3, <2>1, WaySame
<1>5. d \in Nat
  BY DEF d
<1>6. Inside(d, q, M)
  BY <1>1, <1>4, <1>5 DEF Inside
<1>7. s = <<K[d + 1], J[d + 1], M[d + 1]>>
  <2>1. d + 1 \in 1..(d + 1)
    BY <1>5
  <2> QED
    BY <1>1, <1>4, <2>1
<1> QED
  BY <1>2, <1>3, <1>6, <1>7 DEF At, d

-----------------------------------------------------------------------------
(***************************************************************************)
(* Another leaf under the cursor.                                          *)
(***************************************************************************)

(* Recursion up the levels: store_leaf.                                    *)
LEMMA StoreRec ==
  ASSUME NEW T, T.depth \in Nat, NEW p, NEW leaf, NEW N, N = CursorNodes(T, p)
  PROVE  \E U : /\ U[T.depth + 1] = leaf
                /\ \A l \in 1..T.depth : IsChild(U[l], N[l], p[l], U[l + 1])
                /\ store_leaf(T, p, leaf) = [T EXCEPT !.root = U[1]]
<1> DEFINE d == T.depth
           Up1(l, x) == [CursorNodes(T, p)[l] EXCEPT ![p[l]].child = x]
           Body(U, l) == IF l > d THEN leaf ELSE Up1(l, U[l + 1])
           Ok(U, m) == \A l \in ((d + 1) - m)..(d + 1) : U[l] = Body(U, l)
           Q == {m \in 0..d : \E U : Ok(U, m)}
<1> HIDE DEF Up1
<1>1. 0 \in Q
  <2>1. PICK U : U = [l \in (d + 1)..(d + 1) |-> leaf]
    OBVIOUS
  <2>2. Ok(U, 0)
    BY <2>1
  <2> QED
    BY <2>2
<1>2. ASSUME NEW m \in 0..(d - 1), m \in Q PROVE m + 1 \in Q
  <2>1. PICK U : Ok(U, m)
    BY <1>2
  <2> DEFINE k == (d + 1) - (m + 1)
  <2>2. PICK V : V = [l \in k..(d + 1) |-> IF l = k THEN Up1(k, U[k + 1]) ELSE U[l]]
    OBVIOUS
  <2>3. k \in 1..d /\ k + 1 = (d + 1) - m /\ m + 1 \in 0..d
    OBVIOUS
  <2> HIDE DEF k
  <2>4. V[k] = Up1(k, U[k + 1]) /\ \A l \in (k + 1)..(d + 1) : V[l] = U[l]
    BY <2>2, <2>3
  <2>5. ASSUME NEW l \in k..(d + 1) PROVE V[l] = Body(V, l)
    <3>1. CASE l = k
      <4>1. ~(l > d) /\ k + 1 \in (k + 1)..(d + 1)
        BY <2>3, <3>1
      <4> QED
        BY <2>4, <3>1, <4>1
    <3>2. CASE l # k
      <4>1. l \in (k + 1)..(d + 1) /\ (~(l > d) => l + 1 \in (k + 1)..(d + 1))
        BY <2>3, <3>2
      <4>2. U[l] = Body(U, l)
        BY <2>1, <2>3, <4>1
      <4> QED
        BY <2>4, <4>1, <4>2
    <3> QED
      BY <3>1, <3>2
  <2>6. Ok(V, m + 1)
    BY <2>5 DEF k
  <2> HIDE DEF Ok
  <2> QED
    BY <2>3, <2>6
<1>3. d \in Q
  <2> HIDE DEF Q
  <2> QED
    BY <1>1, <1>2, BoundedInduction
<1> DEFINE Solves(U) == U = [l \in 1..(d + 1) |-> Body(U, l)]
<1>4. \E U : Solves(U)
  <2>1. PICK U : Ok(U, d)
    BY <1>3
  <2>2. PICK V : V = [l \in 1..(d + 1) |-> U[l]]
    OBVIOUS
  <2>3. \A l \in 1..(d + 1) : V[l] = U[l]
    BY <2>2
  <2>4. ASSUME NEW l \in 1..(d + 1) PROVE V[l] = Body(V, l)
    <3>1. l \in ((d + 1) - d)..(d + 1) /\ (~(l > d) => l + 1 \in 1..(d + 1))
      OBVIOUS
    <3>2. U[l] = Body(U, l)
      BY <2>1, <3>1
    <3> QED
      BY <2>3, <3>1, <3>2
  <2>5. V = [l \in 1..(d + 1) |-> V[l]]
    BY <2>2
  <2> HIDE DEF Body
  <2>6. Solves(V)
    BY <2>4, <2>5
  <2> QED
    BY <2>6
<1>5. PICK U : U = CHOOSE V : Solves(V)
  OBVIOUS
<1>6. Solves(U)
  <2> HIDE DEF Solves
  <2> QED
    BY <1>4, <1>5
<1>7. store_leaf(T, p, leaf) = [T EXCEPT !.root = U[1]]
  BY <1>5, Zenon DEF store_leaf, Up1
<1>8. U[d + 1] = leaf
  <2>1. d + 1 \in 1..(d + 1) /\ d + 1 > d
    OBVIOUS
  <2> QED
    BY <1>6, <2>1
<1>9. ASSUME NEW l \in 1..d PROVE IsChild(U[l], N[l], p[l], U[l + 1])
  <2>1. l \in 1..(d + 1) /\ ~(l > d)
    OBVIOUS
  <2>2. U[l] = Up1(l, U[l + 1])
    BY <1>6, <2>1
  <2> QED
    BY <2>2, Zenon DEF Up1, IsChild
<1> QED
  BY <1>7, <1>8, <1>9

(* The tree has the leaves it had, but for the one under the cursor.       *)
LEMMA StoreTree ==
  ASSUME NEW T, NEW S, Tree(T, S), NEW p, NEW s, At(T, p, s), NEW leaf
  PROVE  \E Rest : /\ S = Rest \cup {s}
                   /\ Tree(store_leaf(T, p, leaf), Rest \cup {<<s[1], s[2], leaf>>})
<1>1. PICK N : N = CursorNodes(T, p)
  OBVIOUS
<1>2. PICK d : d = T.depth
  OBVIOUS
<1>3. d \in Nat \ {0} /\ Spans(d, T.root, 0, NoBound, S) /\ T = [depth |-> d, root |-> T.root]
  BY <1>2 DEF Tree
<1>4. PICK L, H : Way(d, T.root, 0, NoBound, p, N, L, H) /\ s = <<L[d + 1], H[d + 1], N[d + 1]>>
  BY <1>1, <1>2 DEF At
<1>5. Inside(d, p, N)
  BY <1>1, <1>2 DEF At
<1>6. PICK U : /\ U[d + 1] = leaf
               /\ \A l \in 1..d : IsChild(U[l], N[l], p[l], U[l + 1])
               /\ store_leaf(T, p, leaf) = [T EXCEPT !.root = U[1]]
  BY <1>1, <1>2, <1>3, StoreRec
<1> DEFINE new == <<s[1], s[2], leaf>>
           P == {m \in 0..d : \A R : Spans(m, N[(d + 1) - m], L[(d + 1) - m], H[(d + 1) - m], R) =>
                   \E Q : /\ R = Q \cup {s}
                          /\ Spans(m, U[(d + 1) - m], L[(d + 1) - m], H[(d + 1) - m], Q \cup {new})}
<1>7. new = <<L[d + 1], H[d + 1], leaf>>
  BY <1>4
<1> HIDE DEF new
<1>8. 0 \in P
  <2>1. 0 \in 0..d /\ (d + 1) - 0 = d + 1
    BY <1>3
  <2>2. ASSUME NEW R, Spans(0, N[d + 1], L[d + 1], H[d + 1], R)
        PROVE  /\ R = {} \cup {s} /\ Spans(0, U[d + 1], L[d + 1], H[d + 1], {} \cup {new})
    <3>1. Interval(L[d + 1], H[d + 1]) /\ R = {s}
      BY <1>4, <2>2, LeafSpans
    <3>2. Spans(0, leaf, L[d + 1], H[d + 1], {new})
      BY <1>7, <3>1, SpansLeaf
    <3>3. {} \cup {s} = {s} /\ {} \cup {new} = {new}
      OBVIOUS
    <3> QED
      BY <1>6, <3>1, <3>2, <3>3
  <2> QED
    BY <2>1, <2>2
<1>9. ASSUME NEW m \in 0..(d - 1), m \in P PROVE m + 1 \in P
  <2>1. PICK l, h : l = (d + 1) - (m + 1) /\ h = m + 1
    OBVIOUS
  <2>2. l \in 1..d /\ l + 1 = (d + 1) - m /\ h \in Nat \ {0} /\ h - 1 = m /\ h \in 0..d
    BY <1>3, <2>1
  <2>3. /\ N[l + 1] = N[l][p[l]].child /\ p[l] \in DOMAIN N[l]
        /\ L[l + 1] = From(N[l], p[l], L[l]) /\ H[l + 1] = To(N[l], p[l], H[l])
    BY <1>4, <1>5, <2>2 DEF Way, Inside
  <2>4. ASSUME NEW R, Spans(h, N[l], L[l], H[l], R)
        PROVE  \E Q : R = Q \cup {s} /\ Spans(h, U[l], L[l], H[l], Q \cup {new})
    <3>1. PICK C, Rest : /\ R = Rest \cup C /\ OthersSpan(h, N[l], L[l], H[l], p[l], Rest)
                         /\ Spans(h - 1, N[l][p[l]].child, From(N[l], p[l], L[l]), To(N[l], p[l], H[l]), C)
      BY <2>2, <2>3, <2>4, OpenSpans
    <3>2. Spans(m, N[l + 1], L[l + 1], H[l + 1], C)
      BY <2>2, <2>3, <3>1
    <3>3. PICK Q : C = Q \cup {s} /\ Spans(m, U[l + 1], L[l + 1], H[l + 1], Q \cup {new})
      BY <1>9, <2>2, <3>2
    <3>4. Interval(L[l], H[l]) /\ Divides(N[l], L[l], H[l])
      BY <2>2, <2>4, NodeSpans
    <3>5. Spans(h - 1, U[l + 1], From(N[l], p[l], L[l]), To(N[l], p[l], H[l]), Q \cup {new})
      BY <2>2, <2>3, <3>3
    <3>6. IsChild(U[l], N[l], p[l], U[l + 1])
      BY <1>6, <2>2
    <3>7. Spans(h, U[l], L[l], H[l], Rest \cup (Q \cup {new}))
      BY ONLY <2>2, <2>3, <3>1, <3>4, <3>5, <3>6, PutSpans
    <3>8. R = (Rest \cup Q) \cup {s} /\ Rest \cup (Q \cup {new}) = (Rest \cup Q) \cup {new}
      BY <3>1, <3>3
    <3> QED
      BY <3>7, <3>8
  <2> QED
    BY <2>1, <2>2, <2>4
<1>10. d \in P
  <2>1. d \in Nat
    BY <1>3
  <2> HIDE DEF P
  <2>2. 0..d \subseteq P
    BY ONLY <1>8, <1>9, <2>1, BoundedInduction
  <2> QED
    BY <2>1, <2>2
<1>11. (d + 1) - d = 1 /\ N[1] = T.root /\ L[1] = 0 /\ H[1] = NoBound
  BY <1>3, <1>4 DEF Way
<1>12. PICK Q : S = Q \cup {s} /\ Spans(d, U[1], 0, NoBound, Q \cup {new})
  BY <1>3, <1>10, <1>11
<1>13. store_leaf(T, p, leaf) = [depth |-> d, root |-> U[1]]
  BY <1>3, <1>6
<1>14. Tree(store_leaf(T, p, leaf), Q \cup {new})
  BY <1>3, <1>12, <1>13 DEF Tree
<1> QED
  BY <1>12, <1>14 DEF new

-----------------------------------------------------------------------------
(***************************************************************************)
(* Insertion of a leaf.                                                    *)
(***************************************************************************)

(* Sequences with the same elements are the same.                          *)
LEMMA SameSeq ==
  ASSUME NEW s, NEW t, NEW n, IsSeq(s), IsSeq(t), Len(s) = n, Len(t) = n, \A j \in 1..n : s[j] = t[j]
  PROVE  s = t
<1>1. Numbered(s, Len(s)) /\ Numbered(t, Len(t))
  BY SeqNumbered
<1>2. Numbered(s, n) /\ Numbered(t, n)
  BY ONLY <1>1, Len(s) = n, Len(t) = n, Zenon
<1> QED
  BY ONLY <1>2, \A j \in 1..n : s[j] = t[j] DEF Numbered

(* An entry added to a node.                                               *)
IsAdded(full, node, n, i, e) ==
  IsSeq(node) /\ n = Len(node) /\ i \in 0..n /\ full = add_child(node, i, e)

(* By its places.                                                          *)
LEMMA AddedParts ==
  ASSUME NEW full, NEW node, NEW n, NEW i, NEW e, IsAdded(full, node, n, i, e)
  PROVE  /\ n \in Nat /\ i \in Nat /\ i <= n
         /\ IsSeq(full) /\ Len(full) = n + 1
         /\ \A j \in 1..i : full[j] = node[j]
         /\ full[i + 1] = e
         /\ \A j \in (i + 1)..n : full[j + 1] = node[j]
<1>1. IsSeq(node) /\ i \in 0..Len(node) /\ full = InsertAt(node, i + 1, e) /\ n = Len(node)
  BY DEF IsAdded, add_child
<1>2. /\ IsSeq(full) /\ Len(full) = Len(node) + 1
      /\ \A j \in 1..i : full[j] = node[j]
      /\ full[i + 1] = e
      /\ \A j \in (i + 1)..Len(node) : full[j + 1] = node[j]
  BY ONLY <1>1, InsertParts
<1>3. Len(node) \in Nat
  BY ONLY <1>1, SeqNumbered
<1>4. n \in Nat /\ i \in 0..n
  BY ONLY <1>1, <1>3, Zenon
<1>5. /\ IsSeq(full) /\ Len(full) = n + 1
      /\ \A j \in 1..i : full[j] = node[j]
      /\ full[i + 1] = e
      /\ \A j \in (i + 1)..n : full[j + 1] = node[j]
  BY ONLY <1>1, <1>2, Zenon
<1> QED
  BY ONLY <1>4, <1>5

(* What split_node makes is what cutting the node with the entry makes.    *)
IsSplit(S, node, n, i, e, half) ==
  IsSeq(node) /\ n = Len(node) /\ n >= 2 /\ i \in 1..n /\ half = Half(node) /\ S = split_node(node, i, e)

(* Where the cut is, and what is on either side of it.                     *)
LEMMA SplitIs ==
  ASSUME NEW S, NEW node, NEW n, NEW i, NEW e, NEW half, IsSplit(S, node, n, i, e, half),
         NEW full, full = add_child(node, i, e),
         NEW c, c = IF i <= half THEN half + 1 ELSE half
  PROVE  /\ half \in 1..(n - 1) /\ c \in 1..n /\ full[c + 1] = node[half + 1]
         /\ S.node = SubSeq(full, 1, c) /\ S.new = SubSeq(full, c + 1, n + 1)
<1>1. IsSeq(node) /\ n = Len(node) /\ n >= 2 /\ i \in 1..n /\ half = Half(node)
  BY DEF IsSplit
<1>2. n \in Nat
  <2>1. Len(node) \in Nat
    BY <1>1, SeqNumbered
  <2> QED
    BY ONLY <1>1, <2>1, Zenon
<1>3. half \in 1..(n - 1) /\ c \in 1..n /\ half \in Nat /\ c \in Nat /\ i \in Nat
  <2>1. half = n \div 2
    BY ONLY <1>1, Zenon DEF Half
  <2>2. i \in 1..n /\ n >= 2
    BY <1>1
  <2> QED
    BY ONLY <1>2, <2>1, <2>2, c = IF i <= half THEN half + 1 ELSE half
<1>4. PICK u, v : u = SubSeq(node, 1, half) /\ v = SubSeq(node, half + 1, Len(node))
  OBVIOUS
<1>5. /\ IsSeq(u) /\ Len(u) = half /\ \A j \in 1..half : u[j] = node[j]
  <2>1. IsPart(u, node, n, 0, half)
    <3>1. 0 \in 0..n /\ half \in 0..n /\ 0 + 1 = 1
      BY <1>2, <1>3
    <3> QED
      BY <1>1, <1>4, <3>1 DEF IsPart
  <2>2. /\ IsSeq(u) /\ Len(u) = half - 0 /\ \A j \in 1..(half - 0) : u[j] = node[0 + j]
    BY ONLY <2>1, PartOf
  <2>3. half - 0 = half /\ \A j \in 1..half : 0 + j = j
    BY <1>3
  <2> QED
    BY ONLY <2>2, <2>3
<1>6. IsSeq(v) /\ Len(v) = n - half /\ \A j \in 1..(n - half) : v[j] = node[half + j]
  <2>1. IsPart(v, node, n, half, n)
    <3>1. half \in 0..n /\ n \in half..n
      BY <1>2, <1>3
    <3> QED
      BY <1>1, <1>4, <3>1 DEF IsPart
  <2> QED
    BY ONLY <2>1, PartOf
<1>7. /\ IsSeq(full) /\ Len(full) = n + 1
      /\ \A j \in 1..i : full[j] = node[j]
      /\ full[i + 1] = e
      /\ \A j \in (i + 1)..n : full[j + 1] = node[j]
  <2>1. IsAdded(full, node, n, i, e)
    <3>1. i \in 0..n
      BY <1>1, <1>2
    <3> QED
      BY <1>1, <3>1 DEF IsAdded
  <2> QED
    BY ONLY <2>1, AddedParts
<1>8. PICK x, y : x = SubSeq(full, 1, c) /\ y = SubSeq(full, c + 1, n + 1)
  OBVIOUS
<1>9. IsSeq(x) /\ Len(x) = c /\ \A j \in 1..c : x[j] = full[j]
  <2>1. IsPart(x, full, n + 1, 0, c)
    <3>1. 0 \in 0..(n + 1) /\ c \in 0..(n + 1) /\ 0 + 1 = 1
      BY <1>2, <1>3
    <3> QED
      BY <1>7, <1>8, <3>1 DEF IsPart
  <2>2. IsSeq(x) /\ Len(x) = c - 0 /\ \A j \in 1..(c - 0) : x[j] = full[0 + j]
    BY ONLY <2>1, PartOf
  <2>3. c - 0 = c /\ \A j \in 1..c : 0 + j = j
    BY <1>3
  <2> QED
    BY ONLY <2>2, <2>3
<1>10. IsSeq(y) /\ Len(y) = (n + 1) - c /\ \A j \in 1..((n + 1) - c) : y[j] = full[c + j]
  <2>1. IsPart(y, full, n + 1, c, n + 1)
    <3>1. c \in 0..(n + 1) /\ n + 1 \in c..(n + 1)
      BY <1>2, <1>3
    <3> QED
      BY <1>7, <1>8, <3>1 DEF IsPart
  <2> QED
    BY ONLY <2>1, PartOf
<1>11. S = IF i <= half THEN [node |-> add_child(u, i, e), new |-> v]
           ELSE [node |-> u, new |-> add_child(v, i - half, e)]
  BY <1>1, <1>4, Zenon DEF IsSplit, split_node
<1>12. CASE i <= half
  <2>1. c = half + 1
    BY <1>12
  <2>2. PICK z : z = add_child(u, i, e)
    OBVIOUS
  <2>3. /\ IsSeq(z) /\ Len(z) = half + 1
        /\ \A j \in 1..i : z[j] = u[j]
        /\ z[i + 1] = e
        /\ \A j \in (i + 1)..half : z[j + 1] = u[j]
    <3>1. IsAdded(z, u, half, i, e)
      <4>1. i \in 0..half
        BY <1>3, <1>12
      <4> QED
        BY <1>5, <2>2, <4>1 DEF IsAdded
    <3> QED
      BY ONLY <3>1, AddedParts
  <2>4. ASSUME NEW j \in 1..c PROVE z[j] = x[j]
    <3>0. x[j] = full[j] /\ j \in Nat
      BY <1>9, <1>3
    <3>1. CASE j <= i
      <4>1. j \in 1..i /\ j \in 1..half
        BY <1>3, <1>12, <3>1
      <4> QED
        BY <1>5, <1>7, <2>3, <3>0, <4>1
    <3>2. CASE j = i + 1
      BY <1>7, <2>3, <3>0, <3>2
    <3>3. CASE j > i + 1
      <4>1. j - 1 \in (i + 1)..half /\ j - 1 \in (i + 1)..n /\ j - 1 \in 1..half /\ (j - 1) + 1 = j
        BY <1>2, <1>3, <2>1, <3>3
      <4>2. z[(j - 1) + 1] = u[j - 1] /\ full[(j - 1) + 1] = node[j - 1] /\ u[j - 1] = node[j - 1]
        BY ONLY <1>5, <1>7, <2>3, <4>1
      <4> QED
        BY ONLY <3>0, <4>1, <4>2
    <3> QED
      BY <1>3, <3>0, <3>1, <3>2, <3>3
  <2>5. z = x
    BY ONLY <1>9, <2>1, <2>3, <2>4, SameSeq
  <2>6. ASSUME NEW j \in 1..(n - half) PROVE v[j] = y[j]
    <3>1. /\ half + j \in (i + 1)..n /\ (half + j) + 1 = c + j
          /\ j \in 1..((n + 1) - c)
      BY <1>2, <1>3, <1>12, <2>1
    <3>2. full[(half + j) + 1] = node[half + j]
      BY <1>7, <3>1
    <3> QED
      BY <1>6, <1>10, <3>1, <3>2
  <2>7. v = y
    <3>1. Len(y) = n - half
      BY <1>2, <1>3, <1>10, <2>1
    <3> QED
      BY ONLY <1>6, <1>10, <2>6, <3>1, SameSeq
  <2>8. S = [node |-> z, new |-> v]
    BY <1>11, <1>12, <2>2
  <2>9. full[c + 1] = node[half + 1]
    <3>1. half + 1 \in (i + 1)..n /\ (half + 1) + 1 = c + 1
      BY <1>2, <1>3, <1>12, <2>1
    <3>2. full[(half + 1) + 1] = node[half + 1]
      BY <1>7, <3>1
    <3> QED
      BY <3>1, <3>2
  <2> QED
    BY <1>3, <1>8, <2>5, <2>7, <2>8, <2>9
<1>13. CASE ~(i <= half)
  <2>1. c = half
    BY <1>13
  <2>2. PICK z, k : k = i - half /\ z = add_child(v, k, e)
    OBVIOUS
  <2>3. /\ IsSeq(z) /\ Len(z) = (n - half) + 1
        /\ \A j \in 1..k : z[j] = v[j]
        /\ z[k + 1] = e
        /\ \A j \in (k + 1)..(n - half) : z[j + 1] = v[j]
    <3>1. IsAdded(z, v, n - half, k, e)
      <4>1. k \in 0..(n - half)
        BY <1>1, <1>2, <1>3, <1>13, <2>2
      <4> QED
        BY <1>6, <2>2, <4>1 DEF IsAdded
    <3> QED
      BY ONLY <3>1, AddedParts
  <2>4. k \in Nat \ {0} /\ half + k = i
    BY <1>1, <1>2, <1>3, <1>13, <2>2
  <2>5. ASSUME NEW j \in 1..((n - half) + 1) PROVE z[j] = y[j]
    <3>0. y[j] = full[half + j] /\ j \in Nat
      <4>1. j \in 1..((n + 1) - c)
        BY <1>2, <1>3, <2>1
      <4> QED
        BY <1>10, <2>1, <4>1
    <3>1. CASE j <= k
      <4>0. i <= n
        BY <1>1, <1>2
      <4>1. j \in 1..k /\ j \in 1..(n - half) /\ half + j \in 1..i
        BY ONLY <1>2, <1>3, <2>4, <3>1, <4>0, j \in 1..((n - half) + 1)
      <4> QED
        BY ONLY <1>6, <1>7, <2>3, <3>0, <4>1
    <3>2. CASE j = k + 1
      <4>1. half + j = i + 1
        BY <1>3, <2>4, <3>2
      <4> QED
        BY ONLY <1>7, <2>3, <3>0, <3>2, <4>1
    <3>3. CASE j > k + 1
      <4>1. /\ j - 1 \in (k + 1)..(n - half) /\ j - 1 \in 1..(n - half) /\ (j - 1) + 1 = j
            /\ half + (j - 1) \in (i + 1)..n /\ (half + (j - 1)) + 1 = half + j
        BY <1>2, <1>3, <2>4, <3>3
      <4>2. /\ z[(j - 1) + 1] = v[j - 1] /\ v[j - 1] = node[half + (j - 1)]
            /\ full[(half + (j - 1)) + 1] = node[half + (j - 1)]
        BY ONLY <1>6, <1>7, <2>3, <4>1
      <4> QED
        BY ONLY <3>0, <4>1, <4>2
    <3> QED
      BY <2>4, <3>0, <3>1, <3>2, <3>3
  <2>6. z = y
    <3>1. Len(y) = (n - half) + 1
      BY <1>2, <1>3, <1>10, <2>1
    <3> QED
      BY ONLY <1>10, <2>3, <2>5, <3>1, SameSeq
  <2>7. ASSUME NEW j \in 1..half PROVE u[j] = x[j]
    <3>1. j \in 1..i
      BY <1>3, <1>13
    <3> QED
      BY <1>5, <1>7, <1>9, <2>1, <3>1
  <2>8. u = x
    <3>1. Len(x) = half
      BY <1>9, <2>1
    <3> QED
      BY ONLY <1>5, <1>9, <2>7, <3>1, SameSeq
  <2>9. S = [node |-> u, new |-> z]
    BY <1>11, <1>13, <2>2
  <2>10. full[c + 1] = node[half + 1]
    <3>1. half + 1 \in 1..i
      BY <1>3, <1>13
    <3> QED
      BY <1>7, <2>1, <3>1
  <2> QED
    BY <1>3, <1>8, <2>6, <2>8, <2>9, <2>10
<1> QED
  BY <1>12, <1>13

(* What insertion does on a level: its node, the place of the cursor in    *)
(* it, and what comes from the level below.                                *)
Climb(nd, slot, below) ==
  LET node  == [nd EXCEPT ![slot].child = below.node]
      at    == IF below.moved THEN slot + 1 ELSE slot
      S     == split_node(node, slot, below.add[1])
      half  == Half(node)
  IN  IF below.add = <<>>
      THEN [below EXCEPT !.node = node, !.path = <<slot>> \o @]
      ELSE IF Len(node) < entries_per_node
      THEN [node |-> add_child(node, slot, below.add[1]), add |-> <<>>,
            path |-> <<at>> \o below.path, moved |-> FALSE]
      ELSE [node  |-> S.node,
            add   |-> <<index_entry(node[half + 1].key, S.new)>>,
            path  |-> <<IF slot <= half THEN at ELSE at - half>> \o below.path,
            moved |-> slot > half]

Report(node, add, path, moved) == [node |-> node, add |-> add, path |-> path, moved |-> moved]

IsReport(u) == u = Report(u.node, u.add, u.path, u.moved) /\ u.moved \in BOOLEAN

(* What goes up from a node whose leaves are now those in W: the cursor    *)
(* leads to the leaf s, in the node or in the one to be added.             *)
Adds(u, h, lo, hi, W, s, key, new, W1, W2) ==
  /\ u.add = <<index_entry(key, new)>>
  /\ key \in Nat /\ lo < key /\ Below(key, hi)
  /\ W = W1 \cup W2 /\ Spans(h, u.node, lo, key, W1) /\ Spans(h, new, key, hi, W2)
  /\ u.moved => Leads(h, new, u.path, key, hi, s)
  /\ ~u.moved => Leads(h, u.node, u.path, lo, key, s)

Grown(u, h, lo, hi, W, s) ==
  /\ IsReport(u)
  /\ u.add = <<>> => Spans(h, u.node, lo, hi, W) /\ Leads(h, u.node, u.path, lo, hi, s)
  /\ u.add # <<>> => \E key, new, W1, W2 : Adds(u, h, lo, hi, W, s, key, new, W1, W2)

(* The three ways that it goes on.                                         *)
ClimbsBy(u, nd, i, below, node, at, half, e) ==
  /\ IsReport(below) /\ u = Climb(nd, i, below)
  /\ node = [nd EXCEPT ![i].child = below.node]
  /\ at = IF below.moved THEN i + 1 ELSE i
  /\ half = Half(node) /\ e = below.add[1]

Ways(u, i, below, node, at, half, e) ==
  /\ below.add = <<>> => u = Report(node, <<>>, <<i>> \o below.path, below.moved)
  /\ below.add # <<>> /\ Len(node) < entries_per_node =>
       u = Report(add_child(node, i, e), <<>>, <<at>> \o below.path, FALSE)
  /\ below.add # <<>> /\ ~(Len(node) < entries_per_node) =>
       u = Report(split_node(node, i, e).node,
                  <<index_entry(node[half + 1].key, split_node(node, i, e).new)>>,
                  <<IF i <= half THEN at ELSE at - half>> \o below.path, i > half)

(* There are no others.                                                    *)
LEMMA ClimbCases ==
  ASSUME NEW nd, NEW i, NEW below, NEW u, NEW node, NEW at, NEW half, NEW e,
         ClimbsBy(u, nd, i, below, node, at, half, e)
  PROVE  Ways(u, i, below, node, at, half, e)
<1>0. /\ IsReport(below) /\ u = Climb(nd, i, below)
      /\ node = [nd EXCEPT ![i].child = below.node]
      /\ at = IF below.moved THEN i + 1 ELSE i
      /\ half = Half(node) /\ e = below.add[1]
  BY Zenon DEF ClimbsBy
<1>1. u = IF below.add = <<>>
          THEN [below EXCEPT !.node = node, !.path = <<i>> \o @]
          ELSE IF Len(node) < entries_per_node
          THEN [node |-> add_child(node, i, e), add |-> <<>>,
                path |-> <<at>> \o below.path, moved |-> FALSE]
          ELSE [node  |-> split_node(node, i, e).node,
                add   |-> <<index_entry(node[half + 1].key, split_node(node, i, e).new)>>,
                path  |-> <<IF i <= half THEN at ELSE at - half>> \o below.path,
                moved |-> i > half]
  BY <1>0, Zenon DEF Climb
<1>2. ASSUME below.add = <<>> PROVE u = Report(node, <<>>, <<i>> \o below.path, below.moved)
  <2>1. PICK a, b, c, f, q : a = below.node /\ b = below.add /\ c = below.path /\ f = below.moved /\ q = <<i>> \o c
    OBVIOUS
  <2>2. below = [node |-> a, add |-> b, path |-> c, moved |-> f]
    BY <1>0, <2>1 DEF IsReport, Report
  <2>3. u = [below EXCEPT !.node = node, !.path = <<i>> \o @]
    BY <1>1, <1>2
  <2>4. [below EXCEPT !.node = node, !.path = <<i>> \o @] = [below EXCEPT !.node = node, !.path = q]
    BY <2>1, <2>2
  <2>5. [below EXCEPT !.node = node, !.path = q] = [node |-> node, add |-> b, path |-> q, moved |-> f]
    <3>1. PICK x : x = [below EXCEPT !.node = node]
      OBVIOUS
    <3>2. [below EXCEPT !.node = node, !.path = q] = [x EXCEPT !.path = q]
      BY ONLY <3>1
    <3>3. x = [node |-> node, add |-> b, path |-> c, moved |-> f]
      BY ONLY <2>2, <3>1
    <3>4. [x EXCEPT !.path = q] = [node |-> node, add |-> b, path |-> q, moved |-> f]
      BY ONLY <3>3
    <3> QED
      BY <3>2, <3>4
  <2> QED
    BY <1>2, <2>1, <2>3, <2>4, <2>5 DEF Report
<1>3. below.add # <<>> /\ Len(node) < entries_per_node =>
              u = Report(add_child(node, i, e), <<>>, <<at>> \o below.path, FALSE)
  BY <1>1, Zenon DEF Report
<1>4. below.add # <<>> /\ ~(Len(node) < entries_per_node) =>
              u = Report(split_node(node, i, e).node,
                         <<index_entry(node[half + 1].key, split_node(node, i, e).new)>>,
                         <<IF i <= half THEN at ELSE at - half>> \o below.path, i > half)
  BY <1>1, Zenon DEF Report
<1> QED
  BY <1>2, <1>3, <1>4, Zenon DEF Ways

(* The fields of a report.                                                 *)
LEMMA ReportIs ==
  ASSUME NEW u, NEW node, NEW add, NEW path, NEW moved \in BOOLEAN, u = Report(node, add, path, moved)
  PROVE  IsReport(u) /\ u.node = node /\ u.add = add /\ u.path = path /\ u.moved = moved
<1>1. u.node = node /\ u.add = add /\ u.path = path /\ u.moved = moved
  BY DEF Report
<1> QED
  BY <1>1 DEF IsReport

(* On each level the leaves are those that there were, with those from     *)
(* below in place of what the child under the cursor had.                  *)
LEMMA ClimbStep ==
  ASSUME NEW h \in Nat \ {0}, NEW nd, NEW lo, NEW hi, Interval(lo, hi), Divides(nd, lo, hi),
         NEW i \in DOMAIN nd, NEW Rest, OthersSpan(h, nd, lo, hi, i, Rest),
         NEW below, NEW W, NEW s, Grown(below, h - 1, From(nd, i, lo), To(nd, i, hi), W, s),
         NEW u, u = Climb(nd, i, below)
  PROVE  Grown(u, h, lo, hi, Rest \cup W, s)
<1> DEFINE a == From(nd, i, lo)
           b == To(nd, i, hi)
<1>1. IsReport(below) /\ below.moved \in BOOLEAN
  BY DEF Grown, IsReport
<1>2. PICK node, at, half, e : /\ node = [nd EXCEPT ![i].child = below.node]
                               /\ at = IF below.moved THEN i + 1 ELSE i
                               /\ half = Half(node) /\ e = below.add[1]
  OBVIOUS
<1>3. Ways(u, i, below, node, at, half, e)
  <2>1. ClimbsBy(u, nd, i, below, node, at, half, e)
    BY <1>1, <1>2, Zenon DEF ClimbsBy
  <2> QED
    BY ONLY <2>1, ClimbCases
<1>4. IsChild(node, nd, i, below.node)
  BY <1>2, Zenon DEF IsChild
<1>5. /\ Divides(node, lo, hi) /\ DOMAIN node = DOMAIN nd /\ Len(node) = Len(nd)
      /\ node[i].child = below.node
      /\ From(node, i, lo) = a /\ To(node, i, hi) = b
  BY ONLY <1>4, Interval(lo, hi), Divides(nd, lo, hi), i \in DOMAIN nd, PutChild
<1>6. /\ Len(nd) \in Nat \ {0} /\ DOMAIN nd = 1..Len(nd) /\ i \in Nat
  BY ONLY Interval(lo, hi), Divides(nd, lo, hi), i \in DOMAIN nd, Entries
<1>7. CASE below.add = <<>>
  <2>1. PICK path : path = <<i>> \o below.path
    OBVIOUS
  <2>2. u = Report(node, <<>>, path, below.moved)
    BY <1>3, <1>7, <2>1, Zenon DEF Ways
  <2>3. IsReport(u) /\ u.node = node /\ u.add = <<>> /\ u.path = path
    BY ONLY <1>1, <2>2, ReportIs
  <2>4. Spans(h - 1, below.node, a, b, W) /\ Leads(h - 1, below.node, below.path, a, b, s)
    BY <1>7 DEF Grown
  <2>5. Spans(h, node, lo, hi, Rest \cup W)
    BY ONLY <1>4, <2>4, h \in Nat \ {0}, Interval(lo, hi), Divides(nd, lo, hi), i \in DOMAIN nd,
            OthersSpan(h, nd, lo, hi, i, Rest), PutSpans
  <2>6. Leads(h, node, path, lo, hi, s)
    <3>1. i \in DOMAIN node /\ Leads(h - 1, node[i].child, below.path, From(node, i, lo), To(node, i, hi), s)
      BY <1>5, <2>4
    <3> QED
      BY ONLY <1>6, <2>1, <3>1, h \in Nat \ {0}, LeadsNode
  <2> QED
    BY <2>3, <2>5, <2>6 DEF Grown
<1>8. CASE below.add # <<>>
  <2>1. PICK key, new, W1, W2 : Adds(below, h - 1, a, b, W, s, key, new, W1, W2)
    BY <1>8 DEF Grown
  <2>2. /\ below.add = <<index_entry(key, new)>>
        /\ key \in Nat /\ a < key /\ Below(key, b)
        /\ W = W1 \cup W2 /\ Spans(h - 1, below.node, a, key, W1) /\ Spans(h - 1, new, key, b, W2)
        /\ below.moved => Leads(h - 1, new, below.path, key, b, s)
        /\ ~below.moved => Leads(h - 1, below.node, below.path, a, key, s)
    BY <2>1 DEF Adds
  <2>3. e = index_entry(key, new)
    <3>1. PICK x : x = index_entry(key, new)
      OBVIOUS
    <3>2. below.add = <<x>> /\ e = below.add[1]
      BY <1>2, <2>2, <3>1
    <3>3. e = x
      BY ONLY <3>2
    <3> QED
      BY <3>1, <3>3
  <2>4. PICK full : full = add_child(node, i, e)
    OBVIOUS
  <2>5. full = add_child(node, i, index_entry(key, new))
    BY <2>3, <2>4
  <2>6. /\ Spans(h, full, lo, hi, Rest \cup (W1 \cup W2)) /\ Len(full) = Len(nd) + 1
        /\ full[i].child = below.node /\ full[i + 1].child = new
        /\ From(full, i, lo) = a /\ To(full, i, hi) = key
        /\ From(full, i + 1, lo) = key /\ To(full, i + 1, hi) = b
    BY ONLY <1>4, <2>2, <2>5, h \in Nat \ {0}, Interval(lo, hi), Divides(nd, lo, hi), i \in DOMAIN nd,
            OthersSpan(h, nd, lo, hi, i, Rest), AddSpans
  <2>7. Spans(h, full, lo, hi, Rest \cup W)
    BY <2>2, <2>6
  <2>8. Interval(lo, hi) /\ Divides(full, lo, hi)
    BY ONLY <2>7, h \in Nat \ {0}, NodeSpans
  <2>9. DOMAIN full = 1..Len(full)
    BY ONLY <2>8, Entries
  <2>10. PICK n : n = Len(nd)
    OBVIOUS
  <2>11. /\ n \in Nat \ {0} /\ Len(full) = n + 1 /\ DOMAIN full = 1..(n + 1) /\ i \in 1..n /\ i \in Nat
         /\ Len(node) = n /\ DOMAIN node = 1..n
    BY ONLY <1>5, <1>6, <2>6, <2>9, <2>10, i \in DOMAIN nd, Zenon
  <2>12. /\ at \in 1..(n + 1) /\ at \in Nat /\ (at = i \/ at = i + 1)
         /\ Leads(h - 1, full[at].child, below.path, From(full, at, lo), To(full, at, hi), s)
    <3>1. CASE below.moved
      <4>1. at = i + 1
        BY <1>2, <3>1
      <4> QED
        BY <2>2, <2>6, <2>11, <3>1, <4>1
    <3>2. CASE ~below.moved
      <4>1. at = i
        BY <1>2, <3>2
      <4> QED
        BY <2>2, <2>6, <2>11, <3>2, <4>1
    <3> QED
      BY <3>1, <3>2
  <2>13. CASE Len(node) < entries_per_node
    <3>1. PICK path, f : path = <<at>> \o below.path /\ f = FALSE
      OBVIOUS
    <3>2. u = Report(full, <<>>, path, f) /\ f \in BOOLEAN
      BY <1>3, <1>8, <2>4, <2>13, <3>1, Zenon DEF Ways
    <3>3. IsReport(u) /\ u.node = full /\ u.add = <<>> /\ u.path = path
      BY ONLY <3>2, ReportIs
    <3>4. Leads(h, full, path, lo, hi, s)
      <4>1. at \in DOMAIN full
        BY <2>11, <2>12
      <4> QED
        BY ONLY <2>12, <3>1, <4>1, h \in Nat \ {0}, LeadsNode
    <3> QED
      BY <2>7, <3>3, <3>4 DEF Grown
  <2>14. CASE ~(Len(node) < entries_per_node)
    <3>1. PICK S, c, slot, path : /\ S = split_node(node, i, e) /\ c = IF i <= half THEN half + 1 ELSE half
                                  /\ slot = IF i <= half THEN at ELSE at - half
                                  /\ path = <<slot>> \o below.path
      OBVIOUS
    <3>2. n >= 2
      BY <2>11, <2>14, BtreeAssumption
    <3>3. IsSplit(S, node, n, i, e, half)
      <4>1. IsSeq(node)
        BY <1>5 DEF Divides
      <4> QED
        BY <1>2, <2>11, <3>1, <3>2, <4>1 DEF IsSplit
    <3>4. /\ half \in 1..(n - 1) /\ c \in 1..n /\ full[c + 1] = node[half + 1]
          /\ S.node = SubSeq(full, 1, c) /\ S.new = SubSeq(full, c + 1, n + 1)
      BY ONLY <2>4, <3>1, <3>3, SplitIs
    <3>5. PICK mid, left, right : /\ mid = full[c + 1].key
                                  /\ left = SubSeq(full, 1, c) /\ right = SubSeq(full, c + 1, n + 1)
      OBVIOUS
    <3>6. PICK m : m = n + 1
      OBVIOUS
    <3>7. /\ mid \in Nat /\ lo < mid /\ Below(mid, hi)
          /\ \E S1, S2 : /\ Rest \cup W = S1 \cup S2
                         /\ Spans(h, left, lo, mid, S1) /\ Spans(h, right, mid, hi, S2)
          /\ Len(left) = c /\ DOMAIN left = 1..c /\ Len(right) = m - c /\ DOMAIN right = 1..(m - c)
          /\ \A j \in 1..c : /\ left[j] = full[j]
                             /\ From(left, j, lo) = From(full, j, lo)
                             /\ To(left, j, mid) = To(full, j, hi)
          /\ \A j \in 1..(m - c) : /\ right[j] = full[c + j]
                                   /\ From(right, j, mid) = From(full, c + j, lo)
                                   /\ To(right, j, hi) = To(full, c + j, hi)
      <4>1. c \in 1..(m - 1) /\ m = Len(full)
        BY <2>11, <3>4, <3>6
      <4>2. IsCut(full, m, c, mid, left, right)
        BY <3>5, <3>6, <4>1 DEF IsCut
      <4> QED
        BY ONLY <2>7, <4>2, h \in Nat \ {0}, NodeCut
    <3>8. PICK S1, S2 : /\ Rest \cup W = S1 \cup S2
                        /\ Spans(h, left, lo, mid, S1) /\ Spans(h, right, mid, hi, S2)
      BY <3>7
    <3>9. PICK add, f : add = <<index_entry(mid, right)>> /\ f = (i > half)
      OBVIOUS
    <3>15. u = Report(left, add, path, f) /\ f \in BOOLEAN
      <4>1. left = S.node /\ right = S.new /\ mid = node[half + 1].key
        BY <3>4, <3>5
      <4>2. u = Report(S.node, <<index_entry(node[half + 1].key, S.new)>>, path, i > half)
        BY <1>3, <1>8, <2>14, <3>1, Zenon DEF Ways
      <4>3. f \in BOOLEAN
        BY <3>9
      <4> QED
        BY ONLY <3>9, <4>1, <4>2, <4>3, Zenon
    <3>10. /\ IsReport(u) /\ u.node = left /\ u.add = <<index_entry(mid, right)>>
           /\ u.path = path /\ u.moved = (i > half)
      <4>1. IsReport(u) /\ u.node = left /\ u.add = add /\ u.path = path /\ u.moved = f
        BY ONLY <3>15, ReportIs
      <4> QED
        BY ONLY <3>9, <4>1, Zenon
    <3>11. ASSUME i > half PROVE Leads(h, right, path, mid, hi, s)
      <4>1. c = half /\ slot = at - c /\ slot \in 1..(m - c) /\ c + slot = at /\ slot \in Nat
        <5>1. c = half /\ slot = at - c
          BY <2>11, <3>1, <3>4, <3>11
        <5> QED
          BY <2>11, <2>12, <3>4, <3>6, <3>11, <5>1
      <4>2. /\ slot \in DOMAIN right
            /\ Leads(h - 1, right[slot].child, below.path, From(right, slot, mid), To(right, slot, hi), s)
        BY <2>12, <3>7, <4>1
      <4> QED
        BY ONLY <3>1, <4>1, <4>2, h \in Nat \ {0}, LeadsNode
    <3>12. ASSUME ~(i > half) PROVE Leads(h, left, path, lo, mid, s)
      <4>1. slot = at /\ slot \in 1..c /\ slot \in Nat
        <5>1. c = half + 1 /\ slot = at
          BY <2>11, <3>1, <3>4, <3>12
        <5>2. half \in 1..(n - 1) /\ i <= half
          BY <2>11, <3>4, <3>12
        <5> QED
          BY ONLY <2>11, <2>12, <5>1, <5>2
      <4>2. /\ slot \in DOMAIN left
            /\ Leads(h - 1, left[slot].child, below.path, From(left, slot, lo), To(left, slot, mid), s)
        BY <2>12, <3>7, <4>1
      <4> QED
        BY ONLY <3>1, <4>1, <4>2, h \in Nat \ {0}, LeadsNode
    <3>13. Adds(u, h, lo, hi, Rest \cup W, s, mid, right, S1, S2)
      BY <3>7, <3>8, <3>10, <3>11, <3>12 DEF Adds
    <3>14. u.add # <<>>
      BY <3>10
    <3> QED
      BY <3>10, <3>13, <3>14 DEF Grown
  <2> QED
    BY <2>13, <2>14
<1> QED
  BY <1>7, <1>8

(* The root, and a new one above it if it has been split.                  *)
Top(T, top) ==
  IF top.add = <<>> THEN [tree |-> [T EXCEPT !.root = top.node], path |-> top.path]
  ELSE [tree |-> [depth |-> T.depth + 1,
                  root  |-> <<index_entry(0, top.node)>> \o top.add],
        path |-> <<IF top.moved THEN 2 ELSE 1>> \o top.path]

Climbing(U, T, p, leaf, key, new, N, I) ==
  /\ U[T.depth + 1] = Report(leaf, <<index_entry(key, new)>>, <<>>, TRUE)
  /\ \A l \in 1..T.depth : U[l] = Climb(N[l], p[l], U[l + 1])
  /\ I = Top(T, U[1])

(* Recursion up the levels: insert_leaf.                                   *)
LEMMA InsertRec ==
  ASSUME NEW T, T.depth \in Nat, NEW p, NEW leaf, NEW key, NEW new, NEW N, N = CursorNodes(T, p),
         NEW I, I = insert_leaf(T, p, leaf, key, new)
  PROVE  \E U : Climbing(U, T, p, leaf, key, new, N, I)
<1> DEFINE d == T.depth
           start == Report(leaf, <<index_entry(key, new)>>, <<>>, TRUE)
           Up1(l, x) == Climb(CursorNodes(T, p)[l], p[l], x)
           Body(U, l) == IF l > d THEN start ELSE Up1(l, U[l + 1])
           Ok(U, m) == \A l \in ((d + 1) - m)..(d + 1) : U[l] = Body(U, l)
           Q == {m \in 0..d : \E U : Ok(U, m)}
<1> HIDE DEF Up1, start
<1>1. 0 \in Q
  <2>1. PICK U : U = [l \in (d + 1)..(d + 1) |-> start]
    OBVIOUS
  <2>2. Ok(U, 0)
    BY <2>1
  <2> QED
    BY <2>2
<1>2. ASSUME NEW m \in 0..(d - 1), m \in Q PROVE m + 1 \in Q
  <2>1. PICK U : Ok(U, m)
    BY <1>2
  <2> DEFINE k == (d + 1) - (m + 1)
  <2>2. PICK V : V = [l \in k..(d + 1) |-> IF l = k THEN Up1(k, U[k + 1]) ELSE U[l]]
    OBVIOUS
  <2>3. k \in 1..d /\ k + 1 = (d + 1) - m /\ m + 1 \in 0..d
    OBVIOUS
  <2> HIDE DEF k
  <2>4. V[k] = Up1(k, U[k + 1]) /\ \A l \in (k + 1)..(d + 1) : V[l] = U[l]
    BY <2>2, <2>3
  <2>5. ASSUME NEW l \in k..(d + 1) PROVE V[l] = Body(V, l)
    <3>1. CASE l = k
      <4>1. ~(l > d) /\ k + 1 \in (k + 1)..(d + 1)
        BY <2>3, <3>1
      <4> QED
        BY <2>4, <3>1, <4>1
    <3>2. CASE l # k
      <4>1. l \in (k + 1)..(d + 1) /\ (~(l > d) => l + 1 \in (k + 1)..(d + 1))
        BY <2>3, <3>2
      <4>2. U[l] = Body(U, l)
        BY <2>1, <2>3, <4>1
      <4> QED
        BY <2>4, <4>1, <4>2
    <3> QED
      BY <3>1, <3>2
  <2>6. Ok(V, m + 1)
    BY <2>5 DEF k
  <2> HIDE DEF Ok
  <2> QED
    BY <2>3, <2>6
<1>3. d \in Q
  <2> HIDE DEF Q
  <2> QED
    BY <1>1, <1>2, BoundedInduction
<1> DEFINE Solves(U) == U = [l \in 1..(d + 1) |-> Body(U, l)]
<1>4. \E U : Solves(U)
  <2>1. PICK U : Ok(U, d)
    BY <1>3
  <2>2. PICK V : V = [l \in 1..(d + 1) |-> U[l]]
    OBVIOUS
  <2>3. \A l \in 1..(d + 1) : V[l] = U[l]
    BY <2>2
  <2>4. ASSUME NEW l \in 1..(d + 1) PROVE V[l] = Body(V, l)
    <3>1. l \in ((d + 1) - d)..(d + 1) /\ (~(l > d) => l + 1 \in 1..(d + 1))
      OBVIOUS
    <3>2. U[l] = Body(U, l)
      BY <2>1, <3>1
    <3> QED
      BY <2>3, <3>1, <3>2
  <2>5. V = [l \in 1..(d + 1) |-> V[l]]
    BY <2>2
  <2> HIDE DEF Body
  <2>6. Solves(V)
    BY <2>4, <2>5
  <2> QED
    BY <2>6
<1>5. PICK U : U = CHOOSE V : Solves(V)
  OBVIOUS
<1>6. Solves(U)
  <2> HIDE DEF Solves
  <2> QED
    BY <1>4, <1>5
<1>7. insert_leaf(T, p, leaf, key, new) = Top(T, U[1])
  BY <1>5, Zenon DEF insert_leaf, Up1, Climb, Top, start, Report
<1>8. U[d + 1] = start
  <2>1. d + 1 \in 1..(d + 1) /\ d + 1 > d
    OBVIOUS
  <2> QED
    BY <1>6, <2>1
<1>9. ASSUME NEW l \in 1..d PROVE U[l] = Climb(N[l], p[l], U[l + 1])
  <2>1. l \in 1..(d + 1) /\ ~(l > d)
    OBVIOUS
  <2>2. U[l] = Up1(l, U[l + 1])
    BY <1>6, <2>1
  <2> QED
    BY <2>2, Zenon DEF Up1
<1> QED
  BY <1>7, <1>8, <1>9 DEF start, Climbing

(* Two entries.                                                            *)
LEMMA TwoEntries ==
  ASSUME NEW e, NEW f
  PROVE  <<e>> \o <<f>> = <<e, f>>
<1>1. PICK u, v, w, x, R : u = <<e>> /\ v = <<f>> /\ w = <<e, f>> /\ x = u \o v /\ R = {e, f}
  OBVIOUS
<1>2. /\ u \in Seq(R) /\ Len(u) = 1 /\ u[1] = e /\ v \in Seq(R) /\ Len(v) = 1 /\ v[1] = f
      /\ w \in Seq(R) /\ Len(w) = 2 /\ w[1] = e /\ w[2] = f
  BY ONLY <1>1
<1>3. /\ x \in Seq(R) /\ Len(x) = Len(u) + Len(v)
      /\ \A j \in 1..(Len(u) + Len(v)) : x[j] = IF j <= Len(u) THEN u[j] ELSE v[j - Len(u)]
  <2>1. u \in Seq(R) /\ v \in Seq(R) /\ x = u \o v
    BY <1>1, <1>2
  <2> QED
    BY ONLY <2>1, ConcatProperties, Zenon
<1>4. Len(x) = 2 /\ x[1] = e /\ x[2] = f
  BY ONLY <1>2, <1>3
<1>5. \A j \in 1..2 : w[j] = x[j]
  BY ONLY <1>2, <1>4
<1>6. w = x
  BY ONLY <1>2, <1>3, <1>4, <1>5, SameSeq DEF IsSeq
<1> QED
  BY ONLY <1>1, <1>6, Zenon

(* The new root.                                                           *)
LEMMA RootGrows ==
  ASSUME NEW T, T.depth \in Nat \ {0}, NEW top, NEW W, NEW s,
         NEW key, NEW new, NEW W1, NEW W2, Adds(top, T.depth, 0, NoBound, W, s, key, new, W1, W2),
         top.moved \in BOOLEAN, NEW I, I = Top(T, top)
  PROVE  Tree(I.tree, W) /\ At(I.tree, I.path, s)
<1> DEFINE d == T.depth
<1>1. /\ top.add = <<index_entry(key, new)>>
      /\ key \in Nat /\ 0 < key /\ Below(key, NoBound)
      /\ W = W1 \cup W2 /\ Spans(d, top.node, 0, key, W1) /\ Spans(d, new, key, NoBound, W2)
      /\ top.moved => Leads(d, new, top.path, key, NoBound, s)
      /\ ~top.moved => Leads(d, top.node, top.path, 0, key, s)
  BY DEF Adds
<1>2. d \in Nat \ {0} /\ d + 1 \in Nat \ {0} /\ (d + 1) - 1 = d
  OBVIOUS
<1> HIDE DEF d
<1>3. PICK e, f, root, at, path : /\ e = index_entry(0, top.node) /\ f = index_entry(key, new)
                                  /\ root = <<e, f>> /\ at = (IF top.moved THEN 2 ELSE 1)
                                  /\ path = <<at>> \o top.path
  OBVIOUS
<1>4. /\ e.key = 0 /\ e.child = top.node /\ e = index_entry(e.key, e.child)
      /\ f.key = key /\ f.child = new /\ f = index_entry(f.key, f.child)
  BY <1>3 DEF index_entry
<1>5. /\ IsSeq(root) /\ Len(root) = 2 /\ DOMAIN root = {1, 2} /\ root[1] = e /\ root[2] = f
  <2>1. root \in Seq({e, f}) /\ Len(root) = 2 /\ DOMAIN root = 1..2 /\ root[1] = e /\ root[2] = f
    BY ONLY <1>3, root = <<e, f>>
  <2> QED
    BY <2>1 DEF IsSeq
<1>6. <<e>> \o top.add = root
  <2>1. top.add = <<f>>
    BY <1>1, <1>3
  <2>2. <<e>> \o <<f>> = <<e, f>>
    BY TwoEntries
  <2>3. root = <<e, f>>
    BY <1>3
  <2> QED
    BY ONLY <2>1, <2>2, <2>3, Zenon
<1>7. top.add # <<>>
  BY <1>1
<1>8. I = [tree |-> [depth |-> d + 1, root |-> root], path |-> path]
  <2>1. I = [tree |-> [depth |-> T.depth + 1, root  |-> <<index_entry(0, top.node)>> \o top.add],
             path |-> <<IF top.moved THEN 2 ELSE 1>> \o top.path]
    BY <1>7, Zenon DEF Top
  <2>2. index_entry(0, top.node) = e /\ (IF top.moved THEN 2 ELSE 1) = at /\ path = <<at>> \o top.path
    BY ONLY <1>3, Zenon
  <2> QED
    BY ONLY <1>6, <2>1, <2>2, Zenon DEF d
<1>9. PICK R : R = [depth |-> d + 1, root |-> root]
  OBVIOUS
<1>10. I.tree = R /\ I.path = path /\ R.depth = d + 1 /\ R.root = root
  BY <1>8, <1>9
<1>11. Interval(0, NoBound) /\ Divides(root, 0, NoBound)
  <2>1. Interval(0, NoBound)
    BY DEF Interval, Below, NoBound
  <2>2. \A j \in DOMAIN root : root[j] = index_entry(root[j].key, root[j].child) /\ root[j].key \in Nat
    BY <1>1, <1>4, <1>5
  <2>3. \A j \in DOMAIN root \ {1} : 0 < root[j].key /\ Below(root[j].key, NoBound)
    BY <1>1, <1>4, <1>5
  <2>4. \A j, l \in DOMAIN root \ {1} : j < l => root[j].key < root[l].key
    <3>1. \A j, l \in DOMAIN root \ {1} : j = 2 /\ l = 2
      BY <1>5
    <3> QED
      BY <3>1
  <2>5. Len(root) >= 1
    BY <1>5
  <2> QED
    BY <1>5, <2>1, <2>2, <2>3, <2>4, <2>5 DEF Divides
<1>12. /\ From(root, 1, 0) = 0 /\ To(root, 1, NoBound) = key
       /\ From(root, 2, 0) = key /\ To(root, 2, NoBound) = NoBound
  BY <1>4, <1>5 DEF From, To
<1>13. PICK C : C = [j \in {1, 2} |-> IF j = 1 THEN W1 ELSE W2]
  OBVIOUS
<1>14. C[1] = W1 /\ C[2] = W2
  BY <1>13
<1>15. ASSUME NEW j \in DOMAIN root
       PROVE  Spans((d + 1) - 1, root[j].child, From(root, j, 0), To(root, j, NoBound), C[j])
  <2>1. CASE j = 1
    BY <1>1, <1>2, <1>4, <1>5, <1>12, <1>14, <2>1
  <2>2. CASE j = 2
    BY <1>1, <1>2, <1>4, <1>5, <1>12, <1>14, <2>2
  <2> QED
    BY <1>5, <2>1, <2>2
<1>16. Spans(d + 1, root, 0, NoBound, W)
  <2>1. Spans(d + 1, root, 0, NoBound, UNION {C[j] : j \in DOMAIN root})
    BY ONLY <1>2, <1>11, <1>15, SpansNode
  <2>2. UNION {C[j] : j \in DOMAIN root} = W
    BY <1>1, <1>5, <1>14
  <2> QED
    BY ONLY <2>1, <2>2, Zenon
<1>17. Tree(R, W)
  BY <1>2, <1>9, <1>10, <1>16 DEF Tree
<1>18. Leads(d + 1, root, path, 0, NoBound, s)
  <2>1. at \in DOMAIN root /\ at \in Nat
    BY <1>3, <1>5
  <2>2. Leads((d + 1) - 1, root[at].child, top.path, From(root, at, 0), To(root, at, NoBound), s)
    <3>1. CASE top.moved
      <4>1. at = 2
        BY <1>3, <3>1
      <4> QED
        BY <1>1, <1>2, <1>4, <1>5, <1>12, <3>1, <4>1
    <3>2. CASE ~top.moved
      <4>1. at = 1
        BY <1>3, <3>2
      <4> QED
        BY <1>1, <1>2, <1>4, <1>5, <1>12, <3>2, <4>1
    <3> QED
      BY <3>1, <3>2
  <2>3. path = <<at>> \o top.path
    BY <1>3
  <2> QED
    BY ONLY <1>2, <2>1, <2>2, <2>3, LeadsNode
<1>19. At(R, path, s)
  <2>1. R.depth \in Nat /\ Leads(R.depth, R.root, path, 0, NoBound, s)
    BY <1>2, <1>10, <1>18
  <2> QED
    BY ONLY <2>1, LeadsAt
<1> QED
  BY <1>10, <1>17, <1>19

(* The leaf under the cursor becomes another, whose interval ends at the   *)
(* key, and a leaf from the key on follows it and has the cursor.          *)
Inserted(I, S, s, one, two) ==
  \E Rest : S = Rest \cup {s} /\ Tree(I.tree, Rest \cup {one, two}) /\ At(I.tree, I.path, two)

(* So it is, for a key within the interval of the leaf.                    *)
LEMMA InsertTree ==
  ASSUME NEW T, NEW S, Tree(T, S), NEW p, NEW s, At(T, p, s), NEW leaf, NEW new,
         NEW key \in Nat, s[1] < key, Below(key, s[2]),
         NEW I, I = insert_leaf(T, p, leaf, key, new)
  PROVE  Inserted(I, S, s, <<s[1], key, leaf>>, <<key, s[2], new>>)
<1>1. PICK N : N = CursorNodes(T, p)
  OBVIOUS
<1>2. PICK d : d = T.depth
  OBVIOUS
<1>3. d \in Nat \ {0} /\ Spans(d, T.root, 0, NoBound, S) /\ T = [depth |-> d, root |-> T.root]
  BY <1>2 DEF Tree
<1>4. PICK L, H : Way(d, T.root, 0, NoBound, p, N, L, H) /\ s = <<L[d + 1], H[d + 1], N[d + 1]>>
  BY <1>1, <1>2 DEF At
<1>5. Inside(d, p, N)
  BY <1>1, <1>2 DEF At
<1>6. PICK U : /\ U[d + 1] = Report(leaf, <<index_entry(key, new)>>, <<>>, TRUE)
               /\ \A l \in 1..d : U[l] = Climb(N[l], p[l], U[l + 1])
               /\ I = Top(T, U[1])
  <2>1. T.depth \in Nat
    BY <1>2, <1>3
  <2>2. PICK U : Climbing(U, T, p, leaf, key, new, N, I)
    BY ONLY <1>1, <2>1, I = insert_leaf(T, p, leaf, key, new), InsertRec
  <2> QED
    BY ONLY <1>2, <2>2, Zenon DEF Climbing
<1> DEFINE one == <<s[1], key, leaf>>
           two == <<key, s[2], new>>
           P == {m \in 0..d : \A R : Spans(m, N[(d + 1) - m], L[(d + 1) - m], H[(d + 1) - m], R) =>
                   \E Q : /\ R = Q \cup {s}
                          /\ Grown(U[(d + 1) - m], m, L[(d + 1) - m], H[(d + 1) - m], Q \cup {one, two}, two)}
<1>7. one = <<L[d + 1], key, leaf>> /\ two = <<key, H[d + 1], new>> /\ L[d + 1] < key /\ Below(key, H[d + 1])
  BY <1>4
<1> HIDE DEF one, two
<1>8. 0 \in P
  <2>1. 0 \in 0..d /\ (d + 1) - 0 = d + 1
    BY <1>3
  <2>2. ASSUME NEW R, Spans(0, N[d + 1], L[d + 1], H[d + 1], R)
        PROVE  R = {} \cup {s} /\ Grown(U[d + 1], 0, L[d + 1], H[d + 1], {} \cup {one, two}, two)
    <3>1. Interval(L[d + 1], H[d + 1]) /\ R = {s}
      BY <1>4, <2>2, LeafSpans
    <3>2. Interval(L[d + 1], key) /\ Interval(key, H[d + 1])
      BY <1>7, <3>1 DEF Interval, Below
    <3>3. Spans(0, leaf, L[d + 1], key, {one}) /\ Spans(0, new, key, H[d + 1], {two})
      BY <1>7, <3>2, SpansLeaf
    <3>4. Leads(0, new, <<>>, key, H[d + 1], two)
      BY <1>7, LeadsLeaf
    <3>5. PICK u, add, path, moved : /\ u = U[d + 1] /\ add = <<index_entry(key, new)>>
                                     /\ path = <<>> /\ moved = TRUE
      OBVIOUS
    <3>6. u = Report(leaf, add, path, moved) /\ moved \in BOOLEAN
      BY <1>6, <3>5
    <3>7. IsReport(u) /\ u.node = leaf /\ u.add = add /\ u.path = path /\ u.moved = moved
      BY ONLY <3>6, ReportIs
    <3>8. {} \cup {s} = {s} /\ {} \cup {one, two} = {one} \cup {two}
      OBVIOUS
    <3>9. Adds(u, 0, L[d + 1], H[d + 1], {one} \cup {two}, two, key, new, {one}, {two})
      BY <1>7, <3>3, <3>4, <3>5, <3>7 DEF Adds
    <3>10. u.add # <<>>
      BY <3>5, <3>7
    <3>11. Grown(u, 0, L[d + 1], H[d + 1], {one} \cup {two}, two)
      BY <3>7, <3>9, <3>10 DEF Grown
    <3> QED
      BY <3>1, <3>5, <3>8, <3>11
  <2> QED
    BY <2>1, <2>2
<1>9. ASSUME NEW m \in 0..(d - 1), m \in P PROVE m + 1 \in P
  <2>1. PICK l, h : l = (d + 1) - (m + 1) /\ h = m + 1
    OBVIOUS
  <2>2. l \in 1..d /\ l + 1 = (d + 1) - m /\ h \in Nat \ {0} /\ h - 1 = m /\ h \in 0..d
    BY <1>3, <2>1
  <2>3. /\ N[l + 1] = N[l][p[l]].child /\ p[l] \in DOMAIN N[l]
        /\ L[l + 1] = From(N[l], p[l], L[l]) /\ H[l + 1] = To(N[l], p[l], H[l])
    BY <1>4, <1>5, <2>2 DEF Way, Inside
  <2>4. ASSUME NEW R, Spans(h, N[l], L[l], H[l], R)
        PROVE  \E Q : R = Q \cup {s} /\ Grown(U[l], h, L[l], H[l], Q \cup {one, two}, two)
    <3>1. PICK C, Rest : /\ R = Rest \cup C /\ OthersSpan(h, N[l], L[l], H[l], p[l], Rest)
                         /\ Spans(h - 1, N[l][p[l]].child, From(N[l], p[l], L[l]), To(N[l], p[l], H[l]), C)
      BY <2>2, <2>3, <2>4, OpenSpans
    <3>2. Spans(m, N[l + 1], L[l + 1], H[l + 1], C)
      BY <2>2, <2>3, <3>1
    <3>3. PICK Q : C = Q \cup {s} /\ Grown(U[l + 1], m, L[l + 1], H[l + 1], Q \cup {one, two}, two)
      BY <1>9, <2>2, <3>2
    <3>4. Interval(L[l], H[l]) /\ Divides(N[l], L[l], H[l])
      BY <2>2, <2>4, NodeSpans
    <3>5. Grown(U[l + 1], h - 1, From(N[l], p[l], L[l]), To(N[l], p[l], H[l]), Q \cup {one, two}, two)
      BY <2>2, <2>3, <3>3
    <3>6. U[l] = Climb(N[l], p[l], U[l + 1])
      BY <1>6, <2>2
    <3>7. Grown(U[l], h, L[l], H[l], Rest \cup (Q \cup {one, two}), two)
      BY ONLY <2>2, <2>3, <3>1, <3>4, <3>5, <3>6, ClimbStep
    <3>8. R = (Rest \cup Q) \cup {s} /\ Rest \cup (Q \cup {one, two}) = (Rest \cup Q) \cup {one, two}
      BY <3>1, <3>3
    <3> QED
      BY <3>7, <3>8
  <2> QED
    BY <2>1, <2>2, <2>4
<1>10. d \in P
  <2>1. d \in Nat
    BY <1>3
  <2> HIDE DEF P
  <2>2. 0..d \subseteq P
    BY ONLY <1>8, <1>9, <2>1, BoundedInduction
  <2> QED
    BY <2>1, <2>2
<1>11. (d + 1) - d = 1 /\ N[1] = T.root /\ L[1] = 0 /\ H[1] = NoBound
  BY <1>3, <1>4 DEF Way
<1>12. PICK Q : S = Q \cup {s} /\ Grown(U[1], d, 0, NoBound, Q \cup {one, two}, two)
  <2>1. \A R : Spans(d, N[(d + 1) - d], L[(d + 1) - d], H[(d + 1) - d], R) =>
                 \E Q : /\ R = Q \cup {s}
                        /\ Grown(U[(d + 1) - d], d, L[(d + 1) - d], H[(d + 1) - d], Q \cup {one, two}, two)
    BY <1>10
  <2>2. \A R : Spans(d, T.root, 0, NoBound, R) =>
                 \E Q : R = Q \cup {s} /\ Grown(U[1], d, 0, NoBound, Q \cup {one, two}, two)
    BY ONLY <1>11, <2>1
  <2> QED
    BY ONLY <1>3, <2>2, Zenon
<1>13. PICK u, W : u = U[1] /\ W = Q \cup {one, two}
  OBVIOUS
<1>14. Grown(u, d, 0, NoBound, W, two) /\ I = Top(T, u)
  BY <1>6, <1>12, <1>13
<1>15. CASE u.add = <<>>
  <2>1. Spans(d, u.node, 0, NoBound, W) /\ Leads(d, u.node, u.path, 0, NoBound, two)
    BY <1>14, <1>15 DEF Grown
  <2>2. PICK R : R = [depth |-> d, root |-> u.node]
    OBVIOUS
  <2>3. I = [tree |-> R, path |-> u.path]
    <3>1. I = [tree |-> [T EXCEPT !.root = u.node], path |-> u.path]
      BY <1>14, <1>15, Zenon DEF Top
    <3>2. [T EXCEPT !.root = u.node] = R
      BY <1>3, <2>2
    <3> QED
      BY ONLY <3>1, <3>2, Zenon
  <2>4. I.tree = R /\ I.path = u.path /\ R.depth = d /\ R.root = u.node
    BY <2>2, <2>3
  <2>5. Tree(R, W)
    BY <1>3, <2>1, <2>2, <2>4 DEF Tree
  <2>6. At(R, u.path, two)
    <3>1. R.depth \in Nat /\ Leads(R.depth, R.root, u.path, 0, NoBound, two)
      BY <1>3, <2>1, <2>4
    <3> QED
      BY ONLY <3>1, LeadsAt
  <2> QED
    BY <1>12, <1>13, <2>4, <2>5, <2>6 DEF Inserted, one, two
<1>16. CASE u.add # <<>>
  <2>1. PICK k, nd, W1, W2 : Adds(u, d, 0, NoBound, W, two, k, nd, W1, W2)
    BY <1>14, <1>16 DEF Grown
  <2>2. u.moved \in BOOLEAN /\ T.depth \in Nat \ {0}
    BY <1>2, <1>3, <1>14 DEF Grown, IsReport
  <2>3. Tree(I.tree, W) /\ At(I.tree, I.path, two)
    BY ONLY <1>2, <1>14, <2>1, <2>2, RootGrows
  <2> QED
    BY <1>12, <1>13, <2>3 DEF Inserted, one, two
<1> QED
  BY <1>15, <1>16

-----------------------------------------------------------------------------
(***************************************************************************)
(* Leaves.                                                                 *)
(***************************************************************************)
Slots == Attrs \cup {NoAttrs}

IsLeaf(leaf) ==
  /\ leaf = ileaf(leaf.ibase, leaf.attrs) /\ leaf.ibase \in Nat /\ leaf.attrs \in Seq(Slots)

(* Sizes are numbers, and only a number not in use has none.               *)
LEMMA Sizes ==
  /\ \A a \in Slots : Size(a) \in Nat
  /\ \A a \in Attrs : Size(a) \in Nat \ {0} /\ Size(a) + entries_per_leaf <= LeafRoom /\ a # NoAttrs
  /\ Size(NoAttrs) = 0
BY IleafAssumption DEF Size, Slots

(* Recursion along a leaf: the dictionary.                                 *)
Sums(E, attrs) == E[0] = 0 /\ \A at \in 1..Len(attrs) : E[at] = E[at - 1] + Size(attrs[at])

(* The recursion has a solution, and atdict is it.                         *)
LEMMA AtdictSums ==
  ASSUME NEW leaf, IsLeaf(leaf)
  PROVE  Sums(atdict(leaf), leaf.attrs)
<1> DEFINE n == icount(leaf)
           Body(E, at) == IF at = 0 THEN 0 ELSE E[at - 1] + Size(leaf.attrs[at])
           Solves(E, m) == E = [at \in 0..m |-> Body(E, at)]
           Q == {m \in Nat : \E E : Solves(E, m)}
<1>0. n \in Nat /\ n = Len(leaf.attrs)
  BY DEF IsLeaf, icount
<1> HIDE DEF n
<1>1. 0 \in Q
  <2>1. PICK E : E = [at \in 0..0 |-> 0]
    OBVIOUS
  <2>2. \A at \in 0..0 : Body(E, at) = 0
    OBVIOUS
  <2>3. Solves(E, 0)
    BY <2>1, <2>2
  <2> QED
    BY <2>3
<1>2. ASSUME NEW m \in Nat, m \in Q PROVE m + 1 \in Q
  <2>1. PICK E : Solves(E, m)
    BY <1>2
  <2>2. PICK F : F = [at \in 0..(m + 1) |-> IF at = m + 1 THEN E[m] + Size(leaf.attrs[m + 1]) ELSE E[at]]
    OBVIOUS
  <2>3. ASSUME NEW at \in 0..(m + 1) PROVE F[at] = Body(F, at)
    <3>1. CASE at = m + 1
      <4>1. F[at] = E[m] + Size(leaf.attrs[m + 1]) /\ F[at - 1] = E[m] /\ at # 0
        BY <2>2, <3>1
      <4> QED
        BY <3>1, <4>1
    <3>2. CASE at # m + 1 /\ at # 0
      <4>1. F[at] = E[at] /\ at \in 0..m /\ F[at - 1] = E[at - 1]
        BY <2>2, <3>2
      <4>2. E[at] = Body(E, at)
        BY <2>1, <4>1
      <4> QED
        BY <3>2, <4>1, <4>2
    <3>3. CASE at = 0
      <4>1. F[at] = E[at] /\ at \in 0..m
        BY <2>2, <3>3
      <4>2. E[at] = Body(E, at)
        BY <2>1, <4>1
      <4> QED
        BY <3>3, <4>1, <4>2
    <3> QED
      BY <3>1, <3>2, <3>3
  <2>4. F = [at \in 0..(m + 1) |-> F[at]]
    BY <2>2
  <2> HIDE DEF Body
  <2>5. F = [at \in 0..(m + 1) |-> Body(F, at)]
    BY <2>3, <2>4
  <2> QED
    BY <2>5
<1> HIDE DEF Q
<1>3. n \in Q
  BY <1>0, <1>1, <1>2, SetInduction
<1>4. PICK E : E = CHOOSE F : Solves(F, n)
  OBVIOUS
<1>5. atdict(leaf) = E
  BY <1>4, Zenon DEF atdict, n
<1>6. Solves(E, n)
  <2> HIDE DEF Solves
  <2>1. \E F : Solves(F, n)
    BY <1>3 DEF Q
  <2> QED
    BY <1>4, <2>1
<1>7. E[0] = 0
  BY <1>0, <1>6
<1>8. ASSUME NEW at \in 1..n PROVE E[at] = E[at - 1] + Size(leaf.attrs[at])
  BY <1>0, <1>6
<1> QED
  BY <1>0, <1>5, <1>7, <1>8 DEF Sums

(* The sums are numbers, and grow.                                         *)
LEMMA SumsGrow ==
  ASSUME NEW attrs \in Seq(Slots), NEW E, Sums(E, attrs)
  PROVE  /\ \A at \in 0..Len(attrs) : E[at] \in Nat
         /\ \A at \in 0..Len(attrs) : E[at] <= E[Len(attrs)]
<1> DEFINE n == Len(attrs)
           P == {i \in 0..n : E[i] \in Nat /\ \A j \in 0..i : E[j] \in Nat /\ E[j] <= E[i]}
<1>1. n \in Nat /\ E[0] = 0 /\ \A at \in 1..n : attrs[at] \in Slots /\ E[at] = E[at - 1] + Size(attrs[at])
  BY DEF Sums
<1> HIDE DEF n
<1>2. \A at \in 1..n : Size(attrs[at]) \in Nat
  BY <1>1, Sizes
<1>3. 0 \in P
  BY <1>1
<1>4. ASSUME NEW i \in 0..(n - 1), i \in P PROVE i + 1 \in P
  <2>1. i + 1 \in 1..n /\ (i + 1) - 1 = i /\ i \in Nat
    BY <1>1
  <2>2. E[i + 1] = E[i] + Size(attrs[i + 1]) /\ Size(attrs[i + 1]) \in Nat
    BY <1>1, <1>2, <2>1
  <2>3. E[i] \in Nat /\ E[i + 1] \in Nat /\ E[i] <= E[i + 1]
    BY <1>4, <2>2
  <2>4. ASSUME NEW j \in 0..(i + 1) PROVE E[j] \in Nat /\ E[j] <= E[i + 1]
    <3>1. CASE j = i + 1
      BY <2>3, <3>1
    <3>2. CASE j # i + 1
      <4>1. j \in 0..i
        BY <2>1, <3>2
      <4> QED
        BY <1>4, <2>3, <4>1
    <3> QED
      BY <3>1, <3>2
  <2> QED
    BY <1>1, <2>1, <2>3, <2>4
<1>5. n \in P
  <2>1. 0..n \subseteq P
    <3> HIDE DEF P
    <3> QED
      BY <1>1, <1>3, <1>4, BoundedInduction
  <2> QED
    BY <1>1, <2>1
<1> QED
  BY <1>5 DEF n

(* A part of a sequence needs no more than the whole.                      *)
LEMMA LessSum ==
  ASSUME NEW s \in Seq(Slots), NEW E, Sums(E, s), NEW t \in Seq(Slots), NEW F, Sums(F, t),
         NEW c \in Nat, c + Len(t) <= Len(s),
         \A i \in 1..Len(t) : Size(t[i]) <= Size(s[c + i])
  PROVE  F[Len(t)] <= E[Len(s)]
<1> DEFINE n == Len(s)
           m == Len(t)
           P == {i \in 0..m : F[i] <= E[c + i]}
<1>1. /\ n \in Nat /\ m \in Nat /\ E[0] = 0 /\ F[0] = 0 /\ c + m <= n
      /\ \A at \in 1..n : s[at] \in Slots /\ E[at] = E[at - 1] + Size(s[at])
      /\ \A at \in 1..m : t[at] \in Slots /\ F[at] = F[at - 1] + Size(t[at])
      /\ \A i \in 1..m : Size(t[i]) <= Size(s[c + i])
  BY DEF Sums
<1>2. /\ \A at \in 0..n : E[at] \in Nat /\ E[at] <= E[n]
      /\ \A at \in 0..m : F[at] \in Nat
  BY SumsGrow
<1> HIDE DEF n, m
<1>3. 0 \in P
  BY <1>1, <1>2
<1>4. ASSUME NEW i \in 0..(m - 1), i \in P PROVE i + 1 \in P
  <2>1. /\ i + 1 \in 1..m /\ (i + 1) - 1 = i /\ i \in 0..m /\ c + (i + 1) \in 1..n /\ c + i \in 0..n
        /\ c + (i + 1) - 1 = c + i
    BY <1>1
  <2>2. F[i + 1] = F[i] + Size(t[i + 1]) /\ E[c + (i + 1)] = E[c + i] + Size(s[c + (i + 1)])
    BY <1>1, <2>1
  <2>3. /\ Size(t[i + 1]) \in Nat /\ Size(s[c + (i + 1)]) \in Nat
        /\ Size(t[i + 1]) <= Size(s[c + (i + 1)])
    BY <1>1, <2>1, Sizes
  <2>4. F[i] \in Nat /\ E[c + i] \in Nat /\ F[i] <= E[c + i]
    BY <1>2, <1>4, <2>1
  <2>5. F[i + 1] <= E[c + (i + 1)]
    BY <2>2, <2>3, <2>4
  <2> QED
    BY <2>1, <2>5
<1>5. m \in P
  <2>1. 0..m \subseteq P
    <3> HIDE DEF P
    <3> QED
      BY <1>1, <1>3, <1>4, BoundedInduction
  <2> QED
    BY <1>1, <2>1
<1>6. c + m \in 0..n /\ m \in 0..m
  BY <1>1
<1>7. F[m] <= E[c + m] /\ E[c + m] <= E[n] /\ F[m] \in Nat /\ E[c + m] \in Nat /\ E[n] \in Nat
  BY <1>1, <1>2, <1>5, <1>6
<1> QED
  BY <1>7 DEF n, m

(* The sequence with an entry changed, and as long as it takes for it.     *)
IsResized(t, s, k, a) ==
  /\ s \in Seq(Slots) /\ t \in Seq(Slots) /\ k \in Nat \ {0} /\ a \in Slots
  /\ Len(t) = IF k <= Len(s) THEN Len(s) ELSE k
  /\ t[k] = a
  /\ \A i \in 1..Len(t) : i # k => t[i] = IF i <= Len(s) THEN s[i] ELSE NoAttrs

Old(s, k) == IF k <= Len(s) THEN Size(s[k]) ELSE 0

(* The sum changes by what the entry had and has.                          *)
LEMMA ResizedSum ==
  ASSUME NEW s, NEW t, NEW k, NEW a, IsResized(t, s, k, a),
         NEW E, Sums(E, s), NEW F, Sums(F, t)
  PROVE  F[Len(t)] = E[Len(s)] + Size(a) - Old(s, k)
<1> DEFINE n == Len(s)
           m == Len(t)
           old == Old(s, k)
           Cut(i) == IF i <= n THEN i ELSE n
           P == {i \in 0..m : F[i] = E[Cut(i)] + (IF i < k THEN 0 ELSE Size(a) - old)}
<1>1. /\ n \in Nat /\ m \in Nat /\ E[0] = 0 /\ F[0] = 0 /\ k \in Nat \ {0} /\ k <= m /\ n <= m
      /\ m = (IF k <= n THEN n ELSE k)
      /\ \A at \in 1..n : s[at] \in Slots /\ E[at] = E[at - 1] + Size(s[at])
      /\ \A at \in 1..m : t[at] \in Slots /\ F[at] = F[at - 1] + Size(t[at])
      /\ t[k] = a /\ \A i \in 1..m : i # k => t[i] = IF i <= n THEN s[i] ELSE NoAttrs
  BY DEF Sums, IsResized
<1>2. /\ \A at \in 0..n : E[at] \in Nat
      /\ \A at \in 0..m : F[at] \in Nat
  <2>1. s \in Seq(Slots) /\ t \in Seq(Slots)
    BY DEF IsResized
  <2> QED
    BY <2>1, SumsGrow
<1>3. Size(a) \in Nat /\ (k <= n => old = Size(s[k]) /\ old \in Nat) /\ (~(k <= n) => old = 0)
  BY <1>1, Sizes DEF Old, IsResized
<1> HIDE DEF n, m, old
<1>4. 0 \in P
  BY <1>1, <1>2
<1>5. ASSUME NEW i \in 0..(m - 1), i \in P PROVE i + 1 \in P
  <2>1. /\ i + 1 \in 1..m /\ (i + 1) - 1 = i /\ i \in 0..m /\ i \in Nat
        /\ F[i + 1] = F[i] + Size(t[i + 1])
    BY <1>1
  <2>2. F[i] = E[Cut(i)] + (IF i < k THEN 0 ELSE Size(a) - old) /\ F[i] \in Nat
    BY <1>2, <1>5, <2>1
  <2>3. CASE i + 1 <= n
    <3>1. /\ Cut(i + 1) = i + 1 /\ Cut(i) = i /\ i + 1 \in 1..n
          /\ E[i + 1] = E[i] + Size(s[i + 1]) /\ E[i] \in Nat
      BY <1>1, <1>2, <2>1, <2>3
    <3>2. Size(s[i + 1]) \in Nat
      BY <1>1, <3>1, Sizes
    <3>3. CASE i + 1 = k
      <4>1. /\ old = Size(s[i + 1]) /\ i < k /\ ~(i + 1 < k) /\ F[i + 1] = F[i] + Size(a)
            /\ F[i] = E[i]
        BY <1>1, <1>3, <2>1, <2>2, <2>3, <3>1, <3>3
      <4>2. F[i + 1] = E[i + 1] + (Size(a) - old)
        BY <1>3, <3>1, <3>2, <4>1
      <4> QED
        BY <2>1, <3>1, <4>1, <4>2
    <3>4. CASE i + 1 # k
      <4>1. t[i + 1] = s[i + 1] /\ (i < k <=> i + 1 < k)
        BY <1>1, <2>1, <2>3, <3>4
      <4>2. F[i + 1] = E[i + 1] + (IF i < k THEN 0 ELSE Size(a) - old)
        BY <1>3, <2>1, <2>2, <3>1, <3>2, <4>1
      <4> QED
        BY <2>1, <3>1, <4>1, <4>2
    <3> QED
      BY <3>3, <3>4
  <2>4. CASE ~(i + 1 <= n)
    <3>1. Cut(i + 1) = n /\ Cut(i) = n /\ E[n] \in Nat
      BY <1>1, <1>2, <2>1, <2>4
    <3>2. CASE i + 1 = k
      <4>1. ~(k <= n) /\ old = 0 /\ i < k /\ ~(i + 1 < k) /\ F[i + 1] = F[i] + Size(a)
        BY <1>1, <1>3, <2>1, <2>4, <3>2
      <4>2. F[i + 1] = E[n] + (Size(a) - old)
        BY <1>3, <2>2, <3>1, <4>1
      <4> QED
        BY <2>1, <3>1, <4>1, <4>2
    <3>3. CASE i + 1 # k
      <4>1. t[i + 1] = NoAttrs /\ (i < k <=> i + 1 < k)
        BY <1>1, <2>1, <2>4, <3>3
      <4>2. F[i + 1] = F[i]
        BY <2>1, <2>2, <4>1, Sizes
      <4> QED
        BY <2>1, <2>2, <3>1, <4>1, <4>2
    <3> QED
      BY <3>2, <3>3
  <2> QED
    BY <2>3, <2>4
<1>6. m \in P
  <2>1. 0..m \subseteq P
    <3> HIDE DEF P
    <3> QED
      BY <1>1, <1>4, <1>5, BoundedInduction
  <2> QED
    BY <1>1, <2>1
<1>7. Cut(m) = n /\ ~(m < k) /\ E[n] \in Nat
  BY <1>1, <1>2
<1>8. F[m] = E[n] + (Size(a) - old)
  BY <1>6, <1>7
<1>9. old \in Nat
  BY <1>3
<1> QED
  BY <1>3, <1>7, <1>8, <1>9 DEF n, m, old
-----------------------------------------------------------------------------
(* What a leaf says of a number, by place.                                 *)
LEMMA Lookups ==
  ASSUME NEW leaf, IsLeaf(leaf)
  PROVE  /\ icount(leaf) = Len(leaf.attrs) /\ icount(leaf) \in Nat /\ leaf.ibase \in Nat
         /\ \A i \in 1..icount(leaf) : leaf.attrs[i] \in Slots
         /\ \A n \in Nat : leaf.ibase <= n =>
              /\ n - leaf.ibase < icount(leaf) =>
                   ileaf_lookup(leaf, n) = leaf.attrs[n - leaf.ibase + 1]
              /\ ~(n - leaf.ibase < icount(leaf)) => ileaf_lookup(leaf, n) = NoAttrs
<1>1. leaf.attrs \in Seq(Slots) /\ leaf.ibase \in Nat
  BY DEF IsLeaf
<1>2. icount(leaf) = Len(leaf.attrs)
  BY DEF icount
<1> QED
  BY <1>1, <1>2 DEF ileaf_lookup

(* What a leaf needs.                                                      *)
LEMMA NeedIs ==
  ASSUME NEW leaf, IsLeaf(leaf)
  PROVE  \E E : /\ Sums(E, leaf.attrs) /\ E[Len(leaf.attrs)] \in Nat
                /\ ileaf_need(leaf) = E[Len(leaf.attrs)] + Len(leaf.attrs) /\ ileaf_need(leaf) \in Nat
<1> DEFINE E == atdict(leaf)
           n == Len(leaf.attrs)
<1>1. leaf.attrs \in Seq(Slots) /\ n \in Nat /\ n \in 0..n
  BY DEF IsLeaf
<1>2. Sums(E, leaf.attrs)
  BY AtdictSums
<1>3. ileaf_need(leaf) = E[n] + n
  BY DEF ileaf_need, icount
<1> HIDE DEF E
<1>4. E[n] \in Nat
  BY <1>1, <1>2, SumsGrow
<1> QED
  BY <1>1, <1>2, <1>3, <1>4

(* A leaf with part of another, or with some of it dropped, needs no more. *)
Smaller(other, leaf) == icount(other) <= icount(leaf) /\ ileaf_need(other) <= ileaf_need(leaf)

(* What is no larger anywhere along a stretch of the leaf is smaller.      *)
LEMMA LessNeed ==
  ASSUME NEW leaf, IsLeaf(leaf), NEW other, IsLeaf(other), NEW c \in Nat,
         c + icount(other) <= icount(leaf),
         \A i \in 1..icount(other) : Size(other.attrs[i]) <= Size(leaf.attrs[c + i])
  PROVE  Smaller(other, leaf)
<1> DEFINE s == leaf.attrs
           t == other.attrs
<1>1. PICK E : Sums(E, s) /\ E[Len(s)] \in Nat /\ ileaf_need(leaf) = E[Len(s)] + Len(s)
  BY NeedIs
<1>2. PICK F : Sums(F, t) /\ F[Len(t)] \in Nat /\ ileaf_need(other) = F[Len(t)] + Len(t)
  BY NeedIs
<1>3. s \in Seq(Slots) /\ t \in Seq(Slots) /\ icount(leaf) = Len(s) /\ icount(other) = Len(t)
  BY DEF IsLeaf, icount
<1>4. c + Len(t) <= Len(s) /\ \A i \in 1..Len(t) : Size(t[i]) <= Size(s[c + i])
  BY <1>3
<1>5. Len(s) \in Nat /\ Len(t) \in Nat
  BY <1>3
<1> HIDE DEF s, t
<1>6. F[Len(t)] <= E[Len(s)]
  BY <1>1, <1>2, <1>3, <1>4, LessSum
<1> QED
  BY <1>1, <1>2, <1>3, <1>4, <1>5, <1>6 DEF Smaller

(* Sequences of attributes, from their parts.                              *)
LEMMA SlotsSeq ==
  ASSUME NEW n \in Nat, NEW s, IsSeq(s), Len(s) = n, \A i \in 1..n : s[i] \in Slots
  PROVE  s \in Seq(Slots)
<1>1. s = [i \in 1..n |-> s[i]]
  BY SeqNumbered DEF Numbered
<1>2. s \in [1..n -> Slots]
  BY ONLY <1>1, \A i \in 1..n : s[i] \in Slots
<1> QED
  BY <1>2

(* A leaf, and a sequence in place of its attributes.                      *)
LEMMA LeafIs ==
  ASSUME NEW base \in Nat, NEW s \in Seq(Slots), NEW leaf, leaf = ileaf(base, s)
  PROVE  IsLeaf(leaf) /\ leaf.ibase = base /\ leaf.attrs = s /\ icount(leaf) = Len(s)
BY DEF ileaf, IsLeaf, icount

(* The leaf made of its base and the other sequence.                       *)
LEMMA LeafWith ==
  ASSUME NEW leaf, IsLeaf(leaf), NEW s, NEW other, other = [leaf EXCEPT !.attrs = s]
  PROVE  other = ileaf(leaf.ibase, s)
<1>1. PICK base, attrs : leaf = ileaf(base, attrs)
  BY DEF IsLeaf
<1> QED
  BY <1>1 DEF ileaf

(* Nothing that is in use is cut off.                                      *)
Trimmed(other, leaf) ==
  /\ IsLeaf(other) /\ other.ibase = leaf.ibase /\ Smaller(other, leaf)
  /\ \A n \in Nat : leaf.ibase <= n => ileaf_lookup(other, n) = ileaf_lookup(leaf, n)

(* ileaf_trim cuts off empty entries at the end and nothing else.          *)
LEMMA TrimLeaf ==
  ASSUME NEW leaf, IsLeaf(leaf)
  PROVE  Trimmed(ileaf_trim(leaf), leaf)
<1> DEFINE s == leaf.attrs
           n == icount(leaf)
           live == {i \in DOMAIN s : s[i] # NoAttrs}
           last == CHOOSE i \in live \cup {0} : \A j \in live : j <= i
           t == SubSeq(s, 1, last)
           R == ileaf_trim(leaf)
<1>1. s \in Seq(Slots) /\ n = Len(s) /\ n \in Nat /\ DOMAIN s = 1..n /\ IsSeq(s)
  BY DEF IsLeaf, icount, IsSeq
<1>2. R = [leaf EXCEPT !.attrs = t]
  BY DEF ileaf_trim
<1>3. \E i \in live \cup {0} : \A j \in live : j <= i
  <2>1. live \subseteq 1..n
    BY <1>1
  <2> HIDE DEF live, s, n
  <2>2. CASE live = {}
    BY <2>2
  <2>3. CASE live # {}
    <3>1. Deepest(live) \in live /\ \A j \in live : j <= Deepest(live)
      BY <1>1, <2>1, <2>3, DeepestIs
    <3> QED
      BY <3>1
  <2> QED
    BY <2>2, <2>3
<1>4. last \in live \cup {0} /\ \A j \in live : j <= last
  <2> HIDE DEF live
  <2> QED
    BY <1>3
<1>5. last \in 0..n /\ \A i \in (last + 1)..n : s[i] = NoAttrs
  <2>1. live \subseteq 1..n
    BY <1>1
  <2>2. last \in 0..n
    <3> HIDE DEF live, last
    <3> QED
      BY <1>1, <1>4, <2>1
  <2>3. ASSUME NEW i \in (last + 1)..n PROVE s[i] = NoAttrs
    <3>1. i \in 1..n /\ ~(i <= last)
      BY <1>1, <2>2
    <3>2. i \notin live
      BY <1>4, <3>1
    <3> QED
      BY <1>1, <3>1, <3>2
  <2> QED
    BY <2>2, <2>3
<1>6. IsPart(t, s, n, 0, last)
  BY <1>1, <1>5 DEF IsPart
<1> HIDE DEF last, live, t, n
<1>7. IsSeq(t) /\ Len(t) = last - 0 /\ \A j \in 1..(last - 0) : t[j] = s[0 + j]
  BY ONLY <1>6, PartOf
<1>8. last \in Nat /\ Len(t) = last /\ last <= n /\ \A j \in 1..last : t[j] = s[j] /\ j \in 1..n
  BY <1>1, <1>5, <1>7
<1>9. \A j \in 1..n : s[j] \in Slots
  BY <1>1
<1>10. t \in Seq(Slots)
  BY <1>7, <1>8, <1>9, SlotsSeq
<1>11. R = ileaf(leaf.ibase, t)
  BY <1>2, LeafWith
<1>12. leaf.ibase \in Nat
  BY DEF IsLeaf
<1> HIDE DEF R
<1>13. IsLeaf(R) /\ R.ibase = leaf.ibase /\ R.attrs = t /\ icount(R) = last
  BY <1>8, <1>10, <1>11, <1>12, LeafIs
<1>14. Smaller(R, leaf)
  <2>1. 0 + icount(R) <= icount(leaf)
    BY <1>8, <1>13 DEF n
  <2>2. ASSUME NEW i \in 1..icount(R) PROVE Size(R.attrs[i]) <= Size(leaf.attrs[0 + i])
    <3>1. R.attrs[i] = leaf.attrs[0 + i] /\ leaf.attrs[0 + i] \in Slots
      BY <1>8, <1>9, <1>13
    <3>2. Size(leaf.attrs[0 + i]) \in Nat
      BY <3>1, Sizes
    <3> QED
      BY <3>1, <3>2
  <2> QED
    BY <1>13, <2>1, <2>2, LessNeed
<1>15. ASSUME NEW k \in Nat, leaf.ibase <= k PROVE ileaf_lookup(R, k) = ileaf_lookup(leaf, k)
  <2> DEFINE at == k - leaf.ibase
  <2>1. at \in Nat
    BY <1>12, <1>15
  <2>2. /\ at < n => ileaf_lookup(leaf, k) = s[at + 1]
        /\ ~(at < n) => ileaf_lookup(leaf, k) = NoAttrs
    BY <1>15, Lookups DEF n
  <2>3. /\ at < last => ileaf_lookup(R, k) = t[at + 1]
        /\ ~(at < last) => ileaf_lookup(R, k) = NoAttrs
    BY <1>13, <1>15, Lookups
  <2> HIDE DEF at
  <2>4. CASE at < last
    BY <1>1, <1>8, <2>1, <2>2, <2>3, <2>4
  <2>5. CASE ~(at < last) /\ at < n
    <3>1. at + 1 \in (last + 1)..n
      BY <1>1, <1>8, <2>1, <2>5
    <3> QED
      BY <1>5, <2>2, <2>3, <2>5, <3>1
  <2>6. CASE ~(at < last) /\ ~(at < n)
    BY <2>2, <2>3, <2>6
  <2> QED
    BY <2>4, <2>5, <2>6
<1> QED
  BY <1>13, <1>14, <1>15 DEF Trimmed, R
-----------------------------------------------------------------------------
(* What the leaf of an interval has to be, for the inodes that there are.  *)
Held(leaf, lo, hi, A) ==
  /\ IsLeaf(leaf) /\ leaf.ibase = lo /\ lo \in Inums
  /\ icount(leaf) <= entries_per_leaf /\ ileaf_need(leaf) <= LeafRoom
  /\ hi # NoBound => lo + icount(leaf) <= hi
  /\ \A n \in Nat : lo <= n /\ Below(n, hi) => ileaf_lookup(leaf, n) = A[n]

Holds(s, A) == Interval(s[1], s[2]) /\ Held(s[3], s[1], s[2], A)

Put(A, inum, a) == [n \in Nat |-> IF n = inum THEN a ELSE A[n]]

(* Less of a leaf that has all that there is will do.                      *)
LEMMA HeldTrim ==
  ASSUME NEW leaf, NEW lo, NEW hi, Interval(lo, hi), NEW A, Held(leaf, lo, hi, A),
         NEW other, Trimmed(other, leaf)
  PROVE  Held(other, lo, hi, A)
<1>1. /\ IsLeaf(other) /\ other.ibase = lo /\ icount(other) <= icount(leaf)
      /\ ileaf_need(other) <= ileaf_need(leaf)
      /\ \A n \in Nat : lo <= n => ileaf_lookup(other, n) = ileaf_lookup(leaf, n)
  BY DEF Trimmed, Smaller, Held
<1>2. IsLeaf(leaf)
  BY DEF Held
<1>3. icount(leaf) \in Nat /\ icount(other) \in Nat /\ ileaf_need(leaf) \in Nat /\ ileaf_need(other) \in Nat
  BY <1>1, <1>2, Lookups, NeedIs
<1>4. lo \in Nat /\ hi \in Int /\ LeafRoom \in Nat /\ entries_per_leaf \in Nat
  BY IleafAssumption DEF Interval
<1> QED
  BY <1>1, <1>3, <1>4 DEF Held

(* An entry changed, in a leaf that is long enough for it or made so.      *)
ResizeTo(R, leaf, inum, a) ==
  /\ IsLeaf(R) /\ R.ibase = leaf.ibase
  /\ IsResized(R.attrs, leaf.attrs, inum - leaf.ibase + 1, a)

(* ileaf_resize does so for a number from the base on.                     *)
LEMMA ResizeIs ==
  ASSUME NEW leaf, IsLeaf(leaf), NEW inum \in Nat, leaf.ibase <= inum, NEW a \in Attrs
  PROVE  ResizeTo(ileaf_resize(leaf, inum, a), leaf, inum, a)
<1> DEFINE s == leaf.attrs
           n == icount(leaf)
           at == inum - leaf.ibase
           extend == IF at < n THEN 0 ELSE at - n + 1
           e == [i \in 1..extend |-> NoAttrs]
           t == [s \o e EXCEPT ![at + 1] = a]
           R == ileaf_resize(leaf, inum, a)
<1>1. R = [leaf EXCEPT !.attrs = t]
  BY DEF ileaf_resize
<1>2. s \in Seq(Slots) /\ n = Len(s) /\ n \in Nat /\ leaf.ibase \in Nat
  BY DEF IsLeaf, icount
<1>3. at \in Nat /\ extend \in Nat /\ n + extend = IF at + 1 <= n THEN n ELSE at + 1
  BY <1>2, SMTT(60)
<1>4. NoAttrs \in Slots /\ a \in Slots
  BY DEF Slots
<1> HIDE DEF s, n, at, extend
<1>5. e \in Seq(Slots) /\ Len(e) = extend /\ \A i \in 1..extend : e[i] = NoAttrs
  BY <1>3, <1>4
<1> HIDE DEF e
<1>6. /\ s \o e \in Seq(Slots) /\ Len(s \o e) = n + extend
      /\ \A i \in 1..(n + extend) : (s \o e)[i] = IF i <= n THEN s[i] ELSE e[i - n]
  <2>1. /\ s \o e \in Seq(Slots) /\ Len(s \o e) = Len(s) + Len(e)
        /\ \A i \in 1..(Len(s) + Len(e)) : (s \o e)[i] = IF i <= Len(s) THEN s[i] ELSE e[i - Len(s)]
    BY <1>2, <1>5, ConcatProperties
  <2> QED
    BY ONLY <1>2, <1>5, <2>1, Zenon
<1>7. at + 1 \in 1..(n + extend)
  BY <1>2, <1>3
<1>8. /\ t \in Seq(Slots) /\ Len(t) = n + extend
      /\ \A i \in 1..(n + extend) : t[i] = IF i = at + 1 THEN a ELSE (s \o e)[i]
  <2>1. PICK u : u = s \o e
    OBVIOUS
  <2>2. PICK k : k = at + 1
    OBVIOUS
  <2>3. u \in Seq(Slots) /\ k \in 1..Len(u) /\ Len(u) = n + extend
    BY ONLY <1>6, <1>7, <2>1, <2>2, Zenon
  <2>4. /\ [u EXCEPT ![k] = a] \in Seq(Slots) /\ Len([u EXCEPT ![k] = a]) = Len(u)
        /\ \A i \in 1..Len(u) : [u EXCEPT ![k] = a][i] = IF i = k THEN a ELSE u[i]
    BY ONLY <1>4, <2>3, ExceptSeq
  <2>5. t = [u EXCEPT ![k] = a]
    BY <2>1, <2>2
  <2> HIDE DEF t
  <2> QED
    BY ONLY <2>1, <2>2, <2>3, <2>4, <2>5, Zenon
<1> HIDE DEF t
<1>9. R = ileaf(leaf.ibase, t)
  BY <1>1, LeafWith
<1> HIDE DEF R
<1>10. IsLeaf(R) /\ R.ibase = leaf.ibase /\ R.attrs = t
  BY <1>2, <1>8, <1>9, LeafIs
<1>11. t[at + 1] = a
  BY <1>7, <1>8
<1>12. ASSUME NEW i \in 1..(n + extend), i # at + 1 PROVE t[i] = IF i <= n THEN s[i] ELSE NoAttrs
  <2>1. t[i] = IF i <= n THEN s[i] ELSE e[i - n]
    BY <1>6, <1>8, <1>12
  <2>2. ~(i <= n) => i - n \in 1..extend
    BY <1>2, <1>3
  <2> QED
    BY <1>5, <2>1, <2>2
<1>13. at + 1 \in Nat \ {0}
  BY <1>3
<1>14. IsResized(t, s, at + 1, a)
  <2>1. Len(t) = (IF at + 1 <= Len(s) THEN Len(s) ELSE at + 1)
    BY <1>2, <1>3, <1>8
  <2>2. \A i \in 1..Len(t) : i # at + 1 => t[i] = IF i <= Len(s) THEN s[i] ELSE NoAttrs
    BY <1>2, <1>8, <1>12
  <2> QED
    BY <1>2, <1>4, <1>8, <1>11, <1>13, <2>1, <2>2 DEF IsResized
<1> QED
  BY <1>10, <1>14 DEF ResizeTo, R, s, at
(* What the changed leaf says.                                             *)
LEMMA ResizedLookup ==
  ASSUME NEW leaf, IsLeaf(leaf), NEW inum \in Nat, leaf.ibase <= inum, NEW a, NEW R, ResizeTo(R, leaf, inum, a)
  PROVE  /\ icount(R) = IF inum - leaf.ibase + 1 <= icount(leaf) THEN icount(leaf) ELSE inum - leaf.ibase + 1
         /\ \A n \in Nat : leaf.ibase <= n =>
              ileaf_lookup(R, n) = IF n = inum THEN a ELSE ileaf_lookup(leaf, n)
<1> DEFINE s == leaf.attrs
           t == R.attrs
           k == inum - leaf.ibase + 1
           c == icount(leaf)
           d == icount(R)
<1>1. /\ IsLeaf(R) /\ R.ibase = leaf.ibase
      /\ t[k] = a /\ Len(t) = (IF k <= Len(s) THEN Len(s) ELSE k)
      /\ \A i \in 1..Len(t) : i # k => t[i] = IF i <= Len(s) THEN s[i] ELSE NoAttrs
  BY DEF ResizeTo, IsResized
<1>2. c = Len(s) /\ c \in Nat /\ leaf.ibase \in Nat /\ d = Len(t) /\ d \in Nat
  BY <1>1, Lookups
<1>3. ASSUME NEW n \in Nat, leaf.ibase <= n
      PROVE  ileaf_lookup(R, n) = IF n = inum THEN a ELSE ileaf_lookup(leaf, n)
  <2> DEFINE j == n - leaf.ibase
  <2>1. j \in Nat /\ (n = inum <=> j + 1 = k) /\ k \in Nat
    BY <1>2, <1>3
  <2>2. /\ j < c => ileaf_lookup(leaf, n) = s[j + 1]
        /\ ~(j < c) => ileaf_lookup(leaf, n) = NoAttrs
    BY <1>3, Lookups
  <2>3. /\ j < d => ileaf_lookup(R, n) = t[j + 1]
        /\ ~(j < d) => ileaf_lookup(R, n) = NoAttrs
    BY <1>1, <1>3, Lookups
  <2> HIDE DEF j, c, d, s, t, k
  <2>4. d = (IF k <= c THEN c ELSE k)
    BY <1>1, <1>2
  <2>5. CASE n = inum
    <3>1. j < d /\ j + 1 = k
      BY <1>2, <2>1, <2>4, <2>5
    <3> QED
      BY <1>1, <2>3, <2>5, <3>1
  <2>6. CASE n # inum /\ j < d
    <3>1. j + 1 \in 1..Len(t) /\ j + 1 # k /\ (j + 1 <= Len(s) <=> j < c)
      BY <1>2, <2>1, <2>6
    <3>2. t[j + 1] = IF j + 1 <= Len(s) THEN s[j + 1] ELSE NoAttrs
      BY <1>1, <3>1
    <3> QED
      BY <2>2, <2>3, <2>6, <3>1, <3>2
  <2>7. CASE n # inum /\ ~(j < d)
    <3>1. ~(j < c)
      BY <1>2, <2>1, <2>4, <2>7
    <3> QED
      BY <2>2, <2>3, <2>7, <3>1
  <2> QED
    BY <2>5, <2>6, <2>7
<1>4. d = IF k <= c THEN c ELSE k
  BY <1>1, <1>2
<1> QED
  BY <1>3, <1>4

(* Then it has what there is, if it fits.                                  *)
LEMMA HeldPut ==
  ASSUME NEW leaf, NEW lo, NEW hi, Interval(lo, hi), NEW A, Held(leaf, lo, hi, A),
         NEW inum \in Nat, lo <= inum, Below(inum, hi), NEW a, NEW R, ResizeTo(R, leaf, inum, a),
         icount(R) <= entries_per_leaf, ileaf_need(R) <= LeafRoom
  PROVE  Held(R, lo, hi, Put(A, inum, a))
<1>1. /\ IsLeaf(leaf) /\ leaf.ibase = lo /\ lo \in Inums /\ lo \in Nat
      /\ hi # NoBound => lo + icount(leaf) <= hi
      /\ \A n \in Nat : lo <= n /\ Below(n, hi) => ileaf_lookup(leaf, n) = A[n]
  BY DEF Held, Interval
<1>2. IsLeaf(R) /\ R.ibase = lo
  BY <1>1 DEF ResizeTo
<1>3. icount(R) = IF inum - lo + 1 <= icount(leaf) THEN icount(leaf) ELSE inum - lo + 1
  BY <1>1, ResizedLookup
<1>4. \A n \in Nat : lo <= n => ileaf_lookup(R, n) = IF n = inum THEN a ELSE ileaf_lookup(leaf, n)
  BY <1>1, ResizedLookup
<1>5. icount(leaf) \in Nat
  BY <1>1, Lookups
<1>6. hi # NoBound => lo + icount(R) <= hi
  <2> SUFFICES ASSUME hi # NoBound PROVE lo + icount(R) <= hi
    OBVIOUS
  <2>1. inum < hi /\ hi \in Int /\ lo + icount(leaf) <= hi
    BY <1>1 DEF Below, Interval
  <2> QED
    BY <1>1, <1>3, <1>5, <2>1
<1>7. \A n \in Nat : lo <= n /\ Below(n, hi) => ileaf_lookup(R, n) = Put(A, inum, a)[n]
  BY <1>1, <1>4 DEF Put
<1> QED
  BY <1>1, <1>2, <1>6, <1>7 DEF Held

(* The room that ileaf_resize checks is enough.                            *)
LEMMA HeldResize ==
  ASSUME NEW leaf, NEW lo, NEW hi, Interval(lo, hi), NEW A, Held(leaf, lo, hi, A),
         NEW inum \in Nat, lo <= inum, Below(inum, hi), NEW a \in Attrs, HasSpace(leaf, inum, a)
  PROVE  Held(ileaf_resize(leaf, inum, a), lo, hi, Put(A, inum, a))
<1> DEFINE R == ileaf_resize(leaf, inum, a)
           s == leaf.attrs
           t == R.attrs
           k == inum - lo + 1
           c == icount(leaf)
           more == Size(a) - Size(ileaf_lookup(leaf, inum))
           extend == IF k - 1 < c THEN 0 ELSE (k - 1) - c + 1
<1>1. /\ IsLeaf(leaf) /\ leaf.ibase = lo /\ lo \in Nat /\ ileaf_need(leaf) <= LeafRoom
      /\ c <= entries_per_leaf
  BY DEF Held, Interval
<1>2. ResizeTo(R, leaf, inum, a)
  BY <1>1, ResizeIs
<1>3. IsResized(t, s, k, a) /\ IsLeaf(R)
  BY <1>1, <1>2 DEF ResizeTo
<1>4. inum - lo < entries_per_leaf /\ (more > 0 => extend + more <= ileaf_free(leaf))
  <2>1. (k - 1) = inum - lo
    BY <1>1
  <2> QED
    BY <1>1, <2>1 DEF HasSpace
<1>5. icount(R) = IF k <= c THEN c ELSE k
  BY <1>1, <1>2, ResizedLookup
<1>6. PICK E : Sums(E, s) /\ E[Len(s)] \in Nat /\ ileaf_need(leaf) = E[Len(s)] + Len(s)
  BY <1>1, NeedIs
<1>7. PICK F : Sums(F, t) /\ F[Len(t)] \in Nat /\ ileaf_need(R) = F[Len(t)] + Len(t)
  BY <1>3, NeedIs
<1>8. c = Len(s) /\ c \in Nat /\ icount(R) = Len(t) /\ k \in Nat \ {0}
  BY <1>1, <1>3, Lookups
<1>9. Old(s, k) = Size(ileaf_lookup(leaf, inum))
  <2>1. /\ inum - lo < c => ileaf_lookup(leaf, inum) = s[inum - lo + 1]
        /\ ~(inum - lo < c) => ileaf_lookup(leaf, inum) = NoAttrs
    <3> HIDE DEF R, t, more, extend, s, k
    <3>1. \A n \in Nat : leaf.ibase <= n =>
              /\ n - leaf.ibase < icount(leaf) =>
                   ileaf_lookup(leaf, n) = leaf.attrs[n - leaf.ibase + 1]
              /\ ~(n - leaf.ibase < icount(leaf)) => ileaf_lookup(leaf, n) = NoAttrs
      BY <1>1, Lookups
    <3> QED
      BY <1>1, <3>1 DEF s
  <2>2. k <= c <=> inum - lo < c
    BY <1>1, <1>8
  <2>3. /\ k <= c => ileaf_lookup(leaf, inum) = s[k]
        /\ ~(k <= c) => ileaf_lookup(leaf, inum) = NoAttrs
    BY <2>1, <2>2
  <2> HIDE DEF s, k, c
  <2> QED
    BY <1>8, <2>3, Sizes DEF Old
<1>10. Size(a) \in Nat \ {0} /\ Size(ileaf_lookup(leaf, inum)) \in Nat
  <2>1. ileaf_lookup(leaf, inum) \in Slots
    <3>1. NoAttrs \in Slots
      BY DEF Slots
    <3>2. \A i \in 1..c : s[i] \in Slots
      BY <1>1, Lookups
    <3>3. /\ inum - lo < c => ileaf_lookup(leaf, inum) = s[inum - lo + 1]
          /\ ~(inum - lo < c) => ileaf_lookup(leaf, inum) = NoAttrs
      BY <1>1, Lookups
    <3>4. inum - lo < c => inum - lo + 1 \in 1..c
      BY <1>1, <1>8
    <3> HIDE DEF s, k, c
    <3> QED
      BY <3>1, <3>2, <3>3, <3>4
  <2> QED
    BY <2>1, Sizes
<1>11. ~(k <= c) => Size(ileaf_lookup(leaf, inum)) = 0
  BY <1>9, <1>8 DEF Old
<1> HIDE DEF R, s, t, k, c
<1>12. F[Len(t)] = E[Len(s)] + Size(a) - Old(s, k)
  BY <1>3, <1>6, <1>7, ResizedSum
<1>13. ileaf_free(leaf) = LeafRoom - ileaf_need(leaf) /\ LeafRoom \in Nat
  BY IleafAssumption DEF ileaf_free
<1>14. PICK e, f, so, sa : e = E[Len(s)] /\ f = F[Len(t)] /\ so = Size(ileaf_lookup(leaf, inum)) /\ sa = Size(a)
  OBVIOUS
<1>15. /\ e \in Nat /\ f \in Nat /\ so \in Nat /\ sa \in Nat \ {0} /\ f = e + sa - so
       /\ ileaf_need(leaf) = e + c /\ ileaf_need(R) = f + icount(R) /\ e + c <= LeafRoom
       /\ ~(k <= c) => so = 0
       /\ icount(R) = IF k <= c THEN c ELSE k
       /\ sa - so > 0 => extend + (sa - so) <= LeafRoom - (e + c)
  BY <1>1, <1>4, <1>5, <1>6, <1>7, <1>8, <1>9, <1>10, <1>11, <1>12, <1>13, <1>14
<1>16. f + icount(R) <= LeafRoom
  <2>1. CASE k <= c
    <3>1. extend = 0 /\ icount(R) = c
      BY <1>8, <1>15, <2>1
    <3>2. /\ c \in Nat /\ e \in Nat /\ so \in Nat /\ sa \in Nat /\ f = e + sa - so /\ LeafRoom \in Nat
          /\ e + c <= LeafRoom /\ (sa - so > 0 => 0 + (sa - so) <= LeafRoom - (e + c))
      BY ONLY <1>8, <1>13, <1>15, <3>1, Zenon
    <3>3. f + c <= LeafRoom
      BY ONLY <3>2
    <3> QED
      BY ONLY <3>1, <3>3, Zenon
  <2>2. CASE ~(k <= c)
    <3>1. extend = k - c /\ icount(R) = k /\ so = 0
      BY <1>8, <1>15, <2>2
    <3>2. k \in Nat /\ c \in Nat /\ e \in Nat /\ sa \in Nat \ {0} /\ f = e + sa - 0 /\ LeafRoom \in Nat
          /\ (sa - 0 > 0 => (k - c) + (sa - 0) <= LeafRoom - (e + c))
      BY ONLY <1>8, <1>13, <1>15, <3>1
    <3>3. f + k <= LeafRoom
      BY ONLY <3>2
    <3> QED
      BY ONLY <3>1, <3>3, Zenon
  <2> QED
    BY <2>1, <2>2
<1>17. icount(R) <= entries_per_leaf
  <2>1. entries_per_leaf \in Nat
    BY IleafAssumption
  <2>2. k <= entries_per_leaf
    BY <1>1, <1>4, <2>1 DEF k
  <2> QED
    BY <1>1, <1>5, <2>2
<1>18. Held(R, lo, hi, Put(A, inum, a))
  BY <1>2, <1>15, <1>16, <1>17, HeldPut
<1> QED
  BY <1>18 DEF R

(* An inode that is in the leaf is taken out of it.                        *)
LEMMA HeldPurge ==
  ASSUME NEW leaf, NEW lo, NEW hi, Interval(lo, hi), NEW A, Held(leaf, lo, hi, A),
         NEW inum \in Nat, lo <= inum, Below(inum, hi), A[inum] # NoAttrs
  PROVE  Held(ileaf_purge(leaf, inum), lo, hi, Put(A, inum, NoAttrs))
<1> DEFINE s == leaf.attrs
           k == inum - lo + 1
           c == icount(leaf)
           t == [s EXCEPT ![k] = NoAttrs]
           R == [leaf EXCEPT !.attrs = t]
<1>1. /\ IsLeaf(leaf) /\ leaf.ibase = lo /\ lo \in Nat /\ ileaf_need(leaf) <= LeafRoom
      /\ c <= entries_per_leaf /\ ileaf_lookup(leaf, inum) = A[inum]
  BY DEF Held, Interval
<1>2. ileaf_purge(leaf, inum) = ileaf_trim(R)
  BY <1>1 DEF ileaf_purge
<1>3. c = Len(s) /\ c \in Nat /\ s \in Seq(Slots) /\ NoAttrs \in Slots
  BY <1>1, Lookups DEF IsLeaf, Slots
<1>4. k \in 1..c
  <2>1. ~(inum - lo < c) => ileaf_lookup(leaf, inum) = NoAttrs
    BY <1>1, Lookups
  <2> QED
    BY <1>1, <1>3, <2>1
<1> HIDE DEF s, k, c
<1>5. t \in Seq(Slots) /\ Len(t) = c /\ \A i \in 1..c : t[i] = IF i = k THEN NoAttrs ELSE s[i]
  BY <1>3, <1>4, ExceptSeq
<1> HIDE DEF t
<1>6. R = ileaf(lo, t)
  BY <1>1, LeafWith
<1> HIDE DEF R
<1>7. IsLeaf(R) /\ R.ibase = lo /\ R.attrs = t /\ icount(R) = c
  BY <1>1, <1>5, <1>6, LeafIs
<1>8. IsResized(t, s, k, NoAttrs)
  <2>1. Len(t) = (IF k <= Len(s) THEN Len(s) ELSE k)
    BY <1>3, <1>4, <1>5
  <2>2. t[k] = NoAttrs
    BY <1>4, <1>5
  <2>3. \A i \in 1..Len(t) : i # k => t[i] = IF i <= Len(s) THEN s[i] ELSE NoAttrs
    BY <1>3, <1>5
  <2>4. k \in Nat \ {0}
    BY <1>4
  <2> QED
    BY <1>3, <1>5, <2>1, <2>2, <2>3, <2>4 DEF IsResized
<1>9. ResizeTo(R, leaf, inum, NoAttrs)
  BY <1>1, <1>7, <1>8 DEF ResizeTo, s, k
<1>10. Smaller(R, leaf)
  <2>1. 0 + icount(R) <= icount(leaf)
    BY <1>3, <1>7 DEF c
  <2>2. ASSUME NEW i \in 1..icount(R) PROVE Size(R.attrs[i]) <= Size(leaf.attrs[0 + i])
    <3>1. R.attrs[i] = (IF i = k THEN NoAttrs ELSE s[i]) /\ s[i] \in Slots /\ leaf.attrs[0 + i] = s[i]
      BY <1>3, <1>5, <1>7 DEF s
    <3>2. Size(s[i]) \in Nat /\ Size(NoAttrs) = 0
      BY <3>1, Sizes
    <3> QED
      BY <3>1, <3>2
  <2> QED
    BY <1>1, <1>7, <2>1, <2>2, LessNeed
<1>11. icount(R) <= entries_per_leaf /\ ileaf_need(R) <= LeafRoom
  <2>1. ileaf_need(R) \in Nat /\ ileaf_need(leaf) \in Nat /\ LeafRoom \in Nat
    BY <1>1, <1>7, NeedIs, IleafAssumption
  <2> QED
    BY <1>1, <1>7, <1>10, <2>1 DEF Smaller
<1>12. Held(R, lo, hi, Put(A, inum, NoAttrs))
  BY <1>9, <1>11, HeldPut
<1>13. Trimmed(ileaf_trim(R), R)
  BY <1>7, TrimLeaf
<1> QED
  BY <1>2, <1>12, <1>13, HeldTrim
(* A leaf with some of the entries of another.                             *)
LEMMA CutLeaf ==
  ASSUME NEW leaf, IsLeaf(leaf), NEW n, n = icount(leaf), NEW c \in 0..n, NEW d \in c..n, NEW base \in Nat,
         NEW R, R = ileaf(base, SubSeq(leaf.attrs, c + 1, d))
  PROVE  /\ IsLeaf(R) /\ R.ibase = base /\ icount(R) = d - c /\ Smaller(R, leaf)
         /\ \A i \in 1..(d - c) : R.attrs[i] = leaf.attrs[c + i]
<1> DEFINE s == leaf.attrs
           t == SubSeq(s, c + 1, d)
<1>1. n = Len(s) /\ n \in Nat /\ IsSeq(s) /\ \A i \in 1..n : s[i] \in Slots
  BY Lookups DEF IsLeaf, IsSeq
<1>2. c \in Nat /\ d \in Nat /\ c <= d /\ d <= n /\ d - c \in Nat
  BY <1>1
<1>3. IsPart(t, s, n, c, d)
  BY <1>1 DEF IsPart
<1>4. R = ileaf(base, t)
  OBVIOUS
<1> HIDE DEF s, t
<1>5. IsSeq(t) /\ Len(t) = d - c /\ \A j \in 1..(d - c) : t[j] = s[c + j]
  BY ONLY <1>3, PartOf
<1>6. \A j \in 1..(d - c) : c + j \in 1..n
  BY <1>1, <1>2
<1>7. \A j \in 1..(d - c) : t[j] \in Slots
  BY <1>1, <1>5, <1>6
<1>8. t \in Seq(Slots)
  BY <1>2, <1>5, <1>7, SlotsSeq
<1>9. IsLeaf(R) /\ R.ibase = base /\ R.attrs = t /\ icount(R) = d - c
  BY ONLY <1>4, <1>5, <1>8, base \in Nat, LeafIs, SMTT(60)
<1>10. c + icount(R) <= icount(leaf)
  BY <1>2, <1>9
<1>11. ASSUME NEW i \in 1..icount(R) PROVE Size(R.attrs[i]) <= Size(leaf.attrs[c + i])
  <2>1. R.attrs[i] = leaf.attrs[c + i] /\ R.attrs[i] \in Slots
    BY <1>5, <1>7, <1>9 DEF s
  <2>2. Size(R.attrs[i]) \in Nat
    BY <2>1, Sizes
  <2> QED
    BY <2>1, <2>2
<1>12. Smaller(R, leaf)
  BY <1>2, <1>9, <1>10, <1>11, LessNeed
<1> QED
  BY <1>5, <1>9, <1>12 DEF s

(* The base of the new leaf.                                               *)
LEMMA NewBaseIs ==
  ASSUME NEW lo \in Nat, NEW c \in Nat, NEW inum \in Inums, lo <= inum, NEW leaf, leaf.ibase = lo, icount(leaf) = c,
         NEW key, key = NewBase(leaf, inum)
  PROVE  /\ key \in Inums /\ key \in Nat /\ key <= inum
         /\ inum - lo < c => key = inum
         /\ ~(inum - lo < c) => lo + c <= key
         /\ key = lo => inum = lo
<1> DEFINE round == inum - (inum % entries_per_leaf)
<1>1. inum \in Nat /\ entries_per_leaf \in Nat \ {0}
  BY ItableAssumption, IleafAssumption
<1>2. round \in Nat /\ round <= inum
  <2>1. PICK q, r : q = (inum \div entries_per_leaf) * entries_per_leaf /\ r = inum % entries_per_leaf
    OBVIOUS
  <2>2. r \in 0..(entries_per_leaf - 1) /\ q \in Nat /\ inum = q + r
    BY <1>1, <2>1, DivRest
  <2>3. r \in Nat
    BY <1>1, <2>2
  <2>4. inum - r \in Nat /\ inum - r <= inum
    BY ONLY <2>2, <2>3, <1>1
  <2> QED
    BY <2>1, <2>4
<1>3. key = IF round > lo + c THEN round ELSE inum
  BY DEF NewBase
<1> HIDE DEF round
<1>4. round \in Inums
  BY <1>1, <1>2, ItableAssumption
<1> QED
  BY <1>1, <1>2, <1>3, <1>4

(* A leaf that is split: with the two parts, there is all that there was.  *)
(* If there is space for the inode in the second part and there was none   *)
(* in the leaf, then the first part keeps some of the interval.            *)
LEMMA HeldSplit ==
  ASSUME NEW leaf, NEW lo, NEW hi, Interval(lo, hi), NEW A, Held(leaf, lo, hi, A),
         NEW inum \in Inums, lo <= inum, Below(inum, hi),
         NEW S, S = ileaf_split(leaf, inum), NEW a, ~HasSpace(leaf, inum, a), HasSpace(S.into, inum, a),
         NEW key, key = S.into.ibase
  PROVE  /\ key \in Nat /\ lo < key /\ key <= inum /\ Below(key, hi)
         /\ Held(S.from, lo, key, A) /\ Held(S.into, key, hi, A)
<1> DEFINE s == leaf.attrs
           c == icount(leaf)
           at == IF inum - lo < c THEN inum - lo ELSE c
           base == NewBase(leaf, inum)
           cut == [leaf EXCEPT !.attrs = SubSeq(s, 1, at)]
           into == ileaf(base, SubSeq(s, at + 1, c))
<1>1. /\ IsLeaf(leaf) /\ leaf.ibase = lo /\ lo \in Inums /\ lo \in Nat
      /\ hi # NoBound => lo + c <= hi
      /\ c <= entries_per_leaf /\ ileaf_need(leaf) <= LeafRoom
      /\ \A n \in Nat : lo <= n /\ Below(n, hi) => ileaf_lookup(leaf, n) = A[n]
  BY DEF Held, Interval
<1>2. S = [from |-> ileaf_trim(cut), into |-> into]
  BY <1>1 DEF ileaf_split
<1>3. S.from = ileaf_trim(cut) /\ S.into = into
  <2> HIDE DEF cut, into
  <2> QED
    BY <1>2
<1>4. inum \in Nat /\ c = Len(s) /\ c \in Nat
  BY <1>1, ItableAssumption, Lookups
<1>5. /\ base \in Inums /\ base \in Nat /\ base <= inum
      /\ inum - lo < c => base = inum
      /\ ~(inum - lo < c) => lo + c <= base
      /\ base = lo => inum = lo
  <2> HIDE DEF base
  <2> QED
    BY <1>1, <1>4, NewBaseIs DEF base
<1>6. /\ at \in 0..c /\ at \in Nat /\ lo + at <= base /\ (at < c => base = lo + at)
      /\ base = lo => at = 0
  BY <1>1, <1>4, <1>5
<1>7. cut = ileaf(lo, SubSeq(s, 0 + 1, at))
  <2>1. PICK u : u = SubSeq(s, 1, at)
    OBVIOUS
  <2>2. cut = [leaf EXCEPT !.attrs = u]
    BY <2>1
  <2> HIDE DEF cut
  <2>3. cut = ileaf(leaf.ibase, u)
    BY <1>1, <2>2, LeafWith
  <2>4. 0 + 1 = 1
    OBVIOUS
  <2> QED
    BY <1>1, <2>1, <2>3, <2>4
<1> HIDE DEF at, base, cut, into, c, s
<1>8. /\ IsLeaf(into) /\ into.ibase = base /\ icount(into) = c - at /\ Smaller(into, leaf)
      /\ \A i \in 1..(c - at) : into.attrs[i] = s[at + i]
  <2>1. c \in at..c /\ into = ileaf(base, SubSeq(leaf.attrs, at + 1, c))
    BY <1>4, <1>6 DEF into, s
  <2>2. base \in Nat /\ at \in 0..c /\ c = icount(leaf)
    BY <1>5, <1>6 DEF c
  <2>3. /\ IsLeaf(into) /\ into.ibase = base /\ icount(into) = c - at /\ Smaller(into, leaf)
        /\ \A i \in 1..(c - at) : into.attrs[i] = leaf.attrs[at + i]
    BY ONLY <1>1, <2>1, <2>2, CutLeaf
  <2> QED
    BY <2>3 DEF s
<1>9. /\ IsLeaf(cut) /\ cut.ibase = lo /\ icount(cut) = at /\ Smaller(cut, leaf)
      /\ \A i \in 1..at : cut.attrs[i] = s[i]
  <2>1. 0 \in 0..c /\ at \in 0..c /\ cut = ileaf(lo, SubSeq(leaf.attrs, 0 + 1, at))
    BY <1>4, <1>6, <1>7 DEF s
  <2>2. /\ IsLeaf(cut) /\ cut.ibase = lo /\ icount(cut) = at - 0 /\ Smaller(cut, leaf)
        /\ \A i \in 1..(at - 0) : cut.attrs[i] = leaf.attrs[0 + i]
    BY <1>1, <2>1, CutLeaf DEF c
  <2>3. at - 0 = at /\ \A i \in 1..at : 0 + i = i
    BY <1>6
  <2> QED
    BY <2>2, <2>3 DEF s
<1>10. key = base
  BY <1>3, <1>8
<1>11. lo < key
  <2> SUFFICES ASSUME ~(lo < key) PROVE FALSE
    OBVIOUS
  <2>1. key = lo /\ base = lo /\ at = 0
    BY <1>1, <1>4, <1>5, <1>6, <1>10
  <2>2. icount(into) = c /\ \A i \in 1..c : into.attrs[i] = s[i]
    BY <1>4, <1>8, <2>1
  <2>3. IsSeq(s) /\ IsSeq(into.attrs) /\ Len(s) = c /\ Len(into.attrs) = c
    BY <1>1, <1>4, <1>8, <2>2, Lookups DEF IsLeaf, IsSeq, s
  <2>4. s = into.attrs
    BY <2>2, <2>3, SameSeq
  <2>5. into = ileaf(lo, s) /\ leaf = ileaf(lo, s)
    BY <1>1, <1>8, <2>1, <2>4 DEF IsLeaf, s
  <2> QED
    BY <1>3, <2>5
<1>12. Below(key, hi)
  BY <1>4, <1>5, <1>10 DEF Below, Interval
<1>13. /\ icount(cut) <= entries_per_leaf /\ ileaf_need(cut) <= LeafRoom
       /\ icount(into) <= entries_per_leaf /\ ileaf_need(into) <= LeafRoom
  <2>1. /\ ileaf_need(leaf) \in Nat /\ ileaf_need(cut) \in Nat /\ ileaf_need(into) \in Nat
        /\ LeafRoom \in Nat /\ entries_per_leaf \in Nat
    BY <1>1, <1>8, <1>9, NeedIs, IleafAssumption
  <2>2. icount(cut) \in Nat /\ icount(into) \in Nat /\ icount(leaf) = c
    BY <1>8, <1>9, Lookups DEF c
  <2> QED
    BY <1>1, <1>4, <1>8, <1>9, <2>1, <2>2 DEF Smaller
<1>14. ASSUME NEW n \in Nat, lo <= n, n < key PROVE ileaf_lookup(cut, n) = A[n]
  <2> DEFINE j == n - lo
  <2>1. j \in Nat
    BY <1>1, <1>14
  <2>2. Below(n, hi)
    BY <1>5, <1>10, <1>12, <1>14 DEF Below, Interval
  <2>3. ileaf_lookup(leaf, n) = A[n]
    BY <1>1, <1>14, <2>2
  <2>4. /\ j < c => ileaf_lookup(leaf, n) = s[j + 1]
        /\ ~(j < c) => ileaf_lookup(leaf, n) = NoAttrs
    BY <1>1, <1>14, Lookups DEF c, s
  <2>5. /\ j < at => ileaf_lookup(cut, n) = cut.attrs[j + 1]
        /\ ~(j < at) => ileaf_lookup(cut, n) = NoAttrs
    BY <1>9, <1>14, Lookups
  <2>6. (j < at => j < c /\ j + 1 \in 1..at) /\ (~(j < at) => ~(j < c))
    BY <1>1, <1>4, <1>5, <1>6, <1>10, <1>14, <2>1
  <2> HIDE DEF j
  <2> QED
    BY <1>9, <2>3, <2>4, <2>5, <2>6
<1>15. ASSUME NEW n \in Nat, key <= n, Below(n, hi) PROVE ileaf_lookup(into, n) = A[n]
  <2> DEFINE j == n - lo
             k == n - base
  <2>1. j \in Nat /\ k \in Nat /\ lo <= n
    BY <1>1, <1>5, <1>10, <1>11, <1>15
  <2>2. ileaf_lookup(leaf, n) = A[n]
    BY <1>1, <1>15, <2>1
  <2>3. /\ j < c => ileaf_lookup(leaf, n) = s[j + 1]
        /\ ~(j < c) => ileaf_lookup(leaf, n) = NoAttrs
    BY <1>1, <2>1, Lookups DEF c, s
  <2>4. /\ k < c - at => ileaf_lookup(into, n) = into.attrs[k + 1]
        /\ ~(k < c - at) => ileaf_lookup(into, n) = NoAttrs
    BY <1>8, <1>10, <1>15, Lookups
  <2>5. (k < c - at => j < c /\ k + 1 \in 1..(c - at) /\ at + (k + 1) = j + 1) /\ (~(k < c - at) => ~(j < c))
    BY <1>1, <1>4, <1>5, <1>6, <1>10, <1>15, <2>1
  <2> HIDE DEF j, k
  <2> QED
    BY <1>8, <2>2, <2>3, <2>4, <2>5
<1>16. Held(cut, lo, key, A)
  <2>1. key # NoBound => lo + icount(cut) <= key
    BY <1>6, <1>9, <1>10
  <2>2. \A n \in Nat : lo <= n /\ Below(n, key) => ileaf_lookup(cut, n) = A[n]
    <3>1. key # NoBound
      BY <1>5, <1>10 DEF NoBound
    <3> QED
      BY <1>14, <3>1 DEF Below
  <2> QED
    BY <1>1, <1>9, <1>13, <2>1, <2>2 DEF Held
<1>17. Held(into, key, hi, A)
  <2>1. hi # NoBound => key + icount(into) <= hi
    <3> SUFFICES ASSUME hi # NoBound PROVE key + icount(into) <= hi
      OBVIOUS
    <3>1. hi \in Int /\ inum < hi /\ lo + c <= hi
      BY <1>1 DEF Interval, Below
    <3> QED
      BY <1>1, <1>4, <1>5, <1>6, <1>8, <1>10, <3>1
  <2>2. \A n \in Nat : key <= n /\ Below(n, hi) => ileaf_lookup(into, n) = A[n]
    BY <1>15
  <2> QED
    BY <1>5, <1>8, <1>10, <1>13, <2>1, <2>2 DEF Held
<1>18. Held(S.from, lo, key, A)
  <2>1. Interval(lo, key)
    BY <1>1, <1>5, <1>10, <1>11 DEF Interval, Below
  <2>2. Trimmed(ileaf_trim(cut), cut)
    BY <1>9, TrimLeaf
  <2> QED
    BY <1>3, <1>16, <2>1, <2>2, HeldTrim
<1> QED
  BY <1>3, <1>5, <1>10, <1>11, <1>12, <1>17, <1>18
-----------------------------------------------------------------------------
(***************************************************************************)
(* The table: a tree whose leaves have what there is.                      *)
(***************************************************************************)
Leaves(T, S, A) == Tree(T, S) /\ \A s \in S : Holds(s, A)

(* The leaves of a tree part all keys.                                     *)
LEMMA TreePart ==
  ASSUME NEW T, NEW S, Tree(T, S)
  PROVE  Parted(0, NoBound, S)
BY SpansPart DEF Tree

(* New leaves in the place of one: the others stay as they are.            *)
Swaps(Rest, s, New, A, B) ==
  /\ \A r \in Rest : Holds(r, A)
  /\ Parted(0, NoBound, Rest \cup New) /\ \A t \in New : Holds(t, B)
  /\ \A n \in Nat : Covers(s, n) => \E t \in New : Covers(t, n)
  /\ \A n \in Nat : ~Covers(s, n) => B[n] = A[n]

(* After the exchange every leaf holds the new contents.                   *)
LEMMA SwapLeaves ==
  ASSUME NEW Rest, NEW s, NEW New, NEW A, NEW B, Swaps(Rest, s, New, A, B)
  PROVE  \A r \in Rest \cup New : Holds(r, B)
<1>0. /\ \A r \in Rest : Holds(r, A)
      /\ Parted(0, NoBound, Rest \cup New) /\ \A t \in New : Holds(t, B)
      /\ \A n \in Nat : Covers(s, n) => \E t \in New : Covers(t, n)
      /\ \A n \in Nat : ~Covers(s, n) => B[n] = A[n]
  BY DEF Swaps
<1> SUFFICES ASSUME NEW r \in Rest, r \notin New PROVE Holds(r, B)
  BY <1>0
<1>1. Interval(r[1], r[2]) /\ Held(r[3], r[1], r[2], A)
  BY <1>0 DEF Holds
<1>2. ASSUME NEW n \in Nat, r[1] <= n, Below(n, r[2]) PROVE B[n] = A[n]
  <2>1. Covers(r, n)
    BY <1>2 DEF Covers
  <2>2. ~Covers(s, n)
    <3> SUFFICES ASSUME Covers(s, n) PROVE FALSE
      OBVIOUS
    <3>1. PICK t \in New : Covers(t, n)
      BY <1>0
    <3>2. r = t
      BY <1>0, <2>1, <3>1 DEF Parted
    <3> QED
      BY <3>1, <3>2
  <2> QED
    BY <1>0, <2>2
<1>3. Held(r[3], r[1], r[2], B)
  BY <1>1, <1>2 DEF Held
<1> QED
  BY <1>1, <1>3 DEF Holds

(* What a search finds.                                                    *)
LEMMA LeavesProbe ==
  ASSUME NEW T, NEW S, NEW A, Leaves(T, S, A), NEW k \in Nat
  PROVE  \E s \in S : /\ At(T, probe(T, k), s) /\ Covers(s, k)
                      /\ cursor_leaf(T, probe(T, k)) = s[3] /\ Holds(s, A)
                      /\ ileaf_lookup(s[3], k) = A[k]
<1>1. Tree(T, S) /\ \A s \in S : Holds(s, A)
  BY DEF Leaves
<1>2. PICK s \in S : At(T, probe(T, k), s) /\ Covers(s, k)
  BY <1>1, ProbeAt
<1>3. cursor_leaf(T, probe(T, k)) = s[3]
  BY <1>1, <1>2, AtLeaf
<1>4. ileaf_lookup(s[3], k) = A[k]
  BY <1>1, <1>2 DEF Holds, Held, Covers
<1> QED
  BY <1>1, <1>2, <1>3, <1>4

(* Another leaf in its place.                                              *)
LEMMA LeavesStore ==
  ASSUME NEW T, NEW S, NEW A, Leaves(T, S, A), NEW p, NEW s, At(T, p, s),
         NEW leaf, NEW B, Held(leaf, s[1], s[2], B), \A n \in Nat : ~Covers(s, n) => B[n] = A[n]
  PROVE  \E R : Leaves(store_leaf(T, p, leaf), R, B)
<1>1. Tree(T, S) /\ \A r \in S : Holds(r, A)
  BY DEF Leaves
<1>2. PICK t : t = <<s[1], s[2], leaf>>
  OBVIOUS
<1>3. PICK Rest : S = Rest \cup {s} /\ Tree(store_leaf(T, p, leaf), Rest \cup {t})
  BY <1>1, <1>2, StoreTree, SMTT(60)
<1>4. Interval(s[1], s[2])
  BY <1>1, AtLeaf
<1>5. Holds(t, B)
  BY <1>2, <1>4 DEF Holds
<1>6. \A n \in Nat : Covers(s, n) => Covers(t, n)
  BY <1>2 DEF Covers
<1>7. PICK New : New = {t}
  OBVIOUS
<1>8. /\ \A u \in New : Holds(u, B)
      /\ \A n \in Nat : Covers(s, n) => \E u \in New : Covers(u, n)
      /\ Tree(store_leaf(T, p, leaf), Rest \cup New)
  BY <1>3, <1>5, <1>6, <1>7
<1>9. Parted(0, NoBound, Rest \cup New)
  BY <1>8, TreePart
<1>10. \A r \in Rest \cup New : Holds(r, B)
  <2>1. \A n \in Nat : ~Covers(s, n) => B[n] = A[n]
    OBVIOUS
  <2>2. Swaps(Rest, s, New, A, B)
    BY <1>1, <1>3, <1>8, <1>9, <2>1 DEF Swaps
  <2> QED
    BY ONLY <2>2, SwapLeaves
<1> QED
  BY <1>8, <1>10 DEF Leaves

(* Two leaves in its place.                                                *)
LEMMA LeavesInsert ==
  ASSUME NEW T, NEW S, NEW A, Leaves(T, S, A), NEW p, NEW s, At(T, p, s),
         NEW key \in Nat, s[1] < key, Below(key, s[2]),
         NEW leaf, NEW new, Held(leaf, s[1], key, A), Held(new, key, s[2], A),
         NEW I, I = insert_leaf(T, p, leaf, key, new)
  PROVE  \E R : Leaves(I.tree, R, A) /\ At(I.tree, I.path, <<key, s[2], new>>)
<1>1. Tree(T, S) /\ \A r \in S : Holds(r, A)
  BY DEF Leaves
<1>2. PICK t, u : t = <<s[1], key, leaf>> /\ u = <<key, s[2], new>>
  OBVIOUS
<1>3. PICK Rest : /\ S = Rest \cup {s} /\ Tree(I.tree, Rest \cup {t, u})
                  /\ At(I.tree, I.path, u)
  <2>1. Inserted(I, S, s, <<s[1], key, leaf>>, <<key, s[2], new>>)
    <3>1. /\ Tree(T, S) /\ At(T, p, s) /\ key \in Nat /\ s[1] < key /\ Below(key, s[2])
          /\ I = insert_leaf(T, p, leaf, key, new)
      BY <1>1
    <3> QED
      BY ONLY <3>1, InsertTree, Zenon
  <2>2. Inserted(I, S, s, t, u)
    BY ONLY <1>2, <2>1, Zenon
  <2> QED
    BY ONLY <2>2 DEF Inserted
<1>4. Interval(s[1], s[2])
  BY <1>1, AtLeaf
<1>5. Interval(s[1], key) /\ Interval(key, s[2])
  BY <1>4 DEF Interval, Below
<1>6. Holds(t, A) /\ Holds(u, A)
  BY <1>2, <1>5 DEF Holds
<1>7. ASSUME NEW n \in Nat, Covers(s, n) PROVE Covers(t, n) \/ Covers(u, n)
  BY <1>2, <1>5, <1>7 DEF Covers, Below, Interval
<1>8. PICK New : New = {t, u}
  OBVIOUS
<1>9. /\ \A r \in New : Holds(r, A)
      /\ \A n \in Nat : Covers(s, n) => \E r \in New : Covers(r, n)
      /\ Tree(I.tree, Rest \cup New)
  BY <1>3, <1>6, <1>7, <1>8
<1>10. Parted(0, NoBound, Rest \cup New)
  BY <1>9, TreePart
<1>11. \A r \in Rest \cup New : Holds(r, A)
  <2>1. Swaps(Rest, s, New, A, A)
    BY <1>1, <1>3, <1>9, <1>10 DEF Swaps
  <2> QED
    BY ONLY <2>1, SwapLeaves
<1> QED
  BY <1>2, <1>3, <1>9, <1>11 DEF Leaves

(* A table without inodes.                                                 *)
None == [n \in Nat |-> NoAttrs]

(* The leaf of a new table has no entry and needs no room.                 *)
LEMMA EmptySums ==
  ASSUME NEW leaf, leaf = ileaf_init
  PROVE  IsLeaf(leaf) /\ leaf.ibase = 0 /\ icount(leaf) = 0 /\ ileaf_need(leaf) = 0
<1>1. leaf = ileaf(0, <<>>) /\ <<>> \in Seq(Slots)
  BY DEF ileaf_init
<1>2. IsLeaf(leaf) /\ leaf.ibase = 0 /\ leaf.attrs = <<>> /\ icount(leaf) = 0
  BY <1>1, LeafIs
<1>3. PICK E : Sums(E, leaf.attrs) /\ ileaf_need(leaf) = E[Len(leaf.attrs)] + Len(leaf.attrs)
  BY <1>2, NeedIs
<1>4. Len(leaf.attrs) = 0 /\ E[0] = 0
  BY <1>2, <1>3 DEF Sums, icount
<1> QED
  BY <1>2, <1>3, <1>4

(* alloc_empty_btree makes a tree whose one leaf holds nothing.            *)
LEMMA LeavesEmpty ==
  ASSUME 0 \in Inums
  PROVE  \E S : Leaves(alloc_empty_btree(ileaf_init), S, None)
<1>1. PICK leaf : leaf = ileaf_init
  OBVIOUS
<1>2. IsLeaf(leaf) /\ leaf.ibase = 0 /\ icount(leaf) = 0 /\ ileaf_need(leaf) = 0
  BY <1>1, EmptySums
<1>3. PICK T, e : e = index_entry(0, leaf) /\ T = [depth |-> 1, root |-> <<e>>]
  OBVIOUS
<1>4. alloc_empty_btree(ileaf_init) = T
  BY <1>1, <1>3 DEF alloc_empty_btree
<1>5. T.depth = 1 /\ T.root = <<e>> /\ T = [depth |-> T.depth, root |-> T.root]
  BY <1>3
<1>6. PICK root : root = <<e>>
  OBVIOUS
<1>7. IsSeq(root) /\ Len(root) = 1 /\ DOMAIN root = 1..1 /\ root[1] = e
  <2>1. root = [i \in 1..1 |-> root[i]] /\ root[1] = e
    BY <1>6
  <2>2. Numbered(root, 1)
    BY ONLY <2>1, Zenon DEF Numbered
  <2> QED
    BY ONLY <2>1, <2>2, NumberedSeq
<1>8. e = index_entry(e.key, e.child) /\ e.key = 0 /\ e.child = leaf
  BY <1>3 DEF index_entry
<1>9. Interval(0, NoBound)
  BY DEF Interval, Below, NoBound
<1>10. Divides(root, 0, NoBound)
  BY <1>7, <1>8 DEF Divides
<1>11. From(root, 1, 0) = 0 /\ To(root, 1, NoBound) = NoBound
  BY <1>7 DEF From, To
<1>12. PICK C, s : s = <<0, NoBound, leaf>> /\ C = [i \in 1..1 |-> {s}]
  OBVIOUS
<1>13. Spans(0, leaf, 0, NoBound, {s})
  BY <1>9, <1>12, SpansLeaf
<1>14. ASSUME NEW i \in DOMAIN root
       PROVE  Spans(1 - 1, root[i].child, From(root, i, 0), To(root, i, NoBound), C[i])
  <2>1. i = 1 /\ C[i] = {s} /\ 1 - 1 = 0 /\ root[i].child = leaf
    BY <1>7, <1>8, <1>12
  <2> QED
    BY <1>11, <1>13, <2>1
<1>15. PICK S : S = UNION {C[i] : i \in DOMAIN root}
  OBVIOUS
<1>16. Spans(1, root, 0, NoBound, S)
  BY <1>9, <1>10, <1>14, <1>15, SpansNode
<1>17. S = {s}
  BY <1>7, <1>12, <1>15
<1>18. Tree(T, S)
  BY <1>5, <1>6, <1>16 DEF Tree
<1>19. Held(leaf, 0, NoBound, None)
  <2>1. \A n \in Nat : ileaf_lookup(leaf, n) = NoAttrs
    BY <1>2, Lookups
  <2> QED
    BY <1>2, <2>1, IleafAssumption DEF Held, None
<1>20. Holds(s, None)
  BY <1>9, <1>12, <1>19 DEF Holds
<1> QED
  BY <1>4, <1>17, <1>18, <1>20 DEF Leaves
(* An inode saved: in its leaf, or in a new one that is split off.         *)
LEMMA LeavesExpand ==
  ASSUME NEW T, NEW S, NEW A, Leaves(T, S, A), NEW inum \in Inums, NEW a \in Attrs,
         NEW E, E = tree_expand(T, inum, a), E.fits
  PROVE  \E R : Leaves(E.tree, R, Put(A, inum, a))
<1>1. PICK path : path = probe(T, inum)
  OBVIOUS
<1>2. inum \in Nat
  BY ItableAssumption
<1>3. PICK s \in S : /\ At(T, path, s) /\ Covers(s, inum) /\ cursor_leaf(T, path) = s[3] /\ Holds(s, A)
  BY <1>1, <1>2, LeavesProbe
<1>4. PICK leaf, lo, hi : leaf = s[3] /\ lo = s[1] /\ hi = s[2]
  OBVIOUS
<1>5. Interval(lo, hi) /\ Held(leaf, lo, hi, A) /\ lo <= inum /\ Below(inum, hi)
  BY <1>3, <1>4 DEF Holds, Covers
<1>6. PICK B : B = Put(A, inum, a)
  OBVIOUS
<1>7. \A n \in Nat : n # inum => B[n] = A[n]
  BY <1>6 DEF Put
<1>8. \A n \in Nat : ~Covers(s, n) => B[n] = A[n]
  BY <1>3, <1>7
<1>9. CASE HasSpace(leaf, inum, a)
  <2>1. E.tree = store_leaf(T, path, ileaf_resize(leaf, inum, a))
    BY <1>1, <1>3, <1>4, <1>9 DEF tree_expand
  <2>2. Held(ileaf_resize(leaf, inum, a), s[1], s[2], B)
    BY <1>2, <1>4, <1>5, <1>6, <1>9, HeldResize
  <2>3. PICK new : new = ileaf_resize(leaf, inum, a)
    OBVIOUS
  <2>4. \E R : Leaves(store_leaf(T, path, new), R, B)
    BY <1>3, <1>8, <2>2, <2>3, LeavesStore
  <2> QED
    BY <1>6, <2>1, <2>3, <2>4
<1>10. CASE ~HasSpace(leaf, inum, a)
  <2>1. PICK P : P = ileaf_split(leaf, inum)
    OBVIOUS
  <2>2. PICK key : key = P.into.ibase
    OBVIOUS
  <2>3. PICK I : I = insert_leaf(T, path, P.from, key, P.into)
    OBVIOUS
  <2>4. /\ HasSpace(P.into, inum, a)
        /\ E.tree = store_leaf(I.tree, I.path, ileaf_resize(P.into, inum, a))
    BY <1>1, <1>3, <1>4, <1>10, <2>1, <2>2, <2>3 DEF tree_expand
  <2>5. /\ key \in Nat /\ lo < key /\ key <= inum /\ Below(key, hi)
        /\ Held(P.from, lo, key, A) /\ Held(P.into, key, hi, A)
    BY <1>5, <1>10, <2>1, <2>2, <2>4, HeldSplit
  <2>6. PICK into, from : into = P.into /\ from = P.from
    OBVIOUS
  <2>7. PICK u : u = <<key, hi, into>>
    OBVIOUS
  <2>8. PICK R : Leaves(I.tree, R, A) /\ At(I.tree, I.path, u)
    <3>1. /\ Held(from, s[1], key, A) /\ Held(into, key, s[2], A) /\ s[1] < key /\ Below(key, s[2])
          /\ I = insert_leaf(T, path, from, key, into) /\ u = <<key, s[2], into>>
      BY <1>4, <2>3, <2>5, <2>6, <2>7
    <3> QED
      BY <1>3, <2>5, <3>1, LeavesInsert
  <2>9. Interval(key, hi)
    BY <1>5, <2>5 DEF Interval
  <2>10. PICK new : new = ileaf_resize(into, inum, a)
    OBVIOUS
  <2>11. Held(new, key, hi, B)
    BY <1>2, <1>5, <1>6, <2>4, <2>5, <2>6, <2>9, <2>10, HeldResize
  <2>12. u[1] = key /\ u[2] = hi
    BY <2>7
  <2>13. \A n \in Nat : ~Covers(u, n) => B[n] = A[n]
    <3>1. Covers(u, inum)
      BY <1>5, <2>5, <2>12 DEF Covers
    <3> QED
      BY <1>7, <3>1
  <2>14. \E Q : Leaves(store_leaf(I.tree, I.path, new), Q, B)
    BY <2>8, <2>11, <2>12, <2>13, LeavesStore
  <2> QED
    BY <1>6, <2>4, <2>6, <2>10, <2>14
<1> QED
  BY <1>9, <1>10

(* An inode taken out.                                                     *)
LEMMA LeavesPurge ==
  ASSUME NEW T, NEW S, NEW A, Leaves(T, S, A), NEW inum \in Nat, A[inum] # NoAttrs,
         NEW path, path = probe(T, inum), NEW new, new = ileaf_purge(cursor_leaf(T, path), inum)
  PROVE  \E R : Leaves(store_leaf(T, path, new), R, Put(A, inum, NoAttrs))
<1>1. PICK s \in S : /\ At(T, path, s) /\ Covers(s, inum) /\ cursor_leaf(T, path) = s[3] /\ Holds(s, A)
  BY LeavesProbe
<1>2. PICK leaf, lo, hi : leaf = s[3] /\ lo = s[1] /\ hi = s[2]
  OBVIOUS
<1>3. Interval(lo, hi) /\ Held(leaf, lo, hi, A) /\ lo <= inum /\ Below(inum, hi)
  BY <1>1, <1>2 DEF Holds, Covers
<1>4. PICK B : B = Put(A, inum, NoAttrs)
  OBVIOUS
<1>5. \A n \in Nat : ~Covers(s, n) => B[n] = A[n]
  BY <1>1, <1>4 DEF Put
<1>6. Held(new, lo, hi, B)
  BY <1>1, <1>2, <1>3, <1>4, HeldPurge
<1>7. \E R : Leaves(store_leaf(T, path, new), R, B)
  BY <1>1, <1>2, <1>5, <1>6, LeavesStore
<1> QED
  BY <1>4, <1>7

-----------------------------------------------------------------------------
(***************************************************************************)
(* Looking for a number that is not in use.                                *)
(***************************************************************************)
(* find_empty_inode returns the first number from goal on that the leaf    *)
(* has nothing for.                                                        *)
LEMMA FindEmpty ==
  ASSUME NEW leaf, IsLeaf(leaf), icount(leaf) <= entries_per_leaf, NEW goal \in Nat, leaf.ibase <= goal,
         NEW n, n = find_empty_inode(leaf, goal)
  PROVE  n \in Nat /\ goal <= n /\ ileaf_lookup(leaf, n) = NoAttrs
<1> DEFINE base == leaf.ibase
           c == icount(leaf)
           used(k) == k < base + c /\ ileaf_lookup(leaf, k) # NoAttrs
           Good(k) == ~used(k) /\ \A j \in goal..(k - 1) : used(j)
           M == {k \in Nat : goal <= k /\ ~used(k)}
<1>1. c \in Nat /\ base \in Nat /\ entries_per_leaf \in Nat
  BY Lookups, IleafAssumption
<1>2. \A k \in Nat : base <= k /\ ~used(k) => ileaf_lookup(leaf, k) = NoAttrs
  <2> SUFFICES ASSUME NEW k \in Nat, base <= k, ~used(k), ~(k < base + c)
               PROVE  ileaf_lookup(leaf, k) = NoAttrs
    OBVIOUS
  <2>1. ~(k - base < c)
    BY <1>1
  <2> QED
    BY <2>1, Lookups
<1>3. CASE goal - base >= entries_per_leaf
  <2>1. n = goal
    BY <1>3 DEF find_empty_inode
  <2>2. ~used(goal)
    BY <1>1, <1>3
  <2> HIDE DEF used
  <2> QED
    BY <1>2, <2>1, <2>2
<1>4. CASE ~(goal - base >= entries_per_leaf)
  <2>1. n = CHOOSE k \in goal..(base + entries_per_leaf) : Good(k)
    BY <1>4, Zenon DEF find_empty_inode
  <2>2. PICK x \in goal..(base + entries_per_leaf) : ~used(x)
    <3>1. CASE goal <= base + c
      <4>1. base + c \in goal..(base + entries_per_leaf) /\ ~used(base + c)
        BY <1>1, <3>1
      <4> QED
        BY <4>1
    <3>2. CASE ~(goal <= base + c)
      <4>1. goal \in goal..(base + entries_per_leaf) /\ ~used(goal)
        BY <1>1, <1>4, <3>2
      <4> QED
        BY <4>1
    <3> QED
      BY <3>1, <3>2
  <2> HIDE DEF used
  <2>3. x \in M
    BY <1>1, <2>2
  <2>4. PICK y \in M : \A z \in M : y <= z
    <3>1. M \subseteq Nat /\ M # {}
      BY <2>3
    <3> HIDE DEF M
    <3> QED
      BY <3>1, LeastNat
  <2>5. y \in goal..(base + entries_per_leaf)
    BY <1>1, <2>2, <2>3, <2>4
  <2>6. Good(y)
    <3>1. ASSUME NEW j \in goal..(y - 1) PROVE used(j)
      <4>1. j \in Nat /\ goal <= j /\ ~(y <= j)
        BY <2>5
      <4> QED
        BY <2>4, <4>1
    <3> QED
      BY <2>4, <3>1
  <2> HIDE DEF Good
  <2>7. n \in goal..(base + entries_per_leaf) /\ Good(n)
    BY <2>1, <2>5, <2>6
  <2>8. n \in Nat /\ goal <= n /\ base <= n
    BY <1>1, <2>7
  <2> QED
    BY <1>2, <2>7, <2>8 DEF Good
<1> QED
  BY <1>3, <1>4

LookAt(T, path, from) == [path |-> path, inum |-> find_empty_inode(cursor_leaf(T, path), from)]

LookOn(T, at) ==
  IF at.inum < next_key(T, at.path, T.depth, at.inum + 1) THEN at ELSE LookAt(T, advance(T, at.path), at.inum)

(* Recursion along the leaves.                                             *)
LEMMA FindRec ==
  ASSUME NEW T, has_root(T), NEW goal, NEW c, c = Cardinality(Inums), c \in Nat
  PROVE  \E F : /\ FindInTable(T, goal) = F[c].inum /\ F[0] = LookAt(T, probe(T, goal), goal)
                /\ \A i \in 1..c : F[i] = LookOn(T, F[i - 1])
<1> DEFINE First == [path |-> probe(T, goal),
                     inum |-> find_empty_inode(cursor_leaf(T, probe(T, goal)), goal)]
           Next1(at) == IF at.inum < next_key(T, at.path, T.depth, at.inum + 1) THEN at
                        ELSE [path |-> advance(T, at.path),
                              inum |-> find_empty_inode(cursor_leaf(T, advance(T, at.path)), at.inum)]
           Body(F, i) == IF i = 0 THEN First ELSE Next1(F[i - 1])
           Solves(F, m) == F = [i \in 0..m |-> Body(F, i)]
           Q == {m \in Nat : \E F : Solves(F, m)}
<1>1. LookAt(T, probe(T, goal), goal) = First /\ \A at : LookOn(T, at) = Next1(at)
  BY DEF LookAt, LookOn
<1> HIDE DEF First, Next1
<1>2. 0 \in Q
  <2>1. PICK F : F = [i \in 0..0 |-> First]
    OBVIOUS
  <2>2. \A i \in 0..0 : Body(F, i) = First
    OBVIOUS
  <2>3. Solves(F, 0)
    BY <2>1, <2>2
  <2> QED
    BY <2>3
<1>3. ASSUME NEW m \in Nat, m \in Q PROVE m + 1 \in Q
  <2>1. PICK F : Solves(F, m)
    BY <1>3
  <2>2. PICK G : G = [i \in 0..(m + 1) |-> IF i = m + 1 THEN Next1(F[m]) ELSE F[i]]
    OBVIOUS
  <2>3. ASSUME NEW i \in 0..(m + 1) PROVE G[i] = Body(G, i)
    <3>1. CASE i = m + 1
      <4>1. G[i] = Next1(F[m]) /\ G[i - 1] = F[m] /\ i # 0
        BY <2>2, <3>1
      <4> QED
        BY <3>1, <4>1
    <3>2. CASE i # m + 1 /\ i # 0
      <4>1. G[i] = F[i] /\ i \in 0..m /\ G[i - 1] = F[i - 1]
        BY <2>2, <3>2
      <4>2. F[i] = Body(F, i)
        BY <2>1, <4>1
      <4> QED
        BY <3>2, <4>1, <4>2
    <3>3. CASE i = 0
      <4>1. G[i] = F[i] /\ i \in 0..m
        BY <2>2, <3>3
      <4>2. F[i] = Body(F, i)
        BY <2>1, <4>1
      <4> QED
        BY <3>3, <4>1, <4>2
    <3> QED
      BY <3>1, <3>2, <3>3
  <2>4. G = [i \in 0..(m + 1) |-> G[i]]
    BY <2>2
  <2> HIDE DEF Body
  <2>5. G = [i \in 0..(m + 1) |-> Body(G, i)]
    BY <2>3, <2>4
  <2> QED
    BY <2>5
<1> HIDE DEF Q
<1>4. c \in Q
  BY <1>2, <1>3, SetInduction
<1>5. PICK F : F = CHOOSE G : Solves(G, c)
  OBVIOUS
<1>6. FindInTable(T, goal) = F[c].inum
  BY <1>5, Zenon DEF FindInTable, First, Next1
<1>7. Solves(F, c)
  <2> HIDE DEF Solves
  <2>1. \E G : Solves(G, c)
    BY <1>4 DEF Q
  <2> QED
    BY <1>5, <2>1
<1>8. F[0] = First
  BY <1>7
<1>9. ASSUME NEW i \in 1..c PROVE F[i] = Next1(F[i - 1])
  BY <1>7
<1> QED
  BY <1>1, <1>6, <1>8, <1>9
(* The numbers are an interval that begins at 0.                           *)
LEMMA InumBound ==
  /\ Cardinality(Inums) \in Nat
  /\ \A n \in Inums : n \in Nat /\ n < Cardinality(Inums)
<1>1. Cardinality(Inums) \in Nat
  BY ItableAssumption, FS_CardinalityType
<1>2. ASSUME NEW n \in Inums PROVE n \in Nat /\ n < Cardinality(Inums)
  <2>1. n \in Nat /\ 0..n \subseteq Inums
    BY ItableAssumption
  <2>2. Cardinality(0..n) = n + 1
    <3>1. Cardinality(0..n) = IF 0 > n THEN 0 ELSE n - 0 + 1
      BY <2>1, FS_Interval
    <3> QED
      BY <2>1, <3>1
  <2>3. Cardinality(0..n) <= Cardinality(Inums)
    BY <2>1, ItableAssumption, FS_Subset
  <2> QED
    BY <1>1, <2>1, <2>2, <2>3
<1> QED
  BY <1>1, <1>2

(* The number that is found is not in the table.                           *)
LEMMA LeavesFind ==
  ASSUME NEW T, NEW S, NEW A, Leaves(T, S, A), NEW goal \in Nat, NEW n, n = FindInTable(T, goal)
  PROVE  n \in Nat /\ goal <= n /\ A[n] = NoAttrs
<1> DEFINE c == Cardinality(Inums)
           Ended(at) == at.inum < next_key(T, at.path, T.depth, at.inum + 1)
           Reached(at, i, s) ==
             /\ s \in S /\ At(T, at.path, s) /\ at.inum \in Nat /\ s[1] <= at.inum /\ goal <= at.inum
             /\ ileaf_lookup(s[3], at.inum) = NoAttrs
             /\ Ended(at) \/ i <= s[1]
<1>1. Tree(T, S) /\ \A s \in S : Holds(s, A)
  BY DEF Leaves
<1>2. c \in Nat
  BY InumBound
<1>3. has_root(T)
  <2>1. T.depth # 0
    BY <1>1 DEF Tree
  <2>2. no_root.depth = 0
    BY DEF no_root
  <2> QED
    BY <2>1, <2>2 DEF has_root
<1> HIDE DEF c
<1>4. PICK F : /\ n = F[c].inum /\ F[0] = LookAt(T, probe(T, goal), goal)
               /\ \A i \in 1..c : F[i] = LookOn(T, F[i - 1])
  BY <1>2, <1>3, FindRec DEF c
<1>5. ASSUME NEW path, NEW s \in S, At(T, path, s), NEW from \in Nat, s[1] <= from,
             NEW at, at = LookAt(T, path, from)
      PROVE  at.path = path /\ at.inum \in Nat /\ from <= at.inum /\ ileaf_lookup(s[3], at.inum) = NoAttrs
  <2>1. PICK inum : inum = find_empty_inode(cursor_leaf(T, path), from)
    OBVIOUS
  <2>2. at = [path |-> path, inum |-> inum]
    BY <1>5, <2>1 DEF LookAt
  <2>3. cursor_leaf(T, path) = s[3]
    BY <1>1, <1>5, AtLeaf
  <2>4. IsLeaf(s[3]) /\ s[3].ibase = s[1] /\ icount(s[3]) <= entries_per_leaf
    BY <1>1 DEF Holds, Held
  <2>5. inum \in Nat /\ from <= inum /\ ileaf_lookup(s[3], inum) = NoAttrs
    BY <1>5, <2>1, <2>3, <2>4, FindEmpty
  <2> QED
    BY <2>2, <2>5
<1> DEFINE Q == {i \in 0..c : \E s : Reached(F[i], i, s)}
<1>6. 0 \in Q
  <2>1. PICK s \in S : At(T, probe(T, goal), s) /\ Covers(s, goal)
    BY <1>1, ProbeAt
  <2>2. s[1] <= goal /\ s[1] \in Nat
    BY <1>1, <2>1, AtLeaf DEF Covers, Interval
  <2>3. /\ F[0].path = probe(T, goal) /\ F[0].inum \in Nat /\ goal <= F[0].inum
        /\ ileaf_lookup(s[3], F[0].inum) = NoAttrs
    BY <1>4, <1>5, <2>1, <2>2
  <2>4. s[1] <= F[0].inum /\ 0 <= s[1]
    BY <2>2, <2>3
  <2> HIDE DEF Ended
  <2>5. Reached(F[0], 0, s)
    BY <2>1, <2>3, <2>4
  <2> HIDE DEF Reached
  <2> QED
    BY <1>2, <2>5
<1>7. ASSUME NEW i \in 0..(c - 1), i \in Q PROVE i + 1 \in Q
  <2>0. i + 1 \in 1..c /\ i + 1 \in 0..c /\ (i + 1) - 1 = i /\ i \in Nat
    BY <1>2
  <2>1. PICK at, s : at = F[i] /\ Reached(at, i, s)
    <3> HIDE DEF Reached
    <3> QED
      BY <1>7
  <2>2. PICK to : to = F[i + 1]
    OBVIOUS
  <2>3. to = LookOn(T, at)
    BY <1>4, <2>0, <2>1, <2>2
  <2>4. CASE Ended(at)
    <3>1. to = at
      BY <2>3, <2>4 DEF LookOn
    <3>2. Reached(to, i + 1, s)
      <4> HIDE DEF Ended
      <4> QED
        BY <2>1, <2>4, <3>1
    <3> HIDE DEF Reached
    <3> QED
      BY <2>0, <2>2, <3>2
  <2>5. CASE ~Ended(at)
    <3>1. to = LookAt(T, advance(T, at.path), at.inum)
      BY <2>3, <2>5 DEF LookOn
    <3>2. s \in S /\ At(T, at.path, s) /\ at.inum \in Nat /\ goal <= at.inum /\ s[1] <= at.inum /\ i <= s[1]
      <4> HIDE DEF Ended
      <4> QED
        BY <2>1, <2>5
    <3>3. s[2] # NoBound /\ s[2] <= at.inum /\ s[1] < s[2] /\ s[1] \in Nat /\ s[2] \in Int
      <4>1. Interval(s[1], s[2])
        BY <1>1, <3>2, AtLeaf
      <4>2. PICK none : none = at.inum + 1
        OBVIOUS
      <4>3. /\ s[2] = NoBound => next_key(T, at.path, T.depth, none) = none
            /\ s[2] # NoBound => next_key(T, at.path, T.depth, none) = s[2]
        BY <1>1, <3>2, NextKey
      <4>4. ~(at.inum < next_key(T, at.path, T.depth, none))
        BY <2>5, <4>2
      <4> QED
        BY <3>2, <4>1, <4>2, <4>3, <4>4 DEF Interval, Below
    <3>4. PICK t \in S : At(T, advance(T, at.path), t) /\ t[1] = s[2]
      BY <1>1, <3>2, <3>3, AdvanceAt
    <3>5. PICK path : path = advance(T, at.path)
      OBVIOUS
    <3>6. /\ to.path = path /\ to.inum \in Nat /\ at.inum <= to.inum
          /\ ileaf_lookup(t[3], to.inum) = NoAttrs
      BY <1>5, <3>1, <3>2, <3>3, <3>4, <3>5
    <3>7. t[1] <= to.inum /\ goal <= to.inum /\ i + 1 <= t[1]
      BY <2>0, <3>2, <3>3, <3>4, <3>6
    <3>8. Reached(to, i + 1, t)
      <4> HIDE DEF Ended
      <4> QED
        BY <3>4, <3>5, <3>6, <3>7
    <3> HIDE DEF Reached
    <3> QED
      BY <2>0, <2>2, <3>8
  <2> QED
    BY <2>4, <2>5
<1>8. c \in Q
  <2>1. 0..c \subseteq Q
    <3> HIDE DEF Q
    <3> QED
      BY <1>2, <1>6, <1>7, BoundedInduction
  <2> QED
    BY <1>2, <2>1
<1>9. PICK at, s : at = F[c] /\ Reached(at, c, s)
  <2> HIDE DEF Reached
  <2> QED
    BY <1>8
<1>10. s \in S /\ At(T, at.path, s) /\ at.inum \in Nat /\ s[1] <= at.inum /\ goal <= at.inum /\ n = at.inum
  BY <1>4, <1>9
<1>11. Holds(s, A) /\ s[1] \in Inums
  BY <1>1, <1>10 DEF Holds, Held
<1>12. Ended(at)
  <2>1. s[1] \in Nat /\ s[1] < c
    BY <1>11, InumBound DEF c
  <2>2. ~(c <= s[1])
    BY <1>2, <2>1
  <2> HIDE DEF Ended
  <2> QED
    BY <1>9, <2>2
<1>13. Below(n, s[2])
  <2>1. PICK none : none = at.inum + 1
    OBVIOUS
  <2>2. s[2] # NoBound => next_key(T, at.path, T.depth, none) = s[2]
    BY <1>1, <1>10, NextKey
  <2>3. at.inum < next_key(T, at.path, T.depth, none)
    BY <1>12, <2>1
  <2> QED
    BY <1>10, <2>2, <2>3 DEF Below
<1>14. ileaf_lookup(s[3], n) = NoAttrs
  BY <1>9, <1>10
<1> QED
  BY <1>10, <1>11, <1>13, <1>14 DEF Holds, Held

(* A finite set has no more than its size of numbers in a row.             *)
LEMMA FreeExists ==
  ASSUME NEW U, U \subseteq Nat, IsFiniteSet(U), NEW n \in Nat
  PROVE  \E k \in n..(n + Cardinality(U)) : k \notin U /\ n..(k - 1) \subseteq U
<1> DEFINE c == Cardinality(U)
           M == {k \in Nat : n <= k /\ k \notin U}
<1>1. c \in Nat
  BY FS_CardinalityType
<1>2. ASSUME NEW m \in Nat, n..(n + m) \subseteq U PROVE m + 1 <= c
  <2>1. Cardinality(n..(n + m)) = m + 1
    <3>1. PICK e : e = n + m
      OBVIOUS
    <3>2. e \in Nat /\ n <= e /\ e - n + 1 = m + 1
      BY <3>1
    <3>3. Cardinality(n..e) = IF n > e THEN 0 ELSE e - n + 1
      BY <3>2, FS_Interval
    <3> QED
      BY <3>1, <3>2, <3>3
  <2> QED
    BY <1>2, <2>1, FS_Subset
<1> HIDE DEF c
<1>3. M # {}
  <2> SUFFICES ASSUME M = {} PROVE FALSE
    OBVIOUS
  <2>1. n..(n + c) \subseteq U
    BY <1>1
  <2> QED
    BY <1>1, <1>2, <2>1
<1>4. M \subseteq Nat
  OBVIOUS
<1>5. PICK k \in M : \A j \in M : k <= j
  <2> HIDE DEF M
  <2> QED
    BY <1>3, <1>4, LeastNat
<1>6. k \in Nat /\ n <= k /\ k \notin U
  BY <1>5
<1>7. \A j \in n..(k - 1) : j \in U
  <2> SUFFICES ASSUME NEW j \in n..(k - 1), j \notin U PROVE FALSE
    OBVIOUS
  <2>1. j \in M /\ ~(k <= j)
    BY <1>6
  <2> QED
    BY <1>5, <2>1
<1>8. k <= n + c
  <2> SUFFICES ASSUME ~(k <= n + c) PROVE FALSE
    OBVIOUS
  <2>1. n..(n + c) \subseteq U
    BY <1>1, <1>6, <1>7
  <2> QED
    BY <1>1, <1>2, <2>1
<1>9. k \in n..(n + c)
  BY <1>1, <1>6, <1>8
<1> QED
  BY <1>6, <1>7, <1>9 DEF c

(* Recursion over the numbers: a number that is deferred is skipped.       *)
LEMMA FindInumIs ==
  ASSUME NEW A, NEW goal \in Nat,
         \A from \in Nat : LET n == FindInTable(itable, from)
                           IN  n \in Nat /\ from <= n /\ A[n] = NoAttrs
  PROVE  FindInum(goal) \in Nat /\ FindInum(goal) \notin Unsaved /\ A[FindInum(goal)] = NoAttrs
<1> DEFINE c == Cardinality(Inums)
           Find(from) == FindInTable(itable, from)
           Free(n) == CHOOSE k \in n..(n + Cardinality(Unsaved)) :
                        k \notin Unsaved /\ n..(k - 1) \subseteq Unsaved
           Body(f, from) == IF find_defer_alloc_inum(Find(from)) THEN f[Free(Find(from) + 1)] ELSE Find(from)
           Solves(f) == f = [from \in Nat |-> Body(f, from)]
           Ok(f, m) == \A from \in Nat : c - m <= from => f[from] = Body(f, from)
           Q == {m \in 0..c : \E f : Ok(f, m)}
<1>1. c \in Nat /\ \A n : find_defer_alloc_inum(n) => n < c /\ n \in Nat
  BY InumBound DEF find_defer_alloc_inum
<1>2. \A from \in Nat : Find(from) \in Nat /\ from <= Find(from) /\ A[Find(from)] = NoAttrs
  OBVIOUS
<1>3. ASSUME NEW n \in Nat PROVE Free(n) \in Nat /\ n <= Free(n)
  <2>1. Unsaved \subseteq Inums
    BY DEF Unsaved
  <2>2. Unsaved \subseteq Nat /\ IsFiniteSet(Unsaved)
    BY <2>1, ItableAssumption, FS_Subset
  <2>3. \E k \in n..(n + Cardinality(Unsaved)) : k \notin Unsaved /\ n..(k - 1) \subseteq Unsaved
    BY <2>2, FreeExists
  <2>4. Free(n) \in n..(n + Cardinality(Unsaved))
    BY <2>3
  <2>5. Cardinality(Unsaved) \in Nat
    BY <2>2, FS_CardinalityType
  <2> QED
    BY <2>4, <2>5
<1> HIDE DEF c, Find, Free
<1>4. ASSUME NEW from \in Nat PROVE Free(Find(from) + 1) \in Nat /\ from < Free(Find(from) + 1)
  <2>1. Find(from) \in Nat /\ from <= Find(from) /\ Find(from) + 1 \in Nat
    BY <1>2
  <2>2. Free(Find(from) + 1) \in Nat /\ Find(from) + 1 <= Free(Find(from) + 1)
    BY <1>3, <2>1
  <2> QED
    BY <2>1, <2>2
<1>5. 0 \in Q
  <2>1. PICK f : f = [from \in Nat |-> Find(from)]
    OBVIOUS
  <2>2. ASSUME NEW from \in Nat, c - 0 <= from PROVE f[from] = Body(f, from)
    <3>1. ~find_defer_alloc_inum(Find(from))
      BY <1>1, <1>2, <2>2
    <3> QED
      BY <2>1, <3>1
  <2> HIDE DEF Body
  <2> QED
    BY <1>1, <2>2
<1>6. ASSUME NEW m \in 0..(c - 1), m \in Q PROVE m + 1 \in Q
  <2>1. PICK f : Ok(f, m)
    <3> HIDE DEF Ok
    <3> QED
      BY <1>6
  <2>2. PICK k : k = c - (m + 1)
    OBVIOUS
  <2>3. k \in Nat /\ m + 1 \in 0..c /\ \A from \in Nat : (c - (m + 1) <= from <=> k <= from) /\ (c - m <= from <=> k < from)
    BY <1>1, <2>2
  <2>4. PICK g : g = [from \in Nat |-> IF from = k THEN Body(f, k) ELSE f[from]]
    OBVIOUS
  <2>5. \A from \in Nat : k < from => g[from] = f[from]
    BY <2>3, <2>4
  <2>6. ASSUME NEW from \in Nat, k <= from PROVE g[from] = Body(g, from)
    <3>1. Free(Find(from) + 1) \in Nat /\ k < Free(Find(from) + 1)
      BY <1>4, <2>3, <2>6
    <3>2. g[Free(Find(from) + 1)] = f[Free(Find(from) + 1)]
      BY <2>5, <3>1
    <3>3. g[from] = Body(f, from)
      <4>1. CASE from = k
        BY <2>4, <4>1
      <4>2. CASE from # k
        <5>1. k < from
          BY <2>3, <2>6, <4>2
        <5>2. f[from] = Body(f, from)
          BY <2>1, <2>3, <5>1
        <5> QED
          BY <2>5, <5>1, <5>2
      <4> QED
        BY <4>1, <4>2
    <3> QED
      BY <3>2, <3>3
  <2> HIDE DEF Body
  <2>7. Ok(g, m + 1)
    BY <2>3, <2>6
  <2> HIDE DEF Ok
  <2> QED
    BY <2>3, <2>7
<1>7. \E f : Solves(f)
  <2>1. c \in Q
    <3>1. 0..c \subseteq Q
      <4> HIDE DEF Q
      <4> QED
        BY <1>1, <1>5, <1>6, BoundedInduction
    <3> QED
      BY ONLY <1>1, <3>1
  <2>2. PICK f : Ok(f, c)
    <3> HIDE DEF Ok
    <3> QED
      BY <2>1
  <2>3. PICK g : g = [from \in Nat |-> f[from]]
    OBVIOUS
  <2>4. ASSUME NEW from \in Nat PROVE g[from] = Body(g, from)
    <3>1. c - c <= from
      BY <1>1
    <3>2. f[from] = Body(f, from)
      BY <2>2, <3>1
    <3>3. g[Free(Find(from) + 1)] = f[Free(Find(from) + 1)] /\ g[from] = f[from]
      BY <1>4, <2>3
    <3> QED
      BY <3>2, <3>3
  <2>5. g = [from \in Nat |-> g[from]]
    BY <2>3
  <2> HIDE DEF Body
  <2>6. Solves(g)
    BY <2>4, <2>5
  <2> QED
    BY <2>6
<1>8. PICK Try : Try = CHOOSE f : Solves(f)
  OBVIOUS
<1>9. FindInum(goal) = Try[goal]
  BY <1>8, Zenon DEF FindInum, Find, Free
<1>10. Solves(Try)
  <2> HIDE DEF Solves
  <2> QED
    BY <1>7, <1>8
<1>11. \A from \in Nat : Try[from] = Body(Try, from)
  BY <1>10
<1> DEFINE Good(n) == n \in Nat /\ n \notin Unsaved /\ A[n] = NoAttrs
           P == {m \in 0..c : \A from \in Nat : c - m <= from => Good(Try[from])}
<1>12. ASSUME NEW from \in Nat, ~find_defer_alloc_inum(Find(from)) PROVE Good(Try[from])
  <2>1. Try[from] = Find(from)
    BY <1>11, <1>12
  <2>2. Find(from) \notin Unsaved
    BY <1>12 DEF Unsaved
  <2> QED
    BY <1>2, <2>1, <2>2
<1> HIDE DEF Good
<1>13. 0 \in P
  <2>1. ASSUME NEW from \in Nat, c - 0 <= from PROVE Good(Try[from])
    <3>1. ~find_defer_alloc_inum(Find(from))
      BY <1>1, <1>2, <2>1
    <3> QED
      BY <1>12, <3>1
  <2> QED
    BY <1>1, <2>1
<1>14. ASSUME NEW m \in 0..(c - 1), m \in P PROVE m + 1 \in P
  <2>1. ASSUME NEW from \in Nat, c - (m + 1) <= from PROVE Good(Try[from])
    <3>1. CASE ~find_defer_alloc_inum(Find(from))
      BY <1>12, <3>1
    <3>2. CASE find_defer_alloc_inum(Find(from))
      <4>1. PICK k : k = Free(Find(from) + 1)
        OBVIOUS
      <4>2. k \in Nat /\ c - m <= k
        BY <1>1, <1>4, <2>1, <4>1
      <4>3. Try[from] = Try[k]
        BY <1>11, <3>2, <4>1
      <4> QED
        BY <1>14, <4>2, <4>3
    <3> QED
      BY <3>1, <3>2
  <2> QED
    BY <1>1, <2>1
<1>15. c \in P
  <2>1. 0..c \subseteq P
    <3> HIDE DEF P
    <3> QED
      BY <1>1, <1>13, <1>14, BoundedInduction
  <2> QED
    BY <1>1, <2>1
<1>16. Good(Try[goal])
  BY <1>1, <1>15
<1> QED
  BY <1>9, <1>16 DEF Good
-----------------------------------------------------------------------------
(***************************************************************************)
(* The inductive invariant: the tree has leaves that say what is stored,   *)
(* and no number is in use twice.                                          *)
(***************************************************************************)
Kept == [n \in Nat |-> IF n \in DOMAIN stored THEN stored[n] ELSE NoAttrs]

Numbers1 ==
  /\ deferred \in [Inums -> 0..MaxInodes]
  /\ DOMAIN stored \subseteq Inums /\ stored = [n \in DOMAIN stored |-> stored[n]]
  /\ \A n \in DOMAIN stored : stored[n] \in Attrs

Table ==
  \/ itable = no_root /\ DOMAIN stored = {}
  \/ \E S : Leaves(itable, S, Kept)

IInv == Numbers1 /\ InumsUnique /\ Table

(* A tree has a root.                                                      *)
LEMMA TreeRoot ==
  ASSUME NEW T, NEW S, NEW A, Leaves(T, S, A)
  PROVE  has_root(T)
<1>1. T.depth # 0
  BY DEF Tree, Leaves
<1>2. no_root.depth = 0
  BY DEF no_root
<1> QED
  BY <1>1, <1>2 DEF has_root

(* A volume before make_tux3.                                              *)
LEMMA InitIInv == Init => IInv
<1> SUFFICES ASSUME Init PROVE IInv
  OBVIOUS
<1>1. itable = no_root /\ deferred = [n \in Inums |-> 0] /\ stored = <<>>
  BY DEF Init
<1>2. DOMAIN stored = {} /\ stored = [n \in DOMAIN stored |-> stored[n]]
  BY <1>1
<1>3. Numbers1 /\ InumsUnique
  BY <1>1, <1>2, ItableAssumption DEF Numbers1, InumsUnique
<1>4. Table
  BY <1>1, <1>2 DEF Table
<1> QED
  BY <1>3, <1>4 DEF IInv

(* What a search says.                                                     *)
LEMMA KeptFound ==
  ASSUME IInv, NEW n \in Nat
  PROVE  open_inode(n) = Kept[n]
<1>1. CASE itable = no_root /\ DOMAIN stored = {}
  <2>1. Kept[n] = NoAttrs
    BY <1>1 DEF Kept
  <2> QED
    BY <1>1, <2>1 DEF open_inode, has_root
<1>2. CASE \E S : Leaves(itable, S, Kept)
  <2>1. PICK S : Leaves(itable, S, Kept)
    BY <1>2
  <2>2. has_root(itable)
    BY <2>1, TreeRoot
  <2>3. ileaf_lookup(cursor_leaf(itable, probe(itable, n)), n) = Kept[n]
    <3>1. PICK s \in S : /\ cursor_leaf(itable, probe(itable, n)) = s[3] /\ ileaf_lookup(s[3], n) = Kept[n]
      BY <2>1, LeavesProbe
    <3> QED
      BY <3>1
  <2> QED
    BY <2>2, <2>3 DEF open_inode
<1> QED
  BY <1>1, <1>2 DEF IInv, Table

(* The tree that an inode is saved in.                                     *)
LEMMA RootedLeaves ==
  ASSUME IInv, NEW inum \in Inums
  PROVE  \E S : Leaves(Rooted, S, Kept)
<1>1. CASE itable = no_root /\ DOMAIN stored = {}
  <2>1. Rooted = alloc_empty_btree(ileaf_init)
    BY <1>1 DEF Rooted, has_root
  <2>2. 0 \in Inums
    BY ItableAssumption
  <2>3. Kept = None
    BY <1>1 DEF Kept, None
  <2> QED
    BY <2>1, <2>2, <2>3, LeavesEmpty
<1>2. CASE \E S : Leaves(itable, S, Kept)
  <2>1. has_root(itable)
    BY <1>2, TreeRoot
  <2> QED
    BY <1>2, <2>1 DEF Rooted
<1> QED
  BY <1>1, <1>2 DEF IInv, Table

(* A new number.                                                           *)
LEMMA AllocIInv ==
  ASSUME IInv, NEW goal \in Inums, alloc_inum(goal)
  PROVE  IInv'
<1>1. PICK n \in {FindInum(goal)} \cap Inums : deferred' = [deferred EXCEPT ![n] = @ + 1]
  BY DEF alloc_inum
<1>2. itable' = itable /\ stored' = stored
  BY DEF alloc_inum
<1>3. /\ deferred \in [Inums -> 0..MaxInodes] /\ DOMAIN stored \subseteq Inums
      /\ \A k \in DOMAIN stored : stored[k] \in Attrs
  BY DEF IInv, Numbers1
<1>4. MaxInodes \in Nat \ {0}
  <2>1. Unsaved \subseteq Inums /\ DOMAIN stored \subseteq Inums
    BY <1>3 DEF Unsaved
  <2>2. IsFiniteSet(Unsaved) /\ IsFiniteSet(DOMAIN stored)
    BY <2>1, ItableAssumption, FS_Subset
  <2>3. Cardinality(Unsaved) \in Nat /\ Cardinality(DOMAIN stored) \in Nat
    BY <2>2, FS_CardinalityType
  <2>4. Cardinality(Unsaved) + Cardinality(DOMAIN stored) < MaxInodes
    BY DEF alloc_inum
  <2> QED
    BY <2>3, <2>4, ItableAssumption
<1>5. ASSUME NEW from \in Nat
      PROVE  FindInTable(itable, from) \in Nat /\ from <= FindInTable(itable, from) /\ Kept[FindInTable(itable, from)] = NoAttrs
  <2>1. CASE itable = no_root /\ DOMAIN stored = {}
    <3>1. FindInTable(itable, from) = from
      BY <2>1 DEF FindInTable, has_root
    <3>2. Kept[from] = NoAttrs
      BY <2>1 DEF Kept
    <3> QED
      BY <3>1, <3>2
  <2>2. CASE \E S : Leaves(itable, S, Kept)
    <3>1. PICK S : Leaves(itable, S, Kept)
      BY <2>2
    <3> QED
      BY <3>1, LeavesFind
  <2> QED
    BY <2>1, <2>2 DEF IInv, Table
<1>6. n \in Nat /\ n \notin Unsaved /\ Kept[n] = NoAttrs
  <2>1. goal \in Nat
    BY ItableAssumption
  <2>2. n = FindInum(goal)
    BY <1>1
  <2> QED
    BY <1>5, <2>1, <2>2, FindInumIs
<1>7. n \notin DOMAIN stored
  BY <1>3, <1>6, IleafAssumption DEF Kept
<1>8. deferred[n] = 0 /\ n \in Inums
  BY <1>1, <1>3, <1>6 DEF Unsaved, find_defer_alloc_inum
<1>9. /\ deferred' \in [Inums -> 0..MaxInodes] /\ deferred'[n] = 1
      /\ \A k \in Inums \ {n} : deferred'[k] = deferred[k]
  BY <1>1, <1>3, <1>4, <1>8
<1>10. Numbers1'
  BY <1>2, <1>9 DEF IInv, Numbers1
<1>11. InumsUnique'
  BY <1>2, <1>7, <1>9 DEF IInv, InumsUnique
<1>12. Table'
  BY <1>2 DEF IInv, Table, Kept
<1> QED
  BY <1>10, <1>11, <1>12 DEF IInv

(* An inode saved.                                                         *)
LEMMA SaveIInv ==
  ASSUME IInv, NEW inum \in Inums, NEW attrs \in Attrs, save_inode(inum, attrs)
  PROVE  IInv'
<1>1. /\ inum \in Unsaved \cup DOMAIN stored
      /\ tree_expand(Rooted, inum, attrs).fits /\ itable' = tree_expand(Rooted, inum, attrs).tree
      /\ deferred' = [deferred EXCEPT ![inum] = IF @ > 0 THEN @ - 1 ELSE 0]
      /\ stored' = [n \in DOMAIN stored \cup {inum} |-> IF n = inum THEN attrs ELSE stored[n]]
  BY DEF save_inode
<1>2. /\ deferred \in [Inums -> 0..MaxInodes] /\ DOMAIN stored \subseteq Inums
      /\ \A k \in DOMAIN stored : stored[k] \in Attrs /\ MaxInodes \in Nat
  BY ItableAssumption DEF IInv, Numbers1
<1>3. /\ DOMAIN stored' = DOMAIN stored \cup {inum} /\ stored'[inum] = attrs
      /\ \A k \in DOMAIN stored \ {inum} : stored'[k] = stored[k]
      /\ stored' = [k \in DOMAIN stored' |-> stored'[k]]
  BY <1>1
<1>4. /\ deferred' \in [Inums -> 0..MaxInodes]
      /\ deferred'[inum] = IF deferred[inum] > 0 THEN deferred[inum] - 1 ELSE 0
      /\ \A k \in Inums \ {inum} : deferred'[k] = deferred[k]
  BY <1>1, <1>2, ItableAssumption
<1>5. Numbers1'
  BY <1>2, <1>3, <1>4 DEF Numbers1
<1>6. deferred'[inum] = 0
  BY <1>2, <1>4 DEF IInv, InumsUnique
<1>7. InumsUnique'
  BY <1>2, <1>3, <1>4, <1>6 DEF IInv, InumsUnique
<1>8. Kept' = Put(Kept, inum, attrs)
  BY <1>3 DEF Kept, Put
<1>9. \E R : Leaves(itable', R, Kept')
  <2>1. PICK S : Leaves(Rooted, S, Kept)
    BY RootedLeaves
  <2>2. PICK E : E = tree_expand(Rooted, inum, attrs)
    OBVIOUS
  <2>3. E.fits /\ itable' = E.tree
    BY <1>1, <2>2
  <2>4. \E R : Leaves(E.tree, R, Put(Kept, inum, attrs))
    BY <2>1, <2>2, <2>3, LeavesExpand
  <2> QED
    BY <1>8, <2>3, <2>4
<1>10. Table'
  BY <1>9 DEF Table
<1> QED
  BY <1>5, <1>7, <1>10 DEF IInv

(* No block for a new leaf.                                                *)
LEMMA NospaceIInv ==
  ASSUME IInv, NEW inum \in Inums, NEW attrs \in Attrs, save_inode_nospace(inum, attrs)
  PROVE  IInv'
<1>1. itable' = Rooted /\ deferred' = deferred /\ stored' = stored
  BY DEF save_inode_nospace
<1>2. \E S : Leaves(itable', S, Kept')
  <2>1. PICK S : Leaves(Rooted, S, Kept)
    BY RootedLeaves
  <2>2. Kept' = Kept
    BY <1>1 DEF Kept
  <2> QED
    BY <1>1, <2>1, <2>2
<1>3. Table'
  BY <1>2 DEF Table
<1>4. Numbers1' /\ InumsUnique'
  BY <1>1 DEF IInv, Numbers1, InumsUnique
<1> QED
  BY <1>3, <1>4 DEF IInv

(* An inode that was never saved is given up.                              *)
LEMMA ForgetIInv ==
  ASSUME IInv, NEW inum \in Inums, deferred[inum] > 0,
         deferred' = [deferred EXCEPT ![inum] = @ - 1], itable' = itable, stored' = stored
  PROVE  IInv'
<1>1. deferred \in [Inums -> 0..MaxInodes] /\ MaxInodes \in Nat
  BY ItableAssumption DEF IInv, Numbers1
<1>2. /\ deferred' \in [Inums -> 0..MaxInodes] /\ deferred'[inum] = deferred[inum] - 1
      /\ \A k \in Inums \ {inum} : deferred'[k] = deferred[k]
  BY <1>1
<1>3. Numbers1'
  BY <1>2 DEF IInv, Numbers1
<1>4. InumsUnique'
  <2>1. \A k \in Inums : deferred'[k] <= deferred[k] /\ deferred[k] \in Nat /\ deferred'[k] \in Nat
    BY <1>1, <1>2
  <2> QED
    BY <2>1 DEF IInv, InumsUnique
<1>5. Table'
  BY DEF IInv, Table, Kept
<1> QED
  BY <1>3, <1>4, <1>5 DEF IInv

(* An inode deleted.                                                       *)
LEMMA PurgeIInv ==
  ASSUME IInv, NEW inum \in Inums, inum \in DOMAIN stored,
         NEW path, path = probe(itable, inum),
         itable' = store_leaf(itable, path, ileaf_purge(cursor_leaf(itable, path), inum)),
         stored' = [n \in DOMAIN stored \ {inum} |-> stored[n]], deferred' = deferred
  PROVE  IInv'
<1>1. DOMAIN stored' = DOMAIN stored \ {inum} /\ \A k \in DOMAIN stored \ {inum} : stored'[k] = stored[k]
  OBVIOUS
<1>2. Numbers1'
  BY <1>1 DEF IInv, Numbers1
<1>3. InumsUnique'
  <2>1. deferred \in [Inums -> 0..MaxInodes] /\ MaxInodes \in Nat
    BY ItableAssumption DEF IInv, Numbers1
  <2>2. \A k \in Inums : deferred[k] \in Nat /\ deferred'[k] = deferred[k]
    BY <2>1
  <2> QED
    BY <1>1, <2>2 DEF IInv, InumsUnique
<1>4. Kept' = Put(Kept, inum, NoAttrs)
  BY <1>1 DEF Kept, Put
<1>5. inum \in Nat /\ Kept[inum] # NoAttrs
  BY ItableAssumption, IleafAssumption DEF IInv, Numbers1, Kept
<1>6. PICK S : Leaves(itable, S, Kept)
  BY DEF IInv, Table
<1>7. PICK new : new = ileaf_purge(cursor_leaf(itable, path), inum)
  OBVIOUS
<1>8. \E R : Leaves(store_leaf(itable, path, new), R, Put(Kept, inum, NoAttrs))
  BY <1>5, <1>6, <1>7, LeavesPurge
<1>9. Table'
  BY <1>4, <1>7, <1>8 DEF Table
<1> QED
  BY <1>2, <1>3, <1>9 DEF IInv

(* Every step keeps the invariant.                                         *)
LEMMA NextIInv == IInv /\ [Next]_vars => IInv'
<1> SUFFICES ASSUME IInv, [Next]_vars PROVE IInv'
  OBVIOUS
<1>1. ASSUME NEW inum \in Inums, alloc_inum(inum) PROVE IInv'
  BY <1>1, AllocIInv
<1>2. ASSUME NEW inum \in Inums, NEW attrs \in Attrs, save_inode(inum, attrs) PROVE IInv'
  BY <1>2, SaveIInv
<1>3. ASSUME NEW inum \in Inums, NEW attrs \in Attrs, save_inode_nospace(inum, attrs) PROVE IInv'
  BY <1>3, NospaceIInv
<1>4. ASSUME NEW inum \in Inums, purge_inum(inum) PROVE IInv'
  <2>1. CASE /\ find_defer_alloc_inum(inum)
             /\ deferred' = [deferred EXCEPT ![inum] = @ - 1]
             /\ UNCHANGED <<itable, stored>>
    <3>1. deferred[inum] > 0
      BY <2>1 DEF find_defer_alloc_inum
    <3> QED
      BY <2>1, <3>1, ForgetIInv
  <2>2. CASE /\ inum \in DOMAIN stored \ Unsaved
             /\ \E path \in {probe(itable, inum)} :
                  itable' = store_leaf(itable, path, ileaf_purge(cursor_leaf(itable, path), inum))
             /\ stored' = [n \in DOMAIN stored \ {inum} |-> stored[n]]
             /\ UNCHANGED deferred
    <3>1. PICK path : /\ path = probe(itable, inum)
                      /\ itable' = store_leaf(itable, path, ileaf_purge(cursor_leaf(itable, path), inum))
      BY <2>2
    <3> QED
      BY <2>2, <3>1, PurgeIInv
  <2> QED
    BY <1>4, <2>1, <2>2 DEF purge_inum
<1>5. CASE UNCHANGED vars
  <2>1. itable' = itable /\ deferred' = deferred /\ stored' = stored
    BY <1>5 DEF vars
  <2>2. Numbers1' /\ InumsUnique'
    BY <2>1 DEF IInv, Numbers1, InumsUnique
  <2>3. Table'
    BY <2>1 DEF IInv, Table, Kept
  <2> QED
    BY <2>2, <2>3 DEF IInv
<1> QED
  BY <1>1, <1>2, <1>3, <1>4, <1>5 DEF Next

(* So it always holds.                                                     *)
LEMMA Invariance == Spec => []IInv
BY InitIInv, NextIInv, PTL DEF Spec

(***************************************************************************)
(* The search of alloc_inum, through the table and past the numbers of     *)
(* inodes that have not been saved, gives no number to two inodes, in any  *)
(* sequence of operations that each hold the lock of the table throughout. *)
(***************************************************************************)
THEOREM InumsUniqueCorrect == Spec => []InumsUnique
<1>1. IInv => InumsUnique
  BY DEF IInv
<1> QED
  BY <1>1, Invariance, PTL

(***************************************************************************)
(* However leaves are split, resized and trimmed, open_inode finds what    *)
(* save_inode stored last, and nothing under a number that is not in use.  *)
(***************************************************************************)
THEOREM InodesKeptCorrect == Spec => []InodesKept
<1>1. IInv => InodesKept
  <2> SUFFICES ASSUME IInv, NEW n \in Inums
               PROVE  open_inode(n) = IF n \in DOMAIN stored THEN stored[n] ELSE NoAttrs
    BY DEF InodesKept
  <2>1. n \in Nat
    BY ItableAssumption
  <2> QED
    BY <2>1, KeptFound DEF Kept
<1> QED
  BY <1>1, Invariance, PTL
-----------------------------------------------------------------------------
(***************************************************************************)
(* The cursors of all leaves, and the keys that lead to them.              *)
(***************************************************************************)
(* Recursion down the levels: Cursors.                                     *)
LEMMA CursorsRec ==
  ASSUME NEW T, T.depth \in Nat, has_root(T)
  PROVE  \E P : /\ Cursors(T) = P[T.depth] /\ P[0] = {<<>>}
                /\ \A l \in 1..T.depth : \A r \in P[l] :
                     \E q \in P[l - 1] : \E i \in DOMAIN CursorNodes(T, q)[l] : r = Append(q, i)
<1> DEFINE d == T.depth
           Next1(R, l) == UNION {{Append(path, i) : i \in DOMAIN cursor_node(T, path, l)} : path \in R}
           Body(P, l) == IF l = 0 THEN {<<>>} ELSE Next1(P[l - 1], l)
           Solves(P, m) == P = [l \in 0..m |-> Body(P, l)]
           Q == {m \in Nat : \E P : Solves(P, m)}
<1>0. ASSUME NEW R, NEW l, NEW r \in Next1(R, l)
      PROVE  \E q \in R : \E i \in DOMAIN CursorNodes(T, q)[l] : r = Append(q, i)
  BY <1>0 DEF cursor_node
<1> HIDE DEF Next1
<1>1. 0 \in Q
  <2>1. PICK P : P = [l \in 0..0 |-> {<<>>}]
    OBVIOUS
  <2>2. \A l \in 0..0 : Body(P, l) = {<<>>}
    OBVIOUS
  <2>3. Solves(P, 0)
    BY <2>1, <2>2
  <2> QED
    BY <2>3
<1>2. ASSUME NEW m \in Nat, m \in Q PROVE m + 1 \in Q
  <2>1. PICK P : Solves(P, m)
    BY <1>2
  <2>2. PICK M : M = [l \in 0..(m + 1) |-> IF l = m + 1 THEN Next1(P[m], m + 1) ELSE P[l]]
    OBVIOUS
  <2>3. ASSUME NEW l \in 0..(m + 1) PROVE M[l] = Body(M, l)
    <3>1. CASE l = m + 1
      <4>1. M[l] = Next1(P[m], m + 1) /\ M[l - 1] = P[m] /\ l # 0
        BY <2>2, <3>1
      <4> QED
        BY <3>1, <4>1
    <3>2. CASE l # m + 1 /\ l # 0
      <4>1. M[l] = P[l] /\ l \in 0..m /\ M[l - 1] = P[l - 1]
        BY <2>2, <3>2
      <4>2. P[l] = Body(P, l)
        BY <2>1, <4>1
      <4> QED
        BY <3>2, <4>1, <4>2
    <3>3. CASE l = 0
      <4>1. M[l] = P[l] /\ l \in 0..m
        BY <2>2, <3>3
      <4>2. P[l] = Body(P, l)
        BY <2>1, <4>1
      <4> QED
        BY <3>3, <4>1, <4>2
    <3> QED
      BY <3>1, <3>2, <3>3
  <2>4. M = [l \in 0..(m + 1) |-> M[l]]
    BY <2>2
  <2> HIDE DEF Body
  <2>5. M = [l \in 0..(m + 1) |-> Body(M, l)]
    BY <2>3, <2>4
  <2> QED
    BY <2>5
<1> HIDE DEF Q
<1>3. d \in Q
  BY <1>1, <1>2, SetInduction
<1>4. PICK P : P = CHOOSE R : Solves(R, d)
  OBVIOUS
<1>5. Cursors(T) = P[d]
  BY <1>4, Zenon DEF Cursors, Next1
<1>6. Solves(P, d)
  <2> HIDE DEF Solves
  <2>1. \E R : Solves(R, d)
    BY <1>3 DEF Q
  <2> QED
    BY <1>4, <2>1
<1>7. ASSUME NEW l \in 1..d PROVE P[l] = Next1(P[l - 1], l)
  <2>1. l \in 0..d /\ l # 0
    OBVIOUS
  <2>2. P[l] = Body(P, l)
    <3> HIDE DEF Body
    <3> QED
      BY <1>6, <2>1
  <2> QED
    BY <2>1, <2>2
<1>8. P[0] = {<<>>}
  BY <1>6
<1>9. ASSUME NEW l \in 1..d, NEW r \in P[l]
      PROVE  \E q \in P[l - 1] : \E i \in DOMAIN CursorNodes(T, q)[l] : r = Append(q, i)
  BY <1>0, <1>7, <1>9
<1> QED
  BY <1>5, <1>8, <1>9

(* A node on the way to a leaf.                                            *)
LEMMA LevelDivides ==
  ASSUME NEW T, NEW S, Tree(T, S), NEW p, NEW N, NEW L, NEW H,
         Way(T.depth, T.root, 0, NoBound, p, N, L, H),
         NEW n \in 1..T.depth, \A l \in 1..(n - 1) : p[l] \in DOMAIN N[l]
  PROVE  Interval(L[n], H[n]) /\ Divides(N[n], L[n], H[n])
<1>0. PICK d : d = T.depth
  OBVIOUS
<1>1. d \in Nat /\ d # 0 /\ Spans(d, T.root, 0, NoBound, S) /\ Way(d, T.root, 0, NoBound, p, N, L, H)
  BY <1>0 DEF Tree
<1>2. PICK m : m = n - 1
  OBVIOUS
<1>3. m \in 0..d /\ m + 1 = n /\ d - m \in Nat \ {0} /\ \A l \in 1..m : p[l] \in DOMAIN N[l]
  BY <1>0, <1>1, <1>2
<1>4. \E X : X \subseteq S /\ Spans(d - m, N[m + 1], L[m + 1], H[m + 1], X)
  BY ONLY <1>1, <1>3, LevelSpans
<1> QED
  BY <1>3, <1>4, NodeSpans

(* Each of the cursors has a leaf.                                         *)
LEMMA CursorsAt ==
  ASSUME NEW T, NEW S, Tree(T, S), has_root(T), NEW path \in Cursors(T)
  PROVE  \E s : At(T, path, s)
<1> DEFINE d == T.depth
           Good(q, m) ==
             /\ q \in Seq(Nat) /\ Len(q) = m
             /\ \E N, L, H : /\ N = CursorNodes(T, q) /\ Way(d, T.root, 0, NoBound, q, N, L, H)
                             /\ \A l \in 1..m : q[l] \in DOMAIN N[l]
<1>1. d \in Nat \ {0} /\ Spans(d, T.root, 0, NoBound, S)
  BY DEF Tree
<1>2. PICK P : /\ Cursors(T) = P[d] /\ P[0] = {<<>>}
               /\ \A l \in 1..d : \A r \in P[l] :
                    \E q \in P[l - 1] : \E i \in DOMAIN CursorNodes(T, q)[l] : r = Append(q, i)
  BY <1>1, CursorsRec
<1> DEFINE Q == {m \in 0..d : \A r \in P[m] : Good(r, m)}
<1>3. 0 \in Q
  <2>1. ASSUME NEW r \in P[0] PROVE Good(r, 0)
    <3>1. r \in Seq(Nat) /\ Len(r) = 0
      BY <1>2
    <3>2. PICK L, H : Way(d, T.root, 0, NoBound, r, CursorNodes(T, r), L, H)
      BY <1>1, WayExists
    <3> QED
      BY <3>1, <3>2
  <2> HIDE DEF Good
  <2> QED
    BY <1>1, <2>1
<1>4. ASSUME NEW m \in 0..(d - 1), m \in Q, NEW r \in P[m + 1] PROVE Good(r, m + 1)
  <2> DEFINE n == m + 1
  <2>1. n \in 1..d /\ n - 1 = m /\ n \in 0..d /\ m \in 0..d /\ m \in Nat /\ n \in Nat
    BY <1>1
  <2>2. PICK q \in P[m] : \E i \in DOMAIN CursorNodes(T, q)[n] : r = Append(q, i)
    BY <1>2, <2>1, SMTT(60)
  <2>3. Good(q, m)
    <3> HIDE DEF Good
    <3> QED
      BY <1>4
  <2>4. q \in Seq(Nat) /\ Len(q) = m
    BY <2>3
  <2>5. PICK N, L, H : /\ N = CursorNodes(T, q) /\ Way(d, T.root, 0, NoBound, q, N, L, H)
                       /\ \A l \in 1..m : q[l] \in DOMAIN N[l]
    BY <2>3
  <2>6. PICK i \in DOMAIN N[n] : r = Append(q, i)
    BY <2>2, <2>5
  <2> HIDE DEF n, Q
  <2>7. Interval(L[n], H[n]) /\ Divides(N[n], L[n], H[n])
    <3>1. \A l \in 1..(n - 1) : q[l] \in DOMAIN N[l]
      BY <2>1, <2>5
    <3> QED
      BY <2>1, <2>5, <3>1, LevelDivides
  <2>8. i \in Nat
    BY <2>7, Entries
  <2>9. r \in Seq(Nat) /\ Len(r) = n /\ r[n] = i /\ \A l \in 1..m : r[l] = q[l]
    BY <2>1, <2>4, <2>6, <2>8
  <2>10. PICK M : M = CursorNodes(T, r)
    OBVIOUS
  <2>11. PICK K, J : Way(d, T.root, 0, NoBound, r, M, K, J)
    BY <1>1, <2>10, WayExists
  <2>12. \A l \in 1..n : N[l] = M[l]
    <3>1. \A l \in 1..(m + 1) : N[l] = M[l] /\ L[l] = K[l] /\ H[l] = J[l]
      <4>1. \A l \in 1..m : q[l] = r[l]
        BY <2>9
      <4>2. d \in Nat
        BY <1>1
      <4> HIDE DEF d
      <4> QED
        BY <2>1, <2>5, <2>11, <4>1, <4>2, WaySame
    <3> QED
      BY <3>1 DEF n
  <2>13. ASSUME NEW l \in 1..n PROVE r[l] \in DOMAIN M[l]
    <3>1. CASE l = n
      BY <2>6, <2>9, <2>12, <3>1
    <3>2. CASE l # n
      <4>1. l \in 1..m
        BY <2>1, <3>2
      <4> QED
        BY <2>5, <2>9, <2>12, <4>1
    <3> QED
      BY <3>1, <3>2
  <2>14. Good(r, n)
    BY <2>9, <2>10, <2>11, <2>13
  <2> QED
    BY <2>14 DEF n
<1>5. 0..d \subseteq Q
  <2>1. ASSUME NEW m \in 0..(d - 1), m \in Q PROVE m + 1 \in Q
    <3> HIDE DEF Good
    <3>1. m + 1 \in 0..d
      BY <1>1
    <3> QED
      BY <1>4, <2>1, <3>1
  <2> HIDE DEF Q, d
  <2> QED
    BY <1>1, <1>3, <2>1, BoundedInduction
<1>6. Good(path, d)
  <2> HIDE DEF Good
  <2>1. d \in 0..d
    BY <1>1
  <2> QED
    BY <1>2, <1>5, <2>1
<1>7. PICK N, L, H : /\ N = CursorNodes(T, path) /\ Way(d, T.root, 0, NoBound, path, N, L, H)
                     /\ \A l \in 1..d : path[l] \in DOMAIN N[l]
  BY <1>6
<1> QED
  BY <1>6, <1>7 DEF At, Inside

(* first_key is where the interval of the leaf begins.                     *)
LEMMA FirstKey ==
  ASSUME NEW T, NEW S, Tree(T, S), NEW p, NEW s, At(T, p, s)
  PROVE  first_key(T, p) = s[1]
<1>1. PICK N : N = CursorNodes(T, p)
  OBVIOUS
<1>2. PICK d : d = T.depth
  OBVIOUS
<1>3. PICK L, H : Way(d, T.root, 0, NoBound, p, N, L, H) /\ s = <<L[d + 1], H[d + 1], N[d + 1]>>
  BY <1>1, <1>2 DEF At
<1>4. Inside(d, p, N) /\ d \in Nat \ {0}
  BY <1>1, <1>2 DEF At, Tree
<1>5. ASSUME NEW l \in 1..d PROVE p[l] \in Nat \ {0}
  <2>1. \A j \in 1..(l - 1) : p[j] \in DOMAIN N[j]
    BY <1>4 DEF Inside
  <2>2. Interval(L[l], H[l]) /\ Divides(N[l], L[l], H[l])
    BY <1>2, <1>3, <2>1, LevelDivides
  <2>3. p[l] \in DOMAIN N[l]
    BY <1>4 DEF Inside
  <2>4. DOMAIN N[l] = 1..Len(N[l])
    BY <2>2, Entries
  <2> QED
    BY <2>3, <2>4
<1>6. PICK R : R = {l \in 1..d : p[l] > 1}
  OBVIOUS
<1>7. PICK m : m = Deepest(R)
  OBVIOUS
<1>8. first_key(T, p) = IF R = {} THEN 0 ELSE N[m][p[m]].key
  BY <1>1, <1>2, <1>6, <1>7 DEF first_key, cursor_node
<1>9. CASE R = {}
  <2>1. \A l \in (0 + 1)..d : p[l] = 1
    <3>1. ASSUME NEW l \in (0 + 1)..d PROVE p[l] = 1
      <4>1. l \in 1..d /\ ~(p[l] > 1)
        BY <1>6, <1>9
      <4> QED
        BY <1>5, <4>1
    <3> QED
      BY <3>1
  <2>2. L[d + 1] = L[0 + 1]
    <3>1. 0 \in 0..d /\ d \in Nat
      BY <1>4
    <3> QED
      BY <1>3, <2>1, <3>1, EndsTogether
  <2>3. L[0 + 1] = 0
    BY <1>3 DEF Way
  <2> QED
    BY <1>3, <1>8, <1>9, <2>2, <2>3
<1>10. CASE R # {}
  <2>1. m \in R /\ \A l \in R : l <= m
    BY <1>4, <1>6, <1>7, <1>10, DeepestIs
  <2>2. m \in 1..d /\ p[m] # 1
    BY <1>6, <2>1
  <2>3. ASSUME NEW l \in (m + 1)..d PROVE p[l] = 1
    <3>1. l \in 1..d /\ ~(l <= m)
      BY <1>4, <2>2
    <3>2. ~(p[l] > 1)
      BY <1>6, <2>1, <3>1
    <3> QED
      BY <1>5, <3>1, <3>2
  <2>4. L[d + 1] = L[m + 1]
    <3>1. m \in 0..d /\ d \in Nat
      BY <1>4, <2>2
    <3> QED
      BY <1>3, <2>3, <3>1, EndsTogether
  <2>5. L[m + 1] = From(N[m], p[m], L[m])
    BY <1>3, <2>2 DEF Way
  <2> QED
    BY <1>3, <1>8, <1>10, <2>2, <2>4, <2>5 DEF From
<1> QED
  BY <1>9, <1>10

(* What there is to say of the leaf of a cursor.                           *)
LEMMA CursorHolds ==
  ASSUME IInv, NEW path \in Cursors(itable), NEW leaf, leaf = cursor_leaf(itable, path)
  PROVE  \E s : /\ Holds(s, Kept) /\ leaf = s[3] /\ first_key(itable, path) = s[1]
                /\ \A none : /\ s[2] = NoBound => next_key(itable, path, itable.depth, none) = none
                             /\ s[2] # NoBound => next_key(itable, path, itable.depth, none) = s[2]
<1>1. has_root(itable)
  BY DEF Cursors
<1>2. PICK S : Tree(itable, S) /\ \A s \in S : Holds(s, Kept)
  BY <1>1 DEF IInv, Table, Leaves, has_root
<1>3. PICK s : At(itable, path, s)
  BY <1>1, <1>2, CursorsAt
<1>4. s \in S /\ leaf = s[3]
  BY <1>2, <1>3, AtLeaf
<1>5. first_key(itable, path) = s[1]
  BY <1>2, <1>3, FirstKey
<1>6. ASSUME NEW none
      PROVE  /\ s[2] = NoBound => next_key(itable, path, itable.depth, none) = none
             /\ s[2] # NoBound => next_key(itable, path, itable.depth, none) = s[2]
  BY <1>2, <1>3, NextKey
<1> QED
  BY <1>2, <1>4, <1>5, <1>6

(***************************************************************************)
(* The types; and no leaf of the inode table has more inodes than its      *)
(* range, or more attributes and dictionary than its space, as             *)
(* ileaf_resize makes sure.                                                *)
(***************************************************************************)
THEOREM TypeCorrect == Spec => []TypeOK
<1>1. IInv => TypeOK
  <2> SUFFICES ASSUME IInv PROVE TypeOK
    OBVIOUS
  <2>1. ASSUME NEW path \in Cursors(itable), NEW leaf, leaf = cursor_leaf(itable, path)
        PROVE  leaf.ibase \in Inums /\ icount(leaf) <= entries_per_leaf /\ ileaf_free(leaf) >= 0
    <3>1. PICK s : Holds(s, Kept) /\ leaf = s[3]
      BY <2>1, CursorHolds
    <3>2. /\ IsLeaf(leaf) /\ leaf.ibase \in Inums /\ icount(leaf) <= entries_per_leaf
          /\ ileaf_need(leaf) <= LeafRoom
      BY <3>1 DEF Holds, Held
    <3>3. ileaf_need(leaf) \in Nat /\ LeafRoom \in Nat
      BY <3>2, NeedIs, IleafAssumption
    <3> QED
      BY <3>2, <3>3 DEF ileaf_free
  <2> QED
    BY <2>1 DEF IInv, Numbers1, TypeOK
<1> QED
  BY <1>1, Invariance, PTL

(***************************************************************************)
(* Whichever way the nodes above are split, a leaf has the base that       *)
(* searches go by and ends before the next: the base that ileaf_split      *)
(* chooses is not in the range of the leaf that it splits.                 *)
(***************************************************************************)
THEOREM LeavesCorrect == Spec => []LeavesInOrder
<1>1. IInv => LeavesInOrder
  <2> SUFFICES ASSUME IInv, NEW path \in Cursors(itable), NEW leaf, leaf = cursor_leaf(itable, path),
                      NEW end, end = leaf.ibase + icount(leaf)
               PROVE  /\ leaf.ibase = first_key(itable, path)
                      /\ end <= next_key(itable, path, itable.depth, end)
    BY DEF LeavesInOrder
  <2>1. PICK s : /\ Holds(s, Kept) /\ leaf = s[3] /\ first_key(itable, path) = s[1]
                 /\ s[2] = NoBound => next_key(itable, path, itable.depth, end) = end
                 /\ s[2] # NoBound => next_key(itable, path, itable.depth, end) = s[2]
    BY CursorHolds
  <2>2. /\ IsLeaf(leaf) /\ leaf.ibase = s[1] /\ (s[2] # NoBound => s[1] + icount(leaf) <= s[2])
    BY <2>1 DEF Holds, Held
  <2>3. end \in Nat
    <3>1. icount(leaf) \in Nat /\ leaf.ibase \in Nat
      BY <2>2, Lookups
    <3> QED
      BY <3>1
  <2> QED
    BY <2>1, <2>2, <2>3
<1> QED
  BY <1>1, Invariance, PTL
=============================================================================
