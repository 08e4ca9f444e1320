----------------------------- MODULE DirProofs -----------------------------
(***************************************************************************)
(* What the entry operations of a directory do to its blocks, for any      *)
(* block size, any names and any sequence of records: they keep the        *)
(* records in a row, and they change the one entry they are called for.    *)
(***************************************************************************)
EXTENDS Dir, Numbers, FiniteSetTheorems

(* Types.  The inode numbers of entries are any set.                       *)
Records(Inum) == [name : Name \cup {NoName}, inum : Inum, rec_len : Nat]

DirBlocks(Inum) == UNION {[D -> Records(Inum)] : D \in SUBSET (0..(BlockSize - 1))}

Dirs(Inum) == Seq(DirBlocks(Inum))

(* The first part of WellFormed, for one block.                            *)
Tiled(block) ==
  /\ {0} \cup {o + block[o].rec_len : o \in DOMAIN block} = DOMAIN block \cup {BlockSize}
  /\ \A o \in DOMAIN block :
       /\ block[o].rec_len >= TUX_REC_LEN(block[o].name)
       /\ \A p \in DOMAIN block : p > o => p >= o + block[o].rec_len

-----------------------------------------------------------------------------
(* A record has space for its header at least.                             *)
LEMMA RecLen ==
  ASSUME NEW name \in Name \cup {NoName}
  PROVE  /\ TUX_REC_LEN(name) \in Nat /\ TUX_REC_LEN(name) >= 16
         /\ TUX_REC_LEN(NoName) = 16
<1> DEFINE len == IF name = NoName THEN 0 ELSE NameLen[name]
<1>1. len \in 0..255
  BY DirAssumption
<1>2. TUX_REC_LEN(name) = ((len + 12 + 7) \div 8) * 8
  BY DEF TUX_REC_LEN, TUX_DIR_HEAD
<1>3. TUX_REC_LEN(NoName) = ((0 + 12 + 7) \div 8) * 8
  BY DEF TUX_REC_LEN, TUX_DIR_HEAD
<1> HIDE DEF len
<1>4. ((len + 12 + 7) \div 8) * 8 \in Nat /\ ((len + 12 + 7) \div 8) * 8 >= 16
  BY <1>1
<1> QED
  BY <1>2, <1>3, <1>4

(* The offsets and the records of a block have their types.                *)
LEMMA BlockType ==
  ASSUME NEW Inum, NEW block \in DirBlocks(Inum), NEW o \in DOMAIN block
  PROVE  /\ o \in 0..(BlockSize - 1) /\ o \in Nat /\ block[o] \in Records(Inum)
         /\ block[o].name \in Name \cup {NoName} /\ block[o].rec_len \in Nat
         /\ block[o].inum \in Inum
<1>1. PICK D \in SUBSET (0..(BlockSize - 1)) : block \in [D -> Records(Inum)]
  BY DEF DirBlocks
<1>2. o \in 0..(BlockSize - 1) /\ block[o] \in Records(Inum)
  BY <1>1
<1>3. o \in Nat
  BY <1>2, DirAssumption
<1> QED
  BY <1>2, <1>3 DEF Records

(* In a block whose records follow each other: it starts with a record,    *)
(* every record ends where the next one starts or where the block ends.    *)
LEMMA TiledFacts ==
  ASSUME NEW Inum, NEW block \in DirBlocks(Inum), Tiled(block), NEW o \in DOMAIN block
  PROVE  /\ block[o].rec_len >= 16 /\ block[o].rec_len >= TUX_REC_LEN(block[o].name)
         /\ o + block[o].rec_len \in DOMAIN block \cup {BlockSize}
         /\ o + block[o].rec_len <= BlockSize
         /\ 0 \in DOMAIN block
<1>1. o \in 0..(BlockSize - 1) /\ o \in Nat /\ block[o].rec_len \in Nat /\ block[o].name \in Name \cup {NoName}
  BY BlockType
<1>2. block[o].rec_len >= TUX_REC_LEN(block[o].name)
  BY DEF Tiled
<1>3. TUX_REC_LEN(block[o].name) \in Nat /\ TUX_REC_LEN(block[o].name) >= 16
  BY <1>1, RecLen
<1>4. o + block[o].rec_len \in DOMAIN block \cup {BlockSize}
  BY DEF Tiled
<1>5. \A p \in DOMAIN block : p \in 0..(BlockSize - 1)
  BY BlockType
<1>6. BlockSize \in Nat
  BY DirAssumption
<1>7. 0 \in DOMAIN block
  <2>1. 0 # BlockSize
    BY <1>1, <1>6
  <2> QED
    BY <2>1 DEF Tiled
<1> QED
  BY <1>1, <1>2, <1>3, <1>4, <1>5, <1>6, <1>7

-----------------------------------------------------------------------------
(* One block before and after.  PutIn is what tux_create_entry makes of    *)
(* the block, at the record with room; TakeOut what tux_delete_entry does. *)
UsedIn(block, o) == IF is_deleted(block[o]) THEN 0 ELSE TUX_REC_LEN(block[o].name)

PutIn(block, o, name, inum) ==
  With(With(block, o, [block[o] EXCEPT !.rec_len = UsedIn(block, o)]),
       o + UsedIn(block, o), Record(name, inum, block[o].rec_len - UsedIn(block, o)))

TakeOut(block, o) ==
  LET before == {p \in DOMAIN block : p + block[p].rec_len = o}
      prev   == CHOOSE p \in before : TRUE
  IN  IF o = 0 THEN With(block, 0, Record(NoName, 0, block[0].rec_len))
      ELSE [p \in DOMAIN block \ {o} |->
              IF p = prev THEN [block[p] EXCEPT !.rec_len = @ + block[o].rec_len]
              ELSE block[p]]

(* The records with a name.                                                *)
Live(block) == {p \in DOMAIN block : ~is_deleted(block[p])}

SameEntry(r, s) == r.name = s.name /\ r.inum = s.inum

(* With an entry put in, the records still follow each other, the new one  *)
(* is where tux_create_entry says and the others are as they were.         *)
LEMMA PutInBlock ==
  ASSUME NEW Inum, NEW block \in DirBlocks(Inum), Tiled(block), NEW o \in DOMAIN block,
         NEW name \in Name, NEW inum \in Inum, HasRoom(block[o], name),
         NEW new, new = PutIn(block, o, name, inum), NEW s, s = o + UsedIn(block, o)
  PROVE  /\ new \in DirBlocks(Inum) /\ Tiled(new)
         /\ s \in Live(new) /\ new[s].name = name /\ new[s].inum = inum
         /\ s \notin Live(block) /\ Live(new) = Live(block) \cup {s}
         /\ \A p \in Live(block) : SameEntry(new[p], block[p])
<1> DEFINE host == block[o]
           u == UsedIn(block, o)
           D == DOMAIN block \cup {s}
           len == host.rec_len
           NL == TUX_REC_LEN(name)
<1>1. /\ o \in 0..(BlockSize - 1) /\ o \in Nat /\ host \in Records(Inum)
      /\ host.name \in Name \cup {NoName} /\ len \in Nat
      /\ len >= 16 /\ len >= TUX_REC_LEN(host.name)
      /\ o + len \in DOMAIN block \cup {BlockSize} /\ o + len <= BlockSize
  BY BlockType, TiledFacts
<1>2. NL \in Nat /\ NL >= 16
  BY RecLen
<1>3. /\ u \in Nat /\ len >= u + NL
      /\ u = 0 <=> is_deleted(host)
      /\ u # 0 => u >= 16 /\ u = TUX_REC_LEN(host.name)
  <2>1. TUX_REC_LEN(host.name) \in Nat /\ TUX_REC_LEN(host.name) >= 16
    BY <1>1, RecLen
  <2> QED
    BY <1>1, <1>2, <2>1 DEF UsedIn, HasRoom
<1>4. s = o + u /\ s \in Nat /\ s < o + len /\ s \in 0..(BlockSize - 1) /\ BlockSize \in Nat
  BY <1>1, <1>2, <1>3, DirAssumption
<1>5. /\ new = [p \in D |-> new[p]] /\ DOMAIN new = D
      /\ \A p \in DOMAIN block : p # o /\ p # s => new[p] = block[p]
      /\ new[s] = Record(name, inum, len - u)
      /\ s # o => new[o] = [host EXCEPT !.rec_len = u]
  BY DEF PutIn, With
<1>6. /\ new[s].name = name /\ new[s].inum = inum /\ new[s].rec_len = len - u
      /\ new[s] \in Records(Inum)
  <2>1. len - u \in Nat
    BY <1>1, <1>2, <1>3
  <2> QED
    BY <1>5, <2>1 DEF Record, Records
<1>7. s # o => /\ new[o].name = host.name /\ new[o].inum = host.inum /\ new[o].rec_len = u
               /\ new[o] \in Records(Inum)
  <2> SUFFICES ASSUME s # o PROVE /\ new[o].name = host.name /\ new[o].inum = host.inum
                                  /\ new[o].rec_len = u /\ new[o] \in Records(Inum)
    OBVIOUS
  <2>1. new[o] = [host EXCEPT !.rec_len = u] /\ host \in Records(Inum) /\ u \in Nat
    BY <1>1, <1>3, <1>5
  <2> HIDE DEF host, u
  <2> QED
    BY <2>1 DEF Records
<1>8. s = o <=> is_deleted(host)
  BY <1>1, <1>3, <1>4
<1>9. s # o => s \notin DOMAIN block
  <2> SUFFICES ASSUME s # o, s \in DOMAIN block PROVE FALSE
    OBVIOUS
  <2>1. s > o
    BY <1>1, <1>3, <1>4
  <2>2. s >= o + len
    BY <2>1 DEF Tiled
  <2> QED
    BY <1>1, <1>4, <2>2
<1>10. new \in DirBlocks(Inum)
  <2>1. \A p \in DOMAIN block : p \in 0..(BlockSize - 1) /\ block[p] \in Records(Inum)
    BY BlockType
  <2>2. D \in SUBSET (0..(BlockSize - 1))
    BY <1>4, <2>1
  <2>3. \A p \in D : new[p] \in Records(Inum)
    BY <1>5, <1>6, <1>7, <2>1
  <2> HIDE DEF D
  <2>4. new \in [D -> Records(Inum)]
    BY <1>5, <2>3
  <2> QED
    BY <2>2, <2>4 DEF DirBlocks
<1> HIDE DEF host, u, len, NL
<1>11. Tiled(new)
  <2>1. \A p \in DOMAIN block : p \in Nat /\ block[p].rec_len \in Nat
    BY BlockType
  <2>2. {p + new[p].rec_len : p \in D} = {p + block[p].rec_len : p \in DOMAIN block} \cup (D \ DOMAIN block)
    <3>1. CASE s = o
      <4>a. u = 0
        BY <3>1, <1>1, <1>3, <1>4
      <4>1. u = 0 /\ D = DOMAIN block
        BY <3>1, <4>a DEF D
      <4>2. \A p \in D : new[p].rec_len = block[p].rec_len
        BY <3>1, <4>1, <1>1, <1>5, <1>6 DEF D, len, host
      <4> QED
        BY <4>1, <4>2
    <3>2. CASE s # o
      <4>1. D = DOMAIN block \cup {s} /\ s \notin DOMAIN block /\ D \ DOMAIN block = {s}
        BY <3>2, <1>9 DEF D
      <4>2. o + new[o].rec_len = s /\ s + new[s].rec_len = o + block[o].rec_len
        BY <3>2, <1>1, <1>3, <1>4, <1>6, <1>7 DEF len, host
      <4>3. \A p \in DOMAIN block : p # o => new[p].rec_len = block[p].rec_len
        BY <4>1, <1>5
      <4> QED
        BY <4>1, <4>2, <4>3
    <3> QED
      BY <3>1, <3>2
  <2>3. {0} \cup {p + new[p].rec_len : p \in DOMAIN new} = DOMAIN new \cup {BlockSize}
    <3>1. {0} \cup {p + block[p].rec_len : p \in DOMAIN block} = DOMAIN block \cup {BlockSize}
      BY DEF Tiled
    <3>2. DOMAIN block \subseteq D
      BY DEF D
    <3> QED
      BY <1>5, <2>2, <3>1, <3>2
  <2>4. ASSUME NEW p \in DOMAIN new
        PROVE  new[p].rec_len >= TUX_REC_LEN(new[p].name)
    <3>1. CASE p = s
      BY <3>1, <1>1, <1>2, <1>3, <1>6 DEF NL
    <3>2. CASE p # s /\ p = o
      <4>1. u # 0
        BY <3>2, <1>1, <1>4
      <4>2. TUX_REC_LEN(host.name) = u /\ u \in Nat
        BY <4>1, <1>3
      <4>3. new[p].name = host.name /\ new[p].rec_len = u
        BY <3>2, <1>7
      <4> QED
        BY <4>2, <4>3
    <3>3. CASE p # s /\ p # o
      BY <3>3, <1>5 DEF Tiled, D
    <3> QED
      BY <3>1, <3>2, <3>3
  <2>5. ASSUME NEW p \in DOMAIN new, NEW q \in DOMAIN new, q > p
        PROVE  q >= p + new[p].rec_len
    <3>1. p \in Nat /\ q \in Nat
      BY <1>4, <1>5, <2>1 DEF D
    <3>2. CASE p = s
      <4>1. q > o /\ q # s /\ q # o
        BY <3>1, <3>2, <1>1, <1>3, <1>4, <2>5
      <4>2. q \in DOMAIN block
        BY <4>1, <1>5 DEF D
      <4>3. q >= o + len
        BY <4>1, <4>2 DEF Tiled, len, host
      <4> QED
        BY <3>1, <3>2, <4>3, <1>1, <1>3, <1>4, <1>6
    <3>3. CASE p # s /\ p = o
      <4>1. CASE q = s
        BY <3>3, <4>1, <1>1, <1>3, <1>4, <1>7
      <4>2. CASE q # s
        <5>1. q \in DOMAIN block
          BY <4>2, <1>5 DEF D
        <5>2. q >= o + len
          BY <3>3, <5>1, <2>5 DEF Tiled, len, host
        <5> QED
          BY <3>1, <3>3, <5>2, <1>1, <1>2, <1>3, <1>7
      <4> QED
        BY <4>1, <4>2
    <3>4. CASE p # s /\ p # o
      <4>1. p \in DOMAIN block /\ new[p] = block[p] /\ block[p].rec_len \in Nat
        BY <3>4, <1>5, <2>1 DEF D
      <4>2. CASE q \in DOMAIN block
        BY <4>1, <4>2, <2>5 DEF Tiled
      <4>3. CASE q \notin DOMAIN block
        <5>1. q = s /\ s # o
          BY <4>3, <1>5 DEF D
        <5>2. p <= o
          <6> SUFFICES ASSUME p > o PROVE FALSE
            BY <3>1, <1>1
          <6>1. p >= o + len
            BY <4>1 DEF Tiled, len, host
          <6> QED
            BY <3>1, <5>1, <6>1, <1>1, <1>4, <2>5
        <5>3. o > p
          BY <3>1, <3>4, <5>2, <1>1
        <5>4. o >= p + block[p].rec_len
          BY <4>1, <5>3 DEF Tiled
        <5> QED
          BY <3>1, <4>1, <5>1, <5>4, <1>1, <1>3, <1>4
      <4> QED
        BY <4>2, <4>3
    <3> QED
      BY <3>2, <3>3, <3>4
  <2> QED
    BY <2>3, <2>4, <2>5 DEF Tiled
<1>12. name # NoName
  BY DirAssumption
<1>13. s \in Live(new)
  BY <1>5, <1>6, <1>12 DEF Live, D, is_deleted
<1>14. s \notin Live(block)
  BY <1>8, <1>9 DEF Live, host
<1>15. \A p \in Live(block) : p \in DOMAIN block /\ p # s /\ SameEntry(new[p], block[p])
  BY <1>5, <1>7, <1>14 DEF Live, SameEntry, host
<1>16. \A p \in DOMAIN block : p # s => new[p].name = block[p].name
  BY <1>5, <1>7 DEF host
<1>17. Live(new) = Live(block) \cup {s}
  BY <1>5, <1>13, <1>14, <1>15, <1>16 DEF Live, D, is_deleted
<1> QED
  BY <1>6, <1>10, <1>11, <1>13, <1>14, <1>15, <1>17

(* With an entry taken out, the records still follow each other, and the   *)
(* others are as they were.                                                *)
LEMMA TakeOutOfBlock ==
  ASSUME NEW Inum, 0 \in Inum, NEW block \in DirBlocks(Inum), Tiled(block), NEW o \in DOMAIN block,
         NEW new, new = TakeOut(block, o)
  PROVE  /\ new \in DirBlocks(Inum) /\ Tiled(new)
         /\ Live(new) = Live(block) \ {o}
         /\ \A p \in Live(block) \ {o} : SameEntry(new[p], block[p])
<1> DEFINE len == block[o].rec_len
<1>1. /\ o \in 0..(BlockSize - 1) /\ o \in Nat /\ BlockSize \in Nat
      /\ len \in Nat /\ len >= 16 /\ o + len \in DOMAIN block \cup {BlockSize}
      /\ o + len <= BlockSize /\ 0 \in DOMAIN block
      /\ len >= TUX_REC_LEN(block[o].name)
  BY BlockType, TiledFacts, DirAssumption
<1>2. \A p \in DOMAIN block :
        /\ p \in Nat /\ p \in 0..(BlockSize - 1) /\ block[p] \in Records(Inum)
        /\ block[p].rec_len \in Nat /\ block[p].rec_len >= 16
        /\ block[p].name \in Name \cup {NoName}
  BY BlockType, TiledFacts
<1>3. /\ {0} \cup {p + block[p].rec_len : p \in DOMAIN block} = DOMAIN block \cup {BlockSize}
      /\ \A p \in DOMAIN block :
           /\ block[p].rec_len >= TUX_REC_LEN(block[p].name)
           /\ \A q \in DOMAIN block : q > p => q >= p + block[p].rec_len
  BY DEF Tiled
<1>4. CASE o = 0
  <2>1. /\ new = [p \in DOMAIN block |-> new[p]] /\ DOMAIN new = DOMAIN block
        /\ \A p \in DOMAIN block : p # o => new[p] = block[p]
        /\ new[o] = Record(NoName, 0, len)
    BY <1>4 DEF TakeOut, With
  <2>2. /\ new[o] \in Records(Inum) /\ new[o].rec_len = len /\ new[o].name = NoName
    BY <1>1, <2>1 DEF Record, Records
  <2>3. \A p \in DOMAIN block : new[p] \in Records(Inum) /\ new[p].rec_len = block[p].rec_len
    BY <1>2, <2>1, <2>2
  <2>4. new \in DirBlocks(Inum)
    <3>1. new \in [DOMAIN block -> Records(Inum)]
      BY <2>1, <2>3
    <3>2. DOMAIN block \in SUBSET (0..(BlockSize - 1))
      BY <1>2
    <3> QED
      BY <3>1, <3>2 DEF DirBlocks
  <2>5. TUX_REC_LEN(NoName) = 16
    BY RecLen
  <2>6. Tiled(new)
    <3>1. {p + new[p].rec_len : p \in DOMAIN new} = {p + block[p].rec_len : p \in DOMAIN block}
      BY <2>1, <2>3
    <3>2. \A p \in DOMAIN new : new[p].rec_len >= TUX_REC_LEN(new[p].name)
      BY <1>1, <1>3, <2>1, <2>2, <2>5
    <3>3. \A p, q \in DOMAIN new : q > p => q >= p + new[p].rec_len
      BY <1>3, <2>1, <2>3
    <3> QED
      BY <1>3, <2>1, <3>1, <3>2, <3>3 DEF Tiled
  <2>7. Live(new) = Live(block) \ {o}
    BY <2>1, <2>2 DEF Live, is_deleted
  <2>8. \A p \in Live(block) \ {o} : SameEntry(new[p], block[p])
    BY <2>1 DEF Live, SameEntry
  <2> QED
    BY <2>4, <2>6, <2>7, <2>8
<1>5. CASE o # 0
  <2> DEFINE before == {p \in DOMAIN block : p + block[p].rec_len = o}
             prev == CHOOSE p \in before : TRUE
             D == DOMAIN block \ {o}
             plen == block[prev].rec_len
  <2>1. prev \in DOMAIN block /\ prev + plen = o
    <3>1. o \in {p + block[p].rec_len : p \in DOMAIN block}
      BY <1>3, <1>5
    <3>2. before # {}
      BY <3>1
    <3> QED
      BY <3>2
  <2>2. /\ new = [p \in D |-> new[p]] /\ DOMAIN new = D
        /\ \A p \in D : p # prev => new[p] = block[p]
        /\ prev \in D => new[prev] = [block[prev] EXCEPT !.rec_len = @ + len]
    BY <1>5 DEF TakeOut
  <2> HIDE DEF prev, before
  <2>3. prev \in Nat /\ plen \in Nat /\ plen >= 16 /\ block[prev] \in Records(Inum)
    BY <1>2, <2>1
  <2>4. prev \in D /\ prev < o
    BY <1>1, <2>1, <2>3
  <2>5. /\ new[prev] \in Records(Inum) /\ new[prev].rec_len = plen + len
        /\ new[prev].name = block[prev].name /\ new[prev].inum = block[prev].inum
    <3> DEFINE r == block[prev]
    <3>1. new[prev] = [r EXCEPT !.rec_len = r.rec_len + len]
      BY <2>2, <2>4
    <3>2. r \in Records(Inum) /\ r.rec_len + len \in Nat
      BY <1>1, <2>3
    <3>3. plen = r.rec_len
      OBVIOUS
    <3> HIDE DEF r
    <3> QED
      BY <3>1, <3>2, <3>3 DEF r, Records
  <2> HIDE DEF plen
  <2>6. new \in DirBlocks(Inum)
    <3>1. \A p \in D : new[p] \in Records(Inum)
      BY <1>2, <2>2, <2>5
    <3>2. D \in SUBSET (0..(BlockSize - 1))
      BY <1>2
    <3> HIDE DEF D
    <3>3. new \in [D -> Records(Inum)]
      BY <2>2, <3>1
    <3> QED
      BY <3>2, <3>3 DEF DirBlocks
  <2>7. \A p \in DOMAIN block : p # prev => p + block[p].rec_len # o
    <3> SUFFICES ASSUME NEW p \in DOMAIN block, p # prev, p + block[p].rec_len = o PROVE FALSE
      OBVIOUS
    <3>1. p \in Nat /\ block[p].rec_len \in Nat /\ block[p].rec_len >= 16
      BY <1>2
    <3>2. p < prev \/ prev < p
      BY <2>3, <3>1
    <3>3. CASE p < prev
      <4>1. prev >= p + block[p].rec_len
        BY <1>3, <2>1, <3>3
      <4> QED
        BY <1>1, <2>3, <2>4, <3>1, <4>1
    <3>4. CASE prev < p
      <4>1. p >= prev + plen
        BY <1>3, <2>1, <3>4 DEF plen
      <4> QED
        BY <1>1, <2>1, <3>1, <4>1
    <3> QED
      BY <3>2, <3>3, <3>4
  <2>8. {p + new[p].rec_len : p \in D} = {p + block[p].rec_len : p \in DOMAIN block} \ {o}
    <3>1. prev + new[prev].rec_len = o + len /\ o + len # o
      BY <1>1, <2>1, <2>3, <2>5
    <3>2. \A p \in D : p # prev => p + new[p].rec_len = p + block[p].rec_len
      BY <2>2
    <3>3. prev + block[prev].rec_len = o
      BY <2>1 DEF plen
    <3>4. ASSUME NEW x, x \in {p + new[p].rec_len : p \in D}
          PROVE  x \in {p + block[p].rec_len : p \in DOMAIN block} \ {o}
      <4>1. PICK p \in D : x = p + new[p].rec_len
        BY <3>4
      <4>2. CASE p = prev
        BY <3>1, <4>1, <4>2
      <4>3. CASE p # prev
        BY <2>7, <3>2, <4>1, <4>3
      <4> QED
        BY <4>2, <4>3
    <3>5. ASSUME NEW x, x \in {p + block[p].rec_len : p \in DOMAIN block} \ {o}
          PROVE  x \in {p + new[p].rec_len : p \in D}
      <4>1. PICK p \in DOMAIN block : x = p + block[p].rec_len /\ x # o
        BY <3>5
      <4>2. p # prev
        BY <3>3, <4>1
      <4>3. CASE p = o
        BY <2>4, <3>1, <4>1, <4>3
      <4>4. CASE p # o
        BY <3>2, <4>1, <4>2, <4>4
      <4> QED
        BY <4>3, <4>4
    <3> QED
      BY <3>4, <3>5
  <2>9. Tiled(new)
    <3>1. {0} \cup {p + new[p].rec_len : p \in DOMAIN new} = DOMAIN new \cup {BlockSize}
      <4>1. o # BlockSize /\ o # 0
        BY <1>1, <1>5
      <4> QED
        BY <1>3, <2>2, <2>8, <4>1
    <3>2. ASSUME NEW p \in D PROVE new[p].rec_len >= TUX_REC_LEN(new[p].name)
      <4>1. CASE p = prev
        <5>1. plen >= TUX_REC_LEN(block[prev].name)
          BY <1>3, <2>1 DEF plen
        <5>2. TUX_REC_LEN(block[prev].name) \in Nat
          BY <1>2, <2>1, RecLen
        <5> QED
          BY <1>1, <2>3, <2>5, <4>1, <5>1, <5>2
      <4>2. CASE p # prev
        BY <1>3, <2>2, <4>2
      <4> QED
        BY <4>1, <4>2
    <3>3. ASSUME NEW p \in D, NEW q \in D, q > p PROVE q >= p + new[p].rec_len
      <4>1. CASE p = prev
        <5>1. q \in Nat /\ q >= o /\ q # o
          BY <1>2, <1>3, <2>1, <3>3, <4>1 DEF plen
        <5>2. q >= o + len
          BY <1>1, <1>3, <5>1
        <5> QED
          BY <1>1, <2>1, <2>3, <2>5, <4>1, <5>1, <5>2
      <4>2. CASE p # prev
        BY <1>3, <2>2, <3>3, <4>2
      <4> QED
        BY <4>1, <4>2
    <3> QED
      BY <2>2, <3>1, <3>2, <3>3 DEF Tiled
  <2>10. \A p \in D : SameEntry(new[p], block[p])
    BY <2>2, <2>5 DEF SameEntry
  <2>11. Live(new) = Live(block) \ {o}
    BY <2>2, <2>10 DEF Live, is_deleted, SameEntry
  <2> QED
    BY <2>6, <2>9, <2>10, <2>11 DEF Live
<1> QED
  BY <1>4, <1>5

-----------------------------------------------------------------------------
(* A directory and the positions of its entries.                           *)
At(dir, at) == dir[at[1]][at[2]]

Entries(dir) == {at \in UNION {{b} \X DOMAIN dir[b] : b \in DOMAIN dir} : ~is_deleted(At(dir, at))}

AllTiled(dir) == \A b \in DOMAIN dir : Tiled(dir[b])

OneEach(dir) == \A at, other \in Entries(dir) : At(dir, at).name = At(dir, other).name => at = other

(* A position, by its block and its offset.                                *)
LEMMA EntryAt ==
  ASSUME NEW dir, NEW b, NEW o
  PROVE  <<b, o>> \in Entries(dir) <=> b \in DOMAIN dir /\ o \in Live(dir[b])
BY DEF Entries, At, Live

(* Every entry has its position.                                           *)
LEMMA EntryIs ==
  ASSUME NEW dir, NEW at \in Entries(dir)
  PROVE  /\ at = <<at[1], at[2]>> /\ at[1] \in DOMAIN dir /\ at[2] \in Live(dir[at[1]])
         /\ at[2] \in DOMAIN dir[at[1]]
BY DEF Entries, At, Live

(* Blocks of a directory.                                                  *)
LEMMA DirBlock ==
  ASSUME NEW Inum, NEW dir \in Dirs(Inum), NEW b \in DOMAIN dir
  PROVE  dir[b] \in DirBlocks(Inum) /\ b \in 1..Len(dir) /\ b \in Nat /\ Len(dir) \in Nat
BY DEF Dirs

(* A lookup finds the entries with the name: where it stops looking in a   *)
(* block no record for the name has space.                                 *)
LEMMA MatchesAre ==
  ASSUME NEW Inum, NEW dir \in Dirs(Inum), AllTiled(dir), NEW name \in Name
  PROVE  Matches(dir, name) = {at \in Entries(dir) : At(dir, at).name = name}
<1> DEFINE P == UNION {{b} \X DOMAIN dir[b] : b \in DOMAIN dir}
<1>1. Matches(dir, name) = {at \in P : at[2] <= BlockSize - TUX_REC_LEN(name) /\ At(dir, at).name = name}
  BY DEF Matches, Places, At
<1>2. Entries(dir) = {at \in P : ~is_deleted(At(dir, at))}
  BY DEF Entries
<1>3. ASSUME NEW at \in P, At(dir, at).name = name
      PROVE  at[2] <= BlockSize - TUX_REC_LEN(name) /\ ~is_deleted(At(dir, at))
  <2>1. PICK b \in DOMAIN dir : at \in {b} \X DOMAIN dir[b]
    OBVIOUS
  <2>2. at[1] = b /\ at[2] \in DOMAIN dir[b]
    BY <2>1
  <2>3. dir[b] \in DirBlocks(Inum) /\ Tiled(dir[b])
    BY <2>1, DirBlock DEF AllTiled
  <2> DEFINE o == at[2]
             block == dir[b]
  <2>4. block[o].name = name
    BY <1>3, <2>2 DEF At
  <2>5. block \in DirBlocks(Inum) /\ Tiled(block) /\ o \in DOMAIN block
    BY <2>2, <2>3
  <2> HIDE DEF block, o
  <2>6. /\ block[o].rec_len >= TUX_REC_LEN(block[o].name) /\ o + block[o].rec_len <= BlockSize
        /\ o \in Nat /\ block[o].rec_len \in Nat
    BY <2>5, TiledFacts, BlockType
  <2>7. TUX_REC_LEN(name) \in Nat /\ BlockSize \in Nat /\ name # NoName
    BY RecLen, DirAssumption
  <2>8. o <= BlockSize - TUX_REC_LEN(name)
    BY <2>4, <2>6, <2>7
  <2> QED
    BY <1>3, <2>7, <2>8 DEF o, is_deleted
<1> HIDE DEF P
<1> QED
  BY <1>1, <1>2, <1>3

(* No other position is before this one.                                   *)
IsFirst(at, S) == \A other \in S : at[1] < other[1] \/ (at[1] = other[1] /\ at[2] <= other[2])

(* The walk along the blocks finds a first one, if there is one.           *)
LEMMA ForemostIn ==
  ASSUME NEW S, S # {}, S \subseteq Nat \X Nat
  PROVE  Foremost(S) \in S /\ IsFirst(Foremost(S), S)
<1> DEFINE B == {at[1] : at \in S}
<1>1. B \subseteq Nat /\ B # {}
  OBVIOUS
<1>2. PICK b \in B : \A c \in B : b <= c
  BY <1>1, LeastNat
<1> DEFINE O == {at[2] : at \in {at \in S : at[1] = b}}
<1>3. O \subseteq Nat /\ O # {}
  BY <1>2
<1>4. PICK o \in O : \A c \in O : o <= c
  BY <1>3, LeastNat
<1>5. PICK at \in S : at[1] = b /\ at[2] = o
  BY <1>4
<1>6. ASSUME NEW other \in S
      PROVE  at[1] < other[1] \/ (at[1] = other[1] /\ at[2] <= other[2])
  <2>1. other[1] \in B /\ other[1] \in Nat /\ other[2] \in Nat /\ b \in Nat
    BY <1>1
  <2>2. CASE other[1] = b
    <3>1. other[2] \in O
      BY <2>2
    <3> QED
      BY <1>4, <1>5, <2>2, <3>1
  <2>3. CASE other[1] # b
    BY <1>2, <1>5, <2>1, <2>3
  <2> QED
    BY <2>2, <2>3
<1> QED
  BY <1>6 DEF Foremost, IsFirst

(* A set with at most one element.                                         *)
LEMMA AtMostOne ==
  ASSUME NEW S, IsFiniteSet(S)
  PROVE  Cardinality(S) <= 1 <=> \A x, y \in S : x = y
<1>1. Cardinality(S) \in Nat
  BY FS_CardinalityType
<1>2. ASSUME Cardinality(S) <= 1, NEW x \in S, NEW y \in S PROVE x = y
  <2>1. CASE Cardinality(S) = 0
    BY <2>1, FS_EmptySet
  <2>2. CASE Cardinality(S) = 1
    BY <2>2, FS_Singleton
  <2> QED
    BY <1>1, <1>2, <2>1, <2>2
<1>3. ASSUME \A x, y \in S : x = y PROVE Cardinality(S) <= 1
  <2>1. CASE S = {}
    BY <2>1, FS_EmptySet
  <2>2. CASE S # {}
    <3>1. PICK x : x \in S
      BY <2>2
    <3>2. S = {x}
      BY <1>3, <3>1
    <3> QED
      BY <3>2, FS_Singleton
  <2> QED
    BY <2>1, <2>2
<1> QED
  BY <1>2, <1>3

(* WellFormed says that the records of each block follow each other and    *)
(* that no two entries have the same name.                                 *)
LEMMA WellFormedIs ==
  ASSUME NEW Inum, NEW dir \in Dirs(Inum)
  PROVE  WellFormed(dir) <=> AllTiled(dir) /\ OneEach(dir)
<1>1. WellFormed(dir) <=> AllTiled(dir) /\ \A name \in Name : Cardinality(Matches(dir, name)) <= 1
  BY DEF WellFormed, AllTiled, Tiled
<1>2. ASSUME AllTiled(dir), NEW name \in Name
      PROVE  Cardinality(Matches(dir, name)) <= 1 <=> \A x, y \in Matches(dir, name) : x = y
  <2>1. Matches(dir, name) \subseteq (1..Len(dir)) \X (0..(BlockSize - 1))
    <3> SUFFICES ASSUME NEW at \in Matches(dir, name)
                 PROVE  at \in (1..Len(dir)) \X (0..(BlockSize - 1))
      OBVIOUS
    <3>1. at \in Entries(dir)
      BY <1>2, MatchesAre
    <3>2. at = <<at[1], at[2]>> /\ at[1] \in DOMAIN dir /\ at[2] \in DOMAIN dir[at[1]]
      BY <3>1, EntryIs
    <3>3. dir[at[1]] \in DirBlocks(Inum) /\ at[1] \in 1..Len(dir)
      BY <3>2, DirBlock
    <3>4. at[2] \in 0..(BlockSize - 1)
      BY <3>2, <3>3, BlockType
    <3> QED
      BY <3>2, <3>3, <3>4
  <2>2. IsFiniteSet(1..Len(dir)) /\ IsFiniteSet(0..(BlockSize - 1))
    <3>1. Len(dir) \in Int /\ BlockSize - 1 \in Int
      BY DirAssumption DEF Dirs
    <3> QED
      BY <3>1, FS_Interval
  <2>3. IsFiniteSet((1..Len(dir)) \X (0..(BlockSize - 1)))
    BY <2>2, FS_Product
  <2>4. IsFiniteSet(Matches(dir, name))
    BY <2>1, <2>3, FS_Subset
  <2> QED
    BY <2>4, AtMostOne
<1>3. ASSUME AllTiled(dir)
      PROVE  OneEach(dir) <=> \A name \in Name : \A x, y \in Matches(dir, name) : x = y
  <2>1. \A name \in Name : Matches(dir, name) = {at \in Entries(dir) : At(dir, at).name = name}
    BY <1>3, MatchesAre
  <2>2. \A at \in Entries(dir) : At(dir, at).name \in Name
    <3> SUFFICES ASSUME NEW at \in Entries(dir) PROVE At(dir, at).name \in Name
      OBVIOUS
    <3>1. at[1] \in DOMAIN dir /\ at[2] \in DOMAIN dir[at[1]] /\ at[2] \in Live(dir[at[1]])
      BY EntryIs
    <3>2. dir[at[1]][at[2]].name \in Name \cup {NoName}
      BY <3>1, DirBlock, BlockType
    <3> QED
      BY <3>1, <3>2 DEF At, Live, is_deleted
  <2> QED
    BY <2>1, <2>2 DEF OneEach
<1> QED
  BY <1>1, <1>2, <1>3

-----------------------------------------------------------------------------
(* The entries of a directory one block of which is replaced.              *)
EntriesReplaced(dir, new, b, block) ==
  \A at : at \in Entries(new) <=>
    \/ at[1] # b /\ at \in Entries(dir)
    \/ \E o \in Live(block) : at = <<b, o>>

(* One block of a directory is replaced.                                   *)
LEMMA ReplaceBlock ==
  ASSUME NEW Inum, NEW dir \in Dirs(Inum), AllTiled(dir), NEW b \in DOMAIN dir,
         NEW block \in DirBlocks(Inum), Tiled(block), NEW new, new = [dir EXCEPT ![b] = block]
  PROVE  /\ new \in Dirs(Inum) /\ AllTiled(new) /\ DOMAIN new = DOMAIN dir
         /\ new[b] = block /\ (\A c \in DOMAIN dir : c # b => new[c] = dir[c])
         /\ EntriesReplaced(dir, new, b, block)
<1>1. new \in Dirs(Inum) /\ DOMAIN new = DOMAIN dir /\ new[b] = block
      /\ \A c \in DOMAIN dir : c # b => new[c] = dir[c]
  BY DEF Dirs
<1>2. AllTiled(new)
  BY <1>1 DEF AllTiled
<1>3. ASSUME NEW at
      PROVE  at \in Entries(new) <=> \/ at[1] # b /\ at \in Entries(dir)
                                     \/ \E o \in Live(block) : at = <<b, o>>
  <2>1. ASSUME at \in Entries(new)
        PROVE  \/ at[1] # b /\ at \in Entries(dir)
               \/ \E o \in Live(block) : at = <<b, o>>
    <3>1. at = <<at[1], at[2]>> /\ at[1] \in DOMAIN dir /\ at[2] \in Live(new[at[1]])
      BY <1>1, <2>1, EntryIs
    <3>2. CASE at[1] = b
      BY <1>1, <3>1, <3>2
    <3>3. CASE at[1] # b
      <4>1. at[2] \in Live(dir[at[1]])
        BY <1>1, <3>1, <3>3
      <4>2. <<at[1], at[2]>> \in Entries(dir)
        BY <3>1, <4>1, EntryAt
      <4> QED
        BY <3>1, <3>3, <4>2
    <3> QED
      BY <3>2, <3>3
  <2>2. ASSUME at[1] # b, at \in Entries(dir) PROVE at \in Entries(new)
    <3>1. at = <<at[1], at[2]>> /\ at[1] \in DOMAIN dir /\ at[2] \in Live(dir[at[1]])
      BY <2>2, EntryIs
    <3>2. at[1] \in DOMAIN new /\ at[2] \in Live(new[at[1]])
      BY <1>1, <2>2, <3>1
    <3>3. <<at[1], at[2]>> \in Entries(new)
      BY <3>2, EntryAt
    <3> QED
      BY <3>1, <3>3
  <2>3. ASSUME NEW o \in Live(block), at = <<b, o>> PROVE at \in Entries(new)
    BY <1>1, <2>3, EntryAt
  <2> QED
    BY <2>1, <2>2, <2>3
<1> QED
  BY <1>1, <1>2, <1>3 DEF EntriesReplaced

(* What an operation on one entry does: the entry at the position is there *)
(* afterwards, or is not, and all others are as they were.                 *)
Adds(dir, new, at, name, inum) ==
  /\ at \notin Entries(dir) /\ Entries(new) = Entries(dir) \cup {at}
  /\ At(new, at).name = name /\ At(new, at).inum = inum
  /\ \A other \in Entries(dir) : SameEntry(At(new, other), At(dir, other))

Removes(dir, new, at) ==
  /\ at \in Entries(dir) /\ Entries(new) = Entries(dir) \ {at}
  /\ \A other \in Entries(new) : SameEntry(At(new, other), At(dir, other))

(* An entry put in a block of a directory.                                 *)
LEMMA PutInDir ==
  ASSUME NEW Inum, NEW dir \in Dirs(Inum), AllTiled(dir), NEW b \in DOMAIN dir,
         NEW o \in DOMAIN dir[b], NEW name \in Name, NEW inum \in Inum, HasRoom(dir[b][o], name),
         NEW new, new = [dir EXCEPT ![b] = PutIn(dir[b], o, name, inum)]
  PROVE  /\ new \in Dirs(Inum) /\ AllTiled(new) /\ DOMAIN new = DOMAIN dir
         /\ Adds(dir, new, <<b, o + UsedIn(dir[b], o)>>, name, inum)
<1> DEFINE s == o + UsedIn(dir[b], o)
           block == PutIn(dir[b], o, name, inum)
           old == dir[b]
<1>1. old \in DirBlocks(Inum) /\ Tiled(old)
  BY DirBlock DEF AllTiled
<1>2. /\ block \in DirBlocks(Inum) /\ Tiled(block)
      /\ s \in Live(block) /\ block[s].name = name /\ block[s].inum = inum
      /\ s \notin Live(old) /\ Live(block) = Live(old) \cup {s}
      /\ \A p \in Live(old) : SameEntry(block[p], old[p])
  BY <1>1, PutInBlock
<1>3. new = [dir EXCEPT ![b] = block] /\ old = dir[b]
  OBVIOUS
<1> HIDE DEF s, block, old
<1>4. /\ new \in Dirs(Inum) /\ AllTiled(new) /\ DOMAIN new = DOMAIN dir
      /\ new[b] = block /\ (\A c \in DOMAIN dir : c # b => new[c] = dir[c])
      /\ EntriesReplaced(dir, new, b, block)
  BY <1>2, <1>3, ReplaceBlock
<1>5. <<b, s>> \notin Entries(dir)
  BY <1>2, <1>3, EntryAt
<1>6. \A at \in Entries(dir) : at[1] = b => \E p \in Live(old) : at = <<b, p>>
  BY <1>3, EntryIs
<1>7. \A p \in Live(old) : <<b, p>> \in Entries(dir)
  BY <1>3, EntryAt
<1>8. Entries(new) = Entries(dir) \cup {<<b, s>>}
  <2>1. ASSUME NEW at \in Entries(new) PROVE at \in Entries(dir) \cup {<<b, s>>}
    <3>1. CASE at[1] # b /\ at \in Entries(dir)
      BY <3>1
    <3>2. ASSUME NEW p \in Live(block), at = <<b, p>> PROVE at \in Entries(dir) \cup {<<b, s>>}
      BY <1>2, <1>7, <3>2
    <3> QED
      BY <1>4, <3>1, <3>2 DEF EntriesReplaced
  <2>2. ASSUME NEW at \in Entries(dir) PROVE at \in Entries(new)
    BY <1>2, <1>4, <1>6 DEF EntriesReplaced
  <2>3. <<b, s>> \in Entries(new)
    BY <1>2, <1>4 DEF EntriesReplaced
  <2> QED
    BY <2>1, <2>2, <2>3
<1>9. At(new, <<b, s>>).name = name /\ At(new, <<b, s>>).inum = inum
  BY <1>2, <1>4 DEF At
<1>10. ASSUME NEW at \in Entries(dir) PROVE SameEntry(At(new, at), At(dir, at))
  <2>1. at[1] \in DOMAIN dir /\ at[2] \in Live(dir[at[1]])
    BY EntryIs
  <2>2. CASE at[1] = b
    BY <1>2, <1>3, <1>4, <2>1, <2>2 DEF At
  <2>3. CASE at[1] # b
    BY <1>4, <2>1, <2>3 DEF At, SameEntry
  <2> QED
    BY <2>2, <2>3
<1> QED
  BY <1>4, <1>5, <1>8, <1>9, <1>10 DEF Adds, s

(* A directory that has grown by an empty block.                           *)
LEMMA Grown ==
  ASSUME NEW Inum, 0 \in Inum, NEW dir \in Dirs(Inum), AllTiled(dir), NEW name \in Name,
         NEW new, new = Append(dir, NewBlock)
  PROVE  /\ new \in Dirs(Inum) /\ AllTiled(new) /\ Entries(new) = Entries(dir)
         /\ \A at \in Entries(dir) : At(new, at) = At(dir, at)
         /\ Len(new) \in DOMAIN new /\ 0 \in DOMAIN new[Len(new)]
         /\ HasRoom(new[Len(new)][0], name) /\ Len(new) = Len(dir) + 1
<1>1. /\ BlockSize \in Nat /\ TUX_REC_LEN(name) \in Nat /\ TUX_REC_LEN(name) >= 16
      /\ TUX_REC_LEN(NoName) = 16 /\ TUX_REC_LEN(name) <= BlockSize
  BY RecLen, DirAssumption
<1>2. /\ DOMAIN NewBlock = {0} /\ NewBlock[0] = Record(NoName, 0, BlockSize)
      /\ NewBlock[0].rec_len = BlockSize /\ NewBlock[0].name = NoName
  BY DEF NewBlock, Record
<1>3. NewBlock \in DirBlocks(Inum)
  <2>1. Record(NoName, 0, BlockSize) \in Records(Inum)
    BY <1>1 DEF Record, Records
  <2>2. {0} \in SUBSET (0..(BlockSize - 1))
    BY <1>1
  <2>3. NewBlock \in [{0} -> Records(Inum)]
    BY <2>1 DEF NewBlock
  <2> QED
    BY <2>2, <2>3 DEF DirBlocks
<1>4. Tiled(NewBlock)
  BY <1>1, <1>2 DEF Tiled
<1>5. HasRoom(NewBlock[0], name)
  BY <1>1, <1>2 DEF HasRoom, is_deleted
<1>6. Live(NewBlock) = {}
  BY <1>2 DEF Live, is_deleted
<1> HIDE DEF NewBlock
<1>7. /\ new \in Dirs(Inum) /\ Len(dir) \in Nat /\ Len(new) = Len(dir) + 1
      /\ DOMAIN new = 1..(Len(dir) + 1) /\ DOMAIN dir = 1..Len(dir)
      /\ new[Len(dir) + 1] = NewBlock
      /\ \A c \in DOMAIN dir : new[c] = dir[c]
  BY <1>3 DEF Dirs, NewBlock
<1>8. \A c \in DOMAIN new : c \in DOMAIN dir \/ c = Len(dir) + 1
  BY <1>7
<1>9. AllTiled(new)
  BY <1>4, <1>7, <1>8 DEF AllTiled
<1>10. \A at \in Entries(dir) : At(new, at) = At(dir, at) /\ at \in Entries(new)
  <2> SUFFICES ASSUME NEW at \in Entries(dir) PROVE At(new, at) = At(dir, at) /\ at \in Entries(new)
    OBVIOUS
  <2>1. at = <<at[1], at[2]>> /\ at[1] \in DOMAIN dir /\ at[2] \in Live(dir[at[1]])
    BY EntryIs
  <2>2. at[1] \in DOMAIN new /\ new[at[1]] = dir[at[1]]
    BY <1>7, <2>1
  <2>3. <<at[1], at[2]>> \in Entries(new)
    BY <2>1, <2>2, EntryAt
  <2> QED
    BY <2>1, <2>2, <2>3 DEF At
<1>11. \A at \in Entries(new) : at \in Entries(dir)
  <2> SUFFICES ASSUME NEW at \in Entries(new) PROVE at \in Entries(dir)
    OBVIOUS
  <2>1. at = <<at[1], at[2]>> /\ at[1] \in DOMAIN new /\ at[2] \in Live(new[at[1]])
    BY EntryIs
  <2>2. at[1] \in DOMAIN dir /\ new[at[1]] = dir[at[1]]
    BY <1>6, <1>7, <1>8, <2>1
  <2>3. <<at[1], at[2]>> \in Entries(dir)
    BY <2>1, <2>2, EntryAt
  <2> QED
    BY <2>1, <2>3
<1>12. Len(new) \in DOMAIN new
  BY <1>7
<1> QED
  BY <1>2, <1>5, <1>7, <1>9, <1>10, <1>11, <1>12

-----------------------------------------------------------------------------
(* The positions of a directory are pairs of numbers.                      *)
LEMMA PlacesAre ==
  ASSUME NEW Inum, NEW dir \in Dirs(Inum), NEW at \in UNION {{b} \X DOMAIN dir[b] : b \in DOMAIN dir}
  PROVE  /\ at = <<at[1], at[2]>> /\ at[1] \in DOMAIN dir /\ at[2] \in DOMAIN dir[at[1]]
         /\ at \in Nat \X Nat
<1>1. PICK b \in DOMAIN dir : at \in {b} \X DOMAIN dir[b]
  OBVIOUS
<1>2. at = <<at[1], at[2]>> /\ at[1] \in DOMAIN dir /\ at[2] \in DOMAIN dir[at[1]]
  BY <1>1
<1>3. at[1] \in Nat /\ dir[at[1]] \in DirBlocks(Inum)
  BY <1>2, DirBlock
<1>4. at[2] \in Nat
  BY <1>2, <1>3, BlockType
<1> QED
  BY <1>2, <1>3, <1>4

(* tux_create_entry keeps a directory well formed, the new entry is where  *)
(* it returns and every other entry is as it was and where it was, whether *)
(* a deleted record is taken, another one is split or a block is added.    *)
THEOREM CreateCorrect ==
  ASSUME NEW Inum, 0 \in Inum, NEW dir \in Dirs(Inum), WellFormed(dir), NEW name \in Name,
         Matches(dir, name) = {}, NEW inum \in Inum
  PROVE  LET C == tux_create_entry(dir, name, inum) IN
         /\ C.dir \in Dirs(Inum) /\ WellFormed(C.dir)
         /\ Adds(dir, C.dir, C.where, name, inum)
<1> DEFINE full == Rooms(dir, name) = {}
           grown == IF full THEN Append(dir, NewBlock) ELSE dir
           at == IF full THEN <<Len(grown), 0>> ELSE Foremost(Rooms(dir, name))
           b == at[1]
           o == at[2]
           new == [grown EXCEPT ![b] = PutIn(grown[b], o, name, inum)]
           where == <<b, o + UsedIn(grown[b], o)>>
           C == tux_create_entry(dir, name, inum)
<1>1. C.where = where /\ C.dir = new
  BY DEF tux_create_entry, PutIn, UsedIn
<1>2. AllTiled(dir) /\ OneEach(dir)
  BY WellFormedIs
<1>3. /\ grown \in Dirs(Inum) /\ AllTiled(grown) /\ Entries(grown) = Entries(dir)
      /\ \A x \in Entries(dir) : At(grown, x) = At(dir, x)
      /\ b \in DOMAIN grown /\ o \in DOMAIN grown[b] /\ HasRoom(grown[b][o], name)
  <2>1. CASE full
    <3> DEFINE g == Append(dir, NewBlock)
    <3>1. /\ g \in Dirs(Inum) /\ AllTiled(g) /\ Entries(g) = Entries(dir)
          /\ \A x \in Entries(dir) : At(g, x) = At(dir, x)
          /\ Len(g) \in DOMAIN g /\ 0 \in DOMAIN g[Len(g)] /\ HasRoom(g[Len(g)][0], name)
      BY <1>2, Grown
    <3>2. grown = g /\ b = Len(g) /\ o = 0
      BY <2>1
    <3> HIDE DEF g, grown, b, o
    <3> QED
      BY <3>1, <3>2, Zenon
  <2>2. CASE ~full
    <3> DEFINE S == Rooms(dir, name)
               P == UNION {{c} \X DOMAIN dir[c] : c \in DOMAIN dir}
    <3>1. S = {x \in P : x[2] <= BlockSize - TUX_REC_LEN(name) /\ HasRoom(dir[x[1]][x[2]], name)}
      BY DEF Rooms, Places
    <3>2. S \subseteq P /\ S # {}
      BY <2>2, <3>1
    <3>3. \A x \in P : x \in Nat \X Nat /\ x[1] \in DOMAIN dir /\ x[2] \in DOMAIN dir[x[1]]
      BY PlacesAre
    <3> HIDE DEF S, P
    <3>4. Foremost(S) \in S
      BY <3>2, <3>3, ForemostIn
    <3>5. at = Foremost(S) /\ grown = dir
      BY <2>2 DEF S
    <3> HIDE DEF at, grown
    <3>6. b \in DOMAIN dir /\ o \in DOMAIN dir[b] /\ HasRoom(dir[b][o], name)
      BY <3>1, <3>2, <3>3, <3>4, <3>5
    <3> QED
      BY <1>2, <3>5, <3>6
  <2> QED
    BY <2>1, <2>2
<1> HIDE DEF grown, at, b, o, C
<1>4. new \in Dirs(Inum) /\ AllTiled(new) /\ Adds(grown, new, where, name, inum)
  BY <1>3, PutInDir
<1>5. Adds(dir, new, where, name, inum)
  BY <1>3, <1>4 DEF Adds
<1> HIDE DEF new, where
<1>6. \A x \in Entries(dir) : At(dir, x).name # name
  BY <1>2, MatchesAre
<1>7. OneEach(new)
  BY <1>2, <1>5, <1>6 DEF OneEach, Adds, SameEntry
<1>8. WellFormed(new)
  BY <1>4, <1>7, WellFormedIs
<1> QED
  BY <1>1, <1>4, <1>5, <1>8 DEF C

(* tux_delete_entry keeps a directory well formed and removes the entry at *)
(* the position and no other, whether the record before it takes its space *)
(* or it is the first of its block.                                        *)
THEOREM DeleteCorrect ==
  ASSUME NEW Inum, 0 \in Inum, NEW dir \in Dirs(Inum), WellFormed(dir), NEW at \in Entries(dir)
  PROVE  LET new == tux_delete_entry(dir, at) IN
         /\ new \in Dirs(Inum) /\ WellFormed(new)
         /\ Removes(dir, new, at)
<1> DEFINE b == at[1]
           o == at[2]
           old == dir[b]
           block == TakeOut(old, o)
           new == tux_delete_entry(dir, at)
<1>1. new = [dir EXCEPT ![b] = block]
  BY DEF tux_delete_entry, TakeOut
<1>2. AllTiled(dir) /\ OneEach(dir)
  BY WellFormedIs
<1>3. at = <<b, o>> /\ b \in DOMAIN dir /\ o \in DOMAIN old /\ o \in Live(old)
  BY EntryIs
<1>4. old \in DirBlocks(Inum) /\ Tiled(old)
  BY <1>2, <1>3, DirBlock DEF AllTiled
<1> HIDE DEF b, o, new
<1>5. /\ block \in DirBlocks(Inum) /\ Tiled(block)
      /\ Live(block) = Live(old) \ {o}
      /\ \A p \in Live(old) \ {o} : SameEntry(block[p], old[p])
  BY <1>3, <1>4, TakeOutOfBlock
<1>a. old = dir[b]
  OBVIOUS
<1> HIDE DEF block, old
<1>6. /\ new \in Dirs(Inum) /\ AllTiled(new) /\ DOMAIN new = DOMAIN dir
      /\ new[b] = block /\ (\A c \in DOMAIN dir : c # b => new[c] = dir[c])
      /\ EntriesReplaced(dir, new, b, block)
  BY <1>1, <1>2, <1>3, <1>5, ReplaceBlock
<1>7. ASSUME NEW x \in Entries(new)
      PROVE  x \in Entries(dir) /\ x # at /\ SameEntry(At(new, x), At(dir, x))
  <2>1. CASE x[1] # b /\ x \in Entries(dir)
    <3>1. x[1] \in DOMAIN dir
      BY <2>1, EntryIs
    <3> QED
      BY <1>3, <1>6, <2>1, <3>1 DEF At, SameEntry
  <2>2. ASSUME NEW p \in Live(block), x = <<b, p>>
        PROVE  x \in Entries(dir) /\ x # at /\ SameEntry(At(new, x), At(dir, x))
    <3>1. p \in Live(old) /\ p # o
      BY <1>5
    <3>2. <<b, p>> \in Entries(dir)
      BY <1>3, <1>a, <3>1, EntryAt
    <3>3. SameEntry(block[p], old[p])
      BY <1>5, <3>1
    <3> QED
      BY <1>3, <1>6, <1>a, <2>2, <3>1, <3>2, <3>3 DEF At
  <2> QED
    BY <1>6, <2>1, <2>2 DEF EntriesReplaced
<1>8. ASSUME NEW x \in Entries(dir), x # at PROVE x \in Entries(new)
  <2>1. x = <<x[1], x[2]>> /\ x[1] \in DOMAIN dir /\ x[2] \in Live(dir[x[1]])
    BY EntryIs
  <2>2. CASE x[1] # b
    BY <1>6, <2>2 DEF EntriesReplaced
  <2>3. CASE x[1] = b
    <3>1. x = <<b, x[2]>> /\ x[2] # o
      BY <1>3, <1>8, <2>1, <2>3
    <3>2. x[2] \in Live(block)
      BY <1>5, <1>a, <2>1, <2>3, <3>1
    <3> QED
      BY <1>6, <3>1, <3>2 DEF EntriesReplaced
  <2> QED
    BY <2>2, <2>3
<1>9. Removes(dir, new, at)
  BY <1>7, <1>8 DEF Removes
<1>10. OneEach(new)
  BY <1>2, <1>7 DEF OneEach, SameEntry
<1>11. WellFormed(new)
  BY <1>6, <1>10, WellFormedIs
<1> QED
  BY <1>6, <1>9, <1>11 DEF new

(* tux_find_entry finds the entry with the name, if there is one.          *)
THEOREM FindCorrect ==
  ASSUME NEW Inum, NEW dir \in Dirs(Inum), WellFormed(dir), NEW name \in Name,
         Matches(dir, name) # {}
  PROVE  /\ tux_find_entry(dir, name) \in Entries(dir)
         /\ At(dir, tux_find_entry(dir, name)).name = name
         /\ \A at \in Entries(dir) : At(dir, at).name = name => at = tux_find_entry(dir, name)
<1> DEFINE M == Matches(dir, name)
<1>1. AllTiled(dir) /\ OneEach(dir)
  BY WellFormedIs
<1>2. M = {at \in Entries(dir) : At(dir, at).name = name}
  BY <1>1, MatchesAre
<1>3. M \subseteq Nat \X Nat
  BY <1>2, PlacesAre DEF Entries
<1>4. Foremost(M) \in M
  BY <1>3, ForemostIn
<1>5. tux_find_entry(dir, name) = Foremost(M)
  BY DEF tux_find_entry
<1> HIDE DEF M
<1> QED
  BY <1>1, <1>2, <1>4, <1>5 DEF OneEach
=============================================================================
