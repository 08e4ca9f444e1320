---------------------------- MODULE NameiProofs ----------------------------
(***************************************************************************)
(* The names of a directory are those that were created in it; the link    *)
(* counts are those of the entries there are; and a reader is given each   *)
(* entry that stays once: through any sequence of operations, for any      *)
(* block size, set of names and number of inodes.                          *)
(***************************************************************************)
EXTENDS Namei, DirProofs, FiniteSetTheorems

(* The entries of a directory, and a history of names, as sets of pairs.   *)
Listing(dir) == {<<At(dir, at).name, At(dir, at).inum>> : at \in Entries(dir)}

Graph(f) == {<<name, f[name]>> : name \in DOMAIN f}

(* The invariant of one directory.                                         *)
DirKept(dir, f) ==
  /\ dir \in Dirs(Nat) /\ WellFormed(dir)
  /\ DOMAIN f \subseteq Name /\ Listing(dir) = Graph(f)

-----------------------------------------------------------------------------
(* An entry and its name in the history.                                   *)
LEMMA EntryNamed ==
  ASSUME NEW dir, NEW f, DirKept(dir, f)
  PROVE  /\ \A at \in Entries(dir) :
              /\ At(dir, at).name \in DOMAIN f /\ f[At(dir, at).name] = At(dir, at).inum
              /\ At(dir, at).name \in Name /\ At(dir, at).inum \in Nat
         /\ \A name \in DOMAIN f : \E at \in Entries(dir) :
              At(dir, at).name = name /\ At(dir, at).inum = f[name]
<1>1. ASSUME NEW at \in Entries(dir)
      PROVE  /\ At(dir, at).name \in DOMAIN f /\ f[At(dir, at).name] = At(dir, at).inum
             /\ At(dir, at).name \in Name /\ At(dir, at).inum \in Nat
  <2>1. <<At(dir, at).name, At(dir, at).inum>> \in Graph(f)
    BY DEF DirKept, Listing
  <2>2. PICK name \in DOMAIN f : <<At(dir, at).name, At(dir, at).inum>> = <<name, f[name]>>
    BY <2>1 DEF Graph
  <2>3. At(dir, at).name = name /\ At(dir, at).inum = f[name]
    BY <2>2
  <2>4. at[1] \in DOMAIN dir /\ at[2] \in DOMAIN dir[at[1]]
    BY EntryIs
  <2>5. dir[at[1]] \in DirBlocks(Nat)
    BY <2>4, DirBlock DEF DirKept
  <2>6. At(dir, at).inum \in Nat
    BY <2>4, <2>5, BlockType DEF At
  <2> QED
    BY <2>3, <2>6 DEF DirKept
<1>2. ASSUME NEW name \in DOMAIN f
      PROVE  \E at \in Entries(dir) : At(dir, at).name = name /\ At(dir, at).inum = f[name]
  <2>1. <<name, f[name]>> \in Listing(dir)
    BY DEF DirKept, Graph
  <2>2. PICK at \in Entries(dir) : <<name, f[name]>> = <<At(dir, at).name, At(dir, at).inum>>
    BY <2>1 DEF Listing
  <2> QED
    BY <2>2
<1> QED
  BY <1>1, <1>2

(* Each entry has its name and each name has its entry.                    *)
Agree(dir, f) ==
  /\ \A at \in Entries(dir) : At(dir, at).name \in DOMAIN f /\ f[At(dir, at).name] = At(dir, at).inum
  /\ \A name \in DOMAIN f : \E at \in Entries(dir) :
       At(dir, at).name = name /\ At(dir, at).inum = f[name]

(* Then they are the same sets of pairs.                                   *)
LEMMA ListingIs ==
  ASSUME NEW dir, NEW f, Agree(dir, f)
  PROVE  Listing(dir) = Graph(f)
<1>1. ASSUME NEW at \in Entries(dir) PROVE <<At(dir, at).name, At(dir, at).inum>> \in Graph(f)
  BY DEF Graph, Agree
<1>2. ASSUME NEW name \in DOMAIN f PROVE <<name, f[name]>> \in Listing(dir)
  <2>1. PICK at \in Entries(dir) : At(dir, at).name = name /\ At(dir, at).inum = f[name]
    BY DEF Agree
  <2> QED
    BY <2>1 DEF Listing
<1> QED
  BY <1>1, <1>2 DEF Listing, Graph

(* tux_create_entry adds a name.                                           *)
LEMMA CreateKept ==
  ASSUME NEW dir, NEW f, DirKept(dir, f), NEW name \in Name, Matches(dir, name) = {}, NEW inum \in Nat
  PROVE  LET C == tux_create_entry(dir, name, inum) IN
         /\ DirKept(C.dir, With(f, name, inum)) /\ Adds(dir, C.dir, C.where, name, inum)
<1> DEFINE C == tux_create_entry(dir, name, inum)
           g == With(f, name, inum)
           new == C.dir
           w == C.where
<1>1. dir \in Dirs(Nat) /\ WellFormed(dir) /\ 0 \in Nat /\ DOMAIN f \subseteq Name
  BY DEF DirKept
<1>2. new \in Dirs(Nat) /\ WellFormed(new) /\ Adds(dir, new, w, name, inum)
  BY <1>1, CreateCorrect
<1>3. AllTiled(dir)
  BY <1>1, WellFormedIs
<1>4. \A at \in Entries(dir) : At(dir, at).name # name
  BY <1>1, <1>3, MatchesAre
<1>5. /\ DOMAIN g = DOMAIN f \cup {name} /\ g[name] = inum
      /\ \A n \in DOMAIN f : n # name => g[n] = f[n]
  BY DEF With
<1> HIDE DEF C, g, new, w
<1>6. /\ \A at \in Entries(dir) :
           /\ At(dir, at).name \in DOMAIN f /\ f[At(dir, at).name] = At(dir, at).inum
      /\ \A n \in DOMAIN f : \E at \in Entries(dir) :
           At(dir, at).name = n /\ At(dir, at).inum = f[n]
  BY EntryNamed
<1>7. name \notin DOMAIN f
  BY <1>4, <1>6
<1>8. /\ Entries(new) = Entries(dir) \cup {w} /\ At(new, w).name = name /\ At(new, w).inum = inum
      /\ \A at \in Entries(dir) : At(new, at).name = At(dir, at).name /\ At(new, at).inum = At(dir, at).inum
  BY <1>2 DEF Adds, SameEntry
<1>9. \A at \in Entries(new) : At(new, at).name \in DOMAIN g /\ g[At(new, at).name] = At(new, at).inum
  BY <1>5, <1>6, <1>7, <1>8
<1>10. ASSUME NEW n \in DOMAIN g
       PROVE  \E at \in Entries(new) : At(new, at).name = n /\ At(new, at).inum = g[n]
  <2>1. CASE n = name
    BY <1>5, <1>8, <2>1
  <2>2. CASE n # name
    <3>1. n \in DOMAIN f /\ g[n] = f[n]
      BY <1>5, <2>2
    <3>2. PICK at \in Entries(dir) : At(dir, at).name = n /\ At(dir, at).inum = f[n]
      BY <1>6, <3>1
    <3> QED
      BY <1>8, <3>1, <3>2
  <2> QED
    BY <2>1, <2>2
<1>11. Listing(new) = Graph(g)
  <2>1. Agree(new, g)
    BY <1>9, <1>10 DEF Agree
  <2> QED
    BY <2>1, ListingIs
<1>12. DOMAIN g \subseteq Name
  BY <1>1, <1>5
<1> QED
  BY <1>2, <1>11, <1>12 DEF DirKept, C, g, new, w

(* tux_delete_entry removes a name.                                        *)
LEMMA DeleteKept ==
  ASSUME NEW dir, NEW f, DirKept(dir, f), NEW at \in Entries(dir), NEW name, At(dir, at).name = name
  PROVE  DirKept(tux_delete_entry(dir, at), [n \in DOMAIN f \ {name} |-> f[n]])
<1> DEFINE g == [n \in DOMAIN f \ {name} |-> f[n]]
           new == tux_delete_entry(dir, at)
<1>1. dir \in Dirs(Nat) /\ WellFormed(dir) /\ 0 \in Nat /\ DOMAIN f \subseteq Name
  BY DEF DirKept
<1>2. new \in Dirs(Nat) /\ WellFormed(new) /\ Removes(dir, new, at)
  BY <1>1, DeleteCorrect
<1>3. OneEach(dir)
  BY <1>1, WellFormedIs
<1>4. DOMAIN g = DOMAIN f \ {name} /\ \A n \in DOMAIN g : g[n] = f[n]
  OBVIOUS
<1> HIDE DEF g, new
<1>5. /\ \A x \in Entries(dir) :
           /\ At(dir, x).name \in DOMAIN f /\ f[At(dir, x).name] = At(dir, x).inum
      /\ \A n \in DOMAIN f : \E x \in Entries(dir) :
           At(dir, x).name = n /\ At(dir, x).inum = f[n]
  BY EntryNamed
<1>6. /\ Entries(new) = Entries(dir) \ {at}
      /\ \A x \in Entries(new) : At(new, x).name = At(dir, x).name /\ At(new, x).inum = At(dir, x).inum
  BY <1>2 DEF Removes, SameEntry
<1>7. \A x \in Entries(new) : At(dir, x).name # name
  BY <1>3, <1>6 DEF OneEach
<1>8. \A x \in Entries(new) : At(new, x).name \in DOMAIN g /\ g[At(new, x).name] = At(new, x).inum
  BY <1>4, <1>5, <1>6, <1>7
<1>9. ASSUME NEW n \in DOMAIN g
      PROVE  \E x \in Entries(new) : At(new, x).name = n /\ At(new, x).inum = g[n]
  <2>1. n \in DOMAIN f /\ n # name /\ g[n] = f[n]
    BY <1>4
  <2>2. PICK x \in Entries(dir) : At(dir, x).name = n /\ At(dir, x).inum = f[n]
    BY <1>5, <2>1
  <2>3. x \in Entries(new)
    BY <1>6, <2>1, <2>2
  <2> QED
    BY <1>6, <2>1, <2>2, <2>3
<1>10. Listing(new) = Graph(g)
  <2>1. Agree(new, g)
    BY <1>8, <1>9 DEF Agree
  <2> QED
    BY <2>1, ListingIs
<1> QED
  BY <1>1, <1>2, <1>4, <1>10 DEF DirKept, g, new

(* An entry is made to lead to another inode.                              *)
Retarget(dir, at, inum) == [dir EXCEPT ![at[1]][at[2]].inum = inum]

Relink(f, name, inum) == [f EXCEPT ![name] = inum]

(* All entries stay where they are and keep their names.                   *)
SameNames(dir, new) ==
  Entries(new) = Entries(dir) /\ \A x \in Entries(dir) : At(new, x).name = At(dir, x).name

(* tux_update_dirent in one directory.                                     *)
LEMMA UpdateKept ==
  ASSUME NEW dir, NEW f, DirKept(dir, f), NEW at \in Entries(dir), NEW name, At(dir, at).name = name,
         NEW inum \in Nat, NEW new, new = Retarget(dir, at, inum)
  PROVE  DirKept(new, Relink(f, name, inum)) /\ SameNames(dir, new)
<1> DEFINE b == at[1]
           o == at[2]
           old == dir[b]
           block == [old EXCEPT ![o].inum = inum]
           g == [f EXCEPT ![name] = inum]
<1>1. dir \in Dirs(Nat) /\ WellFormed(dir) /\ DOMAIN f \subseteq Name
  BY DEF DirKept
<1>2. AllTiled(dir) /\ OneEach(dir)
  BY <1>1, WellFormedIs
<1>3. at = <<b, o>> /\ b \in DOMAIN dir /\ o \in Live(old) /\ o \in DOMAIN old
  BY EntryIs
<1>4. old \in DirBlocks(Nat) /\ Tiled(old)
  BY <1>1, <1>2, <1>3, DirBlock DEF AllTiled
<1>5. new = [dir EXCEPT ![b] = block]
  BY DEF Retarget
<1>6. old[o] \in Records(Nat)
  BY <1>3, <1>4, BlockType
<1>7. /\ DOMAIN block = DOMAIN old
      /\ \A p \in DOMAIN old : p # o => block[p] = old[p]
      /\ block[o].name = old[o].name /\ block[o].inum = inum /\ block[o].rec_len = old[o].rec_len
      /\ block[o] \in Records(Nat) /\ block = [p \in DOMAIN old |-> block[p]]
  <2> DEFINE r == old[o]
  <2>1. r \in Records(Nat)
    BY <1>6
  <2>2. block = [old EXCEPT ![o] = [r EXCEPT !.inum = inum]]
    OBVIOUS
  <2> HIDE DEF r
  <2> DEFINE q == [r EXCEPT !.inum = inum]
  <2>3. q.name = r.name /\ q.inum = inum /\ q.rec_len = r.rec_len /\ q \in Records(Nat)
    BY <2>1 DEF Records
  <2>4. block = [old EXCEPT ![o] = q]
    BY <2>2
  <2> HIDE DEF q, block, old
  <2>5. PICK D \in SUBSET (0..(BlockSize - 1)) : old \in [D -> Records(Nat)]
    BY <1>4 DEF DirBlocks
  <2>6. /\ DOMAIN block = DOMAIN old /\ block[o] = q
        /\ \A p \in DOMAIN old : p # o => block[p] = old[p]
        /\ block = [p \in DOMAIN old |-> block[p]]
    BY <1>3, <2>4, <2>5
  <2> QED
    BY <2>3, <2>6 DEF r
<1> HIDE DEF block
<1>8. block \in DirBlocks(Nat)
  <2>1. \A p \in DOMAIN old : p \in 0..(BlockSize - 1) /\ old[p] \in Records(Nat)
    BY <1>4, BlockType
  <2>2. block \in [DOMAIN old -> Records(Nat)]
    BY <1>7, <2>1
  <2>3. DOMAIN old \in SUBSET (0..(BlockSize - 1))
    BY <2>1
  <2> QED
    BY <2>2, <2>3 DEF DirBlocks
<1>9. \A p \in DOMAIN old : block[p].rec_len = old[p].rec_len /\ block[p].name = old[p].name
  BY <1>7
<1>10. Tiled(block)
  <2>1. {p + block[p].rec_len : p \in DOMAIN block} = {p + old[p].rec_len : p \in DOMAIN old}
    BY <1>7, <1>9
  <2> QED
    BY <1>4, <1>7, <1>9, <2>1 DEF Tiled
<1>11. Live(block) = Live(old)
  BY <1>7, <1>9 DEF Live, is_deleted
<1>a. old = dir[b]
  OBVIOUS
<1> HIDE DEF b, o, old
<1>12. /\ new \in Dirs(Nat) /\ AllTiled(new) /\ DOMAIN new = DOMAIN dir
       /\ new[b] = block /\ (\A c \in DOMAIN dir : c # b => new[c] = dir[c])
       /\ EntriesReplaced(dir, new, b, block)
  BY <1>1, <1>2, <1>3, <1>5, <1>8, <1>10, ReplaceBlock
<1>13. Entries(new) = Entries(dir)
  <2>1. ASSUME NEW x \in Entries(new) PROVE x \in Entries(dir)
    <3>1. CASE x[1] # b /\ x \in Entries(dir)
      BY <3>1
    <3>2. ASSUME NEW p \in Live(block), x = <<b, p>> PROVE x \in Entries(dir)
      BY <1>3, <1>11, <1>a, <3>2, EntryAt
    <3> QED
      BY <1>12, <3>1, <3>2 DEF EntriesReplaced
  <2>2. ASSUME NEW x \in Entries(dir) PROVE x \in Entries(new)
    <3>1. x = <<x[1], x[2]>> /\ x[2] \in Live(dir[x[1]])
      BY EntryIs
    <3>2. CASE x[1] # b
      BY <1>12, <3>2 DEF EntriesReplaced
    <3>3. CASE x[1] = b
      <4>1. x[2] \in Live(block) /\ x = <<b, x[2]>>
        BY <1>11, <1>a, <3>1, <3>3
      <4> QED
        BY <1>12, <4>1 DEF EntriesReplaced
    <3> QED
      BY <3>2, <3>3
  <2> QED
    BY <2>1, <2>2
<1>14. ASSUME NEW x \in Entries(dir)
       PROVE  At(new, x).name = At(dir, x).name /\ At(new, x).inum = IF x = at THEN inum ELSE At(dir, x).inum
  <2>1. x = <<x[1], x[2]>> /\ x[1] \in DOMAIN dir /\ x[2] \in DOMAIN dir[x[1]]
    BY EntryIs
  <2>2. CASE x[1] # b
    BY <1>3, <1>12, <2>1, <2>2 DEF At
  <2>3. CASE x[1] = b
    <3>1. x = at <=> x[2] = o
      BY <1>3, <2>1, <2>3
    <3>2. x[2] \in DOMAIN old
      BY <1>a, <2>1, <2>3
    <3>3. block[x[2]].name = old[x[2]].name /\ block[x[2]].inum = IF x[2] = o THEN inum ELSE old[x[2]].inum
      BY <1>7, <1>9, <3>2
    <3> QED
      BY <1>12, <1>a, <2>3, <3>1, <3>3 DEF At
  <2> QED
    BY <2>2, <2>3
<1>15. OneEach(new)
  BY <1>2, <1>13, <1>14 DEF OneEach
<1>16. WellFormed(new)
  BY <1>12, <1>15, WellFormedIs
<1>17. /\ \A x \in Entries(dir) :
            /\ At(dir, x).name \in DOMAIN f /\ f[At(dir, x).name] = At(dir, x).inum
       /\ \A n \in DOMAIN f : \E x \in Entries(dir) :
            At(dir, x).name = n /\ At(dir, x).inum = f[n]
  BY EntryNamed
<1>18. /\ DOMAIN g = DOMAIN f /\ name \in DOMAIN f /\ g[name] = inum
       /\ \A n \in DOMAIN f : n # name => g[n] = f[n]
  BY <1>17
<1> HIDE DEF g
<1>19. \A x \in Entries(dir) : At(dir, x).name = name <=> x = at
  BY <1>2 DEF OneEach
<1>20. \A x \in Entries(new) : At(new, x).name \in DOMAIN g /\ g[At(new, x).name] = At(new, x).inum
  <2> SUFFICES ASSUME NEW x \in Entries(new)
               PROVE  At(new, x).name \in DOMAIN g /\ g[At(new, x).name] = At(new, x).inum
    OBVIOUS
  <2>1. /\ x \in Entries(dir) /\ At(new, x).name = At(dir, x).name
        /\ x = at => At(new, x).inum = inum
        /\ x # at => At(new, x).inum = At(dir, x).inum
    BY <1>13, <1>14
  <2>2. CASE x = at
    BY <1>18, <2>1, <2>2, Zenon
  <2>3. CASE x # at
    <3>1. At(dir, x).name # name /\ At(dir, x).name \in DOMAIN f
      BY <1>17, <1>19, <2>1, <2>3, Zenon
    <3>2. g[At(dir, x).name] = At(dir, x).inum
      BY <1>17, <1>18, <2>1, <3>1, Zenon
    <3> QED
      BY <1>18, <2>1, <2>3, <3>1, <3>2, Zenon
  <2> QED
    BY <2>2, <2>3
<1>21. \A n \in DOMAIN g : \E x \in Entries(new) : At(new, x).name = n /\ At(new, x).inum = g[n]
  <2> SUFFICES ASSUME NEW n \in DOMAIN g
               PROVE  \E x \in Entries(new) : At(new, x).name = n /\ At(new, x).inum = g[n]
    OBVIOUS
  <2>1. PICK x \in Entries(dir) : At(dir, x).name = n /\ At(dir, x).inum = f[n]
    BY <1>17, <1>18
  <2>2. x \in Entries(new) /\ At(new, x).name = n
    BY <1>13, <1>14, <2>1
  <2>3. At(new, x).inum = g[n]
    BY <1>20, <2>2
  <2> QED
    BY <2>2, <2>3
<1>22. Listing(new) = Graph(g)
  <2>1. Agree(new, g)
    BY <1>20, <1>21 DEF Agree
  <2> QED
    BY <2>1, ListingIs
<1> QED
  BY <1>1, <1>12, <1>13, <1>14, <1>16, <1>18, <1>22 DEF DirKept, g, Relink, SameNames

(* A new directory, and one in which tux_dir_is_empty finds nothing.       *)
LEMMA EmptyKept ==
  ASSUME NEW f, DOMAIN f = {}
  PROVE  DirKept(<<>>, f)
<1>1. <<>> \in Dirs(Nat) /\ DOMAIN <<>> = {}
  BY DEF Dirs
<1> DEFINE e == <<>>
<1>2. e \in Dirs(Nat) /\ DOMAIN e = {}
  BY <1>1
<1> HIDE DEF e
<1>3. Entries(e) = {}
  BY <1>2 DEF Entries
<1>4. AllTiled(e) /\ OneEach(e)
  BY <1>2, <1>3 DEF AllTiled, OneEach
<1>5. WellFormed(e)
  BY <1>2, <1>4, WellFormedIs
<1>6. Listing(e) = Graph(f)
  BY <1>3, ListingIs DEF Agree
<1>7. DirKept(e, f)
  BY <1>2, <1>5, <1>6 DEF DirKept
<1> QED
  BY <1>7 DEF e

(* A directory without an entry has no name.                               *)
LEMMA NoEntryNoName ==
  ASSUME NEW dir, NEW f, DirKept(dir, f), Entries(dir) = {}
  PROVE  DOMAIN f = {}
BY EntryNamed

-----------------------------------------------------------------------------
(* The states that operations work on.                                     *)
IsState(s) == s = [inodes |-> s.inodes, dirs |-> s.dirs, reader |-> s.reader, names |-> s.names]

StateKept(s) ==
  /\ IsState(s)
  /\ DOMAIN s.inodes \subseteq Inums /\ DOMAIN s.dirs \subseteq DOMAIN s.inodes
  /\ DOMAIN s.names = DOMAIN s.dirs
  /\ \A d \in DOMAIN s.dirs : DirKept(s.dirs[d], s.names[d])

(* A change of one directory.                                              *)
LEMMA OneChanged ==
  ASSUME NEW s, StateKept(s), NEW d \in DOMAIN s.dirs, NEW dir, NEW f, DirKept(dir, f), NEW r,
         IsState(r), r.inodes = s.inodes,
         r.dirs = [s.dirs EXCEPT ![d] = dir], r.names = [s.names EXCEPT ![d] = f]
  PROVE  /\ StateKept(r) /\ DOMAIN r.dirs = DOMAIN s.dirs /\ r.dirs[d] = dir
         /\ \A c \in DOMAIN s.dirs : c # d => r.dirs[c] = s.dirs[c]
         /\ r.names[d] = f
         /\ \A c \in DOMAIN s.dirs : c # d => r.names[c] = s.names[c]
<1>1. /\ DOMAIN r.dirs = DOMAIN s.dirs /\ DOMAIN r.names = DOMAIN s.names
      /\ DOMAIN s.names = DOMAIN s.dirs
  BY DEF StateKept
<1>2. /\ r.dirs[d] = dir /\ r.names[d] = f
      /\ \A c \in DOMAIN s.dirs : c # d => r.dirs[c] = s.dirs[c] /\ r.names[c] = s.names[c]
  BY <1>1
<1>3. \A c \in DOMAIN s.dirs : DirKept(r.dirs[c], r.names[c])
  BY <1>2 DEF StateKept
<1> QED
  BY <1>1, <1>2, <1>3 DEF StateKept

(* Entries stay where they are, with their names, and directories other    *)
(* than one are as they were.                                              *)
EntriesStay(s, r) ==
  \A c \in DOMAIN s.dirs : \A at \in Entries(s.dirs[c]) :
    at \in Entries(r.dirs[c]) /\ At(r.dirs[c], at).name = At(s.dirs[c], at).name

OthersStay(s, r, d) ==
  \A c \in DOMAIN s.dirs : c # d => r.dirs[c] = s.dirs[c] /\ r.names[c] = s.names[c]

(* tux_create_dirent.                                                      *)
LEMMA CreateState ==
  ASSUME NEW s, StateKept(s), NEW d \in DOMAIN s.dirs, NEW name \in Name,
         Matches(s.dirs[d], name) = {}, NEW inum \in Nat, NEW r, r = tux_create_dirent(s, d, name, inum)
  PROVE  StateKept(r) /\ DOMAIN r.dirs = DOMAIN s.dirs /\ EntriesStay(s, r)
<1> DEFINE C == tux_create_entry(s.dirs[d], name, inum)
           f == With(s.names[d], name, inum)
           rd == ReaderCreates(s.reader, d, name, C.where)
           dir == C.dir
<1>1. r = [s EXCEPT !.dirs[d] = dir, !.names[d] = f, !.reader = rd]
  BY DEF tux_create_dirent
<1>2. DirKept(s.dirs[d], s.names[d])
  BY DEF StateKept
<1>3. DirKept(C.dir, f) /\ Adds(s.dirs[d], C.dir, C.where, name, inum)
  BY <1>2, CreateKept
<1> HIDE DEF C, f, rd
<1>4. /\ IsState(r) /\ r.inodes = s.inodes
      /\ r.dirs = [s.dirs EXCEPT ![d] = dir] /\ r.names = [s.names EXCEPT ![d] = f]
  <2>1. IsState(s)
    BY DEF StateKept
  <2> QED
    BY <1>1, <2>1, Zenon DEF IsState
<1>5. \A at \in Entries(s.dirs[d]) : at \in Entries(dir) /\ SameEntry(At(dir, at), At(s.dirs[d], at))
  BY <1>3 DEF Adds
<1>6. DirKept(dir, f)
  BY <1>3
<1> HIDE DEF dir
<1>7. /\ StateKept(r) /\ DOMAIN r.dirs = DOMAIN s.dirs /\ r.dirs[d] = dir
      /\ \A c \in DOMAIN s.dirs : c # d => r.dirs[c] = s.dirs[c]
  BY <1>4, <1>6, OneChanged
<1>8. EntriesStay(s, r)
  BY <1>5, <1>7 DEF SameEntry, EntriesStay
<1> QED
  BY <1>7, <1>8

(* tux_delete_dirent, at the position of the name.                         *)
LEMMA DeleteState ==
  ASSUME NEW s, StateKept(s), NEW d \in DOMAIN s.dirs, NEW name,
         NEW at \in Entries(s.dirs[d]), At(s.dirs[d], at).name = name,
         NEW r, r = tux_delete_dirent(s, d, name, at)
  PROVE  StateKept(r) /\ DOMAIN r.dirs = DOMAIN s.dirs /\ OthersStay(s, r, d)
<1> DEFINE dir == tux_delete_entry(s.dirs[d], at)
           f == [n \in DOMAIN s.names[d] \ {name} |-> s.names[d][n]]
           rd == ReaderDeletes(s.reader, d, name, at, s.dirs[d])
<1>1. r = [s EXCEPT !.dirs[d] = dir, !.names[d] = f, !.reader = rd]
  BY DEF tux_delete_dirent
<1>2. DirKept(s.dirs[d], s.names[d])
  BY DEF StateKept
<1>3. DirKept(dir, f)
  BY <1>2, DeleteKept
<1> HIDE DEF dir, f, rd
<1>4. /\ IsState(r) /\ r.inodes = s.inodes
      /\ r.dirs = [s.dirs EXCEPT ![d] = dir] /\ r.names = [s.names EXCEPT ![d] = f]
  <2>1. IsState(s)
    BY DEF StateKept
  <2> QED
    BY <1>1, <2>1, Zenon DEF IsState
<1>5. /\ StateKept(r) /\ DOMAIN r.dirs = DOMAIN s.dirs
      /\ \A c \in DOMAIN s.dirs : c # d => r.dirs[c] = s.dirs[c]
      /\ \A c \in DOMAIN s.dirs : c # d => r.names[c] = s.names[c]
  BY <1>3, <1>4, OneChanged
<1> QED
  BY <1>5 DEF OthersStay

(* A name has an entry.                                                    *)
HasEntry(dir, name) == Matches(dir, name) # {}

(* tux_update_dirent.                                                      *)
LEMMA UpdateState ==
  ASSUME NEW s, StateKept(s), NEW d \in DOMAIN s.dirs, NEW name \in Name,
         HasEntry(s.dirs[d], name), NEW inum \in Nat, NEW r, r = tux_update_dirent(s, d, name, inum)
  PROVE  StateKept(r) /\ DOMAIN r.dirs = DOMAIN s.dirs /\ EntriesStay(s, r)
<1> DEFINE at == tux_find_entry(s.dirs[d], name)
           old == s.dirs[d]
           dir == [old EXCEPT ![at[1]][at[2]].inum = inum]
           f == [s.names[d] EXCEPT ![name] = inum]
<1>1. r = [s EXCEPT !.dirs[d] = dir, !.names[d] = f]
  BY DEF tux_update_dirent, tux_find_dirent
<1>2. DirKept(old, s.names[d])
  BY DEF StateKept
<1>3. at \in Entries(old) /\ At(old, at).name = name
  BY <1>2, FindCorrect DEF DirKept, HasEntry
<1>a. old = s.dirs[d]
  OBVIOUS
<1> HIDE DEF at, old
<1>4. /\ DirKept(dir, f) /\ Entries(dir) = Entries(old)
      /\ \A x \in Entries(old) : At(dir, x).name = At(old, x).name
  <2>1. dir = Retarget(old, at, inum) /\ f = Relink(s.names[d], name, inum)
    BY DEF Retarget, Relink
  <2> HIDE DEF dir, f
  <2>2. DirKept(dir, f) /\ SameNames(old, dir)
    BY <1>2, <1>3, <2>1, UpdateKept
  <2> QED
    BY <2>2 DEF SameNames
<1> HIDE DEF dir, f
<1>5. /\ IsState(r) /\ r.inodes = s.inodes
      /\ r.dirs = [s.dirs EXCEPT ![d] = dir] /\ r.names = [s.names EXCEPT ![d] = f]
  BY <1>1, Zenon DEF StateKept, IsState
<1>6. /\ StateKept(r) /\ DOMAIN r.dirs = DOMAIN s.dirs /\ r.dirs[d] = dir
      /\ \A c \in DOMAIN s.dirs : c # d => r.dirs[c] = s.dirs[c]
  BY <1>4, <1>5, OneChanged
<1>7. EntriesStay(s, r)
  BY <1>4, <1>6, <1>a DEF EntriesStay
<1> QED
  BY <1>6, <1>7

(* A change of link counts.                                                *)
LEMMA LinksState ==
  ASSUME NEW s, StateKept(s), NEW inum, NEW n, NEW r, r = AddLinks(s, inum, n)
  PROVE  /\ StateKept(r) /\ r.dirs = s.dirs /\ r.names = s.names
<1>1. /\ IsState(r) /\ r.dirs = s.dirs /\ r.names = s.names
      /\ r.inodes = [s.inodes EXCEPT ![inum].nlink = @ + n]
  BY Zenon DEF StateKept, IsState, AddLinks
<1>2. DOMAIN r.inodes = DOMAIN s.inodes
  BY <1>1
<1> QED
  BY <1>1, <1>2 DEF StateKept

(* The end of an operation: what is left of the directories is as it was.  *)
LEMMA FinishKept ==
  ASSUME NEW s, StateKept(s), Finish(s)
  PROVE  StateKept(Now)'
<1>1. /\ inodes' = tux3_delete_inode(s.inodes, s.reader)
      /\ dirs' = [d \in DOMAIN s.dirs \cap DOMAIN inodes' |-> s.dirs[d]]
      /\ names' = [d \in DOMAIN dirs' |-> s.names[d]]
  BY DEF Finish
<1>2. DOMAIN inodes' \subseteq DOMAIN s.inodes
  BY <1>1 DEF tux3_delete_inode
<1>3. /\ DOMAIN dirs' = DOMAIN s.dirs \cap DOMAIN inodes' /\ DOMAIN names' = DOMAIN dirs'
      /\ \A d \in DOMAIN dirs' : dirs'[d] = s.dirs[d] /\ names'[d] = s.names[d]
  BY <1>1
<1>4. \A d \in DOMAIN dirs' : DirKept(dirs'[d], names'[d])
  BY <1>3 DEF StateKept
<1>5. DOMAIN inodes' \subseteq Inums /\ DOMAIN dirs' \subseteq DOMAIN inodes'
  BY <1>2, <1>3 DEF StateKept
<1> DEFINE n == [inodes |-> inodes', dirs |-> dirs', reader |-> reader', names |-> names']
<1>6. IsState(n) /\ n.inodes = inodes' /\ n.dirs = dirs' /\ n.names = names'
  BY DEF IsState
<1>7. Now' = n
  BY DEF Now
<1> HIDE DEF n
<1>8. StateKept(n)
  BY <1>3, <1>4, <1>5, <1>6 DEF StateKept
<1> QED
  BY <1>7, <1>8

-----------------------------------------------------------------------------
(* The parts of the current state.                                         *)
LEMMA NowIs ==
  /\ IsState(Now) /\ Now.inodes = inodes /\ Now.dirs = dirs /\ Now.reader = reader /\ Now.names = names
BY DEF Now, IsState

(* The entry that a lookup finds in a directory, and what it leads to.     *)
LEMMA Found ==
  ASSUME StateKept(Now), NEW d, NEW name \in Name, VfsEntry(d, name)
  PROVE  /\ d \in DOMAIN dirs /\ Matches(dirs[d], name) # {}
         /\ tux_find_dirent(Now, d, name) \in Entries(dirs[d])
         /\ At(dirs[d], tux_find_dirent(Now, d, name)).name = name
         /\ Target(d, name) = At(dirs[d], tux_find_dirent(Now, d, name)).inum
         /\ Target(d, name) \in Nat
<1> DEFINE at == tux_find_dirent(Now, d, name)
<1>1. d \in DOMAIN dirs /\ Matches(dirs[d], name) # {}
  BY DEF VfsEntry, VfsDir
<1>2. DirKept(dirs[d], names[d])
  BY <1>1, NowIs DEF StateKept
<1>3. at = tux_find_entry(dirs[d], name)
  BY NowIs DEF tux_find_dirent
<1>4. at \in Entries(dirs[d]) /\ At(dirs[d], at).name = name
  BY <1>1, <1>2, <1>3, FindCorrect DEF DirKept
<1>5. Target(d, name) = At(dirs[d], at).inum
  BY <1>3 DEF Target, At
<1>6. At(dirs[d], at).inum \in Nat
  BY <1>2, <1>4, EntryNamed
<1> QED
  BY <1>1, <1>4, <1>5, <1>6

(* Creating a file or a directory.                                         *)
LEMMA MknodStep ==
  ASSUME StateKept(Now), NEW d, NEW name \in Name, NEW isdir, tux3_mknod(d, name, isdir)
  PROVE  StateKept(Now)'
<1> DEFINE i == alloc_inum
           I == Inums \ DOMAIN inodes
           new == IF isdir THEN [Now EXCEPT !.inodes = With(@, i, Inode(TRUE, 2)),
                                            !.dirs   = With(@, i, <<>>),
                                            !.names  = With(@, i, <<>>)]
                  ELSE [Now EXCEPT !.inodes = With(@, i, Inode(FALSE, 1))]
           c == tux_create_dirent(new, d, name, i)
           r == CountSubdir(c, d, isdir)
<1>1. /\ VfsAbsent(d, name) /\ I # {} /\ Finish(r)
  BY DEF tux3_mknod
<1>2. i \in I /\ i \in Nat
  <2>1. I \subseteq Nat
    BY NameiAssumption
  <2>2. \E x \in I : \A y \in I : x <= y
    BY <1>1, <2>1, LeastNat
  <2>3. i \in I
    BY <2>2 DEF alloc_inum
  <2> QED
    BY <2>1, <2>3
<1>3. d \in DOMAIN dirs /\ Matches(dirs[d], name) = {}
  BY <1>1 DEF VfsAbsent, VfsDir
<1> HIDE DEF i
<1>4. d # i /\ i \notin DOMAIN dirs
  BY <1>2, <1>3, NowIs DEF StateKept
<1>5. StateKept(new) /\ d \in DOMAIN new.dirs /\ new.dirs[d] = dirs[d]
  <2>1. CASE isdir
    <3>1. /\ IsState(new) /\ new.inodes = With(inodes, i, Inode(TRUE, 2))
          /\ new.dirs = With(dirs, i, <<>>) /\ new.names = With(names, i, <<>>)
      BY <2>1, NowIs, Zenon DEF IsState
    <3>2. /\ DOMAIN new.inodes = DOMAIN inodes \cup {i} /\ DOMAIN new.dirs = DOMAIN dirs \cup {i}
          /\ DOMAIN new.names = DOMAIN names \cup {i}
          /\ new.dirs[i] = <<>> /\ new.names[i] = <<>>
          /\ \A e \in DOMAIN dirs : e # i => new.dirs[e] = dirs[e]
          /\ \A e \in DOMAIN names : e # i => new.names[e] = names[e]
      BY <3>1 DEF With
    <3>3. DirKept(new.dirs[i], new.names[i])
      <4>1. DOMAIN <<>> = {}
        OBVIOUS
      <4>2. DirKept(<<>>, <<>>)
        BY <4>1, EmptyKept
      <4> QED
        BY <3>2, <4>2
    <3> HIDE DEF new
    <3>4. \A e \in DOMAIN dirs : DirKept(dirs[e], names[e])
      BY NowIs DEF StateKept
    <3>5. DOMAIN names = DOMAIN dirs /\ DOMAIN inodes \subseteq Inums /\ DOMAIN dirs \subseteq DOMAIN inodes
      BY NowIs DEF StateKept
    <3>6. \A e \in DOMAIN new.dirs : DirKept(new.dirs[e], new.names[e])
      BY <3>2, <3>3, <3>4, <3>5
    <3> QED
      BY <1>2, <1>3, <1>4, <3>1, <3>2, <3>5, <3>6 DEF StateKept
  <2>2. CASE ~isdir
    <3>1. /\ IsState(new) /\ new.inodes = With(inodes, i, Inode(FALSE, 1))
          /\ new.dirs = dirs /\ new.names = names
      BY <2>2, NowIs, Zenon DEF IsState
    <3>2. DOMAIN new.inodes = DOMAIN inodes \cup {i}
      BY <3>1 DEF With
    <3> HIDE DEF new
    <3> QED
      BY <1>2, <1>3, <3>1, <3>2, NowIs DEF StateKept
  <2> QED
    BY <2>1, <2>2
<1> HIDE DEF new
<1>6. StateKept(c)
  BY <1>2, <1>3, <1>5, CreateState
<1> HIDE DEF c
<1>7. StateKept(r)
  <2>1. CASE isdir
    <3>1. r = AddLinks(c, d, 1)
      BY <2>1 DEF CountSubdir
    <3> QED
      BY <1>6, <3>1, LinksState
  <2>2. CASE ~isdir
    BY <1>6, <2>2 DEF CountSubdir
  <2> QED
    BY <2>1, <2>2
<1> HIDE DEF r
<1> QED
  BY <1>1, <1>7, FinishKept

(* Another link to a file.                                                 *)
LEMMA LinkStep ==
  ASSUME StateKept(Now), NEW inum \in DOMAIN inodes, NEW d, NEW name \in Name, tux3_link(inum, d, name)
  PROVE  StateKept(Now)'
<1> DEFINE a == AddLinks(Now, inum, 1)
           c == tux_create_dirent(a, d, name, inum)
<1>1. VfsAbsent(d, name) /\ Finish(c)
  BY DEF tux3_link
<1>2. d \in DOMAIN dirs /\ Matches(dirs[d], name) = {}
  BY <1>1 DEF VfsAbsent, VfsDir
<1>3. StateKept(a) /\ a.dirs = dirs
  BY LinksState, NowIs
<1>4. inum \in Nat
  BY NowIs, NameiAssumption DEF StateKept
<1> HIDE DEF a
<1>5. StateKept(c)
  BY <1>2, <1>3, <1>4, CreateState
<1> HIDE DEF c
<1> QED
  BY <1>1, <1>5, FinishKept

(* Removing a link.                                                        *)
LEMMA UnlinkStep ==
  ASSUME StateKept(Now), NEW d, NEW name \in Name, tux3_unlink(d, name)
  PROVE  StateKept(Now)'
<1> DEFINE at == tux_find_dirent(Now, d, name)
           c == tux_delete_dirent(Now, d, name, at)
           r == AddLinks(c, Target(d, name), -1)
<1>1. VfsEntry(d, name) /\ Finish(r)
  BY DEF tux3_unlink
<1>2. d \in DOMAIN dirs /\ at \in Entries(dirs[d]) /\ At(dirs[d], at).name = name
  BY <1>1, Found
<1> HIDE DEF at
<1>3. StateKept(c)
  BY <1>2, NowIs, DeleteState
<1> HIDE DEF c
<1>4. StateKept(r)
  BY <1>3, LinksState
<1> HIDE DEF r
<1> QED
  BY <1>1, <1>4, FinishKept

(* Removing a directory: it is empty, so it cannot be the one that it is   *)
(* removed from.                                                           *)
LEMMA RmdirStep ==
  ASSUME StateKept(Now), NEW d, NEW name \in Name, tux3_rmdir(d, name)
  PROVE  StateKept(Now)'
<1> DEFINE at == tux_find_dirent(Now, d, name)
           i == Target(d, name)
           s == tux_delete_dirent(Now, d, name, at)
           e == [s EXCEPT !.dirs[i] = <<>>, !.inodes[i].nlink = 0]
           r == AddLinks(e, d, -1)
<1>1. VfsEntry(d, name) /\ tux_dir_is_empty(i) /\ Finish(r)
  BY DEF tux3_rmdir
<1>2. d \in DOMAIN dirs /\ at \in Entries(dirs[d]) /\ At(dirs[d], at).name = name
  BY <1>1, Found
<1> HIDE DEF at, i
<1>a. s = tux_delete_dirent(Now, d, name, at)
  OBVIOUS
<1> DEFINE empty == <<>>
<1>b. e = [s EXCEPT !.dirs[i] = empty, !.inodes[i].nlink = 0]
  OBVIOUS
<1> HIDE DEF s, e, empty
<1>3. /\ StateKept(s) /\ DOMAIN s.dirs = DOMAIN dirs
      /\ \A c \in DOMAIN dirs : c # d => s.dirs[c] = dirs[c] /\ s.names[c] = names[c]
  <2>1. Now.dirs = dirs /\ Now.names = names
    BY NowIs
  <2>2. StateKept(s) /\ DOMAIN s.dirs = DOMAIN Now.dirs /\ OthersStay(Now, s, d)
    BY <1>2, <1>a, <2>1, DeleteState
  <2> QED
    BY <2>1, <2>2 DEF OthersStay
<1>4. i \in DOMAIN dirs => Entries(dirs[i]) = {}
  BY <1>1 DEF tux_dir_is_empty, Entries, At
<1>5. i # d
  BY <1>2, <1>4
<1>6. /\ IsState(e) /\ e.dirs = [s.dirs EXCEPT ![i] = empty] /\ e.names = s.names
      /\ e.inodes = [s.inodes EXCEPT ![i].nlink = 0]
  <2>1. IsState(s)
    BY <1>3 DEF StateKept
  <2> QED
    BY <1>b, <2>1, Zenon DEF IsState
<1>7. /\ DOMAIN e.dirs = DOMAIN s.dirs /\ DOMAIN e.inodes = DOMAIN s.inodes
      /\ \A c \in DOMAIN s.dirs : c # i => e.dirs[c] = s.dirs[c]
      /\ i \in DOMAIN s.dirs => e.dirs[i] = empty
  BY <1>6
<1>8. \A c \in DOMAIN e.dirs : DirKept(e.dirs[c], e.names[c])
  <2> SUFFICES ASSUME NEW c \in DOMAIN s.dirs PROVE DirKept(e.dirs[c], e.names[c])
    BY <1>7
  <2>1. CASE c # i
    BY <1>3, <1>6, <1>7, <2>1 DEF StateKept
  <2>2. CASE c = i
    <3>1. s.names[i] = names[i] /\ i \in DOMAIN dirs
      BY <1>3, <1>5, <2>2
    <3>2. DirKept(dirs[i], names[i])
      BY <3>1, NowIs DEF StateKept
    <3>3. DOMAIN names[i] = {}
      BY <1>4, <3>1, <3>2, NoEntryNoName
    <3>4. DirKept(empty, names[i])
      BY <3>3, EmptyKept DEF empty
    <3>5. e.dirs[i] = empty
      BY <1>7, <2>2
    <3> QED
      BY <1>6, <2>2, <3>1, <3>4, <3>5
  <2> QED
    BY <2>1, <2>2
<1>9. StateKept(e)
  BY <1>3, <1>6, <1>7, <1>8 DEF StateKept
<1>10. StateKept(r)
  BY <1>9, LinksState
<1> HIDE DEF r
<1> QED
  BY <1>1, <1>10, FinishKept

(* Renaming onto an existing entry: the old entry is where it was found.   *)
LEMMA RenameOverStep ==
  ASSUME StateKept(Now), NEW od, NEW on \in Name, NEW nd, NEW nn \in Name,
         rename_over(od, on, nd, nn)
  PROVE  StateKept(Now)'
<1> DEFINE old == Target(od, on)
           new == Target(nd, nn)
           at == tux_find_dirent(Now, od, on)
           n == IF inodes[old].isdir THEN -2 ELSE -1
           u == tux_update_dirent(Now, nd, nn, old)
           a == AddLinks(u, new, n)
           r == tux_delete_dirent(a, od, on, at)
<1>1. VfsEntry(od, on) /\ VfsEntry(nd, nn) /\ Finish(r)
  BY DEF rename_over, DeleteOld
<1>2. od \in DOMAIN dirs /\ at \in Entries(dirs[od]) /\ At(dirs[od], at).name = on /\ old \in Nat
  BY <1>1, Found
<1>3. nd \in DOMAIN dirs /\ Matches(dirs[nd], nn) # {}
  BY <1>1, Found
<1>4. Now.dirs = dirs
  BY NowIs
<1>5. u = tux_update_dirent(Now, nd, nn, old) /\ a = AddLinks(u, new, n)
  OBVIOUS
<1>6. r = tux_delete_dirent(a, od, on, at)
  OBVIOUS
<1> HIDE DEF old, new, at, n, u, a, r
<1>7. StateKept(u) /\ DOMAIN u.dirs = DOMAIN Now.dirs /\ EntriesStay(Now, u)
  <2>1. nd \in DOMAIN Now.dirs /\ HasEntry(Now.dirs[nd], nn)
    BY <1>3, <1>4 DEF HasEntry
  <2>2. old \in Nat /\ u = tux_update_dirent(Now, nd, nn, old)
    BY <1>2, <1>5
  <2> QED
    BY <2>1, <2>2, UpdateState
<1>8. StateKept(a) /\ a.dirs = u.dirs
  BY <1>5, <1>7, LinksState
<1>9. od \in DOMAIN a.dirs /\ at \in Entries(a.dirs[od]) /\ At(a.dirs[od], at).name = on
  BY <1>2, <1>4, <1>7, <1>8 DEF EntriesStay
<1>10. StateKept(r)
  BY <1>6, <1>8, <1>9, DeleteState
<1> QED
  BY <1>1, <1>10, FinishKept

(* Renaming to a new entry, which may be in the same block as the old one: *)
(* the old entry is still where it was found.                              *)
LEMMA RenameToNewStep ==
  ASSUME StateKept(Now), NEW od, NEW on \in Name, NEW nd, NEW nn \in Name,
         rename_to_new(od, on, nd, nn)
  PROVE  StateKept(Now)'
<1> DEFINE old == Target(od, on)
           at == tux_find_dirent(Now, od, on)
           sub == inodes[old].isdir /\ od # nd
           c == tux_create_dirent(Now, nd, nn, old)
           t == tux_delete_dirent(c, od, on, at)
           a == AddLinks(t, nd, 1)
           b == AddLinks(a, od, -1)
<1>1. VfsEntry(od, on) /\ VfsAbsent(nd, nn) /\ Finish(IF sub THEN b ELSE t)
  BY DEF rename_to_new, DeleteOld
<1>2. od \in DOMAIN dirs /\ at \in Entries(dirs[od]) /\ At(dirs[od], at).name = on /\ old \in Nat
  BY <1>1, Found
<1>3. nd \in DOMAIN dirs /\ Matches(dirs[nd], nn) = {}
  BY <1>1 DEF VfsAbsent, VfsDir
<1>4. Now.dirs = dirs
  BY NowIs
<1>5. c = tux_create_dirent(Now, nd, nn, old) /\ t = tux_delete_dirent(c, od, on, at)
  OBVIOUS
<1>6. a = AddLinks(t, nd, 1) /\ b = AddLinks(a, od, -1)
  OBVIOUS
<1> HIDE DEF old, at, c, t, a, b
<1>7. StateKept(c) /\ DOMAIN c.dirs = DOMAIN Now.dirs /\ EntriesStay(Now, c)
  BY <1>2, <1>3, <1>4, <1>5, CreateState
<1>8. od \in DOMAIN c.dirs /\ at \in Entries(c.dirs[od]) /\ At(c.dirs[od], at).name = on
  BY <1>2, <1>4, <1>7 DEF EntriesStay
<1>9. StateKept(t)
  BY <1>5, <1>7, <1>8, DeleteState
<1>10. StateKept(b)
  BY <1>6, <1>9, LinksState
<1>11. CASE sub
  BY <1>1, <1>10, <1>11, FinishKept
<1>12. CASE ~sub
  BY <1>1, <1>9, <1>12, FinishKept
<1> QED
  BY <1>11, <1>12

(* Closing a directory, which deletes one that was removed while open.     *)
LEMMA CloseStep ==
  ASSUME StateKept(Now), closedir
  PROVE  StateKept(Now)'
<1> DEFINE none == NoReader
           s == [Now EXCEPT !.reader = none]
<1>1. Finish(s)
  BY DEF closedir
<1>2. s = [Now EXCEPT !.reader = none]
  OBVIOUS
<1> HIDE DEF none, s
<1>3. IsState(s) /\ s.inodes = inodes /\ s.dirs = dirs /\ s.names = names
  BY <1>2, NowIs, Zenon DEF IsState
<1>4. StateKept(s)
  BY <1>3, NowIs DEF StateKept
<1> QED
  BY <1>1, <1>4, FinishKept

(* Steps that only move the reader, and those that change nothing.         *)
LEMMA ReaderStep ==
  ASSUME StateKept(Now), UNCHANGED <<inodes, dirs, names>>
  PROVE  StateKept(Now)'
<1> DEFINE n == [inodes |-> inodes', dirs |-> dirs', reader |-> reader', names |-> names']
<1>1. IsState(n) /\ n.inodes = inodes /\ n.dirs = dirs /\ n.names = names
  BY DEF IsState
<1>2. Now' = n
  BY DEF Now
<1> HIDE DEF n
<1>3. StateKept(n)
  BY <1>1, NowIs DEF StateKept
<1> QED
  BY <1>2, <1>3

(* The root directory starts empty.                                        *)
LEMMA InitKept ==
  ASSUME Init
  PROVE  StateKept(Now)
<1>1. /\ DOMAIN inodes = {Root} /\ DOMAIN dirs = {Root} /\ DOMAIN names = {Root}
      /\ dirs[Root] = <<>> /\ names[Root] = <<>>
  BY DEF Init
<1>2. DOMAIN <<>> = {}
  OBVIOUS
<1>3. DirKept(dirs[Root], names[Root])
  BY <1>1, <1>2, EmptyKept
<1> QED
  BY <1>1, <1>3, NowIs, NameiAssumption DEF StateKept

(* The start of a directory is before all of its entries.                  *)
LEMMA BehindStart ==
  ASSUME NEW dir \in Dirs(Nat)
  PROVE  Behind(dir, <<1, 0>>) = Entries(dir)
<1> DEFINE All == UNION {{b} \X DOMAIN dir[b] : b \in DOMAIN dir}
           start == <<1, 0>>
<1>1. ASSUME NEW at \in All
      PROVE  ~Precedes(at, start)
  <2>1. PICK b \in DOMAIN dir : at \in {b} \X DOMAIN dir[b]
    OBVIOUS
  <2>2. at[1] = b /\ at[2] \in DOMAIN dir[b]
    BY <2>1
  <2>3. b \in Nat /\ b >= 1
    BY DEF Dirs
  <2>4. at[2] \in Nat
    BY <2>2, DirBlock, BlockType
  <2>5. start[1] = 1 /\ start[2] = 0
    OBVIOUS
  <2> QED
    BY <2>2, <2>3, <2>4, <2>5 DEF Precedes
<1> QED
  BY <1>1, Zenon DEF Behind, Entries, At

(* What the invariant says of the directories there are.                   *)
LEMMA KeptNames ==
  ASSUME StateKept(Now)
  PROVE  NamesKept /\ \A d \in DOMAIN dirs : WellFormed(dirs[d])
<1> SUFFICES ASSUME NEW d \in DOMAIN dirs
             PROVE  /\ WellFormed(dirs[d])
                    /\ {<<dirs[d][at[1]][at[2]].name, dirs[d][at[1]][at[2]].inum>> :
                          at \in Behind(dirs[d], <<1, 0>>)}
                         = {<<name, names[d][name]>> : name \in DOMAIN names[d]}
  BY DEF NamesKept
<1>1. DirKept(dirs[d], names[d])
  BY NowIs DEF StateKept
<1>2. Behind(dirs[d], <<1, 0>>) = Entries(dirs[d])
  BY <1>1, BehindStart DEF DirKept
<1> QED
  BY <1>1, <1>2, Zenon DEF DirKept, Listing, Graph, At

(* Every operation keeps the names and the blocks.                         *)
LEMMA NextKept ==
  ASSUME StateKept(Now), [Next]_vars
  PROVE  StateKept(Now)'
<1>1. ASSUME NEW d \in DOMAIN dirs, NEW name \in Name, tux3_mknod(d, name, FALSE)
      PROVE  StateKept(Now)'
  BY <1>1, MknodStep
<1>2. ASSUME NEW d \in DOMAIN dirs, NEW name \in Name, tux3_symlink(d, name)
      PROVE  StateKept(Now)'
  BY <1>2, MknodStep DEF tux3_symlink
<1>3. ASSUME NEW d \in DOMAIN dirs, NEW name \in Name, tux3_mkdir(d, name)
      PROVE  StateKept(Now)'
  BY <1>3, MknodStep DEF tux3_mkdir
<1>4. ASSUME NEW d \in DOMAIN dirs, NEW name \in Name, NEW i \in DOMAIN inodes, tux3_link(i, d, name)
      PROVE  StateKept(Now)'
  BY <1>4, LinkStep
<1>5. ASSUME NEW d \in DOMAIN dirs, NEW name \in Name, tux3_unlink(d, name)
      PROVE  StateKept(Now)'
  BY <1>5, UnlinkStep
<1>6. ASSUME NEW d \in DOMAIN dirs, NEW name \in Name, tux3_rmdir(d, name)
      PROVE  StateKept(Now)'
  BY <1>6, RmdirStep
<1>7. ASSUME NEW d \in DOMAIN dirs, NEW name \in Name, NEW nd \in DOMAIN dirs, NEW nn \in Name,
             tux3_rename(d, name, nd, nn)
      PROVE  StateKept(Now)'
  BY <1>7, RenameOverStep, RenameToNewStep DEF tux3_rename
<1>8. ASSUME NEW d \in DOMAIN dirs, opendir(d)
      PROVE  StateKept(Now)'
  BY <1>8, ReaderStep DEF opendir
<1>9. CASE tux_readdir \/ tux_readdir_end
  BY <1>9, ReaderStep DEF tux_readdir, tux_readdir_end
<1>10. CASE closedir
  BY <1>10, CloseStep
<1>11. CASE UNCHANGED vars
  BY <1>11, ReaderStep DEF vars
<1> QED
  BY <1>1, <1>2, <1>3, <1>4, <1>5, <1>6, <1>7, <1>8, <1>9, <1>10, <1>11 DEF Next

(* A directory has exactly the entries that were created in it or renamed  *)
(* to and not removed or renamed since: tux_create_entry, tux_delete_entry *)
(* and tux3_rename, for any blocks and names.                              *)
THEOREM NamesCorrect == Spec => []NamesKept
<1>1. Init => StateKept(Now)
  BY InitKept
<1>2. StateKept(Now) /\ [Next]_vars => StateKept(Now)'
  BY NextKept
<1>3. StateKept(Now) => NamesKept
  BY KeptNames
<1> QED
  BY <1>1, <1>2, <1>3, PTL DEF Spec

(* The records of every directory always fill its blocks without gaps or   *)
(* overlaps, and no name is in a directory twice.                          *)
THEOREM BlocksCorrect == Spec => [](\A d \in DOMAIN dirs : WellFormed(dirs[d]))
<1>1. Init => StateKept(Now)
  BY InitKept
<1>2. StateKept(Now) /\ [Next]_vars => StateKept(Now)'
  BY NextKept
<1>3. StateKept(Now) => \A d \in DOMAIN dirs : WellFormed(dirs[d])
  BY KeptNames
<1> QED
  BY <1>1, <1>2, <1>3, PTL DEF Spec

-----------------------------------------------------------------------------
(***************************************************************************)
(* Readers.  An entry of a name that has been in the directory since it    *)
(* was opened has been given exactly if it is before the place, and no     *)
(* such entry is between a header that the reader relies on and the place, *)
(* so that the place may move back to a new entry at that header.          *)
(***************************************************************************)
IsReader(rd) ==
  rd = [dir |-> rd.dir, place |-> rd.place, relied |-> rd.relied, given |-> rd.given, since |-> rd.since]

Told(rd, name, at) ==
  /\ name \in rd.given <=> Precedes(at, rd.place)
  /\ \A h \in rd.relied : Precedes(at, h) \/ ~Precedes(at, rd.place)

Positions == Nat \X Nat

PlaceKept(rd, dir) ==
  /\ rd.place \in Positions /\ rd.relied \subseteq Positions
  /\ \A h \in rd.relied : Precedes(h, rd.place)
  /\ \A at \in Entries(dir) : At(dir, at).name \in rd.since => Told(rd, At(dir, at).name, at)

ReaderOK(rd, dir, f) ==
  /\ rd.since \subseteq DOMAIN f
  /\ rd.place = Lost => rd.relied = {}
  /\ rd.place # Lost => PlaceKept(rd, dir)

(* Positions are ordered.                                                  *)
LEMMA PlaceOrder ==
  /\ \A x, y \in Positions : Precedes(x, y) \/ Precedes(y, x) \/ x = y
  /\ \A x, y \in Positions : Precedes(x, y) => ~Precedes(y, x) /\ x # y
  /\ \A x, y, z \in Positions : Precedes(x, y) /\ Precedes(y, z) => Precedes(x, z)
<1>1. \A x \in Positions : x = <<x[1], x[2]>> /\ x[1] \in Nat /\ x[2] \in Nat
  BY DEF Positions
<1>2. ASSUME NEW x \in Positions, NEW y \in Positions
      PROVE  /\ Precedes(x, y) \/ Precedes(y, x) \/ x = y
             /\ Precedes(x, y) => ~Precedes(y, x) /\ x # y
  <2>1. x[1] = y[1] /\ x[2] = y[2] => x = y
    BY <1>1, Zenon
  <2>2. x[1] \in Nat /\ x[2] \in Nat /\ y[1] \in Nat /\ y[2] \in Nat
    BY <1>1
  <2> QED
    BY <2>1, <2>2 DEF Precedes
<1>3. ASSUME NEW x \in Positions, NEW y \in Positions, NEW z \in Positions, Precedes(x, y), Precedes(y, z)
      PROVE  Precedes(x, z)
  <2>1. /\ x[1] \in Nat /\ x[2] \in Nat /\ y[1] \in Nat /\ y[2] \in Nat
        /\ z[1] \in Nat /\ z[2] \in Nat
    BY <1>1
  <2> QED
    BY <1>3, <2>1 DEF Precedes
<1> QED
  BY <1>2, <1>3

(* Entries are at positions.                                               *)
LEMMA EntryPlace ==
  ASSUME NEW dir \in Dirs(Nat), NEW at \in Entries(dir)
  PROVE  at \in Positions
<1>1. at = <<at[1], at[2]>> /\ at[1] \in DOMAIN dir /\ at[2] \in DOMAIN dir[at[1]]
  BY EntryIs
<1>2. at[1] \in Nat /\ at[2] \in Nat
  BY <1>1, DirBlock, BlockType
<1> QED
  BY <1>1, <1>2 DEF Positions

(* What is before the position behind an entry.                            *)
IsBehind(dir, at, next) ==
  /\ next \in Positions /\ Precedes(at, next)
  /\ \A x \in Entries(dir) : Precedes(x, next) => x = at \/ Precedes(x, at)

(* The position behind an entry is after it and all entries before it, and *)
(* no others.                                                              *)
LEMMA AfterBehind ==
  ASSUME NEW dir \in Dirs(Nat), AllTiled(dir), NEW at \in Entries(dir)
  PROVE  IsBehind(dir, at, After(dir, at))
<1> DEFINE b == at[1]
           p == at[2]
           block == dir[b]
           o == p + block[p].rec_len
<1>1. at = <<b, p>> /\ b \in DOMAIN dir /\ p \in DOMAIN block
  BY EntryIs
<1>2. block \in DirBlocks(Nat) /\ Tiled(block) /\ b \in Nat
  BY <1>1, DirBlock DEF AllTiled
<1>3. /\ p \in Nat /\ block[p].rec_len \in Nat /\ block[p].rec_len >= 16 /\ o <= BlockSize /\ o > p
      /\ o \in Nat /\ BlockSize \in Nat /\ \A q \in DOMAIN block : q > p => q >= o
  <2>1. /\ p \in Nat /\ block[p].rec_len \in Nat /\ block[p].rec_len >= 16 /\ o <= BlockSize
    BY <1>1, <1>2, BlockType, TiledFacts
  <2>2. \A q \in DOMAIN block : q > p => q >= o
    BY <1>1, <1>2 DEF Tiled
  <2> QED
    BY <2>1, <2>2, DirAssumption
<1>4. After(dir, at) = IF o = BlockSize THEN <<b + 1, 0>> ELSE <<b, o>>
  BY DEF After
<1> DEFINE next == After(dir, at)
<1>5. /\ next \in Positions
      /\ o = BlockSize => next[1] = b + 1 /\ next[2] = 0
      /\ o # BlockSize => next[1] = b /\ next[2] = o
  BY <1>2, <1>3, <1>4 DEF Positions
<1>6. \A q \in DOMAIN block : q \in Nat /\ q < BlockSize
  BY <1>2, BlockType, DirAssumption
<1>7. \A x \in Entries(dir) : /\ x = <<x[1], x[2]>> /\ x[1] \in Nat /\ x[2] \in Nat
                              /\ x[1] = b => x[2] \in DOMAIN block
  <2> SUFFICES ASSUME NEW x \in Entries(dir)
               PROVE  /\ x = <<x[1], x[2]>> /\ x[1] \in Nat /\ x[2] \in Nat
                      /\ x[1] = b => x[2] \in DOMAIN block
    OBVIOUS
  <2>1. x = <<x[1], x[2]>> /\ x[1] \in DOMAIN dir /\ x[2] \in DOMAIN dir[x[1]]
    BY EntryIs
  <2> QED
    BY <2>1, DirBlock, BlockType
<1> HIDE DEF next, o, block, b, p
<1>8. Precedes(at, next)
  <2>1. at[1] = b /\ at[2] = p
    BY DEF b, p
  <2> QED
    BY <1>2, <1>3, <1>5, <2>1 DEF Precedes
<1>9. ASSUME NEW x \in Entries(dir), Precedes(x, next) PROVE x = at \/ Precedes(x, at)
  <2>1. at[1] = b /\ at[2] = p
    BY DEF b, p
  <2>2. x[1] \in Nat /\ x[2] \in Nat /\ (x[1] = b => x[2] \in DOMAIN block)
    BY <1>7
  <2>3. x[1] < b \/ (x[1] = b /\ x[2] <= p)
    <3>1. CASE o = BlockSize
      <4>1. x[1] < b + 1
        BY <1>5, <1>9, <2>2, <3>1 DEF Precedes
      <4>2. x[1] = b => x[2] <= p
        BY <1>3, <1>6, <2>2, <3>1
      <4> QED
        BY <1>2, <2>2, <4>1, <4>2
    <3>2. CASE o # BlockSize
      <4>1. x[1] < b \/ (x[1] = b /\ x[2] < o)
        BY <1>5, <1>9, <3>2 DEF Precedes
      <4> QED
        BY <1>3, <2>2, <4>1
    <3> QED
      BY <3>1, <3>2
  <2>4. CASE x[1] = b /\ x[2] = p
    BY <1>1, <1>7, <2>4, Zenon
  <2>5. CASE x[1] < b \/ (x[1] = b /\ x[2] < p)
    BY <2>1, <2>5 DEF Precedes
  <2> QED
    BY <1>3, <2>2, <2>3, <2>4, <2>5
<1> QED
  BY <1>5, <1>8, <1>9 DEF IsBehind, next

(* A name that is not found is not among the names.                        *)
LEMMA NameAbsent ==
  ASSUME NEW dir, NEW f, DirKept(dir, f), NEW name \in Name, Matches(dir, name) = {}
  PROVE  name \notin DOMAIN f
<1>1. dir \in Dirs(Nat) /\ WellFormed(dir) /\ 0 \in Nat
  BY DEF DirKept
<1>2. AllTiled(dir)
  BY <1>1, WellFormedIs
<1>3. \A at \in Entries(dir) : At(dir, at).name # name
  BY <1>1, <1>2, MatchesAre
<1> QED
  BY <1>3, EntryNamed

(* A reader at another place.                                              *)
MovedTo(rd, p, h) == [rd EXCEPT !.place = p, !.relied = h]

(* The parts of a reader that has moved.                                   *)
LEMMA MovedReader ==
  ASSUME NEW rd, IsReader(rd), NEW p, NEW h, NEW r, r = MovedTo(rd, p, h)
  PROVE  /\ IsReader(r) /\ r.dir = rd.dir /\ r.place = p /\ r.relied = h
         /\ r.given = rd.given /\ r.since = rd.since
<1>1. r.dir = rd.dir /\ r.place = p /\ r.relied = h /\ r.given = rd.given /\ r.since = rd.since
  BY Zenon DEF IsReader, MovedTo
<1> DEFINE q == [dir |-> rd.dir, place |-> p, relied |-> h, given |-> rd.given, since |-> rd.since]
<1>2. r = q
  BY Zenon DEF IsReader, MovedTo
<1> QED
  BY <1>1, <1>2, Zenon DEF IsReader

(* A reader that has been given a name.                                    *)
GivenTo(rd, g, p) == [rd EXCEPT !.given = g, !.place = p, !.relied = {}]

(* Its parts.                                                              *)
LEMMA GivenReader ==
  ASSUME NEW rd, IsReader(rd), NEW g, NEW p, NEW r, r = GivenTo(rd, g, p)
  PROVE  /\ IsReader(r) /\ r.dir = rd.dir /\ r.place = p /\ r.relied = {}
         /\ r.given = g /\ r.since = rd.since
<1> DEFINE none == {}
<1>0. r = [rd EXCEPT !.given = g, !.place = p, !.relied = none] /\ none = {}
  BY Zenon DEF GivenTo
<1> HIDE DEF none
<1>1. r.dir = rd.dir /\ r.place = p /\ r.relied = none /\ r.given = g /\ r.since = rd.since
  BY <1>0, Zenon DEF IsReader
<1> DEFINE q == [dir |-> rd.dir, place |-> p, relied |-> none, given |-> g, since |-> rd.since]
<1>2. r = q
  BY <1>0, Zenon DEF IsReader
<1>3. IsReader(r)
  BY <1>1, <1>2, Zenon DEF IsReader
<1> QED
  BY <1>0, <1>1, <1>3, Zenon

(* The same for one that expects fewer names.                              *)
LEMMA FewerReader ==
  ASSUME NEW rd, IsReader(rd), NEW n, NEW r, r = [rd EXCEPT !.since = n]
  PROVE  /\ IsReader(r) /\ r.dir = rd.dir /\ r.place = rd.place /\ r.relied = rd.relied
         /\ r.given = rd.given /\ r.since = n
<1>1. r.dir = rd.dir /\ r.place = rd.place /\ r.relied = rd.relied /\ r.given = rd.given /\ r.since = n
  BY Zenon DEF IsReader
<1> DEFINE q == [dir |-> rd.dir, place |-> rd.place, relied |-> rd.relied, given |-> rd.given, since |-> n]
<1>2. r = q
  BY Zenon DEF IsReader
<1> QED
  BY <1>1, <1>2, Zenon DEF IsReader

(* A place that moves back to a header relied on.                          *)
LEMMA PlaceBack ==
  ASSUME NEW rd, NEW dir \in Dirs(Nat), NEW new \in Dirs(Nat), NEW w \in rd.relied, PlaceKept(rd, dir),
         NEW name, NEW inum, Adds(dir, new, w, name, inum), name \notin rd.since,
         NEW r, r.place = w, r.relied = {h \in rd.relied : Precedes(h, w)},
         r.given = rd.given, r.since = rd.since
  PROVE  PlaceKept(r, new)
<1>1. rd.place \in Positions /\ w \in Positions /\ rd.relied \subseteq Positions /\ Precedes(w, rd.place)
  BY DEF PlaceKept
<1>2. ASSUME NEW x \in Entries(new), At(new, x).name \in rd.since
      PROVE  Told(r, At(new, x).name, x)
  <2>1. x \in Entries(dir) /\ At(new, x).name = At(dir, x).name
    BY <1>2 DEF Adds, SameEntry
  <2>2. x \in Positions
    BY <2>1, EntryPlace
  <2>3. Told(rd, At(new, x).name, x)
    BY <1>2, <2>1 DEF PlaceKept
  <2>4. Precedes(x, w) \/ ~Precedes(x, rd.place)
    BY <2>3 DEF Told
  <2>5. Precedes(x, w) <=> Precedes(x, rd.place)
    BY <1>1, <2>2, <2>4, PlaceOrder
  <2> QED
    BY <2>3, <2>5 DEF Told
<1> QED
  BY <1>1, <1>2 DEF PlaceKept

(* A place that stays when an entry is created.                            *)
LEMMA PlaceSame ==
  ASSUME NEW rd, NEW dir, NEW new, PlaceKept(rd, dir), NEW w, NEW name, NEW inum,
         Adds(dir, new, w, name, inum), name \notin rd.since
  PROVE  PlaceKept(rd, new)
<1>1. ASSUME NEW x \in Entries(new), At(new, x).name \in rd.since
      PROVE  Told(rd, At(new, x).name, x)
  <2>1. x \in Entries(dir) /\ At(new, x).name = At(dir, x).name
    BY <1>1 DEF Adds, SameEntry
  <2> QED
    BY <1>1, <2>1 DEF PlaceKept
<1> QED
  BY <1>1 DEF PlaceKept

(* The reader of a directory in which an entry is created.                 *)
LEMMA CreateReader ==
  ASSUME NEW rd, IsReader(rd), NEW dir, NEW f, DirKept(dir, f), ReaderOK(rd, dir, f),
         NEW new, NEW g, DirKept(new, g), DOMAIN f \subseteq DOMAIN g,
         NEW name, name \notin DOMAIN f, NEW inum, NEW w, Adds(dir, new, w, name, inum),
         NEW d, Reading(rd, d), NEW r, r = ReaderCreates(rd, d, name, w)
  PROVE  IsReader(r) /\ r.dir = rd.dir /\ ReaderOK(r, new, g)
<1>1. dir \in Dirs(Nat) /\ new \in Dirs(Nat) /\ name \notin rd.since /\ rd.since \subseteq DOMAIN g
  BY DEF DirKept, ReaderOK
<1>2. CASE w \in rd.relied
  <2> DEFINE relied == {h \in rd.relied : Precedes(h, w)}
  <2>1. r = [rd EXCEPT !.place = w, !.relied = relied]
    BY <1>2 DEF ReaderCreates
  <2>2. r = MovedTo(rd, w, relied)
    BY <2>1, Zenon DEF MovedTo
  <2>3. PlaceKept(rd, dir)
    BY <1>2 DEF ReaderOK
  <2>4. w \in Positions
    BY <1>2, <2>3 DEF PlaceKept
  <2> HIDE DEF relied
  <2>5. /\ IsReader(r) /\ r.dir = rd.dir /\ r.place = w /\ r.relied = relied
        /\ r.given = rd.given /\ r.since = rd.since
    BY <2>2, MovedReader
  <2>6. PlaceKept(r, new)
    BY <1>1, <1>2, <2>3, <2>5, PlaceBack DEF relied
  <2>7. w # Lost
    BY <2>4, NameiAssumption DEF Positions
  <2> QED
    BY <1>1, <2>5, <2>6, <2>7 DEF ReaderOK
<1>3. CASE w \notin rd.relied /\ \E h \in rd.relied : Overwrites(w, name, h)
  <2> DEFINE none == {}
  <2>1. r = MovedTo(rd, Lost, none) /\ none = {}
    BY <1>3, Zenon DEF ReaderCreates, MovedTo
  <2> HIDE DEF none
  <2>2. /\ IsReader(r) /\ r.dir = rd.dir /\ r.place = Lost /\ r.relied = none
        /\ r.given = rd.given /\ r.since = rd.since
    BY <2>1, MovedReader
  <2> QED
    BY <1>1, <2>1, <2>2 DEF ReaderOK
<1>4. CASE w \notin rd.relied /\ ~\E h \in rd.relied : Overwrites(w, name, h)
  <2>1. r = rd
    BY <1>4 DEF ReaderCreates
  <2>2. rd.place # Lost => PlaceKept(rd, new)
    BY <1>1, PlaceSame DEF ReaderOK
  <2> QED
    BY <1>1, <2>1, <2>2 DEF ReaderOK
<1> QED
  BY <1>2, <1>3, <1>4

(* A place that moves behind the entry that is removed there.              *)
LEMMA PlaceOn ==
  ASSUME NEW rd, NEW dir \in Dirs(Nat), NEW new, NEW at \in Entries(dir), Removes(dir, new, at),
         PlaceKept(rd, dir), rd.place = at, NEW next, IsBehind(dir, at, next),
         NEW r, r.place = next, r.relied = rd.relied \cup {at}, r.given = rd.given, r.since \subseteq rd.since
  PROVE  PlaceKept(r, new)
<1>1. at \in Positions /\ next \in Positions /\ rd.relied \subseteq Positions /\ Precedes(at, next)
  BY EntryPlace DEF IsBehind, PlaceKept
<1>2. \A h \in r.relied : h \in Positions /\ Precedes(h, next)
  <2> SUFFICES ASSUME NEW h \in rd.relied PROVE Precedes(h, next)
    BY <1>1
  <2>1. h \in Positions /\ Precedes(h, at)
    BY <1>1 DEF PlaceKept
  <2> QED
    BY <1>1, <2>1, PlaceOrder
<1>3. ASSUME NEW x \in Entries(new), At(new, x).name \in r.since
      PROVE  Told(r, At(new, x).name, x)
  <2>1. x \in Entries(dir) /\ x # at /\ At(new, x).name = At(dir, x).name
    BY <1>3 DEF Removes, SameEntry
  <2>2. x \in Positions
    BY <2>1, EntryPlace
  <2>3. Told(rd, At(new, x).name, x)
    BY <1>3, <2>1 DEF PlaceKept
  <2>4. Precedes(x, next) => Precedes(x, at)
    BY <2>1 DEF IsBehind
  <2>5. Precedes(x, at) => Precedes(x, next)
    BY <1>1, <2>2, PlaceOrder
  <2> QED
    BY <2>3, <2>4, <2>5 DEF Told
<1> QED
  BY <1>1, <1>2, <1>3 DEF PlaceKept

(* The reader of a directory in which an entry is removed.                 *)
LEMMA DeleteReader ==
  ASSUME NEW rd, IsReader(rd), NEW dir, NEW f, DirKept(dir, f), ReaderOK(rd, dir, f),
         NEW at \in Entries(dir), NEW name, At(dir, at).name = name,
         NEW new, Removes(dir, new, at), NEW g, DOMAIN g = DOMAIN f \ {name},
         NEW d, Reading(rd, d), NEW r, r = ReaderDeletes(rd, d, name, at, dir)
  PROVE  IsReader(r) /\ r.dir = rd.dir /\ ReaderOK(r, new, g)
<1> DEFINE since == rd.since \ {name}
           q == [rd EXCEPT !.since = since]
<1>1. dir \in Dirs(Nat) /\ AllTiled(dir) /\ since \subseteq DOMAIN g /\ since \subseteq rd.since
  BY WellFormedIs DEF DirKept, ReaderOK
<1>2. q = [rd EXCEPT !.since = since]
  OBVIOUS
<1>3. CASE rd.place = at /\ at[2] # 0
  <2> DEFINE after == After(dir, at)
             qrelied == q.relied \cup {at}
  <2>1. r = [q EXCEPT !.place = after, !.relied = qrelied]
    BY <1>3 DEF ReaderDeletes
  <2>2. r = MovedTo(q, after, qrelied) /\ qrelied = q.relied \cup {at}
    BY <2>1, Zenon DEF MovedTo
  <2>3. IsBehind(dir, at, after)
    BY <1>1, AfterBehind
  <2> HIDE DEF since, q, after, qrelied
  <2>4. /\ IsReader(q) /\ q.dir = rd.dir /\ q.relied = rd.relied
        /\ q.given = rd.given /\ q.since = since
    BY <1>2, FewerReader
  <2>5. /\ IsReader(r) /\ r.dir = rd.dir /\ r.place = after /\ r.relied = qrelied
        /\ r.given = rd.given /\ r.since = since
    BY <2>2, <2>4, MovedReader
  <2>6. at \in Positions /\ after \in Positions
    BY <1>1, <2>3, EntryPlace DEF IsBehind
  <2>7. rd.place # Lost /\ after # Lost
    BY <1>3, <2>6, NameiAssumption DEF Positions
  <2>8. PlaceKept(rd, dir)
    BY <2>7 DEF ReaderOK
  <2>9. PlaceKept(r, new)
    <3>1. r.relied = rd.relied \cup {at} /\ r.since \subseteq rd.since
      BY <1>1, <2>2, <2>4, <2>5
    <3> QED
      BY <1>1, <1>3, <2>3, <2>5, <2>8, <3>1, PlaceOn
  <2> QED
    BY <1>1, <2>5, <2>7, <2>9 DEF ReaderOK
<1>4. CASE ~(rd.place = at /\ at[2] # 0)
  <2>1. r = q
    BY <1>4 DEF ReaderDeletes
  <2> HIDE DEF since, q
  <2>2. /\ IsReader(r) /\ r.dir = rd.dir /\ r.place = rd.place /\ r.relied = rd.relied
        /\ r.given = rd.given /\ r.since = since
    BY <1>2, <2>1, FewerReader
  <2>3. ASSUME PlaceKept(rd, dir) PROVE PlaceKept(r, new)
    <3>1. ASSUME NEW x \in Entries(new), At(new, x).name \in r.since
          PROVE  Told(r, At(new, x).name, x)
      <4>1. x \in Entries(dir) /\ At(new, x).name = At(dir, x).name /\ At(new, x).name \in rd.since
        BY <1>1, <2>2, <3>1 DEF Removes, SameEntry
      <4>2. Told(rd, At(new, x).name, x)
        BY <2>3, <4>1 DEF PlaceKept
      <4> QED
        BY <2>2, <4>2 DEF Told
    <3> QED
      BY <2>2, <2>3, <3>1 DEF PlaceKept
  <2> QED
    BY <1>1, <2>2, <2>3 DEF ReaderOK
<1> QED
  BY <1>3, <1>4

(* The reader of a directory in which an entry leads elsewhere.            *)
LEMMA UpdateReader ==
  ASSUME NEW rd, NEW dir, NEW f, ReaderOK(rd, dir, f), NEW new, SameNames(dir, new),
         NEW g, DOMAIN g = DOMAIN f
  PROVE  ReaderOK(rd, new, g)
<1>1. PlaceKept(rd, dir) => PlaceKept(rd, new)
  BY DEF PlaceKept, SameNames
<1> QED
  BY <1>1 DEF ReaderOK

(* The reader of a directory that has become empty.                        *)
LEMMA EmptyReader ==
  ASSUME NEW rd, NEW dir, NEW f, ReaderOK(rd, dir, f), DOMAIN f = {}, NEW new
  PROVE  ReaderOK(rd, new, f)
<1>1. rd.since = {}
  BY DEF ReaderOK
<1>2. PlaceKept(rd, dir) => PlaceKept(rd, new)
  BY <1>1 DEF PlaceKept
<1> QED
  BY <1>1, <1>2 DEF ReaderOK

(* A reader that starts.                                                   *)
LEMMA OpenedReader ==
  ASSUME NEW dir \in Dirs(Nat), NEW f, NEW rd, IsReader(rd), rd.place = <<1, 0>>, rd.relied = {},
         rd.given = {}, rd.since = DOMAIN f
  PROVE  ReaderOK(rd, dir, f)
<1> DEFINE start == <<1, 0>>
<1>1. \A x \in Entries(dir) : ~Precedes(x, start)
  <2>1. Behind(dir, start) = Entries(dir)
    BY BehindStart
  <2> QED
    BY <2>1 DEF Behind
<1>2. start \in Positions /\ rd.place = start
  BY DEF Positions
<1> HIDE DEF start
<1>3. PlaceKept(rd, dir)
  BY <1>1, <1>2 DEF PlaceKept, Told
<1> QED
  BY <1>3 DEF ReaderOK

(* The entries from a place on.                                            *)
LEMMA BehindIs ==
  ASSUME NEW dir \in Dirs(Nat), NEW place
  PROVE  /\ Behind(dir, place) = {x \in Entries(dir) : ~Precedes(x, place)}
         /\ Behind(dir, place) \subseteq Positions
<1>1. Behind(dir, place) = {x \in Entries(dir) : ~Precedes(x, place)}
  BY DEF Behind, Entries, At
<1> QED
  BY <1>1, EntryPlace

(* The first of them.                                                      *)
LEMMA FirstBehind ==
  ASSUME NEW dir \in Dirs(Nat), NEW place, NEW S, S = Behind(dir, place), S # {}
  PROVE  /\ Foremost(S) \in Entries(dir) /\ ~Precedes(Foremost(S), place)
         /\ \A x \in S : x = Foremost(S) \/ Precedes(Foremost(S), x)
<1> DEFINE at == Foremost(S)
<1>1. S = {x \in Entries(dir) : ~Precedes(x, place)} /\ S \subseteq Positions
  BY BehindIs
<1>2. at \in S /\ IsFirst(at, S)
  BY <1>1, ForemostIn DEF Positions
<1> HIDE DEF at
<1>3. ASSUME NEW x \in S PROVE x = at \/ Precedes(at, x)
  <2>1. at[1] < x[1] \/ (at[1] = x[1] /\ at[2] <= x[2])
    BY <1>2 DEF IsFirst
  <2>2. at \in Positions /\ x \in Positions
    BY <1>1, <1>2
  <2>3. at[1] \in Nat /\ at[2] \in Nat /\ x[1] \in Nat /\ x[2] \in Nat
    BY <2>2 DEF Positions
  <2>4. ~Precedes(x, at)
    BY <2>1, <2>3 DEF Precedes
  <2> QED
    BY <2>2, <2>4, PlaceOrder
<1> QED
  BY <1>1, <1>2, <1>3 DEF at

(* The next place is not before the one it is searched from, with no entry *)
(* between them.                                                           *)
LEMMA NextIs ==
  ASSUME NEW dir \in Dirs(Nat), NEW from \in Positions,
         from[1] <= Len(dir) + 1, from[1] = Len(dir) + 1 => from[2] = 0
  PROVE  /\ NextPlace(dir, from) \in Positions
         /\ NextPlace(dir, from) = from \/ Precedes(from, NextPlace(dir, from))
         /\ \A x \in Entries(dir) : Precedes(x, NextPlace(dir, from)) => Precedes(x, from)
<1> DEFINE S == Behind(dir, from)
<1>1. CASE S = {}
  <2> DEFINE n == Len(dir) + 1
             end == <<n, 0>>
  <2>1. NextPlace(dir, from) = end
    BY <1>1 DEF NextPlace
  <2>2. n \in Nat /\ n = Len(dir) + 1
    BY DEF Dirs
  <2>3. end[1] = n /\ end[2] = 0 /\ end \in Positions
    BY <2>2 DEF Positions
  <2>4. from[1] \in Nat /\ from[2] \in Nat /\ from[1] <= n /\ (from[1] = n => from[2] = 0)
    BY DEF Positions
  <2> HIDE DEF end, n
  <2>5. ~Precedes(end, from)
    BY <2>2, <2>3, <2>4 DEF Precedes
  <2>6. \A x \in Entries(dir) : Precedes(x, from)
    BY <1>1, BehindIs
  <2> QED
    BY <2>1, <2>3, <2>5, <2>6, PlaceOrder
<1>2. CASE S # {}
  <2> DEFINE at == Foremost(S)
  <2>1. NextPlace(dir, from) = at
    BY <1>2 DEF NextPlace
  <2>2. /\ at \in Entries(dir) /\ ~Precedes(at, from)
        /\ \A x \in S : x = at \/ Precedes(at, x)
    BY <1>2, FirstBehind
  <2>3. at \in Positions
    BY <2>2, EntryPlace
  <2> HIDE DEF at
  <2>4. ASSUME NEW x \in Entries(dir), Precedes(x, at) PROVE Precedes(x, from)
    <3>1. x \in Positions
      BY EntryPlace
    <3>2. x \notin S
      BY <2>2, <2>3, <2>4, <3>1, PlaceOrder
    <3> QED
      BY <3>2, BehindIs
  <2> QED
    BY <2>1, <2>2, <2>3, <2>4, PlaceOrder
<1> QED
  BY <1>1, <1>2

(* The position behind an entry is in the directory or at its end.         *)
LEMMA AfterIn ==
  ASSUME NEW dir \in Dirs(Nat), NEW at \in Entries(dir), NEW next, next = After(dir, at)
  PROVE  next[1] <= Len(dir) + 1 /\ (next[1] = Len(dir) + 1 => next[2] = 0)
<1> DEFINE b == at[1]
           o == at[2] + dir[at[1]][at[2]].rec_len
           n == Len(dir)
<1>1. b \in Nat /\ n \in Nat /\ b <= n
  <2>1. b \in DOMAIN dir
    BY EntryIs
  <2>2. b \in 1..Len(dir) /\ Len(dir) \in Nat
    BY <2>1, DirBlock
  <2> QED
    BY <2>2
<1>2. next = IF o = BlockSize THEN <<b + 1, 0>> ELSE <<b, o>>
  BY DEF After
<1>3. n = Len(dir)
  OBVIOUS
<1> HIDE DEF b, o, n
<1>4. (next[1] = b + 1 /\ next[2] = 0) \/ next[1] = b
  BY <1>2
<1>5. next[1] <= n + 1 /\ (next[1] = n + 1 => next[2] = 0)
  BY <1>1, <1>4
<1> QED
  BY <1>3, <1>5

(* A reader that is given the next entry.                                  *)
LEMMA GivenNext ==
  ASSUME NEW rd, IsReader(rd), rd.place # Lost, NEW dir, NEW f, DirKept(dir, f), ReaderOK(rd, dir, f),
         NEW at, at = Foremost(Behind(dir, rd.place)), Behind(dir, rd.place) # {},
         NEW g, g = rd.given \cup {At(dir, at).name}, NEW p, p = NextPlace(dir, After(dir, at)),
         NEW r, r = GivenTo(rd, g, p)
  PROVE  IsReader(r) /\ r.dir = rd.dir /\ ReaderOK(r, dir, f)
<1>1. dir \in Dirs(Nat) /\ AllTiled(dir) /\ OneEach(dir)
  BY WellFormedIs DEF DirKept
<1>2. PlaceKept(rd, dir) /\ rd.since \subseteq DOMAIN f /\ rd.place \in Positions
  BY DEF ReaderOK, PlaceKept
<1>3. /\ at \in Entries(dir) /\ ~Precedes(at, rd.place)
      /\ \A x \in Behind(dir, rd.place) : x = at \/ Precedes(at, x)
  BY <1>1, FirstBehind
<1>4. at \in Positions
  BY <1>1, <1>3, EntryPlace
<1> DEFINE after == After(dir, at)
<1>5. IsBehind(dir, at, after)
  BY <1>1, <1>3, AfterBehind
<1>6. after[1] <= Len(dir) + 1 /\ (after[1] = Len(dir) + 1 => after[2] = 0)
  BY <1>1, <1>3, AfterIn
<1>7. p = NextPlace(dir, after)
  OBVIOUS
<1> HIDE DEF after
<1>8. after \in Positions /\ Precedes(at, after) /\ \A x \in Entries(dir) : Precedes(x, after) => x = at \/ Precedes(x, at)
  BY <1>5 DEF IsBehind
<1>9. /\ p \in Positions /\ (p = after \/ Precedes(after, p))
      /\ \A x \in Entries(dir) : Precedes(x, p) => Precedes(x, after)
  BY <1>1, <1>6, <1>7, <1>8, NextIs
<1>10. Precedes(at, p)
  BY <1>4, <1>8, <1>9, PlaceOrder
<1>11. /\ IsReader(r) /\ r.dir = rd.dir /\ r.place = p /\ r.relied = {}
       /\ r.given = g /\ r.since = rd.since
  BY GivenReader
<1>12. ASSUME NEW x \in Entries(dir), At(dir, x).name \in rd.since
       PROVE  At(dir, x).name \in g <=> Precedes(x, p)
  <2>1. CASE x = at
    BY <1>10, <2>1
  <2>2. CASE x # at
    <3>1. x \in Positions /\ At(dir, x).name # At(dir, at).name
      BY <1>1, <1>3, <2>2, EntryPlace DEF OneEach
    <3>2. At(dir, x).name \in rd.given <=> Precedes(x, rd.place)
      BY <1>2, <1>12 DEF PlaceKept, Told
    <3>3. ASSUME Precedes(x, rd.place) PROVE Precedes(x, p)
      BY <1>2, <1>3, <1>4, <1>9, <1>10, <3>1, <3>3, PlaceOrder
    <3>4. ASSUME Precedes(x, p) PROVE Precedes(x, rd.place)
      <4>1. Precedes(x, at)
        BY <1>8, <1>9, <2>2, <3>4
      <4>2. x \notin Behind(dir, rd.place)
        BY <1>3, <1>4, <2>2, <3>1, <4>1, PlaceOrder
      <4> QED
        BY <1>1, <4>2, BehindIs
    <3> QED
      BY <3>1, <3>2, <3>3, <3>4
  <2> QED
    BY <2>1, <2>2
<1>13. PlaceKept(r, dir)
  BY <1>9, <1>11, <1>12 DEF PlaceKept, Told
<1>14. p # Lost
  BY <1>9, NameiAssumption DEF Positions
<1> QED
  BY <1>2, <1>11, <1>13, <1>14 DEF ReaderOK

(* A reader that finds nothing left.                                       *)
LEMMA GivenAll ==
  ASSUME NEW rd, IsReader(rd), rd.place # Lost, NEW dir, NEW f, DirKept(dir, f), ReaderOK(rd, dir, f),
         Behind(dir, rd.place) = {}, NEW h, h = {}, NEW p, p = NextPlace(dir, rd.place),
         NEW r, r = MovedTo(rd, p, h)
  PROVE  IsReader(r) /\ r.dir = rd.dir /\ ReaderOK(r, dir, f)
<1>1. dir \in Dirs(Nat) /\ AllTiled(dir) /\ OneEach(dir)
  BY WellFormedIs DEF DirKept
<1>2. PlaceKept(rd, dir) /\ rd.since \subseteq DOMAIN f /\ rd.place \in Positions
  BY DEF ReaderOK, PlaceKept
<1> DEFINE n == Len(dir) + 1
<1>3. n \in Nat /\ n = Len(dir) + 1
  BY <1>1 DEF Dirs
<1>4. p = <<n, 0>>
  BY DEF NextPlace
<1> HIDE DEF n
<1>5. p \in Positions /\ p[1] = n
  BY <1>3, <1>4 DEF Positions
<1>6. ASSUME NEW x \in Entries(dir) PROVE Precedes(x, p) /\ Precedes(x, rd.place)
  <2>1. x[1] \in 1..Len(dir) /\ Len(dir) \in Nat
    <3>1. x[1] \in DOMAIN dir
      BY <1>1, EntryIs
    <3> QED
      BY <1>1, <3>1, DirBlock
  <2>2. Precedes(x, p)
    BY <1>3, <1>5, <2>1 DEF Precedes
  <2>3. Precedes(x, rd.place)
    BY <1>1, BehindIs
  <2> QED
    BY <2>2, <2>3
<1>7. /\ IsReader(r) /\ r.dir = rd.dir /\ r.place = p /\ r.relied = {}
      /\ r.given = rd.given /\ r.since = rd.since
  BY MovedReader
<1>8. PlaceKept(r, dir)
  BY <1>2, <1>5, <1>6, <1>7 DEF PlaceKept, Told
<1>9. p # Lost
  BY <1>5, NameiAssumption DEF Positions
<1> QED
  BY <1>2, <1>7, <1>8, <1>9 DEF ReaderOK

-----------------------------------------------------------------------------
(* The reader of a state reads a directory that is there, and its place is *)
(* in order.                                                               *)
ReadsWell(rd, ds, ns) ==
  IsReader(rd) /\ rd.dir \in DOMAIN ns /\ ReaderOK(rd, ds[rd.dir], ns[rd.dir])

ReaderThere(s) == s.reader # NoReader => ReadsWell(s.reader, s.dirs, s.names)

(* A reader whose directory stays as it was.                               *)
LEMMA ThereStays ==
  ASSUME NEW s, NEW r, ReaderThere(s), r.reader = s.reader,
         \A d \in DOMAIN s.names : d \in DOMAIN r.names /\ r.names[d] = s.names[d] /\ r.dirs[d] = s.dirs[d]
  PROVE  ReaderThere(r)
BY DEF ReaderThere, ReadsWell

(* What is read of the names of a directory is given once.                 *)
LEMMA ReadOnce ==
  ASSUME NEW rd, NEW dir, NEW f, DirKept(dir, f), ReaderOK(rd, dir, f), rd.place # Lost, NEW name \in rd.since
  PROVE  name \in rd.given <=> Precedes(tux_find_entry(dir, name), rd.place)
<1>1. dir \in Dirs(Nat) /\ WellFormed(dir) /\ AllTiled(dir) /\ PlaceKept(rd, dir) /\ name \in DOMAIN f /\ name \in Name
  BY WellFormedIs DEF DirKept, ReaderOK
<1>2. PICK at \in Entries(dir) : At(dir, at).name = name
  BY <1>1, EntryNamed
<1>3. Matches(dir, name) # {}
  BY <1>1, <1>2, MatchesAre
<1>4. at = tux_find_entry(dir, name)
  BY <1>1, <1>2, <1>3, FindCorrect
<1> QED
  BY <1>1, <1>2, <1>4 DEF PlaceKept, Told

-----------------------------------------------------------------------------
(***************************************************************************)
(* Links.  ns gives the names of the directories, nodes the inodes.  The   *)
(* entries that lead to an inode, and the names of the subdirectories of a *)
(* directory.                                                              *)
(***************************************************************************)
Into(ns, i) ==
  {e \in (DOMAIN ns) \X Name : e[2] \in DOMAIN ns[e[1]] /\ ns[e[1]][e[2]] = i}

Below(ns, d) == {name \in DOMAIN ns[d] : ns[d][name] \in DOMAIN ns}

Finite(ns) ==
  /\ \A i : IsFiniteSet(Into(ns, i))
  /\ \A d \in DOMAIN ns : IsFiniteSet(Below(ns, d))

IsFun(f) == f = [x \in DOMAIN f |-> f[x]]

(* m is ns with one more name, in the directory d.                         *)
NameAdded(ns, m, d, name, i) ==
  /\ d \in DOMAIN ns /\ name \in Name /\ name \notin DOMAIN ns[d] /\ DOMAIN m = DOMAIN ns
  /\ DOMAIN m[d] = DOMAIN ns[d] \cup {name} /\ m[d][name] = i
  /\ \A n \in DOMAIN ns[d] : m[d][n] = ns[d][n]
  /\ \A c \in DOMAIN ns : c # d => m[c] = ns[c]

(* The inode has one more link, and the directory one more subdirectory if *)
(* the inode is one.                                                       *)
OneMoreLink(ns, m, d, name, i) ==
  /\ Into(m, i) = Into(ns, i) \cup {<<d, name>>}
  /\ \A j : <<d, name>> \notin Into(ns, j)
  /\ \A j : j # i => Into(m, j) = Into(ns, j)
  /\ name \notin Below(ns, d)
  /\ i \in DOMAIN ns => Below(m, d) = Below(ns, d) \cup {name}
  /\ i \notin DOMAIN ns => Below(m, d) = Below(ns, d)
  /\ \A c \in DOMAIN ns : c # d => Below(m, c) = Below(ns, c)

(* A name more is a link more.                                             *)
LEMMA AddedLinks ==
  ASSUME NEW ns, NEW m, NEW d, NEW name, NEW i, NameAdded(ns, m, d, name, i)
  PROVE  OneMoreLink(ns, m, d, name, i)
<1> DEFINE e == <<d, name>>
<1>1. /\ d \in DOMAIN ns /\ name \in Name /\ name \notin DOMAIN ns[d] /\ DOMAIN m = DOMAIN ns
      /\ DOMAIN m[d] = DOMAIN ns[d] \cup {name} /\ m[d][name] = i
      /\ \A n \in DOMAIN ns[d] : m[d][n] = ns[d][n]
      /\ \A c \in DOMAIN ns : c # d => m[c] = ns[c]
  BY DEF NameAdded
<1>2. e[1] = d /\ e[2] = name /\ e \in (DOMAIN ns) \X Name
  BY <1>1
<1>3. ASSUME NEW x \in (DOMAIN ns) \X Name
      PROVE  /\ x = e \/ ((x[2] \in DOMAIN m[x[1]]) <=> (x[2] \in DOMAIN ns[x[1]]))
             /\ x # e /\ x[2] \in DOMAIN ns[x[1]] => m[x[1]][x[2]] = ns[x[1]][x[2]]
  <2>1. x = <<x[1], x[2]>> /\ x[1] \in DOMAIN ns
    BY <1>3
  <2>2. x # e => x[1] # d \/ x[2] # name
    BY <2>1
  <2> HIDE DEF e
  <2>3. CASE x[1] # d
    BY <1>1, <2>1, <2>3, Zenon
  <2>4. CASE x[1] = d
    BY <1>1, <2>2, <2>4
  <2> QED
    BY <2>3, <2>4
<1>4. \A j : e \notin Into(ns, j)
  BY <1>1, <1>2 DEF Into
<1>5. e \in Into(m, i) /\ \A j : j # i => e \notin Into(m, j)
  BY <1>1, <1>2 DEF Into
<1> HIDE DEF e
<1>6. \A j : \A x \in (DOMAIN ns) \X Name : x # e => (x \in Into(m, j) <=> x \in Into(ns, j))
  BY <1>1, <1>3 DEF Into
<1>7. \A j : Into(m, j) \subseteq (DOMAIN ns) \X Name /\ Into(ns, j) \subseteq (DOMAIN ns) \X Name
  BY <1>1 DEF Into
<1>8. Into(m, i) = Into(ns, i) \cup {e}
  BY <1>4, <1>5, <1>6, <1>7
<1>9. ASSUME NEW j, j # i PROVE Into(m, j) = Into(ns, j)
  <2>1. e \notin Into(ns, j) /\ e \notin Into(m, j)
    BY <1>4, <1>5, <1>9
  <2> QED
    BY <1>6, <1>7, <2>1
<1>10. name \notin Below(ns, d) /\ (\A c \in DOMAIN ns : c # d => Below(m, c) = Below(ns, c))
  BY <1>1 DEF Below
<1>11. i \in DOMAIN ns => Below(m, d) = Below(ns, d) \cup {name}
  BY <1>1 DEF Below
<1>12. i \notin DOMAIN ns => Below(m, d) = Below(ns, d)
  BY <1>1 DEF Below
<1> QED
  BY <1>4, <1>8, <1>9, <1>10, <1>11, <1>12 DEF OneMoreLink, e

(* The numbers.                                                            *)
LinkCount(ns, i) == Cardinality(Into(ns, i))

SubCount(ns, d) == Cardinality(Below(ns, d))

OneMoreCounted(ns, m, d, name, i) ==
  /\ LinkCount(m, i) = LinkCount(ns, i) + 1
  /\ \A j : j # i => LinkCount(m, j) = LinkCount(ns, j)
  /\ i \in DOMAIN ns => SubCount(m, d) = SubCount(ns, d) + 1
  /\ i \notin DOMAIN ns => SubCount(m, d) = SubCount(ns, d)
  /\ \A c \in DOMAIN ns : c # d => SubCount(m, c) = SubCount(ns, c)

(* The counts are numbers.                                                 *)
LEMMA CountsType ==
  ASSUME NEW ns, Finite(ns)
  PROVE  /\ \A i : LinkCount(ns, i) \in Nat
         /\ \A d \in DOMAIN ns : SubCount(ns, d) \in Nat
BY FS_CardinalityType DEF Finite, LinkCount, SubCount

(* A name more is one more in the counts.                                  *)
LEMMA AddedCounts ==
  ASSUME NEW ns, NEW m, NEW d, NEW name, NEW i, NameAdded(ns, m, d, name, i), Finite(ns) \/ Finite(m)
  PROVE  Finite(ns) /\ Finite(m) /\ OneMoreCounted(ns, m, d, name, i)
<1>0. d \in DOMAIN ns /\ DOMAIN m = DOMAIN ns
  BY DEF NameAdded
<1>1. OneMoreLink(ns, m, d, name, i)
  BY AddedLinks
<1> DEFINE e == <<d, name>>
<1>2. /\ Into(m, i) = Into(ns, i) \cup {e} /\ e \notin Into(ns, i)
      /\ \A j : j # i => Into(m, j) = Into(ns, j)
      /\ name \notin Below(ns, d)
      /\ i \in DOMAIN ns => Below(m, d) = Below(ns, d) \cup {name}
      /\ i \notin DOMAIN ns => Below(m, d) = Below(ns, d)
      /\ \A c \in DOMAIN ns : c # d => Below(m, c) = Below(ns, c)
  BY <1>1 DEF OneMoreLink
<1> HIDE DEF e
<1>3. Finite(m) => Finite(ns)
  <2> SUFFICES ASSUME Finite(m) PROVE Finite(ns)
    OBVIOUS
  <2>1. Into(ns, i) \subseteq Into(m, i) /\ Below(ns, d) \subseteq Below(m, d)
    BY <1>2
  <2>2. IsFiniteSet(Into(m, i)) /\ IsFiniteSet(Below(m, d))
    BY <1>0 DEF Finite
  <2>3. IsFiniteSet(Into(ns, i)) /\ IsFiniteSet(Below(ns, d))
    BY <2>1, <2>2, FS_Subset
  <2> QED
    BY <1>0, <1>2, <2>3 DEF Finite
<1>4. Finite(ns)
  BY <1>3
<1>5. IsFiniteSet(Into(ns, i)) /\ IsFiniteSet(Below(ns, d))
  BY <1>0, <1>4 DEF Finite
<1>6. IsFiniteSet(Into(m, i)) /\ LinkCount(m, i) = LinkCount(ns, i) + 1
  <2>1. IsFiniteSet(Into(ns, i) \cup {e}) /\ Cardinality(Into(ns, i) \cup {e}) = Cardinality(Into(ns, i)) + 1
    BY <1>2, <1>5, FS_AddElement
  <2> QED
    BY <1>2, <2>1 DEF LinkCount
<1>7. CASE i \in DOMAIN ns
  <2>1. /\ IsFiniteSet(Below(ns, d) \cup {name})
        /\ Cardinality(Below(ns, d) \cup {name}) = Cardinality(Below(ns, d)) + 1
    BY <1>2, <1>5, FS_AddElement
  <2>2. IsFiniteSet(Below(m, d)) /\ SubCount(m, d) = SubCount(ns, d) + 1
    BY <1>2, <1>7, <2>1 DEF SubCount
  <2> QED
    BY <1>0, <1>2, <1>4, <1>6, <1>7, <2>2 DEF Finite, OneMoreCounted, LinkCount, SubCount
<1>8. CASE i \notin DOMAIN ns
  BY <1>0, <1>2, <1>4, <1>6, <1>8 DEF Finite, OneMoreCounted, LinkCount, SubCount
<1> QED
  BY <1>7, <1>8

-----------------------------------------------------------------------------
(* The shape of the names and the inodes.                                  *)
Nodes == [isdir : BOOLEAN, nlink : Int]

Shape(ns, nodes) ==
  /\ nodes \in [DOMAIN nodes -> Nodes]
  /\ DOMAIN ns = {i \in DOMAIN nodes : nodes[i].isdir}
  /\ \A d \in DOMAIN ns :
       /\ IsFun(ns[d]) /\ DOMAIN ns[d] \subseteq Name
       /\ \A name \in DOMAIN ns[d] : ns[d][name] \in DOMAIN nodes
  /\ Finite(ns)

(* What a link count says: exactly the links of a file, and of a directory *)
(* that is linked at least its entry, itself and its subdirectories.  The  *)
(* root has no entry, and a directory without one is empty.                *)
Counted(ns, n, i) ==
  /\ i \notin DOMAIN ns => n = LinkCount(ns, i)
  /\ i \in DOMAIN ns /\ (i = Root \/ Into(ns, i) # {}) => n >= 2 + SubCount(ns, i)
  /\ i = Root => Into(ns, i) = {}
  /\ i \in DOMAIN ns /\ i # Root /\ Into(ns, i) # {} => \E e : Into(ns, i) = {e}
  /\ i \in DOMAIN ns /\ i # Root /\ Into(ns, i) = {} => DOMAIN ns[i] = {}

Tree(ns, nodes) ==
  /\ Shape(ns, nodes) /\ Root \in DOMAIN ns
  /\ \A i \in DOMAIN nodes : Counted(ns, nodes[i].nlink, i)

(* The inodes after a change of link counts.                               *)
SameKinds(nodes, new) ==
  /\ new \in [DOMAIN new -> Nodes] /\ DOMAIN new = DOMAIN nodes
  /\ \A i \in DOMAIN nodes : new[i].isdir = nodes[i].isdir

(* The shape says nothing of the link counts.                              *)
LEMMA ShapeCounts ==
  ASSUME NEW ns, NEW nodes, NEW new, Shape(ns, nodes), SameKinds(nodes, new)
  PROVE  Shape(ns, new)
<1>1. {i \in DOMAIN new : new[i].isdir} = {i \in DOMAIN nodes : nodes[i].isdir}
  BY DEF SameKinds
<1> QED
  BY <1>1 DEF Shape, SameKinds

(* A name that leads to an inode keeps the shape.                          *)
LEMMA ShapeAdded ==
  ASSUME NEW ns, NEW m, NEW nodes, NEW d, NEW name, NEW i \in DOMAIN nodes,
         NameAdded(ns, m, d, name, i), Shape(ns, nodes), IsFun(m[d])
  PROVE  Shape(m, nodes)
<1>1. Finite(m)
  BY AddedCounts DEF Shape
<1>2. /\ d \in DOMAIN ns /\ name \in Name /\ DOMAIN m = DOMAIN ns
      /\ DOMAIN m[d] = DOMAIN ns[d] \cup {name} /\ m[d][name] = i
      /\ \A n \in DOMAIN ns[d] : m[d][n] = ns[d][n]
      /\ \A c \in DOMAIN ns : c # d => m[c] = ns[c]
  BY DEF NameAdded
<1>3. \A c \in DOMAIN ns : DOMAIN ns[c] \subseteq Name /\ \A n \in DOMAIN ns[c] : ns[c][n] \in DOMAIN nodes
  BY DEF Shape
<1>4. \A c \in DOMAIN m : DOMAIN m[c] \subseteq Name /\ \A n \in DOMAIN m[c] : m[c][n] \in DOMAIN nodes
  BY <1>2, <1>3
<1>5. \A c \in DOMAIN m : IsFun(m[c])
  <2>1. \A c \in DOMAIN ns : IsFun(ns[c])
    BY DEF Shape
  <2> QED
    BY <1>2, <2>1
<1> QED
  BY <1>1, <1>2, <1>4, <1>5 DEF Shape

(* And so does taking one away.                                            *)
LEMMA ShapeRemoved ==
  ASSUME NEW ns, NEW m, NEW nodes, NEW d, NEW name, NEW i,
         NameAdded(m, ns, d, name, i), Shape(ns, nodes), IsFun(m[d])
  PROVE  Shape(m, nodes)
<1>1. Finite(m)
  BY AddedCounts DEF Shape
<1>2. /\ d \in DOMAIN m /\ name \in Name /\ DOMAIN m = DOMAIN ns
      /\ DOMAIN ns[d] = DOMAIN m[d] \cup {name}
      /\ \A n \in DOMAIN m[d] : m[d][n] = ns[d][n]
      /\ \A c \in DOMAIN ns : c # d => m[c] = ns[c]
  BY DEF NameAdded
<1>3. \A c \in DOMAIN ns : DOMAIN ns[c] \subseteq Name /\ \A n \in DOMAIN ns[c] : ns[c][n] \in DOMAIN nodes
  BY DEF Shape
<1>4. \A c \in DOMAIN m : DOMAIN m[c] \subseteq Name /\ \A n \in DOMAIN m[c] : m[c][n] \in DOMAIN nodes
  BY <1>2, <1>3
<1>5. \A c \in DOMAIN m : IsFun(m[c])
  <2>1. \A c \in DOMAIN ns : IsFun(ns[c])
    BY DEF Shape
  <2> QED
    BY <1>2, <2>1
<1> QED
  BY <1>1, <1>2, <1>4, <1>5 DEF Shape

-----------------------------------------------------------------------------
(* The count of an inode depends on its links and subdirectories.          *)
LEMMA CountedSame ==
  ASSUME NEW ns, NEW m, NEW i, NEW n, Counted(ns, n, i), DOMAIN m = DOMAIN ns,
         Into(m, i) = Into(ns, i),
         i \in DOMAIN ns => Below(m, i) = Below(ns, i) /\ DOMAIN m[i] = DOMAIN ns[i]
  PROVE  Counted(m, n, i)
BY DEF Counted, LinkCount, SubCount

(* A directory in which names are looked up.                               *)
Open(ns, d) == d = Root \/ Into(ns, d) # {}

(* Link counts that have changed at one inode.                             *)
OneCount(nodes, new, i, n) ==
  /\ SameKinds(nodes, new)
  /\ \A j \in DOMAIN nodes : new[j].nlink = IF j = i THEN nodes[j].nlink + n ELSE nodes[j].nlink

(* A new entry for a file, which counts it.                                *)
LEMMA FileLinked ==
  ASSUME NEW ns, NEW m, NEW nodes, NEW new, NEW d, NEW name, NEW i \in DOMAIN nodes,
         Tree(ns, nodes), NameAdded(ns, m, d, name, i), IsFun(m[d]), Open(ns, d),
         i \notin DOMAIN ns, OneCount(nodes, new, i, 1)
  PROVE  Tree(m, new)
<1>1. Shape(ns, nodes) /\ Finite(ns) /\ Root \in DOMAIN ns /\ (\A j \in DOMAIN nodes : nodes[j].nlink \in Int)
  BY DEF Tree, Shape, Nodes
<1>2. Shape(m, new)
  BY <1>1, ShapeAdded, ShapeCounts DEF OneCount
<1>3. OneMoreLink(ns, m, d, name, i) /\ OneMoreCounted(ns, m, d, name, i) /\ d \in DOMAIN ns /\ DOMAIN m = DOMAIN ns
  BY <1>1, AddedLinks, AddedCounts DEF NameAdded
<1>4. ASSUME NEW j \in DOMAIN nodes PROVE Counted(m, new[j].nlink, j)
  <2>0. Counted(ns, nodes[j].nlink, j)
    BY DEF Tree
  <2>1. CASE j = i
    <3>1. new[j].nlink = nodes[j].nlink + 1 /\ nodes[j].nlink = LinkCount(ns, j) /\ j # Root
      BY <1>1, <2>0, <2>1 DEF OneCount, Counted
    <3> QED
      BY <1>3, <2>1, <3>1 DEF Counted, OneMoreCounted
  <2>2. CASE j # i
    <3>1. new[j].nlink = nodes[j].nlink /\ Into(m, j) = Into(ns, j)
      BY <1>3, <2>2 DEF OneCount, OneMoreLink
    <3>2. j \in DOMAIN ns => Below(m, j) = Below(ns, j)
      BY <1>3 DEF OneMoreLink
    <3>3. CASE j = d
      BY <1>3, <2>0, <3>1, <3>2, <3>3 DEF Counted, Open, LinkCount, SubCount
    <3>4. CASE j # d
      <4>1. j \in DOMAIN ns => DOMAIN m[j] = DOMAIN ns[j]
        BY <3>4 DEF NameAdded
      <4> QED
        BY <1>3, <2>0, <3>1, <3>2, <4>1, CountedSame
    <3> QED
      BY <3>3, <3>4
  <2> QED
    BY <2>1, <2>2
<1>5. DOMAIN new = DOMAIN nodes
  BY DEF OneCount, SameKinds
<1> QED
  BY <1>1, <1>2, <1>3, <1>4, <1>5 DEF Tree

(* A new entry for a new directory, which counts in the directory it is in.*)
LEMMA DirLinked ==
  ASSUME NEW ns, NEW m, NEW nodes, NEW new, NEW d, NEW name, NEW i \in DOMAIN ns, i # Root,
         Tree(ns, nodes), NameAdded(ns, m, d, name, i), IsFun(m[d]), Open(ns, d),
         Into(ns, i) = {}, nodes[i].nlink >= 2, OneCount(nodes, new, d, 1)
  PROVE  Tree(m, new)
<1>1. /\ Shape(ns, nodes) /\ Finite(ns) /\ Root \in DOMAIN ns
      /\ \A j \in DOMAIN nodes : nodes[j].nlink \in Int
      /\ DOMAIN ns \subseteq DOMAIN nodes
  BY DEF Tree, Shape, Nodes
<1>2. Shape(m, new)
  BY <1>1, ShapeAdded, ShapeCounts DEF OneCount
<1>3. OneMoreLink(ns, m, d, name, i) /\ OneMoreCounted(ns, m, d, name, i) /\ d \in DOMAIN ns /\ DOMAIN m = DOMAIN ns
  BY <1>1, AddedLinks, AddedCounts DEF NameAdded
<1>a. i # d /\ DOMAIN ns[i] = {}
  BY <1>1 DEF Open, Tree, Counted
<1>b. DOMAIN new = DOMAIN nodes
  BY DEF OneCount, SameKinds
<1>4. ASSUME NEW j \in DOMAIN nodes PROVE Counted(m, new[j].nlink, j)
  <2>0. Counted(ns, nodes[j].nlink, j)
    BY DEF Tree
  <2>1. CASE j = i
    <3>1. new[j].nlink = nodes[j].nlink /\ nodes[j].nlink >= 2
      BY <1>a, <2>1 DEF OneCount
    <3>2. Below(ns, i) = {}
      BY <1>a DEF Below
    <3>3. SubCount(m, i) = 0
      BY <1>3, <1>a, <3>2, FS_EmptySet DEF OneMoreCounted, SubCount
    <3>4. Into(m, i) = {<<d, name>>}
      BY <1>3 DEF OneMoreLink
    <3>5. new[j].nlink >= 2 + SubCount(m, j) /\ j # Root /\ j \in DOMAIN m
      BY <1>3, <2>1, <3>1, <3>3
    <3>6. Into(m, j) # {} /\ \E e : Into(m, j) = {e}
      BY <2>1, <3>4
    <3> QED
      BY <3>5, <3>6 DEF Counted
  <2>2. CASE j = d
    <3>1. new[j].nlink = nodes[j].nlink + 1 /\ SubCount(m, j) = SubCount(ns, j) + 1
      BY <1>3, <2>2 DEF OneCount, OneMoreCounted
    <3>2. Into(m, j) = Into(ns, j)
      BY <1>3, <1>a, <2>2 DEF OneMoreLink
    <3>3. SubCount(ns, j) \in Nat /\ nodes[j].nlink \in Int
      BY <1>1, <1>3, <2>2, CountsType
    <3>4. nodes[j].nlink >= 2 + SubCount(ns, j)
      BY <1>3, <2>0, <2>2 DEF Open, Counted
    <3>5. new[j].nlink >= 2 + SubCount(m, j)
      BY <3>1, <3>3, <3>4
    <3> QED
      BY <1>3, <2>0, <2>2, <3>2, <3>5 DEF Open, Counted
  <2>3. CASE j # i /\ j # d
    <3>1. new[j].nlink = nodes[j].nlink /\ Into(m, j) = Into(ns, j)
      BY <1>3, <2>3 DEF OneCount, OneMoreLink
    <3>2. j \in DOMAIN ns => Below(m, j) = Below(ns, j) /\ DOMAIN m[j] = DOMAIN ns[j]
      BY <1>3, <2>3 DEF OneMoreLink, NameAdded
    <3> QED
      BY <1>3, <2>0, <3>1, <3>2, CountedSame
  <2> QED
    BY <2>1, <2>2, <2>3
<1> QED
  BY <1>1, <1>2, <1>3, <1>4, <1>b DEF Tree

(* An entry of a file goes, and its count with it.                         *)
LEMMA FileUnlinked ==
  ASSUME NEW ns, NEW m, NEW nodes, NEW new, NEW d, NEW name, NEW i,
         Tree(ns, nodes), NameAdded(m, ns, d, name, i), IsFun(m[d]),
         i \notin DOMAIN ns, OneCount(nodes, new, i, -1)
  PROVE  Tree(m, new)
<1>1. Shape(ns, nodes) /\ Finite(ns) /\ Root \in DOMAIN ns /\ (\A j \in DOMAIN nodes : nodes[j].nlink \in Int)
  BY DEF Tree, Shape, Nodes
<1>2. Shape(m, new)
  BY <1>1, ShapeRemoved, ShapeCounts DEF OneCount
<1>3. /\ OneMoreLink(m, ns, d, name, i) /\ OneMoreCounted(m, ns, d, name, i) /\ Finite(m)
      /\ d \in DOMAIN ns /\ DOMAIN m = DOMAIN ns
  BY <1>1, AddedLinks, AddedCounts DEF NameAdded
<1>4. ASSUME NEW j \in DOMAIN nodes PROVE Counted(m, new[j].nlink, j)
  <2>0. Counted(ns, nodes[j].nlink, j)
    BY DEF Tree
  <2>1. CASE j = i
    <3>1. /\ new[j].nlink = nodes[j].nlink - 1 /\ nodes[j].nlink = LinkCount(ns, j) /\ j # Root
          /\ nodes[j].nlink \in Int
      BY <1>1, <2>0, <2>1 DEF OneCount, Counted
    <3>2. LinkCount(ns, j) = LinkCount(m, j) + 1 /\ LinkCount(m, j) \in Nat
      BY <1>3, <2>1, CountsType DEF OneMoreCounted
    <3>3. new[j].nlink = LinkCount(m, j)
      BY <3>1, <3>2
    <3> QED
      BY <1>3, <2>1, <3>1, <3>3 DEF Counted
  <2>2. CASE j # i
    <3>1. new[j].nlink = nodes[j].nlink /\ Into(m, j) = Into(ns, j)
      BY <1>3, <2>2 DEF OneCount, OneMoreLink
    <3>2. j \in DOMAIN ns => Below(m, j) = Below(ns, j)
      BY <1>3 DEF OneMoreLink
    <3>3. j \in DOMAIN ns => DOMAIN m[j] \subseteq DOMAIN ns[j]
      BY DEF NameAdded
    <3> QED
      BY <1>3, <2>0, <3>1, <3>2, <3>3 DEF Counted, LinkCount, SubCount
  <2> QED
    BY <2>1, <2>2
<1>5. DOMAIN new = DOMAIN nodes
  BY DEF OneCount, SameKinds
<1> QED
  BY <1>1, <1>2, <1>3, <1>4, <1>5 DEF Tree

(* The link counts when the subdirectory i of d goes.                      *)
OneSubdirLess(nodes, new, d, i) ==
  /\ SameKinds(nodes, new) /\ new[d].nlink = nodes[d].nlink - 1
  /\ \A j \in DOMAIN nodes : j # i /\ j # d => new[j].nlink = nodes[j].nlink

(* The entry of an empty directory goes: the directory it was in counts    *)
(* one less, and its own count is of no interest any more.                 *)
LEMMA DirUnlinked ==
  ASSUME NEW ns, NEW m, NEW nodes, NEW new, NEW d, NEW name, NEW i \in DOMAIN ns,
         Tree(ns, nodes), NameAdded(m, ns, d, name, i), IsFun(m[d]), DOMAIN ns[i] = {},
         OneSubdirLess(nodes, new, d, i)
  PROVE  Tree(m, new)
<1>0. /\ SameKinds(nodes, new) /\ new[d].nlink = nodes[d].nlink - 1
      /\ \A j \in DOMAIN nodes : j # i /\ j # d => new[j].nlink = nodes[j].nlink
  BY DEF OneSubdirLess
<1>1. /\ Shape(ns, nodes) /\ Finite(ns) /\ Root \in DOMAIN ns
      /\ \A j \in DOMAIN nodes : nodes[j].nlink \in Int
      /\ DOMAIN ns \subseteq DOMAIN nodes
  BY DEF Tree, Shape, Nodes
<1>2. Shape(m, new)
  BY <1>0, <1>1, ShapeRemoved, ShapeCounts
<1>3. /\ OneMoreLink(m, ns, d, name, i) /\ OneMoreCounted(m, ns, d, name, i) /\ Finite(m)
      /\ d \in DOMAIN ns /\ DOMAIN m = DOMAIN ns
  BY <1>1, AddedLinks, AddedCounts DEF NameAdded
<1>a. i # d /\ <<d, name>> \in Into(ns, i) /\ i # Root
  <2>1. name \in DOMAIN ns[d]
    BY DEF NameAdded
  <2>2. <<d, name>> \in Into(ns, i)
    BY <1>3 DEF OneMoreLink
  <2> QED
    BY <1>1, <2>1, <2>2 DEF Tree, Counted
<1>b. DOMAIN new = DOMAIN nodes
  BY <1>0 DEF SameKinds
<1>4. ASSUME NEW j \in DOMAIN nodes PROVE Counted(m, new[j].nlink, j)
  <2>0. Counted(ns, nodes[j].nlink, j)
    BY DEF Tree
  <2>1. CASE j = i
    <3>1. PICK e : Into(ns, i) = {e}
      BY <1>a, <2>0, <2>1 DEF Counted
    <3>2. Into(m, i) = {}
      <4>1. Into(ns, i) = Into(m, i) \cup {<<d, name>>} /\ <<d, name>> \notin Into(m, i)
        BY <1>3 DEF OneMoreLink
      <4> QED
        BY <3>1, <4>1
    <3>3. DOMAIN m[i] = {}
      BY <1>a, <1>3 DEF NameAdded
    <3> QED
      BY <1>3, <1>a, <2>1, <3>2, <3>3 DEF Counted
  <2>2. CASE j = d
    <3>1. new[j].nlink = nodes[j].nlink - 1 /\ SubCount(ns, j) = SubCount(m, j) + 1
      BY <1>0, <1>3, <2>2 DEF OneMoreCounted
    <3>2. Into(m, j) = Into(ns, j)
      BY <1>3, <1>a, <2>2 DEF OneMoreLink
    <3>3. SubCount(m, j) \in Nat /\ nodes[j].nlink \in Int /\ name \in DOMAIN ns[j]
      BY <1>1, <1>3, <2>2, CountsType DEF NameAdded
    <3>4. nodes[j].nlink >= 2 + SubCount(ns, j)
      BY <1>3, <2>0, <2>2, <3>3 DEF Counted
    <3>5. new[j].nlink >= 2 + SubCount(m, j)
      BY <3>1, <3>3, <3>4
    <3> QED
      BY <1>3, <2>0, <2>2, <3>2, <3>3, <3>5 DEF Counted
  <2>3. CASE j # i /\ j # d
    <3>1. new[j].nlink = nodes[j].nlink /\ Into(m, j) = Into(ns, j)
      BY <1>0, <1>3, <2>3 DEF OneMoreLink
    <3>2. j \in DOMAIN ns => Below(m, j) = Below(ns, j) /\ DOMAIN m[j] = DOMAIN ns[j]
      BY <1>3, <2>3 DEF OneMoreLink, NameAdded
    <3> QED
      BY <1>3, <2>0, <3>1, <3>2, CountedSame
  <2> QED
    BY <2>1, <2>2, <2>3
<1> QED
  BY <1>1, <1>2, <1>3, <1>4, <1>b DEF Tree

(* An inode loses one entry after it has gained another one.               *)
OneMoved(ns, m, r, od, on, nd, nn, i) ==
  /\ NameAdded(ns, m, nd, nn, i) /\ NameAdded(r, m, od, on, i)
  /\ on \in DOMAIN ns[od] /\ ns[od][on] = i

(* It has as many as before, and all others have the same.                 *)
SameLinks(ns, r, od, nd, i) ==
  /\ DOMAIN r = DOMAIN ns /\ od \in DOMAIN ns /\ nd \in DOMAIN ns /\ Finite(r)
  /\ \A j : LinkCount(r, j) = LinkCount(ns, j)
  /\ \A j : j # i => Into(r, j) = Into(ns, j)
  /\ Into(r, i) # {} /\ Into(ns, i) # {}
  /\ (\E e : Into(ns, i) = {e}) => \E e : Into(r, i) = {e}
  /\ \A c \in DOMAIN ns : c # od /\ c # nd => r[c] = ns[c]

(* The links after the move.                                               *)
LEMMA MovedLinks ==
  ASSUME NEW ns, NEW m, NEW r, NEW od, NEW on, NEW nd, NEW nn, NEW i,
         OneMoved(ns, m, r, od, on, nd, nn, i), Finite(ns)
  PROVE  SameLinks(ns, r, od, nd, i)
<1>0. NameAdded(ns, m, nd, nn, i) /\ NameAdded(r, m, od, on, i) /\ on \in DOMAIN ns[od] /\ ns[od][on] = i
  BY DEF OneMoved
<1>1. /\ nd \in DOMAIN ns /\ od \in DOMAIN r /\ DOMAIN m = DOMAIN ns /\ DOMAIN m = DOMAIN r
      /\ on \in Name /\ nn \notin DOMAIN ns[nd]
      /\ \A c \in DOMAIN ns : c # od /\ c # nd => r[c] = ns[c]
  BY <1>0 DEF NameAdded
<1>2. /\ OneMoreLink(ns, m, nd, nn, i) /\ OneMoreCounted(ns, m, nd, nn, i) /\ Finite(m)
      /\ OneMoreLink(r, m, od, on, i) /\ OneMoreCounted(r, m, od, on, i) /\ Finite(r)
  BY <1>0, AddedLinks, AddedCounts
<1>3. \A j : LinkCount(r, j) = LinkCount(ns, j)
  <2>1. \A j : LinkCount(r, j) \in Nat /\ LinkCount(ns, j) \in Nat
    BY <1>2, CountsType
  <2>2. LinkCount(m, i) = LinkCount(ns, i) + 1 /\ LinkCount(m, i) = LinkCount(r, i) + 1
    BY <1>2 DEF OneMoreCounted
  <2>3. LinkCount(ns, i) = LinkCount(r, i)
    BY <2>1, <2>2
  <2>4. \A j : j # i => LinkCount(m, j) = LinkCount(ns, j) /\ LinkCount(m, j) = LinkCount(r, j)
    BY <1>2 DEF OneMoreCounted
  <2> QED
    BY <2>3, <2>4
<1>4. \A j : j # i => Into(r, j) = Into(ns, j)
  BY <1>2 DEF OneMoreLink
<1> DEFINE x == <<od, on>>
           y == <<nd, nn>>
<1>5. /\ x \in Into(ns, i) /\ y \notin Into(ns, i) /\ Into(m, i) = Into(ns, i) \cup {y}
      /\ x \notin Into(r, i) /\ Into(m, i) = Into(r, i) \cup {x}
  <2>1. x \in (DOMAIN ns) \X Name /\ x[1] = od /\ x[2] = on
    BY <1>1
  <2>2. x \in Into(ns, i)
    BY <1>0, <2>1 DEF Into
  <2> QED
    BY <1>2, <2>2 DEF OneMoreLink
<1> HIDE DEF x, y
<1>6. Into(r, i) # {} /\ Into(ns, i) # {}
  BY <1>5
<1>7. ASSUME NEW e, Into(ns, i) = {e} PROVE Into(r, i) = {y}
  BY <1>5, <1>7
<1> QED
  BY <1>1, <1>2, <1>3, <1>4, <1>6, <1>7 DEF SameLinks

(* The link counts when a subdirectory gets from one directory to another. *)
SubdirMoved(nodes, new, sub, od, nd) ==
  /\ SameKinds(nodes, new)
  /\ \A j \in DOMAIN nodes :
       new[j].nlink = IF sub /\ j = nd THEN nodes[j].nlink + 1
                      ELSE IF sub /\ j = od THEN nodes[j].nlink - 1 ELSE nodes[j].nlink

(* An entry moves to a new name.  A subdirectory that gets into another    *)
(* directory takes its count there.                                        *)
LEMMA EntryMoved ==
  ASSUME NEW ns, NEW m, NEW r, NEW nodes, NEW new, NEW od, NEW on, NEW nd, NEW nn, NEW i,
         Tree(ns, nodes), OneMoved(ns, m, r, od, on, nd, nn, i), IsFun(m[nd]), IsFun(r[od]), Open(ns, nd),
         NEW sub, sub <=> (i \in DOMAIN ns /\ od # nd), SubdirMoved(nodes, new, sub, od, nd)
  PROVE  Tree(r, new)
<1>0. /\ SameKinds(nodes, new)
      /\ \A j \in DOMAIN nodes :
           new[j].nlink = IF sub /\ j = nd THEN nodes[j].nlink + 1
                          ELSE IF sub /\ j = od THEN nodes[j].nlink - 1 ELSE nodes[j].nlink
  BY DEF SubdirMoved
<1>1. /\ Shape(ns, nodes) /\ Finite(ns) /\ Root \in DOMAIN ns
      /\ \A j \in DOMAIN nodes : nodes[j].nlink \in Int
      /\ DOMAIN ns \subseteq DOMAIN nodes
  BY DEF Tree, Shape, Nodes
<1>2. /\ DOMAIN r = DOMAIN ns /\ od \in DOMAIN ns /\ nd \in DOMAIN ns /\ Finite(r)
      /\ \A j : LinkCount(r, j) = LinkCount(ns, j)
      /\ \A j : j # i => Into(r, j) = Into(ns, j)
      /\ Into(r, i) # {} /\ Into(ns, i) # {}
      /\ (\E e : Into(ns, i) = {e}) => \E e : Into(r, i) = {e}
      /\ \A c \in DOMAIN ns : c # od /\ c # nd => r[c] = ns[c]
  <2>1. SameLinks(ns, r, od, nd, i)
    BY <1>1, MovedLinks
  <2> QED
    BY <2>1, Zenon DEF SameLinks
<1>3. NameAdded(ns, m, nd, nn, i) /\ NameAdded(r, m, od, on, i) /\ on \in DOMAIN ns[od] /\ ns[od][on] = i
  BY DEF OneMoved
<1>4. i \in DOMAIN nodes
  BY <1>1, <1>2, <1>3 DEF Shape
<1>5. Shape(r, new)
  <2>1. Shape(m, nodes)
    BY <1>1, <1>3, <1>4, ShapeAdded
  <2>2. Shape(r, nodes)
    BY <1>3, <2>1, ShapeRemoved
  <2> QED
    BY <1>0, <2>2, ShapeCounts
<1>6. ASSUME NEW c \in DOMAIN ns
      PROVE  /\ SubCount(ns, c) \in Nat /\ SubCount(r, c) \in Nat
             /\ SubCount(r, c) = IF sub /\ c = nd THEN SubCount(ns, c) + 1
                                 ELSE IF sub /\ c = od THEN SubCount(ns, c) - 1 ELSE SubCount(ns, c)
  <2>1. SubCount(ns, c) \in Nat /\ SubCount(r, c) \in Nat
    BY <1>1, <1>2, CountsType
  <2>2. OneMoreCounted(ns, m, nd, nn, i) /\ OneMoreCounted(r, m, od, on, i)
    BY <1>1, <1>3, AddedCounts
  <2>3. /\ i \in DOMAIN ns /\ c = nd => SubCount(m, c) = SubCount(ns, c) + 1
        /\ i \notin DOMAIN ns \/ c # nd => SubCount(m, c) = SubCount(ns, c)
        /\ i \in DOMAIN ns /\ c = od => SubCount(m, c) = SubCount(r, c) + 1
        /\ i \notin DOMAIN ns \/ c # od => SubCount(m, c) = SubCount(r, c)
    BY <1>2, <2>2 DEF OneMoreCounted
  <2> QED
    BY <2>1, <2>3
<1>7. ASSUME NEW j \in DOMAIN nodes PROVE Counted(r, new[j].nlink, j)
  <2>0. Counted(ns, nodes[j].nlink, j)
    BY DEF Tree
  <2>1. j \notin DOMAIN ns => new[j].nlink = LinkCount(r, j)
    BY <1>0, <1>2, <2>0 DEF Counted
  <2>2. Into(r, j) = {} <=> Into(ns, j) = {}
    BY <1>2
  <2>3. j \in DOMAIN ns /\ (j = Root \/ Into(r, j) # {}) => new[j].nlink >= 2 + SubCount(r, j)
    <3>1. SUFFICES ASSUME j \in DOMAIN ns, j = Root \/ Into(ns, j) # {}
                   PROVE  new[j].nlink >= 2 + SubCount(r, j)
      BY <2>2
    <3>2. nodes[j].nlink >= 2 + SubCount(ns, j)
      BY <2>0, <3>1 DEF Counted
    <3>3. nodes[j].nlink \in Int
      BY <1>1
    <3>4. /\ SubCount(ns, j) \in Nat /\ SubCount(r, j) \in Nat
          /\ SubCount(r, j) = IF sub /\ j = nd THEN SubCount(ns, j) + 1
                              ELSE IF sub /\ j = od THEN SubCount(ns, j) - 1 ELSE SubCount(ns, j)
      BY <1>6, <3>1
    <3> QED
      BY <1>0, <3>2, <3>3, <3>4
  <2>4. j = Root => Into(r, j) = {}
    BY <2>0, <2>2 DEF Counted
  <2>5. j \in DOMAIN ns /\ j # Root /\ Into(r, j) # {} => \E e : Into(r, j) = {e}
    BY <1>2, <2>0, <2>2 DEF Counted
  <2>6. j \in DOMAIN ns /\ j # Root /\ Into(r, j) = {} => DOMAIN r[j] = {}
    BY <1>2, <1>3, <2>0, <2>2 DEF Counted, Open
  <2> QED
    BY <1>2, <2>1, <2>3, <2>4, <2>5, <2>6 DEF Counted
<1>8. DOMAIN new = DOMAIN nodes
  BY <1>0 DEF SameKinds
<1> QED
  BY <1>1, <1>2, <1>5, <1>7, <1>8 DEF Tree

(* The inode v loses an entry to i: both are files or both directories.    *)
Victim(ns, nodes, new, i, v) ==
  /\ i # v /\ (i \in DOMAIN ns <=> v \in DOMAIN ns) /\ (v \in DOMAIN ns => DOMAIN ns[v] = {})
  /\ SameKinds(nodes, new) /\ (\A j \in DOMAIN nodes : j # v => new[j].nlink = nodes[j].nlink)
  /\ v \notin DOMAIN ns => new[v].nlink = nodes[v].nlink - 1

(* An entry moves onto another one, which loses what it led to: a file or, *)
(* if a directory has moved, an empty directory.                           *)
LEMMA EntryMovedOver ==
  ASSUME NEW ns, NEW k, NEW m, NEW r, NEW nodes, NEW new, NEW od, NEW on, NEW nd, NEW nn, NEW i, NEW v,
         Tree(ns, nodes), NameAdded(k, ns, nd, nn, v), NameAdded(k, m, nd, nn, i), NameAdded(r, m, od, on, i),
         on \in DOMAIN ns[od], ns[od][on] = i, IsFun(m[nd]), IsFun(k[nd]), IsFun(r[od]),
         Victim(ns, nodes, new, i, v)
  PROVE  Tree(r, new)
<1>0. /\ i # v /\ (i \in DOMAIN ns <=> v \in DOMAIN ns) /\ (v \in DOMAIN ns => DOMAIN ns[v] = {})
      /\ SameKinds(nodes, new) /\ (\A j \in DOMAIN nodes : j # v => new[j].nlink = nodes[j].nlink)
      /\ v \notin DOMAIN ns => new[v].nlink = nodes[v].nlink - 1
  BY DEF Victim
<1>1. /\ Shape(ns, nodes) /\ Finite(ns) /\ Root \in DOMAIN ns
      /\ \A j \in DOMAIN nodes : nodes[j].nlink \in Int
      /\ DOMAIN ns \subseteq DOMAIN nodes
  BY DEF Tree, Shape, Nodes
<1>2. Finite(k) /\ Finite(m) /\ Finite(r)
  BY <1>1, AddedCounts
<1>3. /\ DOMAIN k = DOMAIN ns /\ DOMAIN m = DOMAIN ns /\ DOMAIN r = DOMAIN ns
      /\ nd \in DOMAIN ns /\ od \in DOMAIN ns
  BY DEF NameAdded
<1>4. OneMoved(k, m, r, od, on, nd, nn, i)
  <2>1. od # nd \/ on # nn
    BY <1>0 DEF NameAdded
  <2>2. on \in DOMAIN k[od] /\ k[od][on] = i
    BY <1>3, <2>1 DEF NameAdded
  <2> QED
    BY <2>2 DEF OneMoved
<1>5. SameLinks(k, r, od, nd, i)
  BY <1>2, <1>4, MovedLinks
<1>6. OneMoreLink(k, ns, nd, nn, v) /\ OneMoreCounted(k, ns, nd, nn, v)
  BY <1>2, AddedLinks, AddedCounts
<1>7. OneMoreCounted(k, m, nd, nn, i) /\ OneMoreCounted(r, m, od, on, i)
  BY <1>2, AddedCounts
<1>8. i \in DOMAIN nodes /\ v \in DOMAIN nodes
  <2>1. nn \in DOMAIN ns[nd] /\ ns[nd][nn] = v
    BY DEF NameAdded
  <2> QED
    BY <1>1, <1>3, <2>1 DEF Shape
<1>9. Shape(r, new)
  <2>1. Shape(k, nodes)
    BY <1>1, ShapeRemoved
  <2>2. Shape(m, nodes)
    BY <1>8, <2>1, ShapeAdded
  <2>3. Shape(r, nodes)
    BY <2>2, ShapeRemoved
  <2> QED
    BY <1>0, <2>3, ShapeCounts
<1>10. ASSUME NEW c \in DOMAIN ns
       PROVE  SubCount(ns, c) \in Nat /\ SubCount(r, c) \in Nat /\ SubCount(r, c) <= SubCount(ns, c)
  <2>1. /\ SubCount(ns, c) \in Nat /\ SubCount(r, c) \in Nat
        /\ SubCount(k, c) \in Nat /\ SubCount(m, c) \in Nat
    BY <1>1, <1>2, <1>3, CountsType
  <2>2. SubCount(m, c) = SubCount(ns, c)
    BY <1>0, <1>3, <1>6, <1>7 DEF OneMoreCounted
  <2>3. SubCount(r, c) = SubCount(m, c) \/ SubCount(r, c) + 1 = SubCount(m, c)
    BY <1>3, <1>7 DEF OneMoreCounted
  <2> QED
    BY <2>1, <2>2, <2>3
<1>11. \A j : j # v => Into(k, j) = Into(ns, j) /\ LinkCount(k, j) = LinkCount(ns, j)
  BY <1>6 DEF OneMoreLink, OneMoreCounted
<1>12. \A j : LinkCount(r, j) = LinkCount(k, j)
  BY <1>5 DEF SameLinks
<1>13. ASSUME NEW j \in DOMAIN nodes PROVE Counted(r, new[j].nlink, j)
  <2>0. Counted(ns, nodes[j].nlink, j)
    BY DEF Tree
  <2>1. CASE j = v
    <3>1. v # Root
      <4>1. <<nd, nn>> \in Into(ns, v)
        BY <1>6 DEF OneMoreLink
      <4> QED
        BY <2>0, <2>1, <4>1 DEF Counted
    <3>2. CASE v \notin DOMAIN ns
      <4>1. nodes[v].nlink = LinkCount(ns, v) /\ LinkCount(ns, v) = LinkCount(k, v) + 1 /\ LinkCount(k, v) \in Nat
        BY <1>2, <1>6, <2>0, <2>1, <3>2, CountsType DEF Counted, OneMoreCounted
      <4>2. new[v].nlink = LinkCount(r, v)
        BY <1>0, <1>8, <1>12, <3>2, <4>1
      <4> QED
        BY <1>3, <2>1, <3>1, <3>2, <4>2 DEF Counted
    <3>3. CASE v \in DOMAIN ns
      <4>1. Into(ns, v) = Into(k, v) \cup {<<nd, nn>>} /\ <<nd, nn>> \notin Into(k, v)
        BY <1>6 DEF OneMoreLink
      <4>2. PICK e : Into(ns, v) = {e}
        BY <2>0, <2>1, <3>1, <3>3, <4>1 DEF Counted
      <4>3. Into(k, v) = {}
        BY <4>1, <4>2
      <4>4. Into(r, v) = {}
        BY <1>5, <4>3 DEF SameLinks
      <4>5. nn \in DOMAIN ns[nd]
        BY DEF NameAdded
      <4>6. v # nd /\ v # od
        BY <1>0, <3>3, <4>5
      <4>7. DOMAIN r[v] = {}
        BY <1>0, <1>3, <3>3, <4>6 DEF NameAdded
      <4> QED
        BY <1>3, <2>1, <3>1, <3>3, <4>4, <4>7 DEF Counted
    <3> QED
      BY <3>2, <3>3
  <2>2. CASE j # v
    <3>1. new[j].nlink = nodes[j].nlink /\ Into(k, j) = Into(ns, j) /\ LinkCount(r, j) = LinkCount(ns, j)
      BY <1>0, <1>11, <1>12, <2>2
    <3>2. Into(r, j) = {} <=> Into(ns, j) = {}
      BY <1>5, <3>1 DEF SameLinks
    <3>3. j \notin DOMAIN ns => new[j].nlink = LinkCount(r, j)
      BY <2>0, <3>1 DEF Counted
    <3>4. j \in DOMAIN ns /\ (j = Root \/ Into(r, j) # {}) => new[j].nlink >= 2 + SubCount(r, j)
      <4>1. SUFFICES ASSUME j \in DOMAIN ns, j = Root \/ Into(ns, j) # {}
                     PROVE  new[j].nlink >= 2 + SubCount(r, j)
        BY <3>2
      <4>2. nodes[j].nlink >= 2 + SubCount(ns, j) /\ nodes[j].nlink \in Int
        BY <1>1, <2>0, <4>1 DEF Counted
      <4>3. SubCount(ns, j) \in Nat /\ SubCount(r, j) \in Nat /\ SubCount(r, j) <= SubCount(ns, j)
        BY <1>10, <4>1
      <4> QED
        BY <3>1, <4>2, <4>3
    <3>5. j = Root => Into(r, j) = {}
      BY <2>0, <3>2 DEF Counted
    <3>6. j \in DOMAIN ns /\ j # Root /\ Into(r, j) # {} => \E e : Into(r, j) = {e}
      BY <1>5, <2>0, <3>1, <3>2 DEF Counted, SameLinks
    <3>7. j \in DOMAIN ns /\ j # Root /\ Into(r, j) = {} => DOMAIN r[j] = {}
      <4>1. SUFFICES ASSUME j \in DOMAIN ns, j # Root, Into(ns, j) = {} PROVE DOMAIN r[j] = {}
        BY <3>2
      <4>2. DOMAIN ns[j] = {} /\ nn \in DOMAIN ns[nd]
        BY <2>0, <4>1 DEF Counted, NameAdded
      <4>3. j # nd /\ j # od
        BY <4>2
      <4> QED
        BY <1>3, <4>1, <4>2, <4>3 DEF NameAdded
    <3> QED
      BY <1>3, <3>3, <3>4, <3>5, <3>6, <3>7 DEF Counted
  <2> QED
    BY <2>1, <2>2
<1>14. DOMAIN new = DOMAIN nodes
  BY <1>0 DEF SameKinds
<1> QED
  BY <1>1, <1>3, <1>9, <1>13, <1>14 DEF Tree

-----------------------------------------------------------------------------
(* The inodes and one more.                                                *)
OneNode(nodes, new, i, node) ==
  /\ new \in [DOMAIN new -> Nodes] /\ DOMAIN new = DOMAIN nodes \cup {i}
  /\ new[i] = node /\ \A j \in DOMAIN nodes : new[j] = nodes[j]

(* A new inode of a file, without links so far.                            *)
LEMMA FreshFile ==
  ASSUME NEW ns, NEW nodes, Tree(ns, nodes), NEW i, i \notin DOMAIN nodes, NEW new, NEW node,
         OneNode(nodes, new, i, node), ~node.isdir, node.nlink = 0
  PROVE  Tree(ns, new)
<1>0. /\ new \in [DOMAIN new -> Nodes] /\ DOMAIN new = DOMAIN nodes \cup {i}
      /\ ~new[i].isdir /\ new[i].nlink = 0 /\ \A j \in DOMAIN nodes : new[j] = nodes[j]
  BY DEF OneNode
<1>1. Shape(ns, nodes) /\ Root \in DOMAIN ns /\ Finite(ns)
  BY DEF Tree, Shape
<1>2. DOMAIN ns = {j \in DOMAIN new : new[j].isdir}
  BY <1>0, <1>1 DEF Shape
<1>3. Shape(ns, new)
  BY <1>0, <1>1, <1>2 DEF Shape
<1>4. Into(ns, i) = {}
  BY <1>1 DEF Into, Shape
<1>5. i \notin DOMAIN ns /\ i # Root
  BY <1>1 DEF Shape
<1>6. LinkCount(ns, i) = 0
  BY <1>4, FS_EmptySet DEF LinkCount
<1>7. Counted(ns, new[i].nlink, i)
  BY <1>0, <1>5, <1>6 DEF Counted
<1> QED
  BY <1>0, <1>1, <1>3, <1>7 DEF Tree

(* The names and those of one more directory, which is empty.              *)
OneDir(ns, m, i) ==
  /\ DOMAIN m = DOMAIN ns \cup {i} /\ IsFun(m[i]) /\ DOMAIN m[i] = {}
  /\ \A d \in DOMAIN ns : m[d] = ns[d]

(* The same links everywhere.                                              *)
SameInto(ns, m) == \A j : Into(m, j) = Into(ns, j)

(* A new directory, without an entry so far.                               *)
LEMMA FreshDir ==
  ASSUME NEW ns, NEW nodes, Tree(ns, nodes), NEW i, i \notin DOMAIN nodes, NEW m, NEW new, NEW node,
         OneNode(nodes, new, i, node), node.isdir, OneDir(ns, m, i)
  PROVE  Tree(m, new) /\ Into(m, i) = {} /\ SameInto(ns, m)
<1>0. /\ new \in [DOMAIN new -> Nodes] /\ DOMAIN new = DOMAIN nodes \cup {i}
      /\ new[i].isdir /\ (\A j \in DOMAIN nodes : new[j] = nodes[j])
      /\ DOMAIN m = DOMAIN ns \cup {i} /\ IsFun(m[i]) /\ DOMAIN m[i] = {}
      /\ \A d \in DOMAIN ns : m[d] = ns[d]
  BY DEF OneNode, OneDir
<1>1. Shape(ns, nodes) /\ Root \in DOMAIN ns /\ Finite(ns) /\ i \notin DOMAIN ns
  BY DEF Tree, Shape
<1>2. DOMAIN m = {j \in DOMAIN new : new[j].isdir}
  BY <1>0, <1>1 DEF Shape
<1>3. \A j : Into(m, j) = Into(ns, j)
  BY <1>0, <1>1 DEF Into
<1>4. Into(ns, i) = {}
  BY <1>0, <1>1 DEF Into, Shape
<1>5. Below(m, i) = {} /\ \A d \in DOMAIN ns : Below(m, d) = Below(ns, d)
  BY <1>0, <1>1 DEF Below, Shape
<1>6. Finite(m)
  BY <1>0, <1>1, <1>3, <1>5, FS_EmptySet DEF Finite
<1>7. \A d \in DOMAIN m : IsFun(m[d])
  <2>1. \A d \in DOMAIN ns : IsFun(ns[d])
    BY <1>0, <1>1 DEF Shape
  <2> QED
    BY <1>0, <2>1
<1>8. \A d \in DOMAIN m : DOMAIN m[d] \subseteq Name /\ \A name \in DOMAIN m[d] : m[d][name] \in DOMAIN new
  <2>1. \A d \in DOMAIN ns : DOMAIN ns[d] \subseteq Name /\ \A name \in DOMAIN ns[d] : ns[d][name] \in DOMAIN nodes
    BY <1>0, <1>1 DEF Shape
  <2> QED
    BY <1>0, <2>1
<1>9. Shape(m, new)
  BY <1>0, <1>2, <1>6, <1>7, <1>8 DEF Shape
<1>10. ASSUME NEW j \in DOMAIN new PROVE Counted(m, new[j].nlink, j)
  <2>1. CASE j = i
    BY <1>0, <1>1, <1>3, <1>4, <2>1 DEF Counted
  <2>2. CASE j # i
    <3>1. j \in DOMAIN nodes /\ new[j] = nodes[j]
      BY <1>0, <2>2
    <3>2. Counted(ns, nodes[j].nlink, j)
      BY <1>0, <3>1 DEF Tree
    <3>3. j \in DOMAIN m <=> j \in DOMAIN ns
      BY <1>0, <2>2
    <3>4. LinkCount(m, j) = LinkCount(ns, j)
      BY <1>0, <1>3 DEF LinkCount
    <3>5. j \in DOMAIN ns => SubCount(m, j) = SubCount(ns, j) /\ m[j] = ns[j]
      BY <1>0, <1>5 DEF SubCount
    <3> QED
      BY <1>0, <1>3, <3>1, <3>2, <3>3, <3>4, <3>5 DEF Counted
  <2> QED
    BY <1>0, <2>1, <2>2
<1> QED
  BY <1>0, <1>1, <1>3, <1>4, <1>9, <1>10 DEF Tree, SameInto

(* The end of an operation: the inodes that go have no entries, and none   *)
(* lead to them.                                                           *)
LEMMA FinishedTree ==
  ASSUME NEW ns, NEW nodes, Tree(ns, nodes), NEW m, NEW new,
         new = [i \in DOMAIN new |-> nodes[i]], DOMAIN new \subseteq DOMAIN nodes,
         \A i \in DOMAIN nodes : nodes[i].nlink > 0 => i \in DOMAIN new,
         DOMAIN m = DOMAIN ns \cap DOMAIN new, \A d \in DOMAIN m : m[d] = ns[d]
  PROVE  Tree(m, new)
<1>1. /\ Shape(ns, nodes) /\ Root \in DOMAIN ns /\ Finite(ns) /\ DOMAIN ns \subseteq DOMAIN nodes
      /\ \A j \in DOMAIN nodes : nodes[j].nlink \in Int
  BY DEF Tree, Shape, Nodes
<1>2. ASSUME NEW i \in DOMAIN nodes, i \notin DOMAIN new
      PROVE  /\ i # Root /\ Into(ns, i) = {} /\ (i \in DOMAIN ns => DOMAIN ns[i] = {})
  <2>1. Counted(ns, nodes[i].nlink, i) /\ ~(nodes[i].nlink > 0) /\ nodes[i].nlink \in Int
    BY <1>1, <1>2 DEF Tree
  <2>2. i \in DOMAIN ns => ~(nodes[i].nlink >= 2 + SubCount(ns, i))
    BY <1>1, <2>1, CountsType
  <2>3. i # Root /\ (i \in DOMAIN ns => Into(ns, i) = {})
    BY <1>1, <2>1, <2>2 DEF Counted
  <2>4. CASE i \in DOMAIN ns
    BY <2>1, <2>3, <2>4 DEF Counted
  <2>5. CASE i \notin DOMAIN ns
    <3>1. LinkCount(ns, i) \in Nat /\ LinkCount(ns, i) = nodes[i].nlink
      BY <1>1, <2>1, <2>5, CountsType DEF Counted
    <3>2. Cardinality(Into(ns, i)) = 0 /\ IsFiniteSet(Into(ns, i))
      BY <1>1, <2>1, <3>1 DEF LinkCount, Finite
    <3> QED
      BY <2>3, <2>5, <3>2, FS_EmptySet
  <2> QED
    BY <2>4, <2>5
<1>3. \A j : Into(m, j) = Into(ns, j)
  <2> SUFFICES ASSUME NEW j PROVE Into(m, j) = Into(ns, j)
    OBVIOUS
  <2>1. ASSUME NEW e \in Into(ns, j) PROVE e \in Into(m, j)
    <3>1. e \in (DOMAIN ns) \X Name /\ e[2] \in DOMAIN ns[e[1]] /\ ns[e[1]][e[2]] = j
      BY DEF Into
    <3>2. e[1] \in DOMAIN new
      BY <1>1, <1>2, <3>1
    <3>3. e[1] \in DOMAIN m /\ e \in (DOMAIN m) \X Name
      BY <3>1, <3>2
    <3> QED
      BY <3>1, <3>3 DEF Into
  <2>2. Into(m, j) \subseteq Into(ns, j)
    BY DEF Into
  <2> QED
    BY <2>1, <2>2
<1>4. ASSUME NEW d \in DOMAIN m, NEW name \in DOMAIN ns[d]
      PROVE  ns[d][name] \in DOMAIN new
  <2>1. name \in Name /\ ns[d][name] \in DOMAIN nodes
    BY <1>1 DEF Shape
  <2>2. <<d, name>> \in Into(ns, ns[d][name])
    BY <2>1 DEF Into
  <2> QED
    BY <1>2, <2>1, <2>2
<1>5. \A d \in DOMAIN m : Below(m, d) = Below(ns, d)
  BY <1>4 DEF Below
<1>6. Finite(m)
  BY <1>1, <1>3, <1>5 DEF Finite
<1>7. \A i \in DOMAIN new : new[i] = nodes[i] /\ nodes[i] \in Nodes
  BY <1>1 DEF Shape
<1>8. DOMAIN m = {i \in DOMAIN new : new[i].isdir}
  BY <1>1, <1>7 DEF Shape
<1>9. \A d \in DOMAIN m : IsFun(m[d])
  <2>1. \A d \in DOMAIN ns : IsFun(ns[d])
    BY <1>1 DEF Shape
  <2> QED
    BY <2>1
<1>10. \A d \in DOMAIN m : DOMAIN m[d] \subseteq Name /\ \A name \in DOMAIN m[d] : m[d][name] \in DOMAIN new
  BY <1>1, <1>4 DEF Shape
<1>11. new \in [DOMAIN new -> Nodes]
  BY <1>7
<1>12. Shape(m, new) /\ Root \in DOMAIN m
  BY <1>1, <1>2, <1>6, <1>8, <1>9, <1>10, <1>11 DEF Shape
<1>13. ASSUME NEW j \in DOMAIN new PROVE Counted(m, new[j].nlink, j)
  <2>1. Counted(ns, nodes[j].nlink, j) /\ new[j] = nodes[j] /\ (j \in DOMAIN m <=> j \in DOMAIN ns)
    BY <1>7 DEF Tree
  <2>2. LinkCount(m, j) = LinkCount(ns, j) /\ Into(m, j) = Into(ns, j)
    BY <1>3 DEF LinkCount
  <2>3. j \in DOMAIN m => SubCount(m, j) = SubCount(ns, j) /\ m[j] = ns[j]
    BY <1>5 DEF SubCount
  <2> QED
    BY <2>1, <2>2, <2>3 DEF Counted
<1> QED
  BY <1>12, <1>13 DEF Tree

-----------------------------------------------------------------------------
(* tux_create_dirent adds a name.                                          *)
LEMMA CreateParts ==
  ASSUME NEW s, StateKept(s), NEW d \in DOMAIN s.dirs, NEW name \in Name,
         Matches(s.dirs[d], name) = {}, NEW inum \in Nat, NEW r, r = tux_create_dirent(s, d, name, inum)
  PROVE  /\ NameAdded(s.names, r.names, d, name, inum) /\ IsFun(r.names[d])
         /\ r.inodes = s.inodes /\ (ReaderThere(s) => ReaderThere(r))
<1> DEFINE C == tux_create_entry(s.dirs[d], name, inum)
           f == With(s.names[d], name, inum)
           rd == ReaderCreates(s.reader, d, name, C.where)
           dir == C.dir
<1>1. r = [s EXCEPT !.dirs[d] = dir, !.names[d] = f, !.reader = rd]
  BY DEF tux_create_dirent
<1>2. DirKept(s.dirs[d], s.names[d]) /\ DOMAIN s.names = DOMAIN s.dirs /\ IsState(s)
  BY DEF StateKept
<1>3. name \notin DOMAIN s.names[d]
  BY <1>2, NameAbsent
<1>4. /\ DOMAIN f = DOMAIN s.names[d] \cup {name} /\ f[name] = inum /\ IsFun(f)
      /\ \A n \in DOMAIN s.names[d] : f[n] = s.names[d][n]
  BY <1>3 DEF With, IsFun
<1>5. DirKept(dir, f) /\ Adds(s.dirs[d], dir, C.where, name, inum)
  BY <1>2, CreateKept
<1> DEFINE w == C.where
           old == s.dirs[d]
           prev == s.names[d]
<1>a. DirKept(old, prev) /\ name \notin DOMAIN prev /\ Adds(old, dir, w, name, inum) /\ DOMAIN prev \subseteq DOMAIN f
      /\ rd = ReaderCreates(s.reader, d, name, w) /\ old = s.dirs[d] /\ prev = s.names[d]
  BY <1>2, <1>3, <1>4, <1>5
<1> HIDE DEF C, f, rd, dir, w, old, prev
<1>6. /\ r.inodes = s.inodes /\ r.names = [s.names EXCEPT ![d] = f] /\ r.reader = rd
      /\ r.dirs = [s.dirs EXCEPT ![d] = dir]
  BY <1>1, <1>2, Zenon DEF IsState
<1>7. /\ DOMAIN r.names = DOMAIN s.names /\ r.names[d] = f /\ r.dirs[d] = dir
      /\ \A c \in DOMAIN s.names : c # d => r.names[c] = s.names[c] /\ r.dirs[c] = s.dirs[c]
  BY <1>2, <1>6
<1>8. ASSUME ReaderThere(s), r.reader # NoReader PROVE ReadsWell(r.reader, r.dirs, r.names)
  <2>1. s.reader # NoReader
    BY <1>6, <1>8 DEF rd, ReaderCreates, Reading
  <2>2. IsReader(s.reader) /\ s.reader.dir \in DOMAIN s.names /\ ReaderOK(s.reader, s.dirs[s.reader.dir], s.names[s.reader.dir])
    BY <1>8, <2>1 DEF ReaderThere, ReadsWell
  <2>3. CASE s.reader.dir = d
    <3>1. Reading(s.reader, d) /\ ReaderOK(s.reader, old, prev)
      BY <1>a, <2>1, <2>2, <2>3 DEF Reading
    <3>2. IsReader(rd) /\ rd.dir = s.reader.dir /\ ReaderOK(rd, dir, f)
      BY <1>5, <1>a, <2>2, <3>1, CreateReader
    <3> QED
      BY <1>6, <1>7, <2>2, <2>3, <3>2 DEF ReadsWell
  <2>4. CASE s.reader.dir # d
    <3>1. rd = s.reader
      BY <1>a, <2>4 DEF ReaderCreates, Reading
    <3> QED
      BY <1>6, <1>7, <2>2, <2>4, <3>1 DEF ReadsWell
  <2> QED
    BY <2>3, <2>4
<1>9. NameAdded(s.names, r.names, d, name, inum) /\ IsFun(r.names[d])
  BY <1>2, <1>3, <1>4, <1>7 DEF NameAdded
<1> QED
  BY <1>6, <1>8, <1>9 DEF ReaderThere

(* tux_delete_dirent takes a name away.                                    *)
LEMMA DeleteParts ==
  ASSUME NEW s, StateKept(s), NEW d \in DOMAIN s.dirs, NEW name,
         NEW at \in Entries(s.dirs[d]), At(s.dirs[d], at).name = name,
         NEW r, r = tux_delete_dirent(s, d, name, at)
  PROVE  /\ NameAdded(r.names, s.names, d, name, s.names[d][name]) /\ IsFun(r.names[d])
         /\ r.inodes = s.inodes /\ (ReaderThere(s) => ReaderThere(r))
         /\ name \in DOMAIN s.names[d] /\ s.names[d][name] = At(s.dirs[d], at).inum
<1> DEFINE dir == tux_delete_entry(s.dirs[d], at)
           f == [n \in DOMAIN s.names[d] \ {name} |-> s.names[d][n]]
           rd == ReaderDeletes(s.reader, d, name, at, s.dirs[d])
<1>1. r = [s EXCEPT !.dirs[d] = dir, !.names[d] = f, !.reader = rd]
  BY DEF tux_delete_dirent
<1>2. DirKept(s.dirs[d], s.names[d]) /\ DOMAIN s.names = DOMAIN s.dirs /\ IsState(s)
  BY DEF StateKept
<1>3. name \in DOMAIN s.names[d] /\ s.names[d][name] = At(s.dirs[d], at).inum /\ name \in Name
  BY <1>2, EntryNamed
<1>4. /\ DOMAIN f = DOMAIN s.names[d] \ {name} /\ IsFun(f)
      /\ \A n \in DOMAIN f : f[n] = s.names[d][n]
  BY DEF IsFun
<1>5. Removes(s.dirs[d], dir, at)
  <2>1. s.dirs[d] \in Dirs(Nat) /\ WellFormed(s.dirs[d]) /\ 0 \in Nat
    BY <1>2 DEF DirKept
  <2> QED
    BY <2>1, DeleteCorrect
<1> DEFINE old == s.dirs[d]
           prev == s.names[d]
<1>a. DirKept(old, prev) /\ at \in Entries(old) /\ At(old, at).name = name /\ Removes(old, dir, at)
      /\ DOMAIN f = DOMAIN prev \ {name} /\ rd = ReaderDeletes(s.reader, d, name, at, old)
      /\ old = s.dirs[d] /\ prev = s.names[d]
  BY <1>2, <1>4, <1>5
<1> HIDE DEF f, rd, dir, old, prev
<1>6. /\ r.inodes = s.inodes /\ r.names = [s.names EXCEPT ![d] = f] /\ r.reader = rd
      /\ r.dirs = [s.dirs EXCEPT ![d] = dir]
  BY <1>1, <1>2, Zenon DEF IsState
<1>7. /\ DOMAIN r.names = DOMAIN s.names /\ r.names[d] = f /\ r.dirs[d] = dir
      /\ \A c \in DOMAIN s.names : c # d => r.names[c] = s.names[c] /\ r.dirs[c] = s.dirs[c]
  BY <1>2, <1>6
<1>8. ASSUME ReaderThere(s), r.reader # NoReader PROVE ReadsWell(r.reader, r.dirs, r.names)
  <2>1. s.reader # NoReader
    BY <1>6, <1>8 DEF rd, ReaderDeletes, Reading
  <2>2. IsReader(s.reader) /\ s.reader.dir \in DOMAIN s.names /\ ReaderOK(s.reader, s.dirs[s.reader.dir], s.names[s.reader.dir])
    BY <1>8, <2>1 DEF ReaderThere, ReadsWell
  <2>3. CASE s.reader.dir = d
    <3>1. Reading(s.reader, d) /\ ReaderOK(s.reader, old, prev)
      BY <1>a, <2>1, <2>2, <2>3 DEF Reading
    <3>2. IsReader(rd) /\ rd.dir = s.reader.dir /\ ReaderOK(rd, dir, f)
      BY <1>a, <2>2, <3>1, DeleteReader
    <3> QED
      BY <1>6, <1>7, <2>2, <2>3, <3>2 DEF ReadsWell
  <2>4. CASE s.reader.dir # d
    <3>1. rd = s.reader
      BY <1>a, <2>4 DEF ReaderDeletes, Reading
    <3> QED
      BY <1>6, <1>7, <2>2, <2>4, <3>1 DEF ReadsWell
  <2> QED
    BY <2>3, <2>4
<1>9. NameAdded(r.names, s.names, d, name, s.names[d][name]) /\ IsFun(r.names[d])
  BY <1>2, <1>3, <1>4, <1>7 DEF NameAdded
<1> QED
  BY <1>3, <1>6, <1>8, <1>9 DEF ReaderThere

(* The names after an entry has been made to lead to another inode: those  *)
(* without it, and it again.                                               *)
Renewed(ns, m, d, name, inum) ==
  \E k : /\ NameAdded(k, ns, d, name, ns[d][name]) /\ IsFun(k[d])
         /\ NameAdded(k, m, d, name, inum) /\ IsFun(m[d])

(* tux_update_dirent.                                                      *)
LEMMA UpdateParts ==
  ASSUME NEW s, StateKept(s), NEW d \in DOMAIN s.dirs, NEW name \in DOMAIN s.names[d],
         NEW inum \in Nat, NEW r, r = tux_update_dirent(s, d, name, inum)
  PROVE  /\ Renewed(s.names, r.names, d, name, inum) /\ r.inodes = s.inodes
         /\ ReaderThere(s) => ReaderThere(r)
<1> DEFINE at == tux_find_entry(s.dirs[d], name)
           old == s.dirs[d]
           dir == [old EXCEPT ![at[1]][at[2]].inum = inum]
           f == [s.names[d] EXCEPT ![name] = inum]
           g == [n \in DOMAIN s.names[d] \ {name} |-> s.names[d][n]]
           k == [s.names EXCEPT ![d] = g]
<1>1. r = [s EXCEPT !.dirs[d] = dir, !.names[d] = f]
  BY DEF tux_update_dirent, tux_find_dirent
<1>2. DirKept(s.dirs[d], s.names[d]) /\ DOMAIN s.names = DOMAIN s.dirs /\ IsState(s)
  BY DEF StateKept
<1>3. name \in Name
  BY <1>2 DEF DirKept
<1>4. /\ DOMAIN f = DOMAIN s.names[d] /\ f[name] = inum /\ IsFun(f)
      /\ \A n \in DOMAIN f : n # name => f[n] = s.names[d][n]
  BY DEF IsFun
<1>5. /\ DOMAIN g = DOMAIN s.names[d] \ {name} /\ IsFun(g)
      /\ \A n \in DOMAIN g : g[n] = s.names[d][n]
  BY DEF IsFun
<1>a. at \in Entries(old) /\ At(old, at).name = name
  <2>1. name \in DOMAIN s.names[d] /\ DirKept(old, s.names[d])
    BY <1>2
  <2>2. PICK x \in Entries(old) : At(old, x).name = name
    BY <2>1, EntryNamed
  <2>3. old \in Dirs(Nat) /\ WellFormed(old) /\ AllTiled(old)
    BY <2>1, WellFormedIs DEF DirKept
  <2>4. Matches(old, name) # {}
    BY <1>3, <2>2, <2>3, MatchesAre
  <2> QED
    BY <1>3, <2>3, <2>4, FindCorrect
<1>b. dir = Retarget(old, at, inum) /\ old = s.dirs[d] /\ DirKept(old, s.names[d])
  BY <1>2 DEF Retarget
<1> HIDE DEF f, g, dir, old, at
<1>c. SameNames(old, dir)
  BY <1>a, <1>b, UpdateKept
<1>6. /\ r.inodes = s.inodes /\ r.names = [s.names EXCEPT ![d] = f] /\ r.reader = s.reader
      /\ r.dirs = [s.dirs EXCEPT ![d] = dir]
  BY <1>1, <1>2, Zenon DEF IsState
<1>7. /\ DOMAIN r.names = DOMAIN s.names /\ r.names[d] = f /\ r.dirs[d] = dir
      /\ \A c \in DOMAIN s.names : c # d => r.names[c] = s.names[c] /\ r.dirs[c] = s.dirs[c]
  BY <1>2, <1>6
<1>d. ASSUME ReaderThere(s), r.reader # NoReader PROVE ReadsWell(r.reader, r.dirs, r.names)
  <2>1. /\ IsReader(s.reader) /\ s.reader.dir \in DOMAIN s.names
        /\ ReaderOK(s.reader, s.dirs[s.reader.dir], s.names[s.reader.dir])
    BY <1>6, <1>d DEF ReaderThere, ReadsWell
  <2>2. CASE s.reader.dir = d
    <3>1. ReaderOK(s.reader, old, s.names[d])
      BY <1>b, <2>1, <2>2
    <3>2. ReaderOK(s.reader, dir, f)
      BY <1>4, <1>c, <3>1, UpdateReader
    <3> QED
      BY <1>6, <1>7, <2>1, <2>2, <3>2 DEF ReadsWell
  <2>3. CASE s.reader.dir # d
    BY <1>6, <1>7, <2>1, <2>3 DEF ReadsWell
  <2> QED
    BY <2>2, <2>3
<1>8. /\ DOMAIN k = DOMAIN s.names /\ k[d] = g
      /\ \A c \in DOMAIN s.names : c # d => k[c] = s.names[c]
  BY <1>2
<1> HIDE DEF k
<1>9. NameAdded(k, s.names, d, name, s.names[d][name])
  BY <1>2, <1>3, <1>5, <1>8 DEF NameAdded
<1>10. NameAdded(k, r.names, d, name, inum)
  BY <1>2, <1>3, <1>4, <1>5, <1>7, <1>8 DEF NameAdded
<1>11. Renewed(s.names, r.names, d, name, inum)
  BY <1>4, <1>5, <1>7, <1>8, <1>9, <1>10 DEF Renewed
<1> QED
  BY <1>6, <1>11, <1>d DEF ReaderThere

(* AddLinks.                                                               *)
LEMMA LinksParts ==
  ASSUME NEW s, IsState(s), s.inodes \in [DOMAIN s.inodes -> Nodes], NEW i \in DOMAIN s.inodes,
         NEW n \in Int, NEW r, r = AddLinks(s, i, n)
  PROVE  /\ OneCount(s.inodes, r.inodes, i, n) /\ r.names = s.names /\ r.dirs = s.dirs
         /\ r.reader = s.reader /\ r.inodes \in [DOMAIN s.inodes -> Nodes] /\ DOMAIN r.inodes = DOMAIN s.inodes
<1>1. /\ r.names = s.names /\ r.reader = s.reader /\ r.dirs = s.dirs
      /\ r.inodes = [s.inodes EXCEPT ![i].nlink = @ + n]
  BY Zenon DEF IsState, AddLinks
<1> DEFINE f == s.inodes
           x == f[i]
           y == [x EXCEPT !.nlink = @ + n]
<1>2. x \in Nodes
  OBVIOUS
<1>3. r.inodes = [f EXCEPT ![i] = y]
  BY <1>1
<1>4. f \in [DOMAIN f -> Nodes] /\ i \in DOMAIN f /\ f = s.inodes
  OBVIOUS
<1> HIDE DEF x
<1>5. y \in Nodes /\ y.isdir = x.isdir /\ y.nlink = x.nlink + n
  BY <1>2 DEF Nodes
<1>6. x = f[i]
  BY DEF x
<1> HIDE DEF y, f
<1>7. /\ DOMAIN r.inodes = DOMAIN f /\ r.inodes[i] = y /\ r.inodes \in [DOMAIN f -> Nodes]
      /\ \A j \in DOMAIN f : j # i => r.inodes[j] = f[j]
  BY <1>3, <1>4, <1>5
<1>8. OneCount(f, r.inodes, i, n)
  BY <1>4, <1>5, <1>6, <1>7 DEF OneCount, SameKinds
<1> QED
  BY <1>1, <1>4, <1>7, <1>8

-----------------------------------------------------------------------------
(* The invariant of a state: its links and its reader.                     *)
Linked(s) == Tree(s.names, s.inodes) /\ ReaderThere(s)

(* The end of an operation.                                                *)
LEMMA FinishLinked ==
  ASSUME NEW s, StateKept(s), Linked(s), Finish(s)
  PROVE  Linked(Now)'
<1>1. /\ inodes' = tux3_delete_inode(s.inodes, s.reader)
      /\ dirs' = [d \in DOMAIN s.dirs \cap DOMAIN inodes' |-> s.dirs[d]]
      /\ names' = [d \in DOMAIN dirs' |-> s.names[d]] /\ reader' = s.reader
  BY DEF Finish
<1>2. /\ DOMAIN inodes' = {i \in DOMAIN s.inodes : s.inodes[i].nlink > 0 \/ Reading(s.reader, i)}
      /\ inodes' = [i \in DOMAIN inodes' |-> s.inodes[i]]
  BY <1>1 DEF tux3_delete_inode
<1>3. /\ DOMAIN names' = DOMAIN s.names \cap DOMAIN inodes'
      /\ \A d \in DOMAIN names' : names'[d] = s.names[d]
  BY <1>1 DEF StateKept
<1>4. Tree(names', inodes')
  <2>1. Tree(s.names, s.inodes)
    BY DEF Linked
  <2> QED
    BY <1>2, <1>3, <2>1, FinishedTree
<1>5. reader' # NoReader => ReadsWell(reader', dirs', names')
  <2> SUFFICES ASSUME s.reader # NoReader
               PROVE  ReadsWell(s.reader, dirs', names')
    BY <1>1
  <2>1. ReadsWell(s.reader, s.dirs, s.names)
    BY DEF Linked, ReaderThere
  <2>2. Reading(s.reader, s.reader.dir) /\ DOMAIN s.names \subseteq DOMAIN s.inodes /\ DOMAIN s.dirs = DOMAIN s.names
    BY DEF Reading, StateKept
  <2>3. s.reader.dir \in DOMAIN names' /\ s.reader.dir \in DOMAIN dirs'
    BY <1>1, <1>2, <1>3, <2>1, <2>2 DEF ReadsWell
  <2>4. names'[s.reader.dir] = s.names[s.reader.dir] /\ dirs'[s.reader.dir] = s.dirs[s.reader.dir]
    BY <1>1, <1>3, <2>3
  <2> QED
    BY <2>1, <2>3, <2>4 DEF ReadsWell
<1> DEFINE n == [inodes |-> inodes', dirs |-> dirs', reader |-> reader', names |-> names']
<1>6. n.inodes = inodes' /\ n.names = names' /\ n.reader = reader' /\ n.dirs = dirs'
  OBVIOUS
<1>7. Now' = n
  BY DEF Now
<1> HIDE DEF n
<1>8. Linked(n)
  BY <1>4, <1>5, <1>6 DEF Linked, ReaderThere
<1> QED
  BY <1>7, <1>8

(* What the checks of the VFS say of the names.                            *)
LEMMA VfsNames ==
  ASSUME StateKept(Now), NEW d, NEW name \in Name
  PROVE  /\ VfsDir(d) => d \in DOMAIN names /\ Open(names, d)
         /\ VfsEntry(d, name) => name \in DOMAIN names[d] /\ names[d][name] = Target(d, name)
<1>1. DOMAIN names = DOMAIN dirs
  BY NowIs DEF StateKept
<1>2. VfsDir(d) => d \in DOMAIN names /\ Open(names, d)
  BY <1>1 DEF VfsDir, Open, Into, Links
<1>3. ASSUME VfsEntry(d, name) PROVE name \in DOMAIN names[d] /\ names[d][name] = Target(d, name)
  <2>1. /\ d \in DOMAIN dirs /\ tux_find_dirent(Now, d, name) \in Entries(dirs[d])
        /\ At(dirs[d], tux_find_dirent(Now, d, name)).name = name
        /\ Target(d, name) = At(dirs[d], tux_find_dirent(Now, d, name)).inum
    BY <1>3, Found
  <2>2. DirKept(dirs[d], names[d])
    BY <2>1, NowIs DEF StateKept
  <2> QED
    BY <2>1, <2>2, EntryNamed
<1> QED
  BY <1>2, <1>3

(* Another link to a file counts it.                                       *)
LEMMA LinkLinked ==
  ASSUME StateKept(Now), Linked(Now), NEW i \in DOMAIN inodes, NEW d, NEW name \in Name, tux3_link(i, d, name)
  PROVE  Linked(Now)'
<1> DEFINE a == AddLinks(Now, i, 1)
           c == tux_create_dirent(a, d, name, i)
<1>1. VfsAbsent(d, name) /\ Finish(c) /\ ~inodes[i].isdir
  BY DEF tux3_link
<1>2. d \in DOMAIN dirs /\ Matches(dirs[d], name) = {} /\ Open(names, d)
  BY <1>1, VfsNames DEF VfsAbsent, VfsDir
<1>3. Tree(names, inodes) /\ ReaderThere(Now) /\ Shape(names, inodes)
  BY NowIs DEF Linked, Tree
<1>4. IsState(Now) /\ Now.inodes \in [DOMAIN Now.inodes -> Nodes] /\ i \in DOMAIN Now.inodes /\ i \notin DOMAIN names
  BY <1>1, <1>3, NowIs DEF Shape
<1>5. StateKept(a)
  BY LinksState
<1>6. OneCount(inodes, a.inodes, i, 1) /\ a.names = names /\ a.dirs = dirs /\ a.reader = reader
  BY <1>4, NowIs, LinksParts
<1> HIDE DEF a
<1>7. i \in Nat
  BY NowIs, NameiAssumption DEF StateKept
<1>8. StateKept(c)
  BY <1>2, <1>5, <1>6, <1>7, CreateState
<1>9. /\ NameAdded(names, c.names, d, name, i) /\ IsFun(c.names[d])
      /\ c.inodes = a.inodes /\ (ReaderThere(a) => ReaderThere(c))
  BY <1>2, <1>5, <1>6, <1>7, CreateParts
<1> HIDE DEF c
<1>10. Tree(c.names, c.inodes)
  BY <1>2, <1>3, <1>4, <1>6, <1>9, FileLinked
<1>11. ReaderThere(c)
  <2>1. ReaderThere(a)
    BY <1>3, <1>6, NowIs, ThereStays
  <2> QED
    BY <1>9, <2>1
<1>12. Linked(c)
  BY <1>10, <1>11 DEF Linked
<1> QED
  BY <1>1, <1>8, <1>12, FinishLinked

(* Removing an entry of a file.                                            *)
LEMMA UnlinkLinked ==
  ASSUME StateKept(Now), Linked(Now), NEW d, NEW name \in Name, tux3_unlink(d, name)
  PROVE  Linked(Now)'
<1> DEFINE i == Target(d, name)
           at == tux_find_dirent(Now, d, name)
           c == tux_delete_dirent(Now, d, name, at)
           r == AddLinks(c, i, -1)
<1>1. VfsEntry(d, name) /\ Finish(r) /\ ~inodes[i].isdir
  BY DEF tux3_unlink
<1>2. d \in DOMAIN dirs /\ at \in Entries(dirs[d]) /\ At(dirs[d], at).name = name
  BY <1>1, Found
<1>3. name \in DOMAIN names[d] /\ names[d][name] = i
  BY <1>1, VfsNames
<1>4. Tree(names, inodes) /\ ReaderThere(Now) /\ Shape(names, inodes) /\ DOMAIN names = DOMAIN dirs
  BY NowIs DEF Linked, Tree, StateKept
<1>5. i \in DOMAIN inodes /\ i \notin DOMAIN names /\ inodes \in [DOMAIN inodes -> Nodes]
  BY <1>1, <1>2, <1>3, <1>4 DEF Shape
<1> HIDE DEF at, i
<1>6. StateKept(c)
  BY <1>2, NowIs, DeleteState
<1>7. /\ NameAdded(c.names, names, d, name, i) /\ IsFun(c.names[d])
      /\ c.inodes = inodes /\ ReaderThere(c)
  BY <1>2, <1>3, <1>4, NowIs, DeleteParts
<1> HIDE DEF c
<1>8. StateKept(r)
  BY <1>6, LinksState
<1>9. OneCount(inodes, r.inodes, i, -1) /\ r.names = c.names /\ r.reader = c.reader /\ r.dirs = c.dirs
  BY <1>5, <1>6, <1>7, LinksParts DEF StateKept
<1> HIDE DEF r
<1>10. Tree(r.names, r.inodes)
  BY <1>4, <1>5, <1>7, <1>9, FileUnlinked
<1>11. ReaderThere(r)
  BY <1>7, <1>9, ThereStays
<1>12. Linked(r)
  BY <1>10, <1>11 DEF Linked
<1> QED
  BY <1>1, <1>8, <1>12, FinishLinked

(* The number of a new inode.                                              *)
LEMMA InumNew ==
  ASSUME Inums \ DOMAIN inodes # {}
  PROVE  alloc_inum \in Inums /\ alloc_inum \notin DOMAIN inodes /\ alloc_inum \in Nat
<1> DEFINE I == Inums \ DOMAIN inodes
<1>1. I \subseteq Nat
  BY NameiAssumption
<1>2. \E x \in I : \A y \in I : x <= y
  BY <1>1, LeastNat
<1>3. alloc_inum \in I
  BY <1>2 DEF alloc_inum
<1> QED
  BY <1>1, <1>3

(* An inode more.                                                          *)
LEMMA NodeAdded ==
  ASSUME NEW nodes, nodes \in [DOMAIN nodes -> Nodes], NEW i, NEW node \in Nodes,
         i \notin DOMAIN nodes, NEW new, new = With(nodes, i, node)
  PROVE  OneNode(nodes, new, i, node)
BY DEF With, OneNode

(* The parts of an inode.                                                  *)
LEMMA InodeParts ==
  /\ Inode(FALSE, 0) \in Nodes /\ ~Inode(FALSE, 0).isdir /\ Inode(FALSE, 0).nlink = 0
  /\ Inode(FALSE, 1) \in Nodes /\ Inode(FALSE, 1).isdir = Inode(FALSE, 0).isdir /\ Inode(FALSE, 1).nlink = 1
  /\ Inode(TRUE, 2) \in Nodes /\ Inode(TRUE, 2).isdir /\ Inode(TRUE, 2).nlink = 2
BY DEF Inode, Nodes

(* The state with a new file.                                              *)
WithFile(i) == [Now EXCEPT !.inodes = With(@, i, Inode(FALSE, 1))]

(* And with a new directory.                                               *)
WithDir(i) == [Now EXCEPT !.inodes = With(@, i, Inode(TRUE, 2)), !.dirs = With(@, i, <<>>), !.names = With(@, i, <<>>)]

(* They are in order but for the entry that is missing.                    *)
LEMMA WithFileKept ==
  ASSUME StateKept(Now), NEW i \in Inums, i \notin DOMAIN inodes
  PROVE  /\ StateKept(WithFile(i)) /\ WithFile(i).inodes = With(inodes, i, Inode(FALSE, 1))
         /\ WithFile(i).dirs = dirs /\ WithFile(i).names = names /\ WithFile(i).reader = reader
<1> DEFINE s == WithFile(i)
           w == With(inodes, i, Inode(FALSE, 1))
<1>1. s = [Now EXCEPT !.inodes = w]
  BY NowIs, Zenon DEF WithFile
<1>2. DOMAIN w = DOMAIN inodes \cup {i}
  BY DEF With
<1> HIDE DEF s, w
<1>3. /\ IsState(s) /\ s.inodes = w /\ s.dirs = dirs /\ s.names = names /\ s.reader = reader
  BY <1>1, NowIs, Zenon DEF IsState
<1>4. StateKept(s)
  BY <1>2, <1>3, NowIs DEF StateKept
<1> QED
  BY <1>3, <1>4 DEF s, w

(* The same for a directory.                                               *)
LEMMA WithDirKept ==
  ASSUME StateKept(Now), NEW i \in Inums, i \notin DOMAIN inodes
  PROVE  /\ StateKept(WithDir(i)) /\ WithDir(i).inodes = With(inodes, i, Inode(TRUE, 2))
         /\ WithDir(i).dirs = With(dirs, i, <<>>) /\ WithDir(i).names = With(names, i, <<>>)
         /\ WithDir(i).reader = reader
<1> DEFINE s == WithDir(i)
           w == With(inodes, i, Inode(TRUE, 2))
           none == <<>>
           ds == With(dirs, i, none)
           ns == With(names, i, none)
<1>1. s = [Now EXCEPT !.inodes = w, !.dirs = ds, !.names = ns]
  BY NowIs, Zenon DEF WithDir
<1>2. DOMAIN w = DOMAIN inodes \cup {i}
  BY DEF With
<1>3. /\ DOMAIN names = DOMAIN dirs /\ DOMAIN dirs \subseteq DOMAIN inodes
      /\ \A e \in DOMAIN dirs : DirKept(dirs[e], names[e])
  BY NowIs DEF StateKept
<1>4. /\ DOMAIN ds = DOMAIN dirs \cup {i} /\ DOMAIN ns = DOMAIN dirs \cup {i} /\ ds[i] = none /\ ns[i] = none
      /\ \A e \in DOMAIN dirs : ds[e] = dirs[e] /\ ns[e] = names[e]
  BY <1>3 DEF With
<1>5. DirKept(none, none)
  <2>1. DOMAIN none = {}
    OBVIOUS
  <2> QED
    BY <2>1, EmptyKept
<1> HIDE DEF s, w, none, ds, ns
<1>6. /\ IsState(s) /\ s.inodes = w /\ s.dirs = ds /\ s.names = ns /\ s.reader = reader
  BY <1>1, NowIs, Zenon DEF IsState
<1>7. \A e \in DOMAIN ds : DirKept(ds[e], ns[e])
  BY <1>3, <1>4, <1>5
<1>8. StateKept(s)
  BY <1>2, <1>3, <1>4, <1>6, <1>7, NowIs DEF StateKept
<1> QED
  BY <1>6, <1>8 DEF s, w, ds, ns, none

(* A new file and its first link.                                          *)
LEMMA FileMade ==
  ASSUME StateKept(Now), Linked(Now), NEW d, NEW name \in Name, tux3_mknod(d, name, FALSE)
  PROVE  Linked(Now)'
<1> DEFINE i == alloc_inum
           new == WithFile(i)
           c == tux_create_dirent(new, d, name, i)
<1>1. VfsAbsent(d, name) /\ Inums \ DOMAIN inodes # {} /\ Finish(c)
  BY DEF tux3_mknod, CountSubdir, WithFile
<1>2. i \in Inums /\ i \notin DOMAIN inodes /\ i \in Nat
  BY <1>1, InumNew
<1>3. d \in DOMAIN dirs /\ Matches(dirs[d], name) = {} /\ Open(names, d)
  BY <1>1, VfsNames DEF VfsAbsent, VfsDir
<1> HIDE DEF i
<1>4. /\ StateKept(new) /\ new.inodes = With(inodes, i, Inode(FALSE, 1))
      /\ new.dirs = dirs /\ new.names = names /\ new.reader = reader
  BY <1>2, WithFileKept
<1> HIDE DEF new
<1>5. StateKept(c)
  BY <1>2, <1>3, <1>4, CreateState
<1>6. /\ NameAdded(names, c.names, d, name, i) /\ IsFun(c.names[d])
      /\ c.inodes = new.inodes /\ (ReaderThere(new) => ReaderThere(c))
  <2>1. /\ NameAdded(new.names, c.names, d, name, i) /\ IsFun(c.names[d])
        /\ c.inodes = new.inodes /\ (ReaderThere(new) => ReaderThere(c))
    BY <1>2, <1>3, <1>4, CreateParts
  <2> QED
    BY <1>4, <2>1
<1> HIDE DEF c
<1>7. Tree(names, inodes) /\ ReaderThere(Now) /\ inodes \in [DOMAIN inodes -> Nodes]
  BY NowIs DEF Linked, Tree, Shape
<1> DEFINE bare == With(inodes, i, Inode(FALSE, 0))
<1>8. /\ bare \in [DOMAIN bare -> Nodes] /\ DOMAIN bare = DOMAIN inodes \cup {i}
      /\ bare[i] = Inode(FALSE, 0) /\ \A j \in DOMAIN inodes : bare[j] = inodes[j]
  <2>1. OneNode(inodes, bare, i, Inode(FALSE, 0))
    BY <1>2, <1>7, NodeAdded, InodeParts
  <2> QED
    BY <2>1 DEF OneNode
<1>9. /\ c.inodes \in [DOMAIN c.inodes -> Nodes] /\ DOMAIN c.inodes = DOMAIN inodes \cup {i}
      /\ c.inodes[i] = Inode(FALSE, 1) /\ \A j \in DOMAIN inodes : c.inodes[j] = inodes[j]
  <2>1. OneNode(inodes, c.inodes, i, Inode(FALSE, 1))
    BY <1>2, <1>4, <1>6, <1>7, NodeAdded, InodeParts
  <2> QED
    BY <2>1 DEF OneNode
<1> HIDE DEF bare
<1>10. Tree(names, bare)
  <2>1. OneNode(inodes, bare, i, Inode(FALSE, 0))
    BY <1>8 DEF OneNode
  <2> QED
    BY <1>2, <1>7, <2>1, FreshFile, InodeParts
<1>11. OneCount(bare, c.inodes, i, 1)
  <2>1. /\ bare[i].nlink = 0 /\ c.inodes[i].nlink = 1 /\ c.inodes[i].isdir = bare[i].isdir
        /\ \A j \in DOMAIN inodes : c.inodes[j] = bare[j]
    BY <1>8, <1>9, InodeParts
  <2>2. SameKinds(bare, c.inodes)
    BY <1>8, <1>9, <2>1 DEF SameKinds
  <2>3. i \notin DOMAIN inodes
    BY <1>2
  <2>4. ASSUME NEW j \in DOMAIN bare
        PROVE  c.inodes[j].nlink = IF j = i THEN bare[j].nlink + 1 ELSE bare[j].nlink
    <3>1. CASE j = i
      BY <2>1, <3>1
    <3>2. CASE j # i
      BY <1>8, <2>1, <3>2
    <3> QED
      BY <3>1, <3>2
  <2> QED
    BY <2>2, <2>4 DEF OneCount
<1>12. i \notin DOMAIN names
  BY <1>2, <1>7 DEF Tree, Shape
<1>13. Tree(c.names, c.inodes)
  BY <1>3, <1>6, <1>8, <1>10, <1>11, <1>12, FileLinked
<1>14. ReaderThere(c)
  <2>1. ReaderThere(new)
    BY <1>4, <1>7, NowIs, ThereStays
  <2> QED
    BY <1>6, <2>1
<1>15. Linked(c)
  BY <1>13, <1>14 DEF Linked
<1> QED
  BY <1>1, <1>5, <1>15, FinishLinked

(* A new directory, its entry and its parent's count.                      *)
LEMMA DirMade ==
  ASSUME StateKept(Now), Linked(Now), NEW d, NEW name \in Name, tux3_mknod(d, name, TRUE)
  PROVE  Linked(Now)'
<1> DEFINE i == alloc_inum
           new == WithDir(i)
           c == tux_create_dirent(new, d, name, i)
           r == AddLinks(c, d, 1)
<1>1. VfsAbsent(d, name) /\ Inums \ DOMAIN inodes # {} /\ Finish(r)
  BY DEF tux3_mknod, CountSubdir, WithDir
<1>2. i \in Inums /\ i \notin DOMAIN inodes /\ i \in Nat
  BY <1>1, InumNew
<1>3. d \in DOMAIN dirs /\ Matches(dirs[d], name) = {} /\ Open(names, d)
  BY <1>1, VfsNames DEF VfsAbsent, VfsDir
<1>4. Tree(names, inodes) /\ ReaderThere(Now) /\ inodes \in [DOMAIN inodes -> Nodes] /\ DOMAIN names = DOMAIN dirs
      /\ DOMAIN dirs \subseteq DOMAIN inodes
  BY NowIs DEF Linked, Tree, Shape, StateKept
<1> HIDE DEF i
<1>5. /\ StateKept(new) /\ new.inodes = With(inodes, i, Inode(TRUE, 2))
      /\ new.dirs = With(dirs, i, <<>>) /\ new.names = With(names, i, <<>>) /\ new.reader = reader
  BY <1>2, WithDirKept
<1> HIDE DEF new
<1>6. /\ d \in DOMAIN new.dirs /\ new.dirs[d] = dirs[d]
      /\ DOMAIN new.names = DOMAIN names \cup {i} /\ (\A e \in DOMAIN names : new.names[e] = names[e])
      /\ IsFun(new.names[i]) /\ DOMAIN new.names[i] = {} /\ (\A e \in DOMAIN names : new.dirs[e] = dirs[e])
  <2> DEFINE none == <<>>
  <2>1. DOMAIN none = {} /\ IsFun(none)
    BY DEF IsFun
  <2>2. new.dirs = With(dirs, i, none) /\ new.names = With(names, i, none)
    BY <1>5
  <2> HIDE DEF none
  <2> QED
    BY <1>2, <1>3, <1>4, <2>1, <2>2 DEF With
<1>7. /\ new.inodes \in [DOMAIN new.inodes -> Nodes] /\ DOMAIN new.inodes = DOMAIN inodes \cup {i}
      /\ new.inodes[i].isdir /\ new.inodes[i].nlink = 2
      /\ \A j \in DOMAIN inodes : new.inodes[j] = inodes[j]
  <2>1. OneNode(inodes, new.inodes, i, Inode(TRUE, 2))
    BY <1>2, <1>4, <1>5, NodeAdded, InodeParts
  <2> QED
    BY <2>1, InodeParts DEF OneNode
<1>8. Tree(new.names, new.inodes) /\ Into(new.names, i) = {} /\ SameInto(names, new.names)
  <2>1. OneDir(names, new.names, i)
    BY <1>6 DEF OneDir
  <2>2. OneNode(inodes, new.inodes, i, new.inodes[i])
    BY <1>7 DEF OneNode
  <2> QED
    BY <1>2, <1>4, <1>7, <2>1, <2>2, FreshDir
<1>9. StateKept(c)
  BY <1>2, <1>3, <1>5, <1>6, CreateState
<1>10. /\ NameAdded(new.names, c.names, d, name, i) /\ IsFun(c.names[d])
       /\ c.inodes = new.inodes /\ (ReaderThere(new) => ReaderThere(c))
  BY <1>2, <1>3, <1>5, <1>6, CreateParts
<1> HIDE DEF c
<1>11. StateKept(r)
  BY <1>9, LinksState
<1>12. OneCount(new.inodes, r.inodes, d, 1) /\ r.names = c.names /\ r.reader = c.reader /\ r.dirs = c.dirs
  <2>1. d \in DOMAIN c.inodes /\ IsState(c) /\ c.inodes \in [DOMAIN c.inodes -> Nodes]
    BY <1>3, <1>4, <1>7, <1>9, <1>10 DEF StateKept
  <2> QED
    BY <1>10, <2>1, LinksParts
<1> HIDE DEF r
<1>13. Open(new.names, d) /\ i # Root /\ i \in DOMAIN new.names
  BY <1>2, <1>3, <1>4, <1>6, <1>8 DEF Open, Tree, SameInto
<1>14. Tree(r.names, r.inodes)
  BY <1>7, <1>8, <1>10, <1>12, <1>13, DirLinked
<1>15. ReaderThere(r)
  <2>1. ReaderThere(new)
    BY <1>4, <1>5, <1>6, NowIs, ThereStays
  <2> QED
    BY <1>10, <1>12, <2>1, ThereStays
<1>16. Linked(r)
  BY <1>14, <1>15 DEF Linked
<1> QED
  BY <1>1, <1>11, <1>16, FinishLinked

(* An empty directory goes.                                                *)
LEMMA RmdirLinked ==
  ASSUME StateKept(Now), Linked(Now), NEW d, NEW name \in Name, tux3_rmdir(d, name)
  PROVE  Linked(Now)'
<1> DEFINE at == tux_find_dirent(Now, d, name)
           i == Target(d, name)
           s == tux_delete_dirent(Now, d, name, at)
           e == [s EXCEPT !.dirs[i] = <<>>, !.inodes[i].nlink = 0]
           r == AddLinks(e, d, -1)
<1>1. VfsEntry(d, name) /\ inodes[i].isdir /\ tux_dir_is_empty(i) /\ Finish(r)
  BY DEF tux3_rmdir
<1>2. d \in DOMAIN dirs /\ at \in Entries(dirs[d]) /\ At(dirs[d], at).name = name
  BY <1>1, Found
<1>3. name \in DOMAIN names[d] /\ names[d][name] = i
  BY <1>1, VfsNames
<1>4. /\ Tree(names, inodes) /\ ReaderThere(Now) /\ Shape(names, inodes) /\ DOMAIN names = DOMAIN dirs
      /\ \A c \in DOMAIN dirs : DirKept(dirs[c], names[c])
  BY NowIs DEF Linked, Tree, StateKept
<1>5. i \in DOMAIN inodes /\ i \in DOMAIN names /\ d \in DOMAIN inodes /\ inodes \in [DOMAIN inodes -> Nodes]
  BY <1>1, <1>2, <1>3, <1>4 DEF Shape
<1>6. DOMAIN names[i] = {}
  <2>1. Entries(dirs[i]) = {}
    BY <1>1, <1>4, <1>5 DEF tux_dir_is_empty, Entries, At
  <2> QED
    BY <1>4, <1>5, <2>1, NoEntryNoName
<1> HIDE DEF at, i
<1>7. StateKept(s)
  BY <1>2, NowIs, DeleteState
<1>8. /\ NameAdded(s.names, names, d, name, i) /\ IsFun(s.names[d])
      /\ s.inodes = inodes /\ ReaderThere(s)
  BY <1>2, <1>3, <1>4, NowIs, DeleteParts
<1>9. r = AddLinks(e, d, -1)
  OBVIOUS
<1> DEFINE empty == <<>>
<1>b. e = [s EXCEPT !.dirs[i] = empty, !.inodes[i].nlink = 0]
  OBVIOUS
<1> HIDE DEF s, e, r, empty
<1>10. /\ IsState(e) /\ e.names = s.names /\ e.reader = s.reader
       /\ e.inodes = [inodes EXCEPT ![i].nlink = 0] /\ e.dirs = [s.dirs EXCEPT ![i] = empty]
  <2>1. IsState(s)
    BY <1>7 DEF StateKept
  <2>2. /\ IsState(e) /\ e.names = s.names /\ e.reader = s.reader
        /\ e.inodes = [s.inodes EXCEPT ![i].nlink = 0] /\ e.dirs = [s.dirs EXCEPT ![i] = empty]
    BY <1>b, <2>1, Zenon DEF IsState
  <2> QED
    BY <1>8, <2>2
<1>11. SameKinds(inodes, e.inodes) /\ \A j \in DOMAIN inodes : j # i => e.inodes[j] = inodes[j]
  <2> DEFINE x == inodes[i]
             y == [x EXCEPT !.nlink = 0]
  <2>1. x \in Nodes /\ x = inodes[i]
    BY <1>5
  <2>2. e.inodes = [inodes EXCEPT ![i] = y]
    BY <1>10
  <2> HIDE DEF x
  <2>3. y \in Nodes /\ y.isdir = x.isdir
    BY <2>1 DEF Nodes
  <2> HIDE DEF y
  <2>4. /\ DOMAIN e.inodes = DOMAIN inodes /\ e.inodes[i] = y /\ e.inodes \in [DOMAIN inodes -> Nodes]
        /\ \A j \in DOMAIN inodes : j # i => e.inodes[j] = inodes[j]
    BY <1>5, <2>2, <2>3
  <2> QED
    BY <2>1, <2>3, <2>4 DEF SameKinds
<1>12. OneCount(e.inodes, r.inodes, d, -1) /\ r.names = s.names /\ r.reader = s.reader /\ r.dirs = e.dirs
  <2>1. d \in DOMAIN e.inodes /\ e.inodes \in [DOMAIN e.inodes -> Nodes]
    BY <1>5, <1>11 DEF SameKinds
  <2> QED
    BY <1>9, <1>10, <2>1, LinksParts
<1>13. i # d
  BY <1>3, <1>6
<1>14. /\ SameKinds(inodes, r.inodes) /\ r.inodes[d].nlink = inodes[d].nlink - 1
       /\ \A j \in DOMAIN inodes : j # i /\ j # d => r.inodes[j].nlink = inodes[j].nlink
  <2>1. SameKinds(inodes, r.inodes)
    BY <1>11, <1>12 DEF OneCount, SameKinds
  <2>2. r.inodes[d].nlink = inodes[d].nlink - 1
    <3>1. r.inodes[d].nlink = e.inodes[d].nlink + -1 /\ e.inodes[d] = inodes[d] /\ inodes[d].nlink \in Int
      BY <1>5, <1>11, <1>12, <1>13 DEF OneCount, SameKinds, Nodes
    <3> QED
      BY <3>1
  <2> QED
    BY <1>11, <1>12, <2>1, <2>2 DEF OneCount, SameKinds
<1>15. Tree(r.names, r.inodes)
  <2>1. OneSubdirLess(inodes, r.inodes, d, i)
    BY <1>14 DEF OneSubdirLess
  <2> QED
    BY <1>4, <1>5, <1>6, <1>8, <1>12, <2>1, DirUnlinked
<1>16. ReaderThere(r)
  <2> SUFFICES ASSUME s.reader # NoReader PROVE ReadsWell(s.reader, e.dirs, s.names)
    BY <1>12 DEF ReaderThere
  <2>1. /\ IsReader(s.reader) /\ s.reader.dir \in DOMAIN s.names
        /\ ReaderOK(s.reader, s.dirs[s.reader.dir], s.names[s.reader.dir])
    BY <1>8 DEF ReaderThere, ReadsWell
  <2>2. DOMAIN s.names[i] = {}
    BY <1>5, <1>6, <1>8, <1>13 DEF NameAdded
  <2>3. CASE s.reader.dir = i
    BY <2>1, <2>2, <2>3, EmptyReader DEF ReadsWell
  <2>4. CASE s.reader.dir # i
    <3>1. e.dirs[s.reader.dir] = s.dirs[s.reader.dir]
      BY <1>10, <2>4
    <3> QED
      BY <2>1, <3>1 DEF ReadsWell
  <2> QED
    BY <2>3, <2>4
<1>17. Linked(r)
  BY <1>15, <1>16 DEF Linked
<1>18. Finish(r) /\ StateKept(r)
  <2>1. DOMAIN e.inodes = DOMAIN s.inodes /\ DOMAIN e.dirs = DOMAIN s.dirs
    BY <1>8, <1>10
  <2>2. s.names[i] = names[i]
    BY <1>5, <1>8, <1>13 DEF NameAdded
  <2>3. DirKept(empty, s.names[i])
    BY <1>6, <2>2, EmptyKept DEF empty
  <2>4. \A c \in DOMAIN s.dirs : DirKept(e.dirs[c], s.names[c])
    <3>1. \A c \in DOMAIN s.dirs : DirKept(s.dirs[c], s.names[c])
      BY <1>7 DEF StateKept
    <3> QED
      BY <1>10, <2>3, <3>1
  <2>5. StateKept(e)
    BY <1>7, <1>10, <2>1, <2>4 DEF StateKept
  <2> QED
    BY <1>1, <1>9, <2>5, LinksState
<1> QED
  BY <1>17, <1>18, FinishLinked

(* A rename onto an existing entry.                                        *)
LEMMA RenameOverLinked ==
  ASSUME StateKept(Now), Linked(Now), NEW od, NEW on \in Name, NEW nd, NEW nn \in Name,
         rename_over(od, on, nd, nn)
  PROVE  Linked(Now)'
<1> DEFINE old == Target(od, on)
           new == Target(nd, nn)
           at == tux_find_dirent(Now, od, on)
           n == IF inodes[old].isdir THEN -2 ELSE -1
           u == tux_update_dirent(Now, nd, nn, old)
           a == AddLinks(u, new, n)
           r == tux_delete_dirent(a, od, on, at)
<1>1. /\ VfsEntry(od, on) /\ VfsEntry(nd, nn) /\ Finish(r) /\ old # new
      /\ inodes[old].isdir = inodes[new].isdir /\ (inodes[old].isdir => tux_dir_is_empty(new))
  BY DEF rename_over, DeleteOld
<1>2. od \in DOMAIN dirs /\ at \in Entries(dirs[od]) /\ At(dirs[od], at).name = on /\ old \in Nat
  BY <1>1, Found
<1>3. nd \in DOMAIN dirs /\ Matches(dirs[nd], nn) # {}
  BY <1>1, Found
<1>4. on \in DOMAIN names[od] /\ names[od][on] = old /\ nn \in DOMAIN names[nd] /\ names[nd][nn] = new
  BY <1>1, VfsNames
<1>5. /\ Tree(names, inodes) /\ ReaderThere(Now) /\ Shape(names, inodes) /\ DOMAIN names = DOMAIN dirs
      /\ \A c \in DOMAIN dirs : DirKept(dirs[c], names[c])
  BY NowIs DEF Linked, Tree, StateKept
<1>6. /\ old \in DOMAIN inodes /\ new \in DOMAIN inodes /\ inodes \in [DOMAIN inodes -> Nodes]
      /\ \A j \in DOMAIN inodes : j \in DOMAIN names <=> inodes[j].isdir
  BY <1>2, <1>3, <1>4, <1>5 DEF Shape
<1>7. new \in DOMAIN names => DOMAIN names[new] = {}
  <2> SUFFICES ASSUME new \in DOMAIN names PROVE DOMAIN names[new] = {}
    OBVIOUS
  <2>1. Entries(dirs[new]) = {}
    BY <1>1, <1>5, <1>6 DEF tux_dir_is_empty, Entries, At
  <2> QED
    BY <1>5, <2>1, NoEntryNoName
<1>8. /\ u = tux_update_dirent(Now, nd, nn, old) /\ a = AddLinks(u, new, n)
      /\ r = tux_delete_dirent(a, od, on, at) /\ n \in Int /\ (~inodes[old].isdir => n = -1)
  OBVIOUS
<1> HIDE DEF old, new, at, n, u, a, r
<1>9. StateKept(u) /\ DOMAIN u.dirs = DOMAIN Now.dirs /\ EntriesStay(Now, u)
  <2>1. nd \in DOMAIN Now.dirs /\ HasEntry(Now.dirs[nd], nn)
    BY <1>3, NowIs DEF HasEntry
  <2> QED
    BY <1>2, <1>8, <2>1, UpdateState
<1>10. Renewed(names, u.names, nd, nn, old) /\ u.inodes = inodes /\ ReaderThere(u)
  BY <1>2, <1>3, <1>4, <1>5, <1>8, NowIs, UpdateParts
<1>11. PICK k : /\ NameAdded(k, names, nd, nn, new) /\ IsFun(k[nd])
                /\ NameAdded(k, u.names, nd, nn, old) /\ IsFun(u.names[nd])
  BY <1>4, <1>10 DEF Renewed
<1>12. StateKept(a)
  BY <1>8, <1>9, LinksState
<1>13. OneCount(inodes, a.inodes, new, n) /\ a.names = u.names /\ a.dirs = u.dirs /\ a.reader = u.reader
  BY <1>6, <1>8, <1>9, <1>10, LinksParts DEF StateKept
<1>14. od \in DOMAIN a.dirs /\ at \in Entries(a.dirs[od]) /\ At(a.dirs[od], at).name = on
  BY <1>2, <1>9, <1>13, NowIs DEF EntriesStay
<1>15. StateKept(r)
  BY <1>8, <1>12, <1>14, DeleteState
<1>16. /\ NameAdded(r.names, a.names, od, on, a.names[od][on]) /\ IsFun(r.names[od])
       /\ r.inodes = a.inodes /\ (ReaderThere(a) => ReaderThere(r))
  BY <1>8, <1>12, <1>13, <1>14, DeleteParts
<1>17. a.names[od][on] = old
  <2>1. od # nd \/ on # nn
    BY <1>1, <1>4
  <2>2. k[od] = names[od] \/ (od = nd /\ on \in DOMAIN k[od] /\ k[od][on] = old)
    BY <1>2, <1>4, <1>5, <1>11, <2>1 DEF NameAdded
  <2>3. on \in DOMAIN k[od] /\ k[od][on] = old /\ od \in DOMAIN k
    BY <1>2, <1>4, <1>5, <1>11, <2>2 DEF NameAdded
  <2> QED
    BY <1>11, <1>13, <2>3 DEF NameAdded
<1>18. SameKinds(inodes, r.inodes)
  BY <1>13, <1>16 DEF OneCount
<1>19. /\ \A j \in DOMAIN inodes : j # new => r.inodes[j].nlink = inodes[j].nlink
       /\ new \notin DOMAIN names => r.inodes[new].nlink = inodes[new].nlink - 1
  <2>1. \A j \in DOMAIN inodes : j # new => r.inodes[j].nlink = inodes[j].nlink
    BY <1>13, <1>16 DEF OneCount
  <2>2. ASSUME new \notin DOMAIN names PROVE r.inodes[new].nlink = inodes[new].nlink - 1
    <3>1. n = -1 /\ inodes[new].nlink \in Int
      BY <1>1, <1>6, <1>8, <2>2 DEF Nodes
    <3>2. r.inodes[new].nlink = inodes[new].nlink + n
      BY <1>6, <1>13, <1>16 DEF OneCount
    <3> QED
      BY <3>1, <3>2
  <2> QED
    BY <2>1, <2>2
<1>20. old \in DOMAIN names <=> new \in DOMAIN names
  BY <1>1, <1>6
<1>21. Tree(r.names, r.inodes)
  <2>1. Victim(names, inodes, r.inodes, old, new)
    BY <1>1, <1>7, <1>18, <1>19, <1>20 DEF Victim
  <2>2. /\ NameAdded(k, names, nd, nn, new) /\ NameAdded(k, a.names, nd, nn, old)
        /\ NameAdded(r.names, a.names, od, on, old)
    BY <1>11, <1>13, <1>16, <1>17
  <2>3. on \in DOMAIN names[od] /\ names[od][on] = old /\ IsFun(a.names[nd]) /\ IsFun(k[nd]) /\ IsFun(r.names[od])
    BY <1>4, <1>11, <1>13, <1>16
  <2>4. Tree(names, inodes)
    BY <1>5
  <2> QED
    BY <2>1, <2>2, <2>3, <2>4, EntryMovedOver
<1>22. ReaderThere(r)
  <2>1. ReaderThere(a)
    BY <1>10, <1>13, ThereStays
  <2> QED
    BY <1>16, <2>1
<1>23. Linked(r)
  BY <1>21, <1>22 DEF Linked
<1> QED
  BY <1>1, <1>15, <1>23, FinishLinked

(* A rename to a new entry.                                                *)
LEMMA RenameToNewLinked ==
  ASSUME StateKept(Now), Linked(Now), NEW od, NEW on \in Name, NEW nd, NEW nn \in Name,
         rename_to_new(od, on, nd, nn)
  PROVE  Linked(Now)'
<1> DEFINE old == Target(od, on)
           at == tux_find_dirent(Now, od, on)
           sub == inodes[old].isdir /\ od # nd
           c == tux_create_dirent(Now, nd, nn, old)
           t == tux_delete_dirent(c, od, on, at)
           a == AddLinks(t, nd, 1)
           b == AddLinks(a, od, -1)
           r == IF sub THEN b ELSE t
<1>1. VfsEntry(od, on) /\ VfsAbsent(nd, nn) /\ Finish(r)
  BY DEF rename_to_new, DeleteOld
<1>2. od \in DOMAIN dirs /\ at \in Entries(dirs[od]) /\ At(dirs[od], at).name = on /\ old \in Nat
  BY <1>1, Found
<1>3. nd \in DOMAIN dirs /\ Matches(dirs[nd], nn) = {} /\ Open(names, nd)
  BY <1>1, VfsNames DEF VfsAbsent, VfsDir
<1>4. on \in DOMAIN names[od] /\ names[od][on] = old
  BY <1>1, VfsNames
<1>5. Tree(names, inodes) /\ ReaderThere(Now) /\ Shape(names, inodes) /\ DOMAIN names = DOMAIN dirs
  BY NowIs DEF Linked, Tree, StateKept
<1>6. /\ old \in DOMAIN inodes /\ nd \in DOMAIN inodes /\ od \in DOMAIN inodes
      /\ inodes \in [DOMAIN inodes -> Nodes] /\ (old \in DOMAIN names <=> inodes[old].isdir)
  BY <1>2, <1>3, <1>4, <1>5 DEF Shape
<1>7. /\ c = tux_create_dirent(Now, nd, nn, old) /\ t = tux_delete_dirent(c, od, on, at)
      /\ a = AddLinks(t, nd, 1) /\ b = AddLinks(a, od, -1)
  OBVIOUS
<1>8. /\ sub <=> (old \in DOMAIN names /\ od # nd)
      /\ sub => r = b
      /\ ~sub => r = t
  BY <1>6
<1> HIDE DEF old, at, c, t, a, b, r, sub
<1>9. StateKept(c) /\ DOMAIN c.dirs = DOMAIN Now.dirs /\ EntriesStay(Now, c)
  BY <1>2, <1>3, <1>7, NowIs, CreateState
<1>10. /\ NameAdded(names, c.names, nd, nn, old) /\ IsFun(c.names[nd])
       /\ c.inodes = inodes /\ ReaderThere(c)
  BY <1>2, <1>3, <1>5, <1>7, NowIs, CreateParts
<1>11. od \in DOMAIN c.dirs /\ at \in Entries(c.dirs[od]) /\ At(c.dirs[od], at).name = on
  BY <1>2, <1>9, NowIs DEF EntriesStay
<1>12. StateKept(t)
  BY <1>7, <1>9, <1>11, DeleteState
<1>13. /\ NameAdded(t.names, c.names, od, on, c.names[od][on]) /\ IsFun(t.names[od])
       /\ t.inodes = c.inodes /\ (ReaderThere(c) => ReaderThere(t))
  BY <1>7, <1>9, <1>11, DeleteParts
<1>14. c.names[od][on] = old
  BY <1>2, <1>4, <1>5, <1>10 DEF NameAdded
<1>15. OneMoved(names, c.names, t.names, od, on, nd, nn, old)
  BY <1>4, <1>10, <1>13, <1>14 DEF OneMoved
<1>16. StateKept(a) /\ StateKept(b)
  BY <1>7, <1>12, LinksState
<1>17. /\ OneCount(inodes, a.inodes, nd, 1) /\ a.names = t.names /\ a.reader = t.reader /\ a.dirs = t.dirs
       /\ a.inodes \in [DOMAIN inodes -> Nodes] /\ DOMAIN a.inodes = DOMAIN inodes
  <2>1. t.inodes = inodes /\ IsState(t)
    BY <1>10, <1>12, <1>13 DEF StateKept
  <2> QED
    BY <1>6, <1>7, <2>1, LinksParts
<1>18. OneCount(a.inodes, b.inodes, od, -1) /\ b.names = t.names /\ b.reader = t.reader /\ b.dirs = t.dirs
  BY <1>6, <1>7, <1>16, <1>17, LinksParts DEF StateKept
<1>19. r.names = t.names /\ r.reader = t.reader /\ r.dirs = t.dirs /\ StateKept(r)
  BY <1>8, <1>12, <1>16, <1>17, <1>18
<1>20. SubdirMoved(inodes, r.inodes, sub, od, nd)
  <2>1. CASE sub
    <3>1. SameKinds(inodes, b.inodes)
      BY <1>17, <1>18 DEF OneCount, SameKinds
    <3>2. ASSUME NEW j \in DOMAIN inodes
          PROVE  b.inodes[j].nlink = IF j = nd THEN inodes[j].nlink + 1
                                     ELSE IF j = od THEN inodes[j].nlink - 1 ELSE inodes[j].nlink
      <4>1. inodes[j].nlink \in Int
        BY <1>6 DEF Nodes
      <4>2. a.inodes[j].nlink = IF j = nd THEN inodes[j].nlink + 1 ELSE inodes[j].nlink
        BY <1>17 DEF OneCount
      <4>3. b.inodes[j].nlink = IF j = od THEN a.inodes[j].nlink + -1 ELSE a.inodes[j].nlink
        BY <1>17, <1>18 DEF OneCount
      <4>4. od # nd
        BY <1>8, <2>1
      <4> QED
        BY <4>1, <4>2, <4>3, <4>4
    <3> QED
      BY <1>8, <2>1, <3>1, <3>2 DEF SubdirMoved
  <2>2. CASE ~sub
    <3>1. r.inodes = inodes
      BY <1>8, <1>10, <1>13, <2>2
    <3> QED
      BY <1>6, <2>2, <3>1 DEF SubdirMoved, SameKinds
  <2> QED
    BY <2>1, <2>2
<1>21. Tree(r.names, r.inodes)
  <2>1. OneMoved(names, c.names, r.names, od, on, nd, nn, old) /\ IsFun(r.names[od])
    BY <1>13, <1>15, <1>19
  <2>2. Tree(names, inodes) /\ IsFun(c.names[nd]) /\ Open(names, nd)
    BY <1>3, <1>5, <1>10
  <2> QED
    BY <1>8, <1>20, <2>1, <2>2, EntryMoved
<1>22. ReaderThere(r)
  <2>1. ReaderThere(t)
    BY <1>10, <1>13
  <2> QED
    BY <1>19, <2>1, ThereStays
<1>23. Linked(r)
  BY <1>21, <1>22 DEF Linked
<1> QED
  BY <1>1, <1>19, <1>23, FinishLinked

(* Closing a directory.                                                    *)
LEMMA CloseLinked ==
  ASSUME StateKept(Now), Linked(Now), closedir
  PROVE  Linked(Now)'
<1> DEFINE none == NoReader
           s == [Now EXCEPT !.reader = none]
<1>1. Finish(s)
  BY DEF closedir
<1>2. s = [Now EXCEPT !.reader = none] /\ none = NoReader
  OBVIOUS
<1> HIDE DEF none, s
<1>3. IsState(s) /\ s.inodes = inodes /\ s.dirs = dirs /\ s.names = names /\ s.reader = none
  BY <1>2, NowIs, Zenon DEF IsState
<1>4. StateKept(s) /\ Linked(s)
  BY <1>2, <1>3, NowIs DEF StateKept, Linked, ReaderThere
<1> QED
  BY <1>1, <1>4, FinishLinked

(* Steps that only move the reader.                                        *)
LEMMA ReaderLinked ==
  ASSUME Linked(Now), UNCHANGED <<inodes, dirs, names>>,
         reader' # NoReader => ReadsWell(reader', dirs, names)
  PROVE  Linked(Now)'
<1> DEFINE n == [inodes |-> inodes', dirs |-> dirs', reader |-> reader', names |-> names']
<1>1. n.inodes = inodes /\ n.names = names /\ n.reader = reader' /\ n.dirs = dirs
  OBVIOUS
<1>2. Now' = n
  BY DEF Now
<1> HIDE DEF n
<1>3. Linked(n)
  BY <1>1, NowIs DEF Linked, ReaderThere
<1> QED
  BY <1>2, <1>3

(* Opening a directory and reading from it.                                *)
LEMMA ReadLinked ==
  ASSUME StateKept(Now), Linked(Now),
         (\E d \in DOMAIN dirs : opendir(d)) \/ tux_readdir \/ tux_readdir_end
  PROVE  Linked(Now)'
<1>1. DOMAIN names = DOMAIN dirs /\ ReaderThere(Now) /\ \A d \in DOMAIN dirs : DirKept(dirs[d], names[d])
  BY NowIs DEF StateKept, Linked
<1>2. ASSUME NEW d \in DOMAIN dirs, opendir(d) PROVE Linked(Now)'
  <2> DEFINE place == <<1, 0>>
             none == {}
             since == DOMAIN names[d]
  <2>1. /\ reader' = [dir |-> d, place |-> place, relied |-> none, given |-> none, since |-> since]
        /\ UNCHANGED <<inodes, dirs, names>>
    BY <1>2 DEF opendir
  <2>2. place = <<1, 0>> /\ since = DOMAIN names[d] /\ none = {}
    OBVIOUS
  <2> HIDE DEF place, since, none
  <2>3. /\ IsReader(reader') /\ reader'.dir = d /\ reader'.place = place /\ reader'.relied = none
        /\ reader'.given = none /\ reader'.since = since
    BY <2>1, Zenon DEF IsReader
  <2>4. PICK rd : rd = reader'
    OBVIOUS
  <2>5. DirKept(dirs[d], names[d]) /\ dirs[d] \in Dirs(Nat)
    BY <1>1 DEF DirKept
  <2>6. ReaderOK(rd, dirs[d], names[d])
    BY <2>2, <2>3, <2>4, <2>5, OpenedReader
  <2>7. ReadsWell(reader', dirs, names)
    BY <1>1, <2>3, <2>4, <2>6 DEF ReadsWell
  <2> QED
    BY <2>1, <2>7, ReaderLinked
<1>3. ASSUME tux_readdir PROVE Linked(Now)'
  <2> DEFINE dir == dirs[reader.dir]
             at == Foremost(Behind(dir, reader.place))
             given == reader.given \cup {dir[at[1]][at[2]].name}
             place == NextPlace(dir, After(dir, at))
  <2>1. /\ reader' = [reader EXCEPT !.given = given, !.place = place, !.relied = {}]
        /\ reader # NoReader /\ UNCHANGED <<inodes, dirs, names>> /\ reader.place # Lost
        /\ Behind(dir, reader.place) # {}
    BY <1>3 DEF tux_readdir
  <2>2. /\ IsReader(reader) /\ reader.dir \in DOMAIN names /\ ReaderOK(reader, dir, names[reader.dir])
        /\ DirKept(dir, names[reader.dir])
    BY <1>1, <2>1, NowIs DEF ReaderThere, ReadsWell
  <2>3. at = Foremost(Behind(dir, reader.place)) /\ place = NextPlace(dir, After(dir, at)) /\ dir = dirs[reader.dir]
    OBVIOUS
  <2>4. given = reader.given \cup {At(dir, at).name}
    BY DEF At
  <2> HIDE DEF given, place, at, dir
  <2>5. reader' = GivenTo(reader, given, place)
    BY <2>1, Zenon DEF GivenTo
  <2>6. PICK rd : rd = reader'
    OBVIOUS
  <2>7. IsReader(rd) /\ rd.dir = reader.dir /\ ReaderOK(rd, dir, names[reader.dir])
    BY <2>1, <2>2, <2>3, <2>4, <2>5, <2>6, GivenNext
  <2>8. ReadsWell(reader', dirs, names)
    BY <2>2, <2>3, <2>6, <2>7 DEF ReadsWell
  <2> QED
    BY <2>1, <2>8, ReaderLinked
<1>4. ASSUME tux_readdir_end PROVE Linked(Now)'
  <2> DEFINE dir == dirs[reader.dir]
             none == {}
             place == NextPlace(dir, reader.place)
  <2>1. /\ reader' = [reader EXCEPT !.place = place, !.relied = none]
        /\ reader # NoReader /\ UNCHANGED <<inodes, dirs, names>> /\ reader.place # Lost
        /\ Behind(dir, reader.place) = {}
    BY <1>4 DEF tux_readdir_end
  <2>2. /\ IsReader(reader) /\ reader.dir \in DOMAIN names /\ ReaderOK(reader, dir, names[reader.dir])
        /\ DirKept(dir, names[reader.dir])
    BY <1>1, <2>1, NowIs DEF ReaderThere, ReadsWell
  <2>3. place = NextPlace(dir, reader.place) /\ dir = dirs[reader.dir] /\ none = {}
    OBVIOUS
  <2> HIDE DEF none, place, dir
  <2>5. reader' = MovedTo(reader, place, none)
    BY <2>1, Zenon DEF MovedTo
  <2>6. PICK rd : rd = reader'
    OBVIOUS
  <2>7. IsReader(rd) /\ rd.dir = reader.dir /\ ReaderOK(rd, dir, names[reader.dir])
    BY <2>1, <2>2, <2>3, <2>5, <2>6, GivenAll
  <2>8. ReadsWell(reader', dirs, names)
    BY <2>2, <2>3, <2>6, <2>7 DEF ReadsWell
  <2> QED
    BY <2>1, <2>8, ReaderLinked
<1> QED
  BY <1>2, <1>3, <1>4

(* Every operation keeps the links.                                        *)
LEMMA NextLinked ==
  ASSUME StateKept(Now), Linked(Now), [Next]_vars
  PROVE  Linked(Now)'
<1>1. ASSUME NEW d \in DOMAIN dirs, NEW name \in Name, tux3_mknod(d, name, FALSE)
      PROVE  Linked(Now)'
  BY <1>1, FileMade
<1>2. ASSUME NEW d \in DOMAIN dirs, NEW name \in Name, tux3_symlink(d, name)
      PROVE  Linked(Now)'
  BY <1>2, FileMade DEF tux3_symlink
<1>3. ASSUME NEW d \in DOMAIN dirs, NEW name \in Name, tux3_mkdir(d, name)
      PROVE  Linked(Now)'
  BY <1>3, DirMade DEF tux3_mkdir
<1>4. ASSUME NEW d \in DOMAIN dirs, NEW name \in Name, NEW i \in DOMAIN inodes, tux3_link(i, d, name)
      PROVE  Linked(Now)'
  BY <1>4, LinkLinked
<1>5. ASSUME NEW d \in DOMAIN dirs, NEW name \in Name, tux3_unlink(d, name)
      PROVE  Linked(Now)'
  BY <1>5, UnlinkLinked
<1>6. ASSUME NEW d \in DOMAIN dirs, NEW name \in Name, tux3_rmdir(d, name)
      PROVE  Linked(Now)'
  BY <1>6, RmdirLinked
<1>7. ASSUME NEW d \in DOMAIN dirs, NEW name \in Name, NEW nd \in DOMAIN dirs, NEW nn \in Name,
             tux3_rename(d, name, nd, nn)
      PROVE  Linked(Now)'
  BY <1>7, RenameOverLinked, RenameToNewLinked DEF tux3_rename
<1>8. CASE (\E d \in DOMAIN dirs : opendir(d)) \/ tux_readdir \/ tux_readdir_end
  BY <1>8, ReadLinked
<1>9. CASE closedir
  BY <1>9, CloseLinked
<1>10. CASE UNCHANGED vars
  <2>1. reader # NoReader => ReadsWell(reader, dirs, names)
    BY NowIs DEF Linked, ReaderThere
  <2> QED
    BY <1>10, <2>1, ReaderLinked DEF vars
<1> QED
  BY <1>1, <1>2, <1>3, <1>4, <1>5, <1>6, <1>7, <1>8, <1>9, <1>10 DEF Next

(* In the beginning there is the root.                                     *)
LEMMA InitLinked ==
  ASSUME Init
  PROVE  Linked(Now)
<1>1. /\ inodes = [i \in {Root} |-> Inode(TRUE, 2)] /\ DOMAIN names = {Root} /\ reader = NoReader
      /\ DOMAIN names[Root] = {} /\ IsFun(names[Root])
  BY DEF Init, IsFun
<1>2. inodes[Root] = Inode(TRUE, 2) /\ DOMAIN inodes = {Root} /\ inodes \in [DOMAIN inodes -> Nodes]
  BY <1>1, InodeParts
<1>3. (\A i : Into(names, i) = {}) /\ Below(names, Root) = {}
  BY <1>1 DEF Into, Below
<1>4. Finite(names) /\ SubCount(names, Root) = 0
  BY <1>1, <1>3, FS_EmptySet DEF Finite, SubCount
<1>5. DOMAIN names = {i \in DOMAIN inodes : inodes[i].isdir}
  BY <1>1, <1>2, InodeParts
<1>6. Shape(names, inodes)
  BY <1>1, <1>2, <1>4, <1>5 DEF Shape
<1>7. Counted(names, inodes[Root].nlink, Root)
  <2>1. inodes[Root].nlink >= 2 + SubCount(names, Root)
    <3>1. inodes[Root].nlink = 2
      BY <1>2, InodeParts, Zenon
    <3> QED
      BY <1>4, <3>1
  <2> QED
    BY <1>1, <1>3, <2>1 DEF Counted
<1>8. Tree(names, inodes)
  BY <1>1, <1>2, <1>6, <1>7 DEF Tree
<1> QED
  BY <1>1, <1>8, NowIs DEF Linked, ReaderThere

(* A function without arguments.                                           *)
LEMMA NoNames ==
  ASSUME NEW f, IsFun(f), DOMAIN f = {}
  PROVE  f = <<>>
<1> DEFINE none == <<>>
<1>1. DOMAIN none = {} /\ IsFun(none)
  BY DEF IsFun
<1> HIDE DEF none
<1>2. f = none
  BY <1>1 DEF IsFun
<1> QED
  BY <1>2 DEF none

(* What the invariant says of the link counts.                             *)
LEMMA LinkedMatch ==
  ASSUME StateKept(Now), Linked(Now)
  PROVE  LinksMatch /\ TypeOK
<1>1. /\ DOMAIN names = DOMAIN dirs /\ DOMAIN inodes \subseteq Inums
      /\ \A d \in DOMAIN dirs : WellFormed(dirs[d])
  BY NowIs DEF StateKept, DirKept
<1>2. Tree(names, inodes) /\ Shape(names, inodes) /\ Root \in DOMAIN names
  BY NowIs DEF Linked, Tree
<1>3. /\ DOMAIN names = {i \in DOMAIN inodes : inodes[i].isdir}
      /\ \A d \in DOMAIN names : \A name \in DOMAIN names[d] : names[d][name] \in DOMAIN inodes
      /\ \A d \in DOMAIN names : IsFun(names[d])
  BY <1>2 DEF Shape
<1>4. \A i : Links(i) = Into(names, i)
  BY <1>1 DEF Links, Into
<1>5. \A d \in DOMAIN names : Subdirs(d) = Below(names, d)
  BY <1>3 DEF Subdirs, Below
<1>6. \A i \in DOMAIN inodes : Counted(names, inodes[i].nlink, i)
  BY <1>2 DEF Tree
<1>7. inodes[Root].nlink >= 2 + Cardinality(Subdirs(Root))
  BY <1>2, <1>3, <1>5, <1>6 DEF Counted, SubCount
<1>8. ASSUME NEW i \in DOMAIN inodes \ {Root}
      PROVE  IF ~inodes[i].isdir THEN inodes[i].nlink = Cardinality(Links(i))
             ELSE IF Links(i) = {} THEN names[i] = <<>>
             ELSE Cardinality(Links(i)) = 1 /\ inodes[i].nlink >= 2 + Cardinality(Subdirs(i))
  <2>1. Counted(names, inodes[i].nlink, i) /\ Links(i) = Into(names, i)
    BY <1>4, <1>6
  <2>2. CASE ~inodes[i].isdir
    BY <1>3, <2>1, <2>2 DEF Counted, LinkCount
  <2>3. CASE inodes[i].isdir /\ Links(i) = {}
    <3>1. names[i] = <<>>
      BY <1>3, <2>1, <2>3, NoNames DEF Counted
    <3> QED
      BY <2>3, <3>1
  <2>4. CASE inodes[i].isdir /\ Links(i) # {}
    <3>1. i \in DOMAIN names
      BY <1>3, <2>4
    <3>2. inodes[i].nlink >= 2 + Cardinality(Subdirs(i))
      BY <1>5, <2>1, <2>4, <3>1 DEF Counted, SubCount
    <3>3. PICK e : Links(i) = {e}
      BY <2>1, <2>4, <3>1 DEF Counted
    <3>4. Cardinality(Links(i)) = 1
      BY <3>3, FS_Singleton
    <3> QED
      BY <2>4, <3>2, <3>4
  <2> QED
    BY <2>2, <2>3, <2>4
<1>9. LinksMatch
  BY <1>1, <1>3, <1>7, <1>8 DEF LinksMatch
<1>10. reader # NoReader => reader.dir \in DOMAIN dirs
  BY <1>1, NowIs DEF Linked, ReaderThere, ReadsWell
<1>11. TypeOK
  BY <1>1, <1>2, <1>3, <1>10 DEF TypeOK
<1> QED
  BY <1>9, <1>11

(* The invariant of every state.                                           *)
LEMMA SpecLinked == Spec => [](StateKept(Now) /\ Linked(Now))
<1>1. Init => StateKept(Now) /\ Linked(Now)
  BY InitKept, InitLinked
<1>2. StateKept(Now) /\ Linked(Now) /\ [Next]_vars => StateKept(Now)' /\ Linked(Now)'
  BY NextKept, NextLinked
<1> QED
  BY <1>1, <1>2, PTL DEF Spec

(* Every entry leads to an inode that exists, the count of a file is the   *)
(* number of its entries, and that of a directory is never too low, so     *)
(* that tux3_delete_inode never takes one that an entry leads to, nor the  *)
(* root: through any sequence of operations.                               *)
THEOREM LinksCorrect == Spec => []LinksMatch
<1>1. StateKept(Now) /\ Linked(Now) => LinksMatch
  BY LinkedMatch
<1> QED
  BY <1>1, SpecLinked, PTL

(* The root and the directory that is read exist as long as they are used, *)
(* and directory inodes and directories are the same.                      *)
THEOREM TypeCorrect == Spec => []TypeOK
<1>1. StateKept(Now) /\ Linked(Now) => TypeOK
  BY LinkedMatch
<1> QED
  BY <1>1, SpecLinked, PTL

(* What the invariant says of what has been read.                          *)
LEMMA LinkedOnce ==
  ASSUME StateKept(Now), Linked(Now)
  PROVE  ReaddirOnce
<1> SUFFICES ASSUME reader # NoReader, reader.place # Lost, NEW name \in reader.since
             PROVE  name \in reader.given <=> Precedes(tux_find_entry(dirs[reader.dir], name), reader.place)
  BY DEF ReaddirOnce
<1>1. reader.dir \in DOMAIN names /\ ReaderOK(reader, dirs[reader.dir], names[reader.dir])
  BY NowIs DEF Linked, ReaderThere, ReadsWell
<1>2. DirKept(dirs[reader.dir], names[reader.dir])
  BY <1>1, NowIs DEF StateKept
<1> QED
  BY <1>1, <1>2, ReadOnce

(* tux_readdir gives out each entry that stays in the directory exactly    *)
(* once, whatever tux_create_entry and tux_delete_entry do around the      *)
(* place that f_pos names.                                                 *)
THEOREM ReaddirCorrect == Spec => []ReaddirOnce
<1>1. StateKept(Now) /\ Linked(Now) => ReaddirOnce
  BY LinkedOnce
<1> QED
  BY <1>1, SpecLinked, PTL
=============================================================================
