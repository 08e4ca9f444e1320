-------------------------------- MODULE Dir --------------------------------
(***************************************************************************)
(* Directory blocks (kernel/dir.c): the entry operations, on a directory   *)
(* as a value.  They serve the namespace and the atom dictionary.          *)
(*                                                                         *)
(* A directory is a sequence of blocks (its size is that many blocks).  A  *)
(* block is a function from the byte offsets at which records start to     *)
(* records: those that a walk along rec_len from offset 0 visits, as       *)
(* WellFormed says and is checked to.  A record without a name is deleted. *)
(* A position in a directory is a pair, block and byte.                    *)
(***************************************************************************)
EXTENDS Integers, Sequences, FiniteSets

CONSTANTS
  Name,       \* names of entries
  NameLen,    \* their lengths
  NoName,     \* the name of a deleted record: length 0
  BlockSize

TUX_DIR_HEAD == 12

TUX_REC_LEN(name) ==
  (((IF name = NoName THEN 0 ELSE NameLen[name]) + TUX_DIR_HEAD + 7) \div 8) * 8

ASSUME DirAssumption ==
  /\ NoName \notin Name
  /\ NameLen \in [Name -> 1..255]
  /\ BlockSize \in Nat /\ BlockSize % 8 = 0
  /\ \A name \in Name : TUX_REC_LEN(name) <= BlockSize

Record(name, inum, rec_len) == [name |-> name, inum |-> inum, rec_len |-> rec_len]

is_deleted(record) == record.name = NoName

(* The positions of records that satisfy Test, of those at which a record  *)
(* for the name may start.                                                 *)
Places(dir, name, Test(_)) ==
  {at \in UNION {{b} \X DOMAIN dir[b] : b \in DOMAIN dir} :
     at[2] <= BlockSize - TUX_REC_LEN(name) /\ Test(dir[at[1]][at[2]])}

(* The one that a walk along the blocks finds first.                       *)
Foremost(places) ==
  CHOOSE at \in places :
    \A other \in places : at[1] < other[1] \/ (at[1] = other[1] /\ at[2] <= other[2])

-----------------------------------------------------------------------------
Matches(dir, name) ==
  LET tux_match(record) == record.name = name IN Places(dir, name, tux_match)

tux_find_entry(dir, name) == Foremost(Matches(dir, name))

(* A new record takes a deleted one that is long enough, as a whole, or    *)
(* the space behind the name of another one, or a new block.               *)
MutantNoUsed(record, name) == record.rec_len >= TUX_REC_LEN(name)
HasRoom(record, name) ==
  \/ is_deleted(record) /\ record.rec_len >= TUX_REC_LEN(name)
  \/ record.rec_len >= TUX_REC_LEN(record.name) + TUX_REC_LEN(name)

Rooms(dir, name) ==
  LET Room(record) == HasRoom(record, name) IN Places(dir, name, Room)

NewBlock == [o \in {0} |-> Record(NoName, 0, BlockSize)]

(* With the record at an offset of a block replaced or added.  (Namei uses *)
(* it for other functions too.)                                            *)
With(block, o, record) ==
  [p \in DOMAIN block \cup {o} |-> IF p = o THEN record ELSE block[p]]

(* Where the entry is created, and the directory with it.                  *)
tux_create_entry(dir, name, inum) ==
  LET full  == Rooms(dir, name) = {}
      grown == IF full THEN Append(dir, NewBlock) ELSE dir
      at    == IF full THEN <<Len(grown), 0>> ELSE Foremost(Rooms(dir, name))
      block == grown[at[1]]
      host  == block[at[2]]
      used  == IF is_deleted(host) THEN 0 ELSE TUX_REC_LEN(host.name)
      start == at[2] + used
      cut   == With(block, at[2], [host EXCEPT !.rec_len = used])
  IN  [where |-> <<at[1], start>>,
       dir   |-> [grown EXCEPT ![at[1]] =
                    With(cut, start, Record(name, inum, host.rec_len - used))]]

(* The space of a deleted record goes to the one before it in its block;   *)
(* the first record of a block stays, without a name.                      *)
MutantNoMerge(dir, at) == [dir EXCEPT ![at[1]] = [o \in DOMAIN @ \ {at[2]} |-> @[o]]]
tux_delete_entry(dir, at) ==
  LET block  == dir[at[1]]
      o      == at[2]
      before == {p \in DOMAIN block : p + block[p].rec_len = o}
      prev   == CHOOSE p \in before : TRUE
  IN  [dir EXCEPT ![at[1]] =
         IF o = 0 THEN With(block, 0, Record(NoName, 0, block[0].rec_len))
         ELSE [p \in DOMAIN block \ {o} |->
                 IF p = prev THEN [block[p] EXCEPT !.rec_len = @ + block[o].rec_len]
                 ELSE block[p]]]

-----------------------------------------------------------------------------
(* The records of every block follow each other from its start to its end, *)
(* each long enough for its name, and no name is in a directory twice.     *)
WellFormed(dir) ==
  /\ \A b \in DOMAIN dir :
       LET block == dir[b]
           Ends  == {o + block[o].rec_len : o \in DOMAIN block}
       IN  /\ {0} \cup Ends = DOMAIN block \cup {BlockSize}
           /\ \A o \in DOMAIN block :
                /\ block[o].rec_len >= TUX_REC_LEN(block[o].name)
                /\ \A p \in DOMAIN block : p > o => p >= o + block[o].rec_len
  /\ \A name \in Name : Cardinality(Matches(dir, name)) <= 1
=============================================================================
