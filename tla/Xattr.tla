------------------------------- MODULE Xattr -------------------------------
(***************************************************************************)
(* Extended attributes (kernel/xattr.c): names are kept once, as atoms.    *)
(*                                                                         *)
(* The atom table has three parts: a dictionary from names to atoms, which *)
(* is a directory; reference counts, in two halves; and the reverse map    *)
(* from an atom to the place of its entry, through which the free atoms    *)
(* are linked as well.  An inode keeps its attributes, with their atoms,   *)
(* in its xcache.                                                          *)
(*                                                                         *)
(* Every operation holds the mutex of the atom table from end to end, so   *)
(* that an action is a whole operation.  What a user has to read is kept   *)
(* in attrs, which changes as Attributes says.                             *)
(*                                                                         *)
(* A read of the atom table may fail.  Some failures leave an operation    *)
(* half done in a way that nothing repairs ("better set a flag that unatom *)
(* broke or something!!!"): torn is that flag, and what becomes of the     *)
(* table after it is not followed.                                         *)
(***************************************************************************)
EXTENDS Dir, SequencesExt

CONSTANTS
  Inode, Value,
  ValueLen,  \* the lengths of values
  NoValue,
  HalfRange, \* the range of half a reference count: 2^16 in the code
  AtomRange, \* the range of an atom in an xcache: 2^16 in the code
  SizeRange, \* the range of the sizes of a value and of an xcache: 2^16 too
  MaxAtom,   \* bound: atoms
  MaxAttrs,  \* bound: attributes of all inodes together
  MaxLost    \* bound: references and atoms that are lost, see lost and stray

(* No xcache outgrows its 16-bit size: new_xcache allots at most twice what *)
(* MaxAttrs attributes with the header of the longest value take.          *)
XcacheSize(v) == 128 + 2 * (4 + MaxAttrs * (4 + ValueLen[v]))

ASSUME XattrAssumption ==
  /\ NoValue \notin Value
  /\ ValueLen \in [Value -> Nat]
  /\ \A v \in Value : XcacheSize(v) < SizeRange
  /\ HalfRange \in Nat \ {0, 1} /\ AtomRange \in Nat \ {0}
  /\ MaxAtom \in Nat /\ MaxAttrs \in Nat /\ MaxLost \in Nat
  /\ IsFiniteSet(Inode) /\ Cardinality(Inode) + MaxLost < HalfRange * HalfRange

Atom == 1..MaxAtom

VARIABLES
  atable, \* the atom table and its fields of the superblock:
          \*   dict       the dictionary
          \*   low, high  the halves of the reference counts
          \*   revmap     the place in the dictionary or, with the mark 0xdead
          \*              (here dead), the next free atom
          \*   freeatom   the first free atom, or 0
          \*   atomgen    the next atom when none is free
  xcache, \* the attributes of each inode, as a list
  attrs,  \* history: what users have set
  lost,   \* history: the atoms of attributes that left their references behind
  stray,  \* history: atoms that were taken and never entered
  torn    \* history: a failing read has left an operation half done

vars == <<atable, xcache, attrs, lost, stray, torn>>

A == INSTANCE Attributes

Init ==
  /\ atable = [dict |-> <<>>,
               low  |-> [a \in Atom |-> 0], high |-> [a \in Atom |-> 0],
               revmap |-> [a \in Atom |-> [dead |-> FALSE, next |-> 0, where |-> <<0, 0>>]],
               freeatom |-> 0, atomgen |-> 1]
  /\ xcache = [i \in Inode |-> <<>>]
  /\ A!Init
  /\ lost = <<>> /\ stray = {} /\ torn = FALSE

-----------------------------------------------------------------------------
(* Atoms.  An operator on the table returns the table after it.            *)
entry_atom(T, at) == T.dict[at[1]][at[2]].inum

HasAtom(T, n) == Matches(T.dict, n) # {}

find_atom(T, n) == entry_atom(T, tux_find_entry(T.dict, n))

FreeAtom(T) == IF T.freeatom = 0 THEN T.atomgen ELSE T.freeatom

get_freeatom(T) ==
  IF T.freeatom = 0 THEN [T EXCEPT !.atomgen = @ + 1]
  ELSE [T EXCEPT !.freeatom = T.revmap[@].next]

Mapping(where) == [dead |-> FALSE, next |-> 0, where |-> where]
FreeLink(next) == [dead |-> TRUE, next |-> next, where |-> <<0, 0>>]

(* The atom, and the table after it.                                       *)
make_atom(T, n) ==
  LET a == FreeAtom(T)
      E == tux_create_entry(T.dict, n, a)
  IN  IF HasAtom(T, n) THEN [atom |-> find_atom(T, n), table |-> T]
      ELSE [atom  |-> a,
            table |-> [get_freeatom(T) EXCEPT !.dict = E.dir, !.revmap[a] = Mapping(E.where)]]

(* What make_atom comes to when a read fails and a name has been entered:  *)
(* find_atom takes the failure for a name that is not there and the name   *)
(* is entered again; the reverse map is not written; or get_freeatom gives *)
(* -1, which is entered as the atom.  An atom -1 is an error to set_xattr. *)
make_atom_torn(T, n) ==
  LET a == FreeAtom(T)
      E == tux_create_entry(T.dict, n, a)
      Entered == [get_freeatom(T) EXCEPT !.dict = E.dir]
      Again == [atom |-> a, table |-> [Entered EXCEPT !.revmap[a] = Mapping(E.where)]]
      Bad   == [atom |-> -1, table |-> [T EXCEPT !.dict = tux_create_entry(@, n, -1).dir]]
  IN  {[atom |-> -1, table |-> Entered]}
        \cup (IF HasAtom(T, n) THEN {Again} ELSE {})
        \cup (IF T.freeatom # 0 THEN {Bad} ELSE {})

(* The last reference is gone: the atom is free and its name forgotten.    *)
MutantKeepName(T, a) == [T EXCEPT !.revmap[a] = FreeLink(T.freeatom), !.freeatom = a]
kill_atom(T, a) ==
  LET where == T.revmap[a].where IN
  [T EXCEPT !.revmap[a] = FreeLink(T.freeatom), !.freeatom = a,
            !.dict = IF entry_atom(T, where) = a THEN tux_delete_entry(@, where) ELSE @]

(* The high half is read only when the low half is zero or out of range.   *)
MutantNoHigh(lo, hi) == lo = 0
Unused(lo, hi) == lo = 0 /\ hi = 0

MutantNoBorrow(lo) == IF lo < 0 THEN 0 ELSE lo \div HalfRange
Carry(lo) == lo \div HalfRange

use_atom(T, a, use) ==
  LET lo == T.low[a] + use
      hi == T.high[a] + Carry(lo)
      C  == [T EXCEPT !.low[a] = lo % HalfRange, !.high[a] = hi % HalfRange]
  IN  IF Unused(lo, hi) THEN kill_atom(C, a) ELSE C

(* The read of the high half fails, or the one of the reverse map when the *)
(* last reference goes: only the low half is new.                          *)
use_atom_half(T, a, use) == [T EXCEPT !.low[a] = (@ + use) % HalfRange]

-----------------------------------------------------------------------------
(* The xcache of an inode.                                                 *)
Holds(i, a) == \E k \in DOMAIN xcache[i] : xcache[i][k].atom = a

xcache_lookup(i, a) ==
  CHOOSE k \in DOMAIN xcache[i] :
    /\ xcache[i][k].atom = a
    /\ \A j \in 1..(k - 1) : xcache[i][j].atom # a

remove_old(i, a) ==
  IF Holds(i, a) THEN RemoveAt(xcache[i], xcache_lookup(i, a)) ELSE xcache[i]

(* An attribute that is not longer than the one it replaces fits in the   *)
(* memory of the xcache.  Any other may need more: how much there is       *)
(* depends on what the inode has held and is left open.                    *)
MayGrow(i, a, v) ==
  Holds(i, a) => ValueLen[v] > ValueLen[xcache[i][xcache_lookup(i, a)].value]

-----------------------------------------------------------------------------
(* Operations.                                                             *)
Lost == Cardinality(stray) + Len(lost)

(* Bound: an atom for a new name.                                          *)
AtomLeft(n) == HasAtom(atable, n) \/ FreeAtom(atable) \in Atom

(* Bound: an attribute more.                                               *)
AttrLeft(i, a) ==
  Holds(i, a) \/ Cardinality({e \in Inode \X (1..MaxAttrs) : e[2] <= Len(xcache[e[1]])}) < MaxAttrs

NewUse(i, a) == IF Holds(i, a) THEN 0 ELSE 1

(* With flags that do not refuse it: no flags never do.                    *)
set_xattr(i, n) ==
  /\ AtomLeft(n)
  /\ \E M \in {make_atom(atable, n)} :
       /\ AttrLeft(i, M.atom)
       /\ atable' = IF NewUse(i, M.atom) = 0 THEN M.table
                     ELSE use_atom(M.table, M.atom, NewUse(i, M.atom))
       /\ \E v \in Value :
            /\ xcache' = [xcache EXCEPT ![i] =
                 Append(remove_old(i, M.atom), [atom |-> M.atom % AtomRange, value |-> v])]
            /\ A!Set(i, n, v)
  /\ UNCHANGED <<lost, stray>>

(* With XATTR_REPLACE and nothing to replace: -ENOATTR.  The atom stays,   *)
(* without a reference if it is new.  (XATTR_CREATE refuses a name that is *)
(* there, before anything has changed.)                                    *)
set_xattr_refused(i, n) ==
  /\ AtomLeft(n)
  /\ \E M \in {make_atom(atable, n)} : ~Holds(i, M.atom) /\ atable' = M.table
  /\ UNCHANGED <<xcache, attrs, lost, stray>>

(* -ENOMEM from new_xcache: the old attribute is gone, its reference not.  *)
set_xattr_nomem(i, n) ==
  /\ Lost < MaxLost /\ AtomLeft(n)
  /\ \E M \in {make_atom(atable, n)} :
       /\ \E v \in Value : MayGrow(i, M.atom, v)
       /\ atable' = M.table
       /\ xcache' = [xcache EXCEPT ![i] = remove_old(i, M.atom)]
       /\ lost' = IF Holds(i, M.atom) THEN Append(lost, M.atom) ELSE lost
  /\ A!Remove(i, n)
  /\ UNCHANGED stray

(* -EIO from tux_create_entry: the atom is not put back.                   *)
set_xattr_eio(n) ==
  /\ ~HasAtom(atable, n) /\ AtomLeft(n)
  /\ Lost < MaxLost
  /\ atable' = get_freeatom(atable)
  /\ stray' = stray \cup {FreeAtom(atable)}
  /\ UNCHANGED <<xcache, attrs, lost>>

del_xattr(i, n) ==
  /\ HasAtom(atable, n)
  /\ \E a \in {find_atom(atable, n)} :
       /\ Holds(i, a)
       /\ xcache' = [xcache EXCEPT ![i] = remove_old(i, a)]
       /\ atable' = use_atom(atable, a, -1)
  /\ A!Remove(i, n)
  /\ UNCHANGED <<lost, stray>>

(* The references of a deleted inode are not given back.                   *)
tux_delete_inode(i) ==
  /\ Lost + Len(xcache[i]) <= MaxLost
  /\ xcache' = [xcache EXCEPT ![i] = <<>>]
  /\ lost' = lost \o [k \in DOMAIN xcache[i] |-> xcache[i][k].atom]
  /\ A!Drop(i)
  /\ UNCHANGED <<atable, stray>>

(* The first read of use_atom fails, which del_xattr does not look at: the *)
(* attribute is gone, its reference not.                                   *)
del_xattr_uncounted(i, n) ==
  /\ HasAtom(atable, n) /\ Lost < MaxLost
  /\ \E a \in {find_atom(atable, n)} :
       /\ Holds(i, a)
       /\ xcache' = [xcache EXCEPT ![i] = remove_old(i, a)]
       /\ lost' = Append(lost, a)
  /\ A!Remove(i, n)
  /\ UNCHANGED <<atable, stray>>

(* A later read of use_atom fails with the low half at zero: no harm but   *)
(* that a name without references stays.                                   *)
del_xattr_unkilled(i, n) ==
  /\ HasAtom(atable, n)
  /\ \E a \in {find_atom(atable, n)} :
       /\ Holds(i, a) /\ atable.low[a] = 1
       /\ xcache' = [xcache EXCEPT ![i] = remove_old(i, a)]
       /\ atable' = use_atom_half(atable, a, -1)
  /\ A!Remove(i, n)
  /\ UNCHANGED <<lost, stray>>

(* It fails where the high half was to be borrowed from.                   *)
del_xattr_torn(i, n) ==
  /\ HasAtom(atable, n)
  /\ \E a \in {find_atom(atable, n)} :
       /\ Holds(i, a) /\ atable.low[a] = 0
       /\ xcache' = [xcache EXCEPT ![i] = remove_old(i, a)]
       /\ atable' = use_atom_half(atable, a, -1)
  /\ A!Remove(i, n)
  /\ UNCHANGED <<lost, stray>>

(* A new attribute without its reference, or without the carry.            *)
set_xattr_torn(i, n) ==
  /\ AtomLeft(n)
  /\ \E M \in {make_atom(atable, n)} :
       /\ ~Holds(i, M.atom) /\ AttrLeft(i, M.atom)
       /\ \/ atable' = M.table
          \/ /\ M.table.low[M.atom] + 1 = HalfRange
             /\ atable' = use_atom_half(M.table, M.atom, 1)
       /\ \E v \in Value :
            /\ xcache' = [xcache EXCEPT ![i] =
                 Append(@, [atom |-> M.atom % AtomRange, value |-> v])]
            /\ A!Set(i, n, v)
  /\ UNCHANGED <<lost, stray>>

(* make_atom leaves the table broken.  With the atom -1 set_xattr gives up *)
(* (-EINVAL); an atom that was made again gets the attribute, unless       *)
(* xcache_update refuses it.                                               *)
set_xattr_unmade(i, n) ==
  /\ FreeAtom(atable) \in Atom
  /\ \E M \in make_atom_torn(atable, n) :
       \/ atable' = M.table /\ UNCHANGED <<xcache, attrs>>
       \/ /\ M.atom # -1 /\ AttrLeft(i, M.atom)
          /\ atable' = use_atom(M.table, M.atom, 1)
          /\ \E v \in Value :
               /\ xcache' = [xcache EXCEPT ![i] =
                    Append(@, [atom |-> M.atom % AtomRange, value |-> v])]
               /\ A!Set(i, n, v)
  /\ UNCHANGED <<lost, stray>>

(* Operations that succeed, are refused, or fail without harm.             *)
Whole ==
  \E n \in Name :
    \/ set_xattr_eio(n)
    \/ \E i \in Inode :
         \/ set_xattr(i, n) \/ set_xattr_refused(i, n) \/ set_xattr_nomem(i, n)
         \/ del_xattr(i, n) \/ del_xattr_uncounted(i, n) \/ del_xattr_unkilled(i, n)
         \/ tux_delete_inode(i)

(* Operations that a failing read leaves half done.                        *)
Torn ==
  \E n \in Name, i \in Inode :
    set_xattr_torn(i, n) \/ set_xattr_unmade(i, n) \/ del_xattr_torn(i, n)

Next ==
  \/ ~torn /\ Whole /\ torn' = FALSE
  \/ ~torn /\ Torn /\ torn' = TRUE
  \/ torn /\ UNCHANGED vars

Spec == Init /\ [][Next]_vars

-----------------------------------------------------------------------------
(* Reading.                                                                *)
get_xattr(i, n) ==
  LET a == find_atom(atable, n) IN
  IF HasAtom(atable, n) /\ Holds(i, a) THEN xcache[i][xcache_lookup(i, a)].value
  ELSE NoValue

(* The name at the place in the reverse map, if the atom there is a.       *)
unatom(a) ==
  LET where == atable.revmap[a].where IN
  IF entry_atom(atable, where) = a THEN atable.dict[where[1]][where[2]].name ELSE NoName

xattr_list(i) == [k \in DOMAIN xcache[i] |-> unatom(xcache[i][k].atom)]

refs(a) == atable.high[a] * HalfRange + atable.low[a]

(* The free list as show_freeatoms walks it.                               *)
FreeList ==
  LET walk[k \in 1..(MaxAtom + 1)] ==
        IF k = 1 THEN atable.freeatom
        ELSE IF walk[k - 1] = 0 THEN 0 ELSE atable.revmap[walk[k - 1]].next
  IN  walk

-----------------------------------------------------------------------------
Named == {find_atom(atable, n) : n \in {m \in Name : HasAtom(atable, m)}}

(* Type invariant, of a table that is not torn.                            *)
TypeOK ==
  /\ torn \in BOOLEAN
  /\ ~torn =>
       /\ \A b \in DOMAIN atable.dict : \A o \in DOMAIN atable.dict[b] :
            /\ o \in 0..(BlockSize - 1)
            /\ atable.dict[b][o] \in [name : Name \cup {NoName}, inum : 0..MaxAtom,
                                     rec_len : 1..BlockSize]
       /\ atable.low \in [Atom -> 0..(HalfRange - 1)] /\ atable.high \in [Atom -> 0..(HalfRange - 1)]
       /\ atable.revmap \in [Atom -> [dead : BOOLEAN, next : 0..MaxAtom, where : Nat \X (0..BlockSize)]]
       /\ atable.freeatom \in 0..MaxAtom /\ atable.atomgen \in 1..(MaxAtom + 1)
       /\ xcache \in [Inode -> Seq([atom : 0..(AtomRange - 1), value : Value])]

(* No read has torn the table, and every atom fits the xcache.             *)
Sane == ~torn /\ atable.atomgen <= AtomRange

(* Every inode reads what was set, under every name, and lists just those  *)
(* names, each once: an atom that was freed and taken for another name     *)
(* never brings an old attribute back.  (As long as the table is sane:     *)
(* make_atom does not see to it that an atom fits 16 bits.)                *)
AttrsKept ==
  Sane =>
    \A i \in Inode :
      /\ \A n \in Name : get_xattr(i, n) = attrs[i][n]
      /\ IsInjective(xattr_list(i))
      /\ Range(xattr_list(i)) = {n \in Name : attrs[i][n] # NoValue}

(* The two halves of a count make the number of attributes that use the    *)
(* atom, and of those that went without giving their reference back, also  *)
(* after reads of the table that failed without tearing it.                *)
RefsMatch ==
  Sane =>
    \A a \in Atom :
      refs(a) = Cardinality({i \in Inode : Holds(i, a)}) + Cardinality({k \in DOMAIN lost : lost[k] = a})

(* The free list ends, and an atom that was ever taken is on it, in the    *)
(* dictionary or lost to an error: never two of these.                     *)
FreeListSound ==
  ~torn =>
    LET free == Range(FreeList) \ {0} IN
    /\ FreeList[MaxAtom + 1] = 0
    /\ \A a \in free : atable.revmap[a].dead /\ refs(a) = 0
    /\ free \cap Named = {} /\ free \cap stray = {} /\ Named \cap stray = {}
    /\ free \cup Named \cup stray = 1..(atable.atomgen - 1)

(* The reverse map leads back to the entry of each name, wherever entries  *)
(* were created, split and merged around it.                               *)
ReverseMap ==
  ~torn =>
    /\ WellFormed(atable.dict)
    /\ \A n \in Name : HasAtom(atable, n) =>
         atable.revmap[find_atom(atable, n)] = Mapping(tux_find_entry(atable.dict, n))
=============================================================================
