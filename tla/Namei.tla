------------------------------- MODULE Namei -------------------------------
(***************************************************************************)
(* Names and links (kernel/namei.c over kernel/dir.c): directories, the    *)
(* link counts of inodes, and a reader of a directory that keeps its place *)
(* while the directory changes.                                            *)
(*                                                                         *)
(* The VFS calls these operations with the directories locked, so that     *)
(* each is one step, and makes the checks named Vfs here.  An inode that   *)
(* has neither links nor users is deleted when its last user is done       *)
(* (tux3_delete_inode), and its number is free again.  The calls that fail *)
(* leave everything as it was.                                             *)
(***************************************************************************)
EXTENDS Dir

CONSTANTS
  Inums,        \* bound: inode numbers
  Root,         \* that of the root directory
  TUX_LINK_MAX,
  MaxBlocks,    \* bound: blocks of a directory
  MaxEntries,   \* bound: entries of all directories
  Watched,      \* bound: directories that are read
  NoReader, Lost

ASSUME NameiAssumption ==
  /\ Inums \subseteq Nat \ {0} /\ IsFiniteSet(Inums) /\ Root \in Inums
  /\ TUX_LINK_MAX \in Nat /\ TUX_LINK_MAX >= 2 /\ MaxBlocks \in Nat /\ MaxEntries \in Nat
  /\ Watched \subseteq Inums /\ Lost \notin Nat \X Nat

VARIABLES
  inodes, \* the inodes there are: whether directories, and their link counts
  dirs,   \* the blocks of the directories
  reader, \* an open directory
  names   \* history: what has been created, renamed and removed

vars == <<inodes, dirs, reader, names>>

Inode(isdir, nlink) == [isdir |-> isdir, nlink |-> nlink]

Init ==
  /\ inodes = [i \in {Root} |-> Inode(TRUE, 2)]
  /\ dirs = [i \in {Root} |-> <<>>] /\ names = [i \in {Root} |-> <<>>]
  /\ reader = NoReader

-----------------------------------------------------------------------------
(* The place of a reader is where a walk from its f_pos comes to.  When    *)
(* the entry there is removed, its header keeps its length until a new     *)
(* entry is written over it: the reader relies on it.                      *)
Precedes(at, other) == at[1] < other[1] \/ (at[1] = other[1] /\ at[2] < other[2])

After(dir, at) ==
  LET o == at[2] + dir[at[1]][at[2]].rec_len IN
  IF o = BlockSize THEN <<at[1] + 1, 0>> ELSE <<at[1], o>>

(* The new entry is written over the length in a header.                   *)
Overwrites(where, name, header) ==
  /\ where[1] = header[1]
  /\ where[2] < header[2] + 11
  /\ header[2] + 8 < where[2] + TUX_DIR_HEAD + NameLen[name]

Reading(rd, d) == rd # NoReader /\ rd.dir = d

ReaderCreates(rd, d, name, where) ==
  IF ~Reading(rd, d) THEN rd
  ELSE IF where \in rd.relied
  THEN [rd EXCEPT !.place = where, !.relied = {h \in @ : Precedes(h, where)}]
  ELSE IF \E h \in rd.relied : Overwrites(where, name, h)
  THEN [rd EXCEPT !.place = Lost, !.relied = {}]
  ELSE rd

ReaderDeletes(rd, d, name, at, dir) ==
  IF ~Reading(rd, d) THEN rd
  ELSE LET r == [rd EXCEPT !.since = @ \ {name}] IN
       IF rd.place = at /\ at[2] # 0
       THEN [r EXCEPT !.place = After(dir, at), !.relied = @ \cup {at}]
       ELSE r

-----------------------------------------------------------------------------
(* The state that an operation works on, and its parts.                    *)
Now == [inodes |-> inodes, dirs |-> dirs, reader |-> reader, names |-> names]

tux_find_dirent(s, d, name) == tux_find_entry(s.dirs[d], name)

tux_create_dirent(s, d, name, inum) ==
  LET C == tux_create_entry(s.dirs[d], name, inum) IN
  [s EXCEPT !.dirs[d] = C.dir, !.names[d] = With(@, name, inum),
            !.reader = ReaderCreates(@, d, name, C.where)]

tux_update_dirent(s, d, name, inum) ==
  LET at == tux_find_dirent(s, d, name) IN
  [s EXCEPT !.dirs[d][at[1]][at[2]].inum = inum, !.names[d][name] = inum]

tux_delete_dirent(s, d, name, at) ==
  [s EXCEPT !.dirs[d] = tux_delete_entry(@, at),
            !.names[d] = [n \in DOMAIN @ \ {name} |-> @[n]],
            !.reader = ReaderDeletes(@, d, name, at, s.dirs[d])]

AddLinks(s, inum, n) == [s EXCEPT !.inodes[inum].nlink = @ + n]

(* The end of an operation: inodes without links and users are deleted.    *)
tux3_delete_inode(nodes, rd) ==
  [i \in {i \in DOMAIN nodes : nodes[i].nlink > 0 \/ Reading(rd, i)} |-> nodes[i]]

Finish(state) ==
  \E s \in {state} :
    /\ inodes' = tux3_delete_inode(s.inodes, s.reader)
    /\ dirs'   = [d \in DOMAIN s.dirs \cap DOMAIN inodes' |-> s.dirs[d]]
    /\ names'  = [d \in DOMAIN dirs' |-> s.names[d]]
    /\ reader' = s.reader
    /\ \A d \in DOMAIN dirs' : Len(dirs'[d]) <= MaxBlocks
    /\ Cardinality(UNION {{d} \X DOMAIN names'[d] : d \in DOMAIN names'}) <= MaxEntries

-----------------------------------------------------------------------------
(* The entries that lead to an inode.                                      *)
Links(i) == {e \in (DOMAIN dirs) \X Name : e[2] \in DOMAIN names[e[1]] /\ names[e[1]][e[2]] = i}

(* Nothing is looked up in a directory that has been removed.              *)
VfsDir(d) == d \in DOMAIN dirs /\ (d = Root \/ Links(d) # {})

VfsAbsent(d, name) == VfsDir(d) /\ Matches(dirs[d], name) = {}

VfsEntry(d, name) == VfsDir(d) /\ Matches(dirs[d], name) # {}

Target(d, name) ==
  LET at == tux_find_entry(dirs[d], name) IN dirs[d][at[1]][at[2]].inum

alloc_inum == CHOOSE i \in Inums \ DOMAIN inodes : \A j \in Inums \ DOMAIN inodes : i <= j

(* A new directory is counted by the one it is in.                         *)
MutantNoCount(s, d, isdir) == s
CountSubdir(s, d, isdir) == IF isdir THEN AddLinks(s, d, 1) ELSE s

tux3_mknod(d, name, isdir) ==
  /\ VfsAbsent(d, name)
  /\ Inums \ DOMAIN inodes # {}
  /\ \E i \in {alloc_inum} :
       LET new == IF isdir THEN [Now EXCEPT !.inodes = With(@, i, Inode(TRUE, 2)),
                                            !.dirs   = With(@, i, <<>>),
                                            !.names  = With(@, i, <<>>)]
                  ELSE [Now EXCEPT !.inodes = With(@, i, Inode(FALSE, 1))]
       IN  Finish(CountSubdir(tux_create_dirent(new, d, name, i), d, isdir))

(* The target of the link is data.                                         *)
tux3_symlink(d, name) == tux3_mknod(d, name, FALSE)

tux3_mkdir(d, name) ==
  /\ VfsDir(d) /\ inodes[d].nlink < TUX_LINK_MAX
  /\ tux3_mknod(d, name, TRUE)

tux3_link(inum, d, name) ==
  /\ VfsAbsent(d, name)
  /\ ~inodes[inum].isdir /\ inodes[inum].nlink \in 1..(TUX_LINK_MAX - 1)
  /\ Finish(tux_create_dirent(AddLinks(Now, inum, 1), d, name, inum))

tux3_unlink(d, name) ==
  /\ VfsEntry(d, name) /\ ~inodes[Target(d, name)].isdir
  /\ Finish(AddLinks(tux_delete_dirent(Now, d, name, tux_find_dirent(Now, d, name)),
                     Target(d, name), -1))

tux_dir_is_empty(d) ==
  \A b \in DOMAIN dirs[d] : \A o \in DOMAIN dirs[d][b] : is_deleted(dirs[d][b][o])

tux3_rmdir(d, name) ==
  /\ VfsEntry(d, name) /\ inodes[Target(d, name)].isdir
  /\ tux_dir_is_empty(Target(d, name))
  /\ \E i \in {Target(d, name)} :
       LET s == tux_delete_dirent(Now, d, name, tux_find_dirent(Now, d, name)) IN
       Finish(AddLinks([s EXCEPT !.dirs[i] = <<>>, !.inodes[i].nlink = 0], d, -1))

-----------------------------------------------------------------------------
(* A directory does not go below itself.                                   *)
VfsNotBelow(i, d) ==
  LET Above[n \in 0..Cardinality(Inums)] ==
        IF n = 0 THEN {d}
        ELSE {e \in DOMAIN dirs : \E name \in DOMAIN names[e] : names[e][name] \in Above[n - 1]}
  IN  inodes[i].isdir => \A n \in DOMAIN Above : i \notin Above[n]

(* The old entry is found first, and deleted at its place after the new    *)
(* one has been added, which may be in the same block.                     *)
MutantFromStart(s, od, on, at) == tux_delete_dirent([s EXCEPT !.dirs[od] = dirs[od]], od, on, at)
DeleteOld(s, od, on, at) == tux_delete_dirent(s, od, on, at)

(* Onto an existing entry: it is made to lead to the old inode.            *)
rename_over(od, on, nd, nn) ==
  /\ VfsEntry(od, on) /\ VfsEntry(nd, nn)
  /\ \E old \in {Target(od, on)}, new \in {Target(nd, nn)}, at \in {tux_find_dirent(Now, od, on)} :
       /\ old # new /\ inodes[old].isdir = inodes[new].isdir
       /\ VfsNotBelow(old, nd) /\ VfsNotBelow(new, od)
       /\ inodes[old].isdir => tux_dir_is_empty(new)
       /\ LET s == AddLinks(tux_update_dirent(Now, nd, nn, old), new,
                            IF inodes[old].isdir THEN -2 ELSE -1)
          IN  Finish(DeleteOld(s, od, on, at))

rename_to_new(od, on, nd, nn) ==
  /\ VfsEntry(od, on) /\ VfsAbsent(nd, nn)
  /\ \E old \in {Target(od, on)}, at \in {tux_find_dirent(Now, od, on)} :
       LET new_subdir == inodes[old].isdir /\ od # nd
           t == DeleteOld(tux_create_dirent(Now, nd, nn, old), od, on, at)
       IN  /\ new_subdir => inodes[nd].nlink < TUX_LINK_MAX
           /\ VfsNotBelow(old, nd)
           /\ Finish(IF new_subdir THEN AddLinks(AddLinks(t, nd, 1), od, -1) ELSE t)

tux3_rename(od, on, nd, nn) == rename_over(od, on, nd, nn) \/ rename_to_new(od, on, nd, nn)

-----------------------------------------------------------------------------
(* Reading a directory.                                                    *)
opendir(d) ==
  /\ VfsDir(d) /\ d \in Watched /\ reader = NoReader
  /\ reader' = [dir |-> d, place |-> <<1, 0>>, relied |-> {}, given |-> {},
                since |-> DOMAIN names[d]]
  /\ UNCHANGED <<inodes, dirs, names>>

(* The entries from a place on.                                            *)
Behind(dir, place) ==
  {at \in UNION {{b} \X DOMAIN dir[b] : b \in DOMAIN dir} :
     ~Precedes(at, place) /\ ~is_deleted(dir[at[1]][at[2]])}

(* The next entry is given out; the one after it is not taken, and the     *)
(* place stays there.                                                      *)
MutantPastNext(dir, from) ==
  IF Behind(dir, from) = {} THEN <<Len(dir) + 1, 0>> ELSE After(dir, Foremost(Behind(dir, from)))
NextPlace(dir, from) ==
  IF Behind(dir, from) = {} THEN <<Len(dir) + 1, 0>> ELSE Foremost(Behind(dir, from))

tux_readdir ==
  /\ reader # NoReader /\ reader.place # Lost
  /\ LET dir == dirs[reader.dir]
         at  == Foremost(Behind(dir, reader.place))
     IN  /\ Behind(dir, reader.place) # {}
         /\ reader' = [reader EXCEPT !.given = @ \cup {dir[at[1]][at[2]].name},
                                     !.place = NextPlace(dir, After(dir, at)),
                                     !.relied = {}]
  /\ UNCHANGED <<inodes, dirs, names>>

(* With nothing left the place moves to the end, over what is deleted.     *)
tux_readdir_end ==
  /\ reader # NoReader /\ reader.place # Lost
  /\ Behind(dirs[reader.dir], reader.place) = {}
  /\ reader' = [reader EXCEPT !.place = NextPlace(dirs[reader.dir], reader.place), !.relied = {}]
  /\ UNCHANGED <<inodes, dirs, names>>

closedir == reader # NoReader /\ Finish([Now EXCEPT !.reader = NoReader])

Next ==
  \/ \E d \in DOMAIN dirs, name \in Name :
       \/ tux3_mknod(d, name, FALSE)
       \/ tux3_symlink(d, name)
       \/ tux3_mkdir(d, name)
       \/ \E i \in DOMAIN inodes : tux3_link(i, d, name)
       \/ tux3_unlink(d, name)
       \/ tux3_rmdir(d, name)
       \/ \E nd \in DOMAIN dirs, nn \in Name : tux3_rename(d, name, nd, nn)
  \/ \E d \in DOMAIN dirs : opendir(d)
  \/ tux_readdir \/ tux_readdir_end
  \/ closedir

Spec == Init /\ [][Next]_vars

-----------------------------------------------------------------------------
(* The root and every directory that is read exist, and the records of     *)
(* each directory fill its blocks without gaps or overlaps.                *)
TypeOK ==
  /\ DOMAIN inodes \subseteq Inums /\ Root \in DOMAIN inodes
  /\ reader # NoReader => reader.dir \in DOMAIN dirs
  /\ DOMAIN dirs = {i \in DOMAIN inodes : inodes[i].isdir} /\ DOMAIN names = DOMAIN dirs
  /\ \A d \in DOMAIN dirs : WellFormed(dirs[d])

(* A directory has exactly the entries that were created in it or renamed  *)
(* to and not removed or renamed since, each leading to its inode, whatever*)
(* records have been split and merged, and also after a rename whose two   *)
(* entries share a block.                                                  *)
NamesKept ==
  \A d \in DOMAIN dirs :
    {<<dirs[d][at[1]][at[2]].name, dirs[d][at[1]][at[2]].inum>> : at \in Behind(dirs[d], <<1, 0>>)}
      = {<<name, names[d][name]>> : name \in DOMAIN names[d]}

Subdirs(d) == {name \in DOMAIN names[d] : inodes[names[d][name]].isdir}

(* Every entry leads to an inode that exists.  The count of a file is the  *)
(* number of its entries.  A directory has one entry or has been removed   *)
(* empty, and its count covers its entry, itself and its subdirectories:   *)
(* it is never too low, though a directory renamed onto another one leaves *)
(* the count of the directory it was in too high.                          *)
LinksMatch ==
  /\ \A d \in DOMAIN dirs : \A name \in DOMAIN names[d] : names[d][name] \in DOMAIN inodes
  /\ \A i \in DOMAIN inodes \ {Root} :
       IF ~inodes[i].isdir THEN inodes[i].nlink = Cardinality(Links(i))
       ELSE IF Links(i) = {} THEN names[i] = <<>>
       ELSE Cardinality(Links(i)) = 1 /\ inodes[i].nlink >= 2 + Cardinality(Subdirs(i))
  /\ inodes[Root].nlink >= 2 + Cardinality(Subdirs(Root))

(* A reader that has not lost its place has been given those of the        *)
(* entries that stayed in the directory since it was opened that are       *)
(* before its place, and will be given each of the others, once, although  *)
(* entries are created, removed and renamed around it.                     *)
ReaddirOnce ==
  reader # NoReader /\ reader.place # Lost =>
    \A name \in reader.since :
      name \in reader.given <=> Precedes(tux_find_entry(dirs[reader.dir], name), reader.place)
=============================================================================
