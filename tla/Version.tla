------------------------------ MODULE Version ------------------------------
(***************************************************************************)
(* Versioned pointers (user/version.c): the snapshots of one block.        *)
(*                                                                         *)
(* Versions form a tree, in which a version inherits the data of its       *)
(* nearest ancestor that has an element, or of the origin.  A snapshot     *)
(* that is deleted, or written while others inherit from it, leaves a      *)
(* ghost behind as long as it has two children or more; the element of a   *)
(* ghost is kept as long as some snapshot inherits it.                     *)
(*                                                                         *)
(* The program is sequential: an action is one external operation and, as  *)
(* in fuzz_test, a read of every snapshot after it.  What the snapshots    *)
(* have to hold is kept beside them in checkdata, which changes as         *)
(* Versions says.  The chunk that an element owns is represented by the    *)
(* data in it.                                                             *)
(***************************************************************************)
EXTENDS Integers, FiniteSets, SequencesExt

CONSTANTS
  Tag,          \* the tags of snapshots
  Data,         \* what a block may hold
  MaxVersions,  \* MAXVERSIONS, the size of the version table
  NoTag         \* tag 0, of version 0 and of deleted snapshots

ASSUME VersionAssumption == MaxVersions \in Nat \ {0} /\ NoTag \notin Tag

VARIABLES
  tree,      \* the version table with its caches, see Trees
  elements,  \* the element list
  orgdata,
  checkdata  \* what fuzz_test expects to read, by tag

vars == <<tree, elements, orgdata, checkdata>>

V == INSTANCE Versions WITH snap <- checkdata, origin <- orgdata

Label == 0..(MaxVersions - 1)

(* used: the versions of the table that are taken; parent and kids: the    *)
(* tree in both directions (kids is the child index); ghost and tag;       *)
(* present: the flags of set_present, all clear between operations; path:  *)
(* the cached bitmaps, empty when they are not loaded; ord: the depths     *)
(* that order_tree has stored.  (The nearmap cache is left out: whatever   *)
(* changes the children of a version drops it in the same statement group.)*)
Trees ==
  [used : SUBSET Label, parent : [Label -> Label], kids : [Label -> SUBSET Label],
   ghost : SUBSET Label, tag : [Label -> Tag \cup {NoTag}], present : SUBSET Label,
   path : [Label -> SUBSET Label], ord : [Label -> 0..MaxVersions]]

Elements == [label : Label \ {0}, data : Data]

Init ==
  /\ tree = [used |-> {0}, parent |-> [v \in Label |-> 0], kids |-> [v \in Label |-> {}],
             ghost |-> {}, tag |-> [v \in Label |-> NoTag], present |-> {},
             path |-> [v \in Label |-> {}],
             ord |-> [v \in Label |-> 0]]
  /\ elements = <<>>
  /\ V!Init

-----------------------------------------------------------------------------
(* The tree.                                                               *)
Only(S) == CHOOSE v \in S : TRUE

get_root(T) == Only(T.kids[0])

(* The versions below and including v by depth, from 1.                    *)
Generations(T, v) ==
  LET gen[i \in 1..MaxVersions] ==
        IF i = 1 THEN {v} ELSE UNION {T.kids[u] : u \in gen[i - 1]}
  IN  gen

Subtree(T, v) == UNION {Generations(T, v)[i] : i \in 1..MaxVersions}

order_tree(T) ==
  LET gen == Generations(T, get_root(T))
  IN  [T EXCEPT !.ord = [v \in Label |->
         IF \E i \in DOMAIN gen : v \in gen[i] THEN CHOOSE i \in DOMAIN gen : v \in gen[i] ELSE 0]]

MutantTopOnly(T, v) == [T EXCEPT !.path[v] = {}]
invalidate_path(T, v) ==
  [T EXCEPT !.path = [u \in Label |-> IF u \in Subtree(T, v) THEN {} ELSE @[u]]]

(* The lowest version of the table that is not taken.                      *)
FreeLabel(T) == CHOOSE v \in 1..MaxVersions : v \notin T.used /\ 1..(v - 1) \subseteq T.used

new_version(T, v, parent, tag) ==
  [T EXCEPT !.used = @ \cup {v}, !.parent[v] = parent, !.tag[v] = tag, !.ghost = @ \ {v},
            !.path[v] = {}]

(* A freed version is a ghost, so find_tag passes it over.  What else its  *)
(* entry holds is overwritten when it is taken again.                      *)
free_version(T, v) ==
  [T EXCEPT !.used = @ \ {v}, !.parent[v] = 0, !.tag[v] = NoTag, !.path[v] = {},
            !.ord[v] = 0]

insert_child(T, parent, child) ==
  order_tree([T EXCEPT !.kids[parent] = @ \cup {child}, !.parent[child] = parent])

remove_child(T, child) ==
  [T EXCEPT !.kids[T.parent[child]] = @ \ {child}]

replace_child(T, old, new) ==
  LET p == T.parent[old] IN
  free_version([T EXCEPT !.kids[p] = (@ \ {old}) \cup {new}, !.parent[new] = p], old)

promote_child(T, child) ==
  order_tree(invalidate_path(replace_child(remove_child(T, child), T.parent[child], child), child))

-----------------------------------------------------------------------------
(* Elements and inheritance.                                               *)
Labels(es) == {es[i].label : i \in DOMAIN es}

set_present(T, es, flag) ==
  [T EXCEPT !.present = IF flag THEN @ \cup Labels(es) ELSE @ \ Labels(es)]

(* The ancestors of v up to the root.                                      *)
Path(T, v) ==
  LET up[i \in 0..MaxVersions] == IF i = 0 THEN v ELSE T.parent[up[i - 1]]
  IN  {up[i] : i \in 0..MaxVersions} \ {0}

need_path(T, v) == IF T.path[v] = {} THEN Path(T, v) ELSE T.path[v]

(* The element that v inherits, as its position: the deepest on the path.  *)
lookup_element(T, es, v) ==
  LET on == {i \in DOMAIN es : es[i].label \in need_path(T, v) /\ T.ord[es[i].label] > 0}
  IN  IF on = {} THEN 0
      ELSE CHOOSE i \in on : \A j \in on : T.ord[es[i].label] >= T.ord[es[j].label]

find_element(es, v) == CHOOSE i \in DOMAIN es : es[i].label = v

(* The visible versions below v that inherit from v: nothing is present    *)
(* on the way.                                                             *)
Heirs(T, v) ==
  LET open(S) == S \ T.present
      gen[i \in 1..MaxVersions] ==
        IF i = 1 THEN open(T.kids[v]) ELSE UNION {open(T.kids[u]) : u \in gen[i - 1]}
  IN  UNION {gen[i] : i \in 1..MaxVersions} \ T.ghost

(* All children of v, and v, have an element: nobody else sees v's.        *)
MutantOwnOnly(T, es, v) == v \in Labels(es)
count_near_is_full(T, es, v) ==
  Cardinality({i \in DOMAIN es : es[i].label \in T.kids[v] \cup {v}}) = Cardinality(T.kids[v]) + 1

find_tag(T, t) == CHOOSE v \in Label \ {0} : v \notin T.ghost /\ T.tag[v] = t

(* The element list is searched along the path of the version, which is    *)
(* loaded once and kept.                                                   *)
Visible(T) == {v \in T.used \ {0} : v \notin T.ghost}
Snapshots == {tree.tag[v] : v \in Visible(tree)}

snapshot_reads(T) ==
  [T EXCEPT !.path = [v \in Label |-> IF v \in Visible(T) THEN need_path(T, v) ELSE @[v]]]

snapshot_read(t) ==
  LET i == lookup_element(tree, elements, find_tag(tree, t))
  IN  IF i = 0 THEN orgdata ELSE elements[i].data

(* The nearest version from v up that is present or one of stops.          *)
NearestUp(T, v, stops) ==
  LET up[i \in 0..MaxVersions] == IF i = 0 THEN v ELSE T.parent[up[i - 1]]
      at == CHOOSE i \in 0..MaxVersions :
              /\ up[i] \in T.present \cup stops
              /\ \A j \in 0..(i - 1) : up[j] \notin T.present \cup stops
  IN  up[at]

-----------------------------------------------------------------------------
(* delete_elements, with T's kids already without the target if it has no  *)
(* child.  An orphan that the target was the last heir of is freed; so are *)
(* the elements of the target and of its ghost parent if all children have *)
(* one or nobody inherits; with a single child left they pass to it.       *)
MutantNoKill(T, es, target, parent) == 0
Orphan(T, es, target, parent) ==
  LET a == NearestUp(T, parent, {0}) IN
  IF /\ target \notin T.present
     /\ a # 0 /\ a \in T.ghost /\ a \in T.present /\ Heirs(T, a) = {}
  THEN a ELSE 0

brood(T, es, v) == Cardinality({i \in DOMAIN es : T.parent[es[i].label] = v})

SoleChild(T, v) == Only(T.kids[v])

delete_elements(T0, es, target, parent) ==
  LET T == set_present(T0, es, TRUE)
      kill == Orphan(T, es, target, parent)
      nexus == IF parent \in T.ghost THEN {target, parent} ELSE {target}
      Flag(present) == [T EXCEPT !.present = present]
      Frees(present, v) ==
        \/ v = kill
        \/ v \in nexus /\ \/ Cardinality(T.kids[v]) = brood(T, es, v)
                          \/ Cardinality(T.kids[v]) >= 1 /\ Heirs(Flag(present), v) = {}
      Relabels(v) == v # kill /\ v \in nexus /\ Cardinality(T.kids[v]) = 1
      Step(acc, e) ==
        IF Frees(acc.present, e.label)
        THEN [present |-> acc.present \ {e.label}, kept |-> acc.kept]
        ELSE IF Relabels(e.label)
        THEN LET child == SoleChild(T, e.label) IN
             [present |-> (acc.present \ {e.label}) \cup {child},
              kept |-> Append(acc.kept, [e EXCEPT !.label = child])]
        ELSE [acc EXCEPT !.kept = Append(@, e)]
      end == FoldLeft(Step, [present |-> T.present, kept |-> <<>>], es)
  IN  [tree |-> set_present(Flag(end.present), end.kept, FALSE), elements |-> end.kept]

MutantNoPromote(T, parent) == FALSE
LoneGhost(T, parent) == parent \in T.ghost /\ Cardinality(T.kids[parent]) = 1

snapshot_delete(t) ==
  LET target == find_tag(tree, t)
      parent == tree.parent[target]
      T0 == [tree EXCEPT !.tag[target] = NoTag, !.ghost = @ \cup {target}]
  IN
  /\ t \in Snapshots
  /\ IF T0.kids[target] = {}
     THEN LET T1 == [remove_child(T0, target) EXCEPT !.parent[target] = 0]
              D  == delete_elements(T1, elements, target, parent)
              T2 == IF LoneGhost(D.tree, parent)
                    THEN promote_child(D.tree, Only(D.tree.kids[parent])) ELSE D.tree
          IN  tree' = snapshot_reads(free_version(T2, target)) /\ elements' = D.elements
     ELSE LET D == delete_elements(T0, elements, target, parent)
          IN  /\ elements' = D.elements
              /\ tree' = snapshot_reads(IF Cardinality(T0.kids[target]) = 1
                           THEN promote_child(D.tree, Only(T0.kids[target])) ELSE D.tree)
  /\ V!Delete(t)

(* The callers take at most MaxVersions / 2 snapshots: with the ghosts,    *)
(* which have two children or more, they fit in the table.                 *)
Room(t) == t \in Tag \ Snapshots /\ Cardinality(Snapshots) < MaxVersions \div 2

snapshot_of_snapshot(t, p) ==
  LET parent == find_tag(tree, p)
      child  == FreeLabel(tree)
  IN
  /\ Room(t) /\ p \in Snapshots
  /\ tree' = snapshot_reads(insert_child(new_version(tree, child, parent, t), parent, child))
  /\ UNCHANGED elements
  /\ V!OfSnapshot(t, p)

snapshot_of_origin(t) ==
  LET root == FreeLabel(tree)
      T    == new_version(tree, root, 0, t)
  IN
  /\ Room(t)
  /\ tree' = snapshot_reads(
       IF tree.kids[0] = {} THEN insert_child(T, 0, root)
       ELSE order_tree(invalidate_path(
              [insert_child(T, root, get_root(tree)) EXCEPT !.kids[0] = {root}], root)))
  /\ UNCHANGED elements
  /\ V!OfOrigin(t)

(* snapshot_write: overwrite an element that nobody else sees; otherwise   *)
(* split off a version for the data if the target has children, and give   *)
(* it the element of a ghost above if it was its last heir, or a new one.  *)
LastHeir(T, ancestor) == ancestor \in T.ghost /\ Cardinality(Heirs(T, ancestor)) = 1

snapshot_write(t, d) ==
  LET old  == find_tag(tree, t)
      leaf == tree.kids[old] = {}
      target == IF leaf THEN old ELSE FreeLabel(tree)
      T1   == IF leaf THEN tree
              ELSE [insert_child(new_version(tree, target, old, t), old, target)
                      EXCEPT !.ghost = @ \cup {old}]
      T2   == set_present(T1, elements, TRUE)
      ancestor == NearestUp(T2, T2.parent[target], Label \ T2.ghost)
      new  == [label |-> target, data |-> d]
  IN
  /\ t \in Snapshots
  /\ IF count_near_is_full(tree, elements, old)
     THEN /\ UNCHANGED tree
          /\ elements' = [elements EXCEPT ![find_element(elements, old)].data = d]
     ELSE /\ tree' = snapshot_reads(set_present(T2, elements, FALSE))
          /\ elements' = IF LastHeir(T2, ancestor)
                         THEN [elements EXCEPT ![find_element(elements, ancestor)] = new]
                         ELSE Append(elements, new)
  /\ V!Write(t, d)

MutantOrigin(T) == 0
OriginHeir(T) == get_root(T)

origin_write(d) ==
  /\ elements' = IF Heirs(set_present(tree, elements, TRUE), 0) # {}
                 THEN Append(elements, [label |-> OriginHeir(tree), data |-> orgdata])
                 ELSE elements
  /\ UNCHANGED tree
  /\ V!OriginWrite(d)

Next ==
  \/ \E t \in Tag :
       \/ snapshot_of_origin(t) \/ snapshot_delete(t)
       \/ \E p \in Tag : snapshot_of_snapshot(t, p)
       \/ \E d \in Data : snapshot_write(t, d)
  \/ \E d \in Data : origin_write(d)

Spec == Init /\ [][Next]_vars

-----------------------------------------------------------------------------
(* Type invariant; it says too that the version table never overflows,     *)
(* though writes split off versions of their own.                          *)
TypeOK == tree \in Trees /\ elements \in Seq(Elements) /\ orgdata \in Data

(* Each snapshot keeps its value whatever happens to the others:           *)
(* relabelled elements, promoted children, freed orphans and stale cached  *)
(* paths never show.                                                       *)
SnapshotsKept ==
  Snapshots = DOMAIN checkdata /\ \A t \in Snapshots : snapshot_read(t) = checkdata[t]

(* What the fuzz test validates of the tree after every operation: the     *)
(* origin has one child at most, a ghost has two or more, and the tree     *)
(* holds exactly the versions of the table, as parents and as children.    *)
TreeValid ==
  /\ 0 \notin tree.ghost /\ Cardinality(tree.kids[0]) <= 1
  /\ \A v \in tree.used \cap tree.ghost : Cardinality(tree.kids[v]) >= 2
  /\ Subtree(tree, 0) = tree.used
  /\ \A v \in tree.used : tree.kids[v] = {c \in tree.used \ {0} : tree.parent[c] = v}
  /\ tree.present = {}

(* What it validates of the elements: one per version at most, of versions *)
(* that exist, and the element of a ghost has an heir, so that no chunk is *)
(* kept for nobody.                                                        *)
NoOrphans ==
  /\ IsInjective([i \in DOMAIN elements |-> elements[i].label])
  /\ Labels(elements) \subseteq tree.used
  /\ \A v \in Labels(elements) \cap tree.ghost : Heirs(set_present(tree, elements, TRUE), v) # {}

(* Cached paths are dropped by every operation that changes them, and the  *)
(* stored depths are those of the tree.                                    *)
CachesFresh ==
  \A v \in tree.used \ {0} :
    /\ tree.path[v] \in {{}, Path(tree, v)}
    /\ tree.ord[v] = Cardinality(Path(tree, v))
=============================================================================
