--------------------------- MODULE RecoveryProofs ---------------------------
(***************************************************************************)
(* Proofs about Commit, and about what the machine finds on the device     *)
(* when it has stopped in some state of it: the chain of log blocks and    *)
(* the images of the bitmap, for any number of tasks, any volume, any      *)
(* period of commits and rollups, and any capacity of a log block.         *)
(***************************************************************************)
EXTENDS Recovery, Numbers, SequenceTheorems, FiniteSetTheorems

-----------------------------------------------------------------------------
(***************************************************************************)
(* The states Commit reaches: types and the order of the log numbers, the  *)
(* one holder of every allocated block, and what a return promises.        *)
(***************************************************************************)
(* An entry of a log block.                                                *)
Rec == [op : Ops, block : Block]

-----------------------------------------------------------------------------
(* The pending log blocks after one more entry: still sequences of         *)
(* entries, and never fewer than before.                                   *)
LEMMA LogEntryType ==
  ASSUME NEW blocks \in Seq(Entries), NEW isopen \in BOOLEAN, NEW e \in Rec,
         isopen => Len(blocks) > 0
  PROVE  /\ log_entry(blocks, isopen, e) \in Seq(Entries)
         /\ Len(log_entry(blocks, isopen, e)) >= Len(blocks)
         /\ Len(log_entry(blocks, isopen, e)) > 0
<1>0. Entries = Seq(Rec)
  BY DEF Entries, Rec
<1>1. Len(blocks) \in Nat
  BY LenProperties
<1>2. CASE isopen /\ Len(blocks[Len(blocks)]) < LogCap
  <2>1. Len(blocks) \in 1..Len(blocks)
    BY <1>1, <1>2
  <2>2. blocks[Len(blocks)] \in Entries
    BY <2>1, ElementOfSeq
  <2>3. Append(blocks[Len(blocks)], e) \in Entries
    BY <1>0, <2>2, AppendProperties
  <2> DEFINE new == [blocks EXCEPT ![Len(blocks)] = Append(blocks[Len(blocks)], e)]
  <2>4. new \in Seq(Entries) /\ Len(new) = Len(blocks)
    BY <2>1, <2>3, ExceptSeq
  <2>5. log_entry(blocks, isopen, e) = new
    BY <1>2 DEF log_entry
  <2>6. Len(blocks) > 0
    BY <1>2
  <2> HIDE DEF new
  <2> QED
    BY <1>1, <2>4, <2>5, <2>6
<1>3. CASE ~(isopen /\ Len(blocks[Len(blocks)]) < LogCap)
  <2>1. <<e>> \in Entries
    BY <1>0
  <2>2. Append(blocks, <<e>>) \in Seq(Entries) /\ Len(Append(blocks, <<e>>)) = Len(blocks) + 1
    BY <2>1, AppendProperties
  <2> QED
    BY <1>1, <1>3, <2>2 DEF log_entry
<1> QED
  BY <1>2, <1>3

(* Logging a sequence es of n entries, entry by entry: g gives the blocks  *)
(* after each.                                                             *)
LogSteps(g, blocks, isopen, es, n) ==
  /\ g[0] = blocks
  /\ \A i \in 0..n : /\ g[i] \in Seq(Entries) /\ Len(g[i]) >= Len(blocks)
                     /\ isopen \/ i > 0 => Len(g[i]) > 0
  /\ \A i \in 1..n : g[i] = log_entry(g[i - 1], isopen \/ i > 1, es[i])
  /\ log_entries(blocks, isopen, es) = g[n]

(* The recursion of log_entries has a solution, by induction on the number *)
(* of entries.                                                             *)
LEMMA LogEntriesUnfold ==
  ASSUME NEW blocks \in Seq(Entries), NEW isopen \in BOOLEAN, NEW es \in Entries,
         isopen => Len(blocks) > 0
  PROVE  \E g : LogSteps(g, blocks, isopen, es, Len(es))
<1> DEFINE n == Len(es)
           Step(f, i) == log_entry(f[i - 1], isopen \/ i > 1, es[i])
           After == CHOOSE f : f = [i \in 0..n |-> IF i = 0 THEN blocks ELSE Step(f, i)]
<1>0. Entries = Seq(Rec) /\ n \in Nat /\ Len(blocks) \in Nat
  BY LenProperties DEF Entries, Rec
<1>1. \A i \in 1..n : es[i] \in Rec
  BY <1>0, ElementOfSeq
<1>a. log_entries(blocks, isopen, es) = After[n]
  BY Zenon DEF log_entries
<1> HIDE DEF n
<1> DEFINE Good == {x \in Seq(Entries) : Len(x) >= Len(blocks)}
           F == [z \in (1..n) \X Good |->
                   IF Len(z[2]) > 0 \/ ~(isopen \/ z[1] > 1)
                   THEN log_entry(z[2], isopen \/ z[1] > 1, es[z[1]]) ELSE z[2]]
<1>2. ASSUME NEW i \in 1..n, NEW x \in Good, Len(x) > 0 \/ ~(isopen \/ i > 1)
      PROVE  /\ log_entry(x, isopen \/ i > 1, es[i]) \in Good
             /\ Len(log_entry(x, isopen \/ i > 1, es[i])) > 0
  <2>1. (isopen \/ i > 1) \in BOOLEAN /\ x \in Seq(Entries) /\ Len(x) \in Nat
    BY LenProperties
  <2>2. /\ log_entry(x, isopen \/ i > 1, es[i]) \in Seq(Entries)
        /\ Len(log_entry(x, isopen \/ i > 1, es[i])) >= Len(x)
        /\ Len(log_entry(x, isopen \/ i > 1, es[i])) > 0
    BY <1>1, <1>2, <2>1, LogEntryType
  <2>3. Len(log_entry(x, isopen \/ i > 1, es[i])) \in Nat
    BY <2>2, LenProperties
  <2> QED
    BY <1>0, <2>1, <2>2, <2>3
<1>3. F \in [(1..n) \X Good -> Good]
  <2>1. ASSUME NEW z \in (1..n) \X Good
        PROVE  (IF Len(z[2]) > 0 \/ ~(isopen \/ z[1] > 1)
                THEN log_entry(z[2], isopen \/ z[1] > 1, es[z[1]]) ELSE z[2]) \in Good
    <3>1. z[1] \in 1..n /\ z[2] \in Good
      OBVIOUS
    <3> HIDE DEF Good
    <3> QED
      BY <1>2, <3>1
  <2> HIDE DEF Good
  <2> QED
    BY <2>1
<1>4. blocks \in Good /\ (isopen => Len(blocks) > 0)
  BY <1>0
<1>5. PICK g \in [0..n -> Good] : g[0] = blocks /\ \A i \in 1..n : g[i] = F[<<i, g[i - 1]>>]
  <2>1. n \in Nat /\ blocks \in Good
    BY <1>0, <1>4
  <2> HIDE DEF Good, F
  <2>2. \E g \in [0..n -> Good] : Follows(g, n, blocks, F)
    BY <1>3, <2>1, RecursionExists
  <2> QED
    BY <2>2, Zenon DEF Follows
<1>6. ASSUME NEW i \in 1..n, Len(g[i - 1]) > 0 \/ ~(isopen \/ i > 1)
      PROVE  g[i] = Step(g, i) /\ Len(g[i]) > 0
  <2>1. i - 1 \in 0..n /\ g[i - 1] \in Good
    <3> HIDE DEF Good
    <3> QED
      BY <1>0
  <2>2. <<i, g[i - 1]>> \in (1..n) \X Good
    BY <2>1
  <2>3. F[<<i, g[i - 1]>>] = Step(g, i)
    <3> HIDE DEF Good
    <3> QED
      BY <1>6, <2>2
  <2>4. Len(Step(g, i)) > 0
    <3> HIDE DEF Good
    <3> QED
      BY <1>2, <1>6, <2>1
  <2> QED
    BY <1>5, <2>3, <2>4
<1>7. 0..n \subseteq {i \in Nat : (isopen \/ i > 0) => Len(g[i]) > 0}
  <2> DEFINE S == {i \in Nat : (isopen \/ i > 0) => Len(g[i]) > 0}
  <2>1. 0 \in S
    BY <1>4, <1>5
  <2>2. ASSUME NEW i \in 0..(n - 1), i \in S
        PROVE  i + 1 \in S
    <3>1. i + 1 \in 1..n /\ (i + 1) - 1 = i
      BY <1>0
    <3>2. Len(g[i]) > 0 \/ ~(isopen \/ i + 1 > 1)
      BY <2>2
    <3>3. Len(g[i + 1]) > 0
      <4> HIDE DEF Good, F, Step
      <4> QED
        BY <1>6, <3>1, <3>2
    <3> QED
      BY <3>1, <3>3
  <2> HIDE DEF S
  <2>3. 0..n \subseteq S
    BY <1>0, <2>1, <2>2, BoundedInduction
  <2> QED
    BY <2>3 DEF S
<1>8. \A i \in 1..n : g[i] = Step(g, i)
  <2> SUFFICES ASSUME NEW i \in 1..n PROVE g[i] = Step(g, i)
    OBVIOUS
  <2>1. i - 1 \in 0..n /\ i - 1 \in Nat /\ (i - 1 > 0 <=> i > 1)
    BY <1>0
  <2>2. (isopen \/ i > 1) => Len(g[i - 1]) > 0
    BY <1>7, <2>1
  <2> HIDE DEF Good, F, Step
  <2> QED
    BY <1>6, <2>2
<1>9. g = [i \in 0..n |-> IF i = 0 THEN blocks ELSE Step(g, i)]
  <2>1. \A i \in 0..n : i = 0 \/ i \in 1..n
    OBVIOUS
  <2>2. \A i \in 0..n : g[i] = IF i = 0 THEN blocks ELSE Step(g, i)
    BY <1>5, <1>8, <2>1
  <2> HIDE DEF Good, F, Step
  <2> QED
    BY <2>2
<1>10. After = [i \in 0..n |-> IF i = 0 THEN blocks ELSE Step(After, i)]
  <2> HIDE DEF Step
  <2> QED
    BY <1>9
<1>11. 0..n \subseteq {i \in Nat : After[i] = g[i]}
  <2> DEFINE S == {i \in Nat : After[i] = g[i]}
  <2> HIDE DEF After
  <2>1. 0 \in 0..n /\ \A i \in 0..(n - 1) : i + 1 \in 1..n /\ i + 1 \in 0..n /\ i + 1 # 0 /\ (i + 1) - 1 = i
    BY <1>0
  <2>2. After[0] = blocks
    <3> HIDE DEF Step
    <3> QED
      BY <1>10, <2>1
  <2>3. ASSUME NEW i \in 0..(n - 1), i \in S
        PROVE  i + 1 \in S
    <3>1. After[i + 1] = Step(After, i + 1)
      <4> HIDE DEF Step
      <4> QED
        BY <1>10, <2>1
    <3>2. g[i + 1] = Step(g, i + 1)
      <4> HIDE DEF Step
      <4> QED
        BY <1>8, <2>1
    <3>3. After[(i + 1) - 1] = g[(i + 1) - 1]
      BY <2>1, <2>3
    <3> QED
      BY <3>1, <3>2, <3>3
  <2>4. 0 \in S
    BY <1>5, <2>2
  <2> HIDE DEF S
  <2>5. 0..n \subseteq S
    BY <1>0, <2>3, <2>4, BoundedInduction
  <2> QED
    BY <2>5 DEF S
<1>13. log_entries(blocks, isopen, es) = g[n]
  <2> HIDE DEF Good, After
  <2>1. n \in 0..n
    BY <1>0
  <2> QED
    BY <1>a, <1>11, <2>1, Zenon
<1>14. \A i \in 0..n : g[i] \in Good /\ ((isopen \/ i > 0) => Len(g[i]) > 0)
  <2> HIDE DEF Good
  <2> QED
    BY <1>7
<1>15. \A i \in 0..n : g[i] \in Seq(Entries) /\ Len(g[i]) >= Len(blocks)
  BY <1>14
<1> HIDE DEF After, Good, F
<1>16. LogSteps(g, blocks, isopen, es, n)
  BY <1>5, <1>8, <1>13, <1>14, <1>15, Zenon DEF LogSteps
<1> QED
  BY <1>16 DEF n

(* The pending log blocks after a sequence of entries.                     *)
LEMMA LogEntriesType ==
  ASSUME NEW blocks \in Seq(Entries), NEW isopen \in BOOLEAN, NEW es \in Entries,
         isopen => Len(blocks) > 0
  PROVE  /\ log_entries(blocks, isopen, es) \in Seq(Entries)
         /\ Len(log_entries(blocks, isopen, es)) >= Len(blocks)
         /\ isopen \/ es # <<>> => Len(log_entries(blocks, isopen, es)) > 0
<1> DEFINE n == Len(es)
<1>1. PICK g : LogSteps(g, blocks, isopen, es, n)
  BY LogEntriesUnfold
<1>2. n \in Nat /\ (es # <<>> => n > 0)
  <2>1. es \in Seq(Rec)
    BY DEF Entries, Rec
  <2> QED
    BY <2>1, EmptySeq, LenProperties
<1> HIDE DEF n
<1>3. n \in 0..n
  BY <1>2
<1>4. /\ g[n] \in Seq(Entries) /\ Len(g[n]) >= Len(blocks)
      /\ isopen \/ n > 0 => Len(g[n]) > 0
      /\ log_entries(blocks, isopen, es) = g[n]
  BY <1>1, <1>3, Zenon DEF LogSteps
<1> QED
  BY <1>2, <1>4

-----------------------------------------------------------------------------
(***************************************************************************)
(* Types.  The superblock's log counts are differences, so that they are   *)
(* naturals only because the log numbers are in order: lognext is logthis  *)
(* and the pending blocks, and neither logbase has passed it.              *)
(***************************************************************************)
LogType == [base : Nat, nbase : Nat, this : Nat, next : Nat, chain : Block \cup {NoBlock}]

LogNumbers ==
  /\ log.next = log.this + Len(pend)
  /\ log.base <= log.next /\ log.nbase <= log.next
  /\ open => Len(pend) > 0

TypeInv == TypeOK /\ LogNumbers

(* Logging keeps the numbers in order.                                     *)
LEMMA LoggedType ==
  ASSUME TypeInv, NEW es \in Entries, Logged(es)
  PROVE  /\ pend' \in Seq(Entries) /\ open' \in BOOLEAN /\ log' \in LogType
         /\ LogNumbers'
         /\ log' = [log EXCEPT !.next = log'.next] /\ log'.next >= log.next
<1>1. /\ pend \in Seq(Entries) /\ open \in BOOLEAN /\ (open => Len(pend) > 0)
      /\ log \in LogType
  BY DEF TypeInv, TypeOK, LogNumbers, LogType
<1>2. /\ pend' = log_entries(pend, open, es)
      /\ open' = (open \/ es # <<>>)
      /\ log' = [log EXCEPT !.next = log.this + Len(pend')]
  BY DEF Logged
<1>3. /\ pend' \in Seq(Entries)
      /\ Len(pend') >= Len(pend)
      /\ open' => Len(pend') > 0
  BY <1>1, <1>2, LogEntriesType
<1>4. Len(pend) \in Nat /\ Len(pend') \in Nat
  BY <1>1, <1>3, LenProperties
<1>5. /\ log.base <= log.next /\ log.nbase <= log.next
      /\ log.next = log.this + Len(pend)
      /\ log.base \in Nat /\ log.nbase \in Nat /\ log.next \in Nat /\ log.this \in Nat
  BY <1>1 DEF TypeInv, LogNumbers, LogType
<1>6. /\ log' \in LogType /\ log'.this = log.this /\ log'.base = log.base
      /\ log'.nbase = log.nbase /\ log'.next = log.this + Len(pend')
  BY <1>1, <1>2, <1>4, <1>5 DEF LogType
<1>7. log'.next >= log.next
  BY <1>3, <1>4, <1>5, <1>6
<1>8. LogNumbers'
  BY <1>3, <1>4, <1>5, <1>6, <1>7 DEF LogNumbers
<1>9. open' \in BOOLEAN
  BY <1>1, <1>2
<1>10. log' = [log EXCEPT !.next = log'.next]
  BY <1>2, <1>6
<1> QED
  BY <1>3, <1>6, <1>7, <1>8, <1>9, <1>10

(* The bitmap buffer keeps its type when it is dirtied.                    *)
LEMMA BlockdirtyType ==
  ASSUME NEW m \in [state : States, listed : BOOLEAN], NEW r \in Nat
  PROVE  blockdirty(m, r) \in [state : States, listed : BOOLEAN]
<1>1. (r % 4) \in 0..3
  BY SMT
<1> QED
  BY <1>1 DEF blockdirty, States

(* What an allocation does to the bits and to the goal.                    *)
LEMMA BallocType ==
  ASSUME TypeOK, NEW b \in Block
  PROVE  bitmap \cup {b} \in SUBSET Block /\ b + 1 \in 0..VolBlocks
BY CommitAssumption, SMTT(60) DEF TypeOK, Block

(* Emptying a stash keeps its type.                                        *)
LEMMA UnstashedType ==
  ASSUME NEW s \in Stash
  PROVE  Unstashed(s) \in Stash
<1>1. s.page \in BOOLEAN /\ s.vals \in Seq(Block) /\ s = [page |-> s.page, vals |-> s.vals]
  BY DEF Stash
<1>2. Unstashed(s) = [page |-> s.page, vals |-> <<>>]
  BY <1>1 DEF Unstashed
<1> QED
  BY <1>1, <1>2 DEF Stash

(* As does adding a block to it.                                           *)
LEMMA StashType ==
  ASSUME NEW s \in Stash, NEW b \in Block
  PROVE  stash_value(s, b) \in Stash
<1>1. s.page \in BOOLEAN /\ s.vals \in Seq(Block)
  BY DEF Stash
<1>2. Append(s.vals, b) \in Seq(Block)
  BY <1>1
<1>3. stash_value(s, b) \in Stash
  BY <1>2 DEF Stash, stash_value
<1> QED
  BY <1>3

(* The type invariant holds in every state, and with it the order of the   *)
(* log numbers: lognext is past every pending block and past both          *)
(* logbases, so that the log counts in the superblock never wrap.          *)
THEOREM TypeCorrect == Spec => [](TypeOK /\ LogNumbers)
<1> USE CommitAssumption
<1>1. Init => TypeInv
  <2> SUFFICES ASSUME Init PROVE TypeInv
    OBVIOUS
  <2>1. {0, 1} \in SUBSET Block /\ 0 \in Block /\ 1 \in Block
    BY DEF Block
  <2>2. EmptyStash \in Stash
    BY DEF EmptyStash, Stash
  <2>3. <<>> \in Entries /\ pend \in Seq(Entries)
    BY DEF Init, Entries
  <2>4. MapBlock({0, 1}) \in Content /\ Data \in Content
    BY <2>1, <2>3 DEF MapBlock, Data, Content
  <2>5. disk \in [Block -> Content]
    BY <2>4 DEF Init
  <2>6. /\ bm \in [state : States, listed : BOOLEAN]
        /\ cut \in [img : SUBSET Block, state : States]
    BY DEF Init, States, NoCut
  <2>7. log \in [base : Nat, nbase : Nat, this : Nat, next : Nat, chain : Block \cup {NoBlock}]
    BY DEF Init
  <2>8. super \in [chain : Block \cup {NoBlock}, logcount : Nat, next_logcount : Nat,
                   used : SUBSET Block, maps : SUBSET Block, base : Nat, delta : Nat]
    BY <2>1 DEF Init
  <2>9. /\ bitmap \in SUBSET Block /\ nextalloc \in 0..VolBlocks
        /\ live \in SUBSET Block /\ nodes \in SUBSET Block /\ leaves \in SUBSET Block
        /\ bmloc \in Block /\ oldloc \in Block
    BY <2>1 DEF Init
  <2>11. /\ count \in [delta : Nat, rollup : Nat, ends : Nat, commits : Nat]
         /\ stage \in [at : {"idle", "rollup", "bitmap", "log", "super", "sync"}, done : Nat]
         /\ pc \in [Task -> {"out", "in", "want", "commit"}] /\ mydelta \in [Task -> Nat]
         /\ open \in BOOLEAN
         /\ failed \in SUBSET {"bitmap", "log", "super", "retire", "sync"}
         /\ dead \in {"no", "new_cycle_log", "io_buffers", "buffer_state", "cleanup"}
    BY DEF Init
  <2>12. defree \in Stash /\ derollup \in Stash /\ decycle \in Stash /\ new_decycle \in Stash
    BY <2>2 DEF Init
  <2>13. TypeOK
    BY <2>3, <2>5, <2>6, <2>7, <2>8, <2>9, <2>11, <2>12 DEF TypeOK
  <2>10. LogNumbers
    BY DEF Init, LogNumbers
  <2> QED
    BY <2>10, <2>13 DEF TypeInv
<1>2. TypeInv /\ [Next]_vars => TypeInv'
  <2> SUFFICES ASSUME TypeInv, [Next]_vars PROVE TypeInv'
    OBVIOUS
  <2> USE DEF TypeInv
  <2>a. /\ count \in [delta : Nat, rollup : Nat, ends : Nat, commits : Nat]
        /\ count.rollup \in Nat /\ count.delta \in Nat
        /\ bm \in [state : States, listed : BOOLEAN]
        /\ pc \in [Task -> {"out", "in", "want", "commit"}] /\ mydelta \in [Task -> Nat]
        /\ stage \in [at : {"idle", "rollup", "bitmap", "log", "super", "sync"}, done : Nat]
    BY DEF TypeOK
  <2>b. blockdirty(bm, count.rollup) \in [state : States, listed : BOOLEAN]
    BY <2>a, BlockdirtyType
  <2>d. Data \in Content
    BY DEF Data, Content, Entries
  <2>1. ASSUME NEW t \in Task, change_begin(t) PROVE TypeInv'
    BY <2>1 DEF change_begin, memory, logs, stashes, TypeOK, LogNumbers
  <2>2. ASSUME NEW t \in Task, change_end(t) PROVE TypeInv'
    <3>1. (count.ends + 1) % DeltaEvery \in Nat
      BY <2>a
    <3>2. count' \in [delta : Nat, rollup : Nat, ends : Nat, commits : Nat]
      BY <2>2, <2>a, <3>1 DEF change_end
    <3>3. pc' \in [Task -> {"out", "in", "want", "commit"}] /\ mydelta' \in [Task -> Nat]
      BY <2>2, <2>a DEF change_end
    <3> QED
      BY <2>2, <3>2, <3>3 DEF change_end, memory, logs, stashes, TypeOK, LogNumbers
  <2>3. ASSUME NEW t \in Task, force_delta(t) PROVE TypeInv'
    <3>1. /\ count' \in [delta : Nat, rollup : Nat, ends : Nat, commits : Nat]
          /\ mydelta' \in [Task -> Nat]
          /\ pc' \in [Task -> {"out", "in", "want", "commit"}]
          /\ stage' \in [at : {"idle", "rollup", "bitmap", "log", "super", "sync"}, done : Nat]
      BY <2>3, <2>a DEF force_delta
    <3> QED
      BY <2>3, <3>1 DEF force_delta, memory, logs, stashes, TypeOK, LogNumbers
  <2>4. ASSUME NEW t \in Task, CommitSkipped(t) PROVE TypeInv'
    BY <2>4 DEF CommitSkipped, up_write, memory, logs, stashes, TypeOK, LogNumbers
  <2>5. ASSUME NEW t \in Task, do_commit(t) PROVE TypeInv'
    <3>1. (count.commits + 1) % RollupEvery \in Nat
      BY <2>a
    <3> DEFINE k == (count.commits + 1) % RollupEvery
    <3>4. count' = [delta |-> count.delta + 1, rollup |-> count.rollup, ends |-> count.ends,
                    commits |-> k]
      BY <2>5, <2>a, Zenon DEF do_commit
    <3>6. pc' = [pc EXCEPT ![t] = "commit"]
      BY <2>5 DEF do_commit
    <3>5. k \in Nat
      BY <3>1
    <3> HIDE DEF k
    <3>2. /\ count' \in [delta : Nat, rollup : Nat, ends : Nat, commits : Nat]
          /\ pc' \in [Task -> {"out", "in", "want", "commit"}]
      BY <2>a, <3>4, <3>5, <3>6
    <3>3. stage' \in [at : {"idle", "rollup", "bitmap", "log", "super", "sync"}, done : Nat]
      BY <2>5, Zenon DEF do_commit
    <3> QED
      BY <2>5, <3>2, <3>3 DEF do_commit, memory, logs, stashes, TypeOK, LogNumbers
  <2>6. ASSUME NEW t \in Task, AllocLogged(t) PROVE TypeInv'
    <3>1. PICK b \in Block :
            /\ bitmap' = bitmap \cup {b} /\ nextalloc' = b + 1
            /\ live' = live \cup {b}
            /\ disk' = [disk EXCEPT ![b] = Data]
            /\ Logged(<<Entry("balloc", b)>>)
      BY <2>6 DEF AllocLogged
    <3>2. <<Entry("balloc", b)>> \in Entries
      BY DEF Entries, Entry, Ops
    <3>3. /\ pend' \in Seq(Entries) /\ open' \in BOOLEAN /\ log' \in LogType /\ LogNumbers'
      BY <3>1, <3>2, LoggedType
    <3>4. disk' \in [Block -> Content]
      BY <2>d, <3>1 DEF TypeOK
    <3>5. bitmap' \in SUBSET Block /\ nextalloc' \in 0..VolBlocks /\ live' \in SUBSET Block
      BY <3>1, BallocType DEF TypeOK
    <3>6. UNCHANGED <<nodes, leaves, bmloc, oldloc, cut, stashes, count, locks, super, failed, dead>>
          /\ bm' = blockdirty(bm, count.rollup)
      BY <2>6 DEF AllocLogged
    <3> QED
      BY <2>b, <3>3, <3>4, <3>5, <3>6 DEF TypeOK, LogType, stashes, locks
  <2>7. ASSUME NEW t \in Task, NEW op \in {"bnode_split", "bnode_root"}, AllocNode(t, op)
        PROVE  TypeInv'
    <3>1. PICK b \in Block :
            /\ bitmap' = bitmap \cup {b} /\ nextalloc' = b + 1
            /\ nodes' = nodes \cup {b}
            /\ disk' = [disk EXCEPT ![b] = Data]
            /\ Logged(<<Entry(op, b)>>)
      BY <2>7 DEF AllocNode
    <3>2. <<Entry(op, b)>> \in Entries
      BY DEF Entries, Entry, Ops
    <3>3. /\ pend' \in Seq(Entries) /\ open' \in BOOLEAN /\ log' \in LogType /\ LogNumbers'
      BY <3>1, <3>2, LoggedType
    <3>4. disk' \in [Block -> Content]
      BY <2>d, <3>1 DEF TypeOK
    <3>5. bitmap' \in SUBSET Block /\ nextalloc' \in 0..VolBlocks /\ nodes' \in SUBSET Block
      BY <3>1, BallocType DEF TypeOK
    <3>6. UNCHANGED <<live, leaves, bmloc, oldloc, cut, stashes, count, locks, super, failed, dead>>
          /\ bm' = blockdirty(bm, count.rollup)
      BY <2>7 DEF AllocNode
    <3> QED
      BY <2>b, <3>3, <3>4, <3>5, <3>6 DEF TypeOK, LogType, stashes, locks
  <2>8. ASSUME NEW t \in Task, NEW b \in Block, FreeNow(t, b) PROVE TypeInv'
    <3>1. /\ bitmap' = bitmap \ {b}
          /\ live' = live \ {b} /\ nodes' = nodes \ {b} /\ leaves' = leaves \ {b}
          /\ bm' = blockdirty(bm, count.rollup)
          /\ UNCHANGED <<nextalloc, bmloc, oldloc, cut, logs, stashes, count, locks, disk, super,
                         failed, dead>>
      BY <2>8 DEF FreeNow
    <3> QED
      BY <2>b, <3>1 DEF TypeOK, LogNumbers, logs, stashes, locks
  <2>9. ASSUME NEW t \in Task, new_cycle_log(t) PROVE TypeInv'
    <3> DEFINE bfrees == [i \in DOMAIN decycle.vals |-> Entry("bfree", decycle.vals[i])]
               blocks == log_entries(pend, FALSE, bfrees)
    <3>a. count' = [count EXCEPT !.rollup = count.rollup + 1]
      BY <2>9 DEF new_cycle_log
    <3>b. log' = [base |-> log.nbase, nbase |-> log.next, this |-> log.this,
                  next |-> log.this + Len(blocks), chain |-> log.chain]
      BY <2>9, Zenon DEF new_cycle_log, NextLogbase, TypeOK
    <3>1. /\ cut' = IF bm.listed THEN [img |-> bitmap, state |-> bm.state] ELSE NoCut
          /\ bm' = [bm EXCEPT !.listed = FALSE]
          /\ pend' = blocks
          /\ open' = (bfrees # <<>>)
      BY <2>9 DEF new_cycle_log
    <3>2. /\ defree' = stash_values(defree, decycle.vals \o derollup.vals)
          /\ decycle' = new_decycle
          /\ new_decycle' = Unstashed(decycle)
          /\ derollup' = Unstashed(derollup)
          /\ UNCHANGED <<bitmap, nextalloc, live, nodes, leaves, bmloc, oldloc, pc, mydelta, disk, super,
                         failed, dead>>
      BY <2>9 DEF new_cycle_log, EmptiedStash
    <3>3. stage' = [at |-> IF bm.listed THEN "bitmap" ELSE "log", done |-> 0]
      BY <2>9 DEF new_cycle_log
    <3>4. decycle.vals \in Seq(Block) /\ derollup.vals \in Seq(Block)
          /\ defree.vals \in Seq(Block) /\ defree.page \in BOOLEAN
      BY DEF TypeOK, Stash
    <3>5. bfrees \in Entries
      <4>1. Len(decycle.vals) \in Nat /\ DOMAIN decycle.vals = 1..Len(decycle.vals)
        BY <3>4, LenProperties
      <4>2. \A i \in 1..Len(decycle.vals) : Entry("bfree", decycle.vals[i]) \in Rec
        BY <3>4, ElementOfSeq DEF Entry, Rec, Ops
      <4> DEFINE k == Len(decycle.vals)
                 v == decycle.vals
      <4>3. k \in Nat /\ \A i \in 1..k : Entry("bfree", v[i]) \in Rec
        BY <4>1, <4>2
      <4>4. bfrees = [i \in 1..k |-> Entry("bfree", v[i])]
        BY <4>1
      <4> HIDE DEF k, v
      <4>5. [i \in 1..k |-> Entry("bfree", v[i])] \in Seq(Rec)
        BY <4>3
      <4> QED
        BY <4>4, <4>5 DEF Entries, Rec
    <3> HIDE DEF bfrees
    <3>6. /\ blocks \in Seq(Entries) /\ Len(blocks) >= Len(pend)
          /\ bfrees # <<>> => Len(blocks) > 0
      BY <3>5, LogEntriesType DEF TypeOK
    <3> HIDE DEF blocks
    <3>7. Len(blocks) \in Nat /\ Len(pend) \in Nat
      BY <3>6, LenProperties DEF TypeOK
    <3>8. log \in LogType /\ log.next = log.this + Len(pend) /\ log.nbase <= log.next
          /\ log.this \in Nat /\ log.nbase \in Nat /\ log.next \in Nat /\ log.base \in Nat
      BY DEF TypeOK, LogType, LogNumbers
    <3>9. log' \in LogType /\ log'.this = log.this /\ log'.base = log.nbase /\ log'.nbase = log.next
          /\ log'.next = log.this + Len(blocks)
      BY <3>b, <3>7, <3>8 DEF LogType
    <3>c. pend' = blocks /\ (open' => Len(pend') > 0)
      BY <3>1, <3>6
    <3>d. /\ log'.next = log'.this + Len(pend')
          /\ log'.base <= log'.next /\ log'.nbase <= log'.next
      BY <3>6, <3>7, <3>8, <3>9, <3>c
    <3>10. LogNumbers'
      BY <3>c, <3>d DEF LogNumbers
    <3>11. count' \in [delta : Nat, rollup : Nat, ends : Nat, commits : Nat]
      BY <2>a, <3>a
    <3>12. /\ bm' \in [state : States, listed : BOOLEAN]
           /\ cut' \in [img : SUBSET Block, state : States]
      BY <2>a, <3>1 DEF NoCut, States, TypeOK
    <3>13. defree' \in Stash
      <4>1. defree.vals \o (decycle.vals \o derollup.vals) \in Seq(Block)
        BY <3>4
      <4> QED
        BY <3>2, <3>4, <4>1 DEF stash_values, Stash
    <3>14. decycle' \in Stash /\ new_decycle' \in Stash /\ derollup' \in Stash
      BY <3>2, UnstashedType DEF TypeOK
    <3>15. stage' \in [at : {"idle", "rollup", "bitmap", "log", "super", "sync"}, done : Nat]
      BY <3>3
    <3>16. open' \in BOOLEAN /\ pend' \in Seq(Entries)
      BY <3>1, <3>6
    <3> QED
      BY <3>2, <3>9, <3>10, <3>11, <3>12, <3>13, <3>14, <3>15, <3>16 DEF TypeOK, LogType
  <2>10. ASSUME NEW t \in Task, new_cycle_log_asserts(t) PROVE TypeInv'
    BY <2>10 DEF new_cycle_log_asserts, Die, memory, logs, stashes, locks, TypeOK, LogNumbers
  <2>11. ASSUME NEW t \in Task, NEW b \in Block, write_bitmap(t, b) PROVE TypeInv'
    <3>1. /\ bitmap' = bitmap \cup {b} /\ nextalloc' = b + 1
          /\ bmloc' = b /\ oldloc' = bmloc
          /\ derollup' = stash_value(derollup, bmloc) /\ UNCHANGED defree
          /\ cut' = NoCut
          /\ UNCHANGED <<live, nodes, leaves, decycle, new_decycle, count, pc, mydelta, super>>
      BY <2>11 DEF write_bitmap, map_bfree
    <3>2. Logged(<<Entry("bfree_on_rollup", bmloc), Entry("balloc", b)>>)
      BY <2>11 DEF write_bitmap
    <3>3. \/ /\ disk' = [disk EXCEPT ![b] = MapBlock(Image(bitmap'))]
             /\ bm' = IF BLOCKDIRTY THEN blockdirty(bm, count.rollup)
                      ELSE [state |-> Clean, listed |-> FALSE]
             /\ stage' = [at |-> "log", done |-> 0]
             /\ UNCHANGED <<failed, dead>>
          \/ /\ dead' \in {"io_buffers", "buffer_state"}
             /\ UNCHANGED <<failed, disk, bm, stage>>
      BY <2>11 DEF write_bitmap, Die
    <3>4. <<Entry("bfree_on_rollup", bmloc), Entry("balloc", b)>> \in Entries
      <4>1. bmloc \in Block
        BY DEF TypeOK
      <4> QED
        BY <4>1 DEF Entries, Entry, Ops
    <3>5. /\ pend' \in Seq(Entries) /\ open' \in BOOLEAN /\ log' \in LogType /\ LogNumbers'
      BY <3>2, <3>4, LoggedType
    <3>6. derollup' \in Stash
      BY <3>1, StashType DEF TypeOK
    <3>7. bitmap' \in SUBSET Block /\ nextalloc' \in 0..VolBlocks
      BY <3>1, BallocType
    <3>8. Image(bitmap') \in SUBSET Block
      BY <3>7 DEF Image, TypeOK
    <3>9. MapBlock(Image(bitmap')) \in Content
      BY <3>8 DEF MapBlock, Content, Entries
    <3>10. /\ disk' \in [Block -> Content] /\ bm' \in [state : States, listed : BOOLEAN]
           /\ stage' \in [at : {"idle", "rollup", "bitmap", "log", "super", "sync"}, done : Nat]
           /\ failed' = failed
           /\ dead' \in {"no", "new_cycle_log", "io_buffers", "buffer_state", "cleanup"}
      <4>1. disk \in [Block -> Content]
            /\ dead \in {"no", "new_cycle_log", "io_buffers", "buffer_state", "cleanup"}
        BY DEF TypeOK
      <4>2. [state |-> Clean, listed |-> FALSE] \in [state : States, listed : BOOLEAN]
        BY DEF States
      <4> DEFINE c == MapBlock(Image(bitmap'))
      <4>3. c \in Content
        BY <3>9
      <4>4. CASE dead' \in {"io_buffers", "buffer_state"} /\ UNCHANGED <<failed, disk, bm, stage>>
        BY <2>a, <4>1, <4>4
      <4>5. CASE /\ disk' = [disk EXCEPT ![b] = c]
                 /\ bm' = IF BLOCKDIRTY THEN blockdirty(bm, count.rollup)
                          ELSE [state |-> Clean, listed |-> FALSE]
                 /\ stage' = [at |-> "log", done |-> 0]
                 /\ UNCHANGED <<failed, dead>>
        <5> HIDE DEF c
        <5>1. bm' \in [state : States, listed : BOOLEAN]
          BY <2>b, <4>2, <4>5
        <5>2. disk' \in [Block -> Content]
          BY <4>1, <4>3, <4>5
        <5> QED
          BY <4>1, <4>5, <5>1, <5>2
      <4> QED
        BY <3>3, <4>4, <4>5
    <3>11. cut' \in [img : SUBSET Block, state : States]
      BY <3>1 DEF NoCut, States
    <3> QED
      BY <3>1, <3>5, <3>6, <3>7, <3>10, <3>11 DEF TypeOK, LogType
  <2>12. ASSUME NEW t \in Task, write_bitmap_enospc(t) PROVE TypeInv'
    <3>1. /\ derollup' = stash_value(derollup, bmloc) /\ UNCHANGED defree
          /\ cut' = NoCut
          /\ failed' = failed \cup {"bitmap"}
          /\ pc' = [pc EXCEPT ![t] = "out"]
          /\ stage' = [at |-> "idle", done |-> 0]
          /\ UNCHANGED <<memory, decycle, new_decycle, count, mydelta, disk, super, dead>>
      BY <2>12 DEF write_bitmap_enospc, map_bfree
    <3>2. Logged(<<Entry("bfree_on_rollup", bmloc)>>)
      BY <2>12 DEF write_bitmap_enospc
    <3>3. <<Entry("bfree_on_rollup", bmloc)>> \in Entries
      <4>1. bmloc \in Block
        BY DEF TypeOK
      <4> QED
        BY <4>1 DEF Entries, Entry, Ops
    <3>4. /\ pend' \in Seq(Entries) /\ open' \in BOOLEAN /\ log' \in LogType /\ LogNumbers'
      BY <3>2, <3>3, LoggedType
    <3>5. derollup' \in Stash
      BY <3>1, StashType DEF TypeOK
    <3>6. cut' \in [img : SUBSET Block, state : States]
      BY <3>1 DEF NoCut, States
    <3> QED
      BY <3>1, <3>4, <3>5, <3>6 DEF TypeOK, LogType, memory
  <2>13. ASSUME NEW t \in Task, write_log(t) PROVE TypeInv'
    <3>1. PICK b \in Block :
            /\ bitmap' = bitmap \cup {b} /\ nextalloc' = b + 1
            /\ disk' = [disk EXCEPT ![b] =
                 LogBlock(log.this + stage.done, log.chain, pend[stage.done + 1])]
            /\ new_decycle' = stash_value(new_decycle, b)
            /\ log' = [log EXCEPT !.chain = b]
      BY <2>13 DEF write_log
    <3>2. /\ stage.done < Len(pend)
          /\ bm' = blockdirty(bm, count.rollup)
          /\ open' = FALSE
          /\ stage' = [stage EXCEPT !.done = stage.done + 1]
          /\ UNCHANGED <<live, nodes, leaves, bmloc, oldloc, cut, pend, defree, derollup, decycle, count, pc,
                         mydelta, super, failed, dead>>
      BY <2>13 DEF write_log
    <3>3. pend \in Seq(Entries) /\ Len(pend) \in Nat
      BY LenProperties DEF TypeOK
    <3>4. pend[stage.done + 1] \in Entries
      <4>1. stage.done + 1 \in 1..Len(pend)
        BY <2>a, <3>2, <3>3
      <4> QED
        BY <3>3, <4>1, ElementOfSeq
    <3>5. log \in LogType /\ log.this \in Nat /\ log.chain \in Block \cup {NoBlock} /\ stage.done \in Nat
      BY <2>a DEF TypeOK, LogType
    <3>6. LogBlock(log.this + stage.done, log.chain, pend[stage.done + 1]) \in Content
      <4> DEFINE es == pend[stage.done + 1]
      <4>1. es \in Entries
        BY <3>4
      <4> HIDE DEF es
      <4> QED
        BY <3>5, <4>1 DEF LogBlock, Content, es
    <3>7. disk' \in [Block -> Content]
      <4> DEFINE c == LogBlock(log.this + stage.done, log.chain, pend[stage.done + 1])
      <4>1. disk' = [disk EXCEPT ![b] = c] /\ c \in Content /\ disk \in [Block -> Content]
        BY <3>1, <3>6 DEF TypeOK
      <4> HIDE DEF c
      <4> QED
        BY <4>1
    <3>8. bitmap' \in SUBSET Block /\ nextalloc' \in 0..VolBlocks
      BY <3>1, BallocType
    <3>9. new_decycle' \in Stash
      BY <3>1, StashType DEF TypeOK
    <3>10. /\ log' \in LogType /\ log'.this = log.this /\ log'.next = log.next
           /\ log'.base = log.base /\ log'.nbase = log.nbase
      BY <3>1, <3>5 DEF LogType
    <3>11. stage' \in [at : {"idle", "rollup", "bitmap", "log", "super", "sync"}, done : Nat]
      <4> DEFINE d == stage.done + 1
      <4>1. d \in Nat
        BY <3>5
      <4>2. stage' = [stage EXCEPT !.done = d]
        BY <3>2
      <4> HIDE DEF d
      <4> QED
        BY <2>a, <4>1, <4>2, Zenon
    <3>12. LogNumbers'
      BY <3>2, <3>10 DEF LogNumbers
    <3> QED
      BY <2>b, <3>2, <3>7, <3>8, <3>9, <3>10, <3>11, <3>12 DEF TypeOK, LogType
  <2>14. ASSUME NEW t \in Task, write_log_fails(t) PROVE TypeInv'
    <3>1. /\ open' = FALSE
          /\ failed' = failed \cup {"log"}
          /\ stage' = [at |-> "super", done |-> 0]
          /\ UNCHANGED <<bitmap, live, nodes, leaves, bmloc, oldloc, cut, log, pend, stashes, count, pc,
                         mydelta, disk, super, dead>>
      BY <2>14 DEF write_log_fails
    <3>2. nextalloc' \in 0..VolBlocks /\ bm' \in [state : States, listed : BOOLEAN]
      <4>1. CASE UNCHANGED <<nextalloc, bm>>
        BY <4>1 DEF TypeOK
      <4>2. CASE (\E b \in Block : balloc(b) /\ nextalloc' = b + 1) /\ bm' = blockdirty(bm, count.rollup)
        BY <2>b, <4>2, BallocType
      <4> QED
        BY <2>14, <4>1, <4>2 DEF write_log_fails
    <3> QED
      BY <3>1, <3>2 DEF TypeOK, LogNumbers, stashes
  <2>15. ASSUME NEW t \in Task, write_log_done(t) PROVE TypeInv'
    <3>1. /\ pend' = <<>> /\ open' = FALSE
          /\ log' = [log EXCEPT !.this = log.next]
          /\ stage' = [at |-> "super", done |-> 0]
          /\ UNCHANGED <<memory, cut, stashes, count, pc, mydelta, disk, super, failed, dead>>
      BY <2>15 DEF write_log_done
    <3>2. log \in LogType /\ log.next \in Nat
      BY DEF TypeOK, LogType
    <3>3. /\ log' \in LogType /\ log'.this = log.next /\ log'.next = log.next
          /\ log'.base = log.base /\ log'.nbase = log.nbase
      BY <3>1, <3>2 DEF LogType
    <3>4. LogNumbers'
      BY <3>1, <3>2, <3>3 DEF LogNumbers
    <3>5. pend' \in Seq(Entries)
      BY <3>1
    <3> QED
      BY <3>1, <3>3, <3>4, <3>5 DEF TypeOK, LogType, memory, stashes
  <2>16. ASSUME NEW t \in Task, commit_delta(t) PROVE TypeInv'
    <3>1. super' = [chain |-> log.chain, logcount |-> log.next - log.base,
                    next_logcount |-> log.next - log.nbase,
                    used |-> live \cup nodes \cup {bmloc}, maps |-> {bmloc, oldloc},
                    base |-> log.base, delta |-> count.delta]
      BY <2>16 DEF commit_delta
    <3>2. /\ bitmap' = bitmap \ Retired(defree.vals)
          /\ bm' = IF Retired(defree.vals) = {} THEN bm ELSE blockdirty(bm, count.rollup)
          /\ defree' = defree \/ defree' = Unstashed(defree)
          /\ failed' = failed \/ failed' = failed \cup {"retire"}
          /\ pc' = [pc EXCEPT ![t] = "out"]
          /\ stage' = [at |-> "idle", done |-> 0]
          /\ UNCHANGED <<nextalloc, live, nodes, leaves, bmloc, oldloc, cut, logs, derollup, decycle,
                         new_decycle, count, mydelta, disk, dead>>
      BY <2>16 DEF commit_delta
    <3>3. log.next - log.base \in Nat /\ log.next - log.nbase \in Nat /\ log.base \in Nat
          /\ log.chain \in Block \cup {NoBlock} /\ bmloc \in Block /\ oldloc \in Block
          /\ live \in SUBSET Block /\ nodes \in SUBSET Block
      <4>1. /\ log \in LogType /\ bmloc \in Block /\ oldloc \in Block
            /\ live \in SUBSET Block /\ nodes \in SUBSET Block
        BY DEF TypeOK, LogType
      <4>2. log.base <= log.next /\ log.nbase <= log.next
        BY DEF LogNumbers
      <4>3. /\ log.base \in Nat /\ log.nbase \in Nat /\ log.next \in Nat
            /\ log.chain \in Block \cup {NoBlock}
        BY <4>1 DEF LogType
      <4>4. log.next - log.base \in Nat /\ log.next - log.nbase \in Nat
        BY <4>2, <4>3
      <4> QED
        BY <4>1, <4>3, <4>4
    <3>4. super' \in [chain : Block \cup {NoBlock}, logcount : Nat, next_logcount : Nat,
                      used : SUBSET Block, maps : SUBSET Block, base : Nat, delta : Nat]
      BY <2>a, <3>1, <3>3
    <3>5. defree' \in Stash
      BY <3>2, UnstashedType, SMTT(60) DEF TypeOK
    <3>6. bm' \in [state : States, listed : BOOLEAN]
      BY <2>a, <2>b, <3>2
    <3>7. bitmap' \in SUBSET Block /\ failed' \in SUBSET {"bitmap", "log", "super", "retire", "sync"}
      BY <3>2 DEF TypeOK
    <3>8. pc' \in [Task -> {"out", "in", "want", "commit"}]
          /\ stage' \in [at : {"idle", "rollup", "bitmap", "log", "super", "sync"}, done : Nat]
      BY <2>a, <3>2
    <3> QED
      BY <3>2, <3>4, <3>5, <3>6, <3>7, <3>8 DEF TypeOK, LogNumbers, logs
  <2>17. ASSUME NEW t \in Task, commit_delta_fails(t) PROVE TypeInv'
    BY <2>17 DEF commit_delta_fails, NotRetired, TypeOK, LogNumbers, logs, stashes
  <2>18. CASE sync_super
    <3>1. /\ log' = [base |-> 0, nbase |-> 0, this |-> 0, next |-> 0, chain |-> NoBlock]
          /\ pend' = <<>> /\ open' = FALSE
          /\ oldloc' = bmloc
          /\ stage' = [at |-> "idle", done |-> 0]
          /\ UNCHANGED <<bitmap, nextalloc, live, nodes, leaves, bmloc, bm, cut, stashes, count,
                         pc, mydelta, disk>>
      BY <2>18 DEF sync_super
    <3>2. /\ dead' \in {dead, "cleanup"}
          /\ failed' = failed \/ failed' = failed \cup {"sync"}
          /\ \/ UNCHANGED super
             \/ super' = [super EXCEPT !.chain = NoBlock, !.used = live \cup nodes \cup {bmloc},
                                       !.maps = {bmloc}, !.base = 0]
      BY <2>18 DEF sync_super, Die
    <3>3. super' \in [chain : Block \cup {NoBlock}, logcount : Nat, next_logcount : Nat,
                      used : SUBSET Block, maps : SUBSET Block, base : Nat, delta : Nat]
      <4>1. super \in [chain : Block \cup {NoBlock}, logcount : Nat, next_logcount : Nat,
                       used : SUBSET Block, maps : SUBSET Block, base : Nat, delta : Nat]
            /\ live \cup nodes \cup {bmloc} \in SUBSET Block /\ {bmloc} \in SUBSET Block
        BY DEF TypeOK
      <4>2. CASE super' = [super EXCEPT !.chain = NoBlock, !.used = live \cup nodes \cup {bmloc},
                                        !.maps = {bmloc}, !.base = 0]
        <5>1. super' = [chain |-> NoBlock, logcount |-> super.logcount,
                        next_logcount |-> super.next_logcount, used |-> live \cup nodes \cup {bmloc},
                        maps |-> {bmloc}, base |-> 0, delta |-> super.delta]
          BY <4>1, <4>2, Zenon
        <5> QED
          BY <4>1, <5>1
      <4> QED
        BY <3>2, <4>1, <4>2
    <3>5. /\ log' \in [base : Nat, nbase : Nat, this : Nat, next : Nat, chain : Block \cup {NoBlock}]
          /\ pend' \in Seq(Entries)
          /\ stage' \in [at : {"idle", "rollup", "bitmap", "log", "super", "sync"}, done : Nat]
      BY <2>a, <3>1
    <3>6. LogNumbers'
      BY <3>1 DEF LogNumbers
    <3>7. /\ dead' \in {"no", "new_cycle_log", "io_buffers", "buffer_state", "cleanup"}
          /\ failed' \in SUBSET {"bitmap", "log", "super", "retire", "sync"}
      BY <3>2 DEF TypeOK
    <3> QED
      BY <3>1, <3>3, <3>5, <3>6, <3>7 DEF TypeOK, stashes
  <2>19. CASE UNCHANGED vars
    BY <2>19 DEF vars, memory, logs, stashes, locks, TypeOK, LogNumbers
  <2>20. ASSUME NEW t \in Task, AllocLeaf(t) PROVE TypeInv'
    <3>1. PICK b \in Block :
            /\ bitmap' = bitmap \cup {b} /\ nextalloc' = b + 1
            /\ leaves' = leaves \cup {b}
            /\ disk' = [disk EXCEPT ![b] = Data]
            /\ Logged(<<Entry("bnode_add", b)>>)
      BY <2>20 DEF AllocLeaf
    <3>2. <<Entry("bnode_add", b)>> \in Entries
      BY DEF Entries, Entry, Ops
    <3>3. /\ pend' \in Seq(Entries) /\ open' \in BOOLEAN /\ log' \in LogType /\ LogNumbers'
      BY <3>1, <3>2, LoggedType
    <3>4. disk' \in [Block -> Content]
      BY <2>d, <3>1 DEF TypeOK
    <3>5. bitmap' \in SUBSET Block /\ nextalloc' \in 0..VolBlocks /\ leaves' \in SUBSET Block
      BY <3>1, BallocType DEF TypeOK
    <3>6. UNCHANGED <<live, nodes, bmloc, oldloc, cut, stashes, count, locks, super, failed, dead>>
          /\ bm' = blockdirty(bm, count.rollup)
      BY <2>20 DEF AllocLeaf
    <3> QED
      BY <2>b, <3>3, <3>4, <3>5, <3>6 DEF TypeOK, LogType, stashes, locks
  <2>21. ASSUME NEW t \in Task, NEW b \in Block, AddChild(t, b) PROVE TypeInv'
    <3>1. /\ Logged(<<Entry("bnode_add", b)>>)
          /\ UNCHANGED <<memory, cut, stashes, count, locks, disk, super, failed, dead>>
      BY <2>21 DEF AddChild
    <3>2. <<Entry("bnode_add", b)>> \in Entries
      BY DEF Entries, Entry, Ops
    <3>3. /\ pend' \in Seq(Entries) /\ open' \in BOOLEAN /\ log' \in LogType /\ LogNumbers'
      BY <3>1, <3>2, LoggedType
    <3> QED
      BY <3>1, <3>3 DEF TypeOK, LogType, memory, stashes, locks
  <2>22. CASE sync_inodes
    <3>1. /\ disk' = IF bm.listed THEN [disk EXCEPT ![bmloc] = MapBlock(bitmap)] ELSE disk
          /\ bm' = IF bm.listed THEN [state |-> Clean, listed |-> FALSE] ELSE bm
          /\ stage' = [at |-> "sync", done |-> 0]
          /\ UNCHANGED <<bitmap, nextalloc, live, nodes, leaves, bmloc, oldloc, cut, logs, stashes,
                         count, pc, mydelta, super, failed, dead>>
      BY <2>22 DEF sync_inodes
    <3>2. disk' \in [Block -> Content]
      <4> DEFINE c == MapBlock(bitmap)
      <4>1. c \in Content
        BY DEF MapBlock, Content, Entries, TypeOK
      <4>2. disk' = disk \/ disk' = [disk EXCEPT ![bmloc] = c]
        BY <3>1
      <4>3. disk \in [Block -> Content]
        BY DEF TypeOK
      <4> HIDE DEF c
      <4> QED
        BY <4>1, <4>2, <4>3
    <3>3. /\ bm' \in [state : States, listed : BOOLEAN]
          /\ stage' \in [at : {"idle", "rollup", "bitmap", "log", "super", "sync"}, done : Nat]
      BY <2>a, <3>1 DEF States
    <3> QED
      BY <3>1, <3>2, <3>3 DEF TypeOK, LogNumbers, logs, stashes
  <2> QED
    BY <2>1, <2>2, <2>3, <2>4, <2>5, <2>6, <2>7, <2>8, <2>9, <2>10, <2>11, <2>12, <2>13, <2>14,
       <2>15, <2>16, <2>17, <2>18, <2>19, <2>20, <2>21, <2>22 DEF Next, Commit
<1>3. TypeInv <=> TypeOK /\ LogNumbers
  BY DEF TypeInv
<1> QED
  BY <1>1, <1>2, <1>3, PTL DEF Spec

-----------------------------------------------------------------------------
(***************************************************************************)
(* Stashes as sets.  The entries of a concatenation are those of its       *)
(* parts, and it repeats none if no part does and the parts share none.    *)
(***************************************************************************)
LEMMA ConcatRange ==
  ASSUME NEW S, NEW s \in Seq(S), NEW u \in Seq(S)
  PROVE  /\ s \o u \in Seq(S)
         /\ Range(s \o u) = Range(s) \cup Range(u)
         /\ IsInjective(s \o u) <=>
              IsInjective(s) /\ IsInjective(u) /\ Range(s) \cap Range(u) = {}
<1> DEFINE m == Len(s)
           n == Len(u)
           c == s \o u
<1>1. /\ m \in Nat /\ n \in Nat /\ DOMAIN s = 1..m /\ DOMAIN u = 1..n
  BY LenProperties
<1>2. c \in Seq(S) /\ DOMAIN c = 1..(m + n)
  BY ConcatProperties, LenProperties
<1>3. \A i \in 1..(m + n) : c[i] = IF i <= m THEN s[i] ELSE u[i - m]
  BY ConcatProperties
<1> HIDE DEF m, n, c
<1>4. \A i \in 1..m : i \in 1..(m + n) /\ c[i] = s[i]
  BY <1>1, <1>3
<1>5. \A j \in 1..n : j + m \in 1..(m + n) /\ ~(j + m <= m) /\ (j + m) - m = j
  BY <1>1
<1>6. \A j \in 1..n : c[j + m] = u[j]
  BY <1>1, <1>3, <1>5
<1>7. \A i \in 1..(m + n) : i \in 1..m \/ (\E j \in 1..n : i = j + m)
  <2> SUFFICES ASSUME NEW i \in 1..(m + n), i \notin 1..m PROVE \E j \in 1..n : i = j + m
    OBVIOUS
  <2>1. i - m \in 1..n /\ i = (i - m) + m
    BY <1>1
  <2> QED
    BY <2>1
<1>8. Range(c) = Range(s) \cup Range(u)
  <2>1. ASSUME NEW x \in Range(c) PROVE x \in Range(s) \cup Range(u)
    <3>1. PICK i \in 1..(m + n) : x = c[i]
      BY <1>2 DEF Range
    <3>2. CASE i \in 1..m
      BY <1>1, <1>4, <3>1, <3>2 DEF Range
    <3>3. CASE \E j \in 1..n : i = j + m
      BY <1>1, <1>6, <3>1, <3>3 DEF Range
    <3> QED
      BY <1>7, <3>2, <3>3
  <2>2. ASSUME NEW x \in Range(s) PROVE x \in Range(c)
    BY <1>1, <1>2, <1>4 DEF Range
  <2>3. ASSUME NEW x \in Range(u) PROVE x \in Range(c)
    <3>1. PICK j \in 1..n : x = u[j]
      BY <1>1 DEF Range
    <3> QED
      BY <1>2, <1>5, <1>6, <3>1 DEF Range
  <2> QED
    BY <2>1, <2>2, <2>3
<1>9. ASSUME IsInjective(c)
      PROVE  IsInjective(s) /\ IsInjective(u) /\ Range(s) \cap Range(u) = {}
  <2>0. \A a, b \in 1..(m + n) : c[a] = c[b] => a = b
    BY <1>2, <1>9 DEF IsInjective
  <2>1. \A a, b \in 1..m : s[a] = s[b] => a = b
    BY <1>4, <2>0
  <2>2. ASSUME NEW a \in 1..n, NEW b \in 1..n, u[a] = u[b] PROVE a = b
    <3>1. a + m = b + m
      BY <1>5, <1>6, <2>0, <2>2
    <3> QED
      BY <1>1, <3>1
  <2>3. ASSUME NEW a \in 1..m, NEW b \in 1..n, s[a] = u[b] PROVE FALSE
    <3>1. a = b + m
      BY <1>4, <1>5, <1>6, <2>0, <2>3
    <3> QED
      BY <1>1, <3>1
  <2> QED
    BY <1>1, <2>1, <2>2, <2>3 DEF IsInjective, Range
<1>10. ASSUME IsInjective(s), IsInjective(u), Range(s) \cap Range(u) = {}
       PROVE  IsInjective(c)
  <2>1. /\ \A a, b \in 1..m : s[a] = s[b] => a = b
        /\ \A a, b \in 1..n : u[a] = u[b] => a = b
        /\ \A a \in 1..m, b \in 1..n : s[a] # u[b]
    BY <1>1, <1>10 DEF IsInjective, Range
  <2>2. ASSUME NEW a \in 1..(m + n), NEW b \in 1..(m + n), c[a] = c[b]
        PROVE  a = b
    <3>1. CASE a \in 1..m /\ b \in 1..m
      BY <1>4, <2>1, <2>2, <3>1
    <3>2. ASSUME NEW j \in 1..n, b = j + m, a \in 1..m PROVE FALSE
      BY <1>4, <1>6, <2>1, <2>2, <3>2
    <3>3. ASSUME NEW j \in 1..n, a = j + m, b \in 1..m PROVE FALSE
      BY <1>4, <1>6, <2>1, <2>2, <3>3
    <3>4. ASSUME NEW j \in 1..n, NEW k \in 1..n, a = j + m, b = k + m PROVE a = b
      BY <1>6, <2>1, <2>2, <3>4
    <3> QED
      BY <1>7, <3>1, <3>2, <3>3, <3>4
  <2> QED
    BY <1>2, <2>2 DEF IsInjective
<1> QED
  BY <1>2, <1>8, <1>9, <1>10 DEF c

(* Appending a value is concatenating a sequence of one.                   *)
LEMMA AppendRange ==
  ASSUME NEW S, NEW s \in Seq(S), NEW x \in S
  PROVE  /\ Append(s, x) \in Seq(S)
         /\ Range(Append(s, x)) = Range(s) \cup {x}
         /\ IsInjective(Append(s, x)) <=> IsInjective(s) /\ x \notin Range(s)
<1>1. <<x>> \in Seq(S) /\ Append(s, x) = s \o <<x>>
  BY AppendIsConcat
<1>2. Range(<<x>>) = {x} /\ IsInjective(<<x>>)
  BY DEF Range, IsInjective
<1>3. /\ s \o <<x>> \in Seq(S)
      /\ Range(s \o <<x>>) = Range(s) \cup Range(<<x>>)
      /\ IsInjective(s \o <<x>>) <=>
           IsInjective(s) /\ IsInjective(<<x>>) /\ Range(s) \cap Range(<<x>>) = {}
  BY <1>1, ConcatRange, Zenon
<1>4. Range(s) \cap {x} = {} <=> x \notin Range(s)
  OBVIOUS
<1> QED
  BY <1>1, <1>2, <1>3, <1>4, Zenon

(* An empty stash holds nothing.                                           *)
LEMMA EmptyRange == Range(<<>>) = {} /\ IsInjective(<<>>)
BY DEF Range, IsInjective

-----------------------------------------------------------------------------
(***************************************************************************)
(* One holder for every allocated block, with the stashes taken apart:     *)
(* this form is inductive as it stands, together with the types.           *)
(***************************************************************************)
Holds(s) == Range(s.vals)
Once(s) == IsInjective(s.vals)

StashesApart ==
  /\ Once(defree) /\ Once(derollup) /\ Once(decycle) /\ Once(new_decycle)
  /\ Holds(defree) \cap Holds(derollup) = {}
  /\ Holds(defree) \cap Holds(decycle) = {}
  /\ Holds(defree) \cap Holds(new_decycle) = {}
  /\ Holds(derollup) \cap Holds(decycle) = {}
  /\ Holds(derollup) \cap Holds(new_decycle) = {}
  /\ Holds(decycle) \cap Holds(new_decycle) = {}

InUse == live \cup nodes \cup leaves \cup {bmloc}
Stashed == Holds(defree) \cup Holds(derollup) \cup Holds(decycle) \cup Holds(new_decycle)

Held ==
  /\ StashesApart
  /\ live \cap nodes = {} /\ (live \cup nodes) \cap leaves = {}
  /\ bmloc \notin live \cup nodes \cup leaves
  /\ Stashed \cap InUse = {}
  /\ bitmap = Stashed \cup InUse

HolderInv == "bitmap" \notin failed => Held

(* It says what OneHolder says.                                            *)
LEMMA HolderIsOneHolder ==
  ASSUME TypeOK
  PROVE  HolderInv <=> OneHolder
<1>1. /\ defree.vals \in Seq(Block) /\ derollup.vals \in Seq(Block)
      /\ decycle.vals \in Seq(Block) /\ new_decycle.vals \in Seq(Block)
  BY DEF TypeOK, Stash
<1> DEFINE d1 == defree.vals \o derollup.vals
           d2 == d1 \o decycle.vals
<1>2. /\ d1 \in Seq(Block) /\ Range(d1) = Holds(defree) \cup Holds(derollup)
      /\ IsInjective(d1) <=> Once(defree) /\ Once(derollup) /\ Holds(defree) \cap Holds(derollup) = {}
  BY <1>1, ConcatRange DEF Holds, Once
<1> HIDE DEF d1
<1>3. /\ d2 \in Seq(Block) /\ Range(d2) = Range(d1) \cup Holds(decycle)
      /\ IsInjective(d2) <=> IsInjective(d1) /\ Once(decycle) /\ Range(d1) \cap Holds(decycle) = {}
  BY <1>1, <1>2, ConcatRange DEF Holds, Once
<1>4. Deferred = d2 \o new_decycle.vals
  BY DEF Deferred, d1
<1> HIDE DEF d2
<1>5. /\ Range(Deferred) = Range(d2) \cup Holds(new_decycle)
      /\ IsInjective(Deferred) <=>
           IsInjective(d2) /\ Once(new_decycle) /\ Range(d2) \cap Holds(new_decycle) = {}
  BY <1>1, <1>3, <1>4, ConcatRange DEF Holds, Once
<1>6. Range(Deferred) = Stashed
  BY <1>2, <1>3, <1>5 DEF Stashed
<1>7. IsInjective(Deferred) <=> StashesApart
  <2>1. Range(d1) \cap Holds(decycle) = {} <=>
          Holds(defree) \cap Holds(decycle) = {} /\ Holds(derollup) \cap Holds(decycle) = {}
    BY <1>2
  <2>2. Range(d2) \cap Holds(new_decycle) = {} <=>
          /\ Holds(defree) \cap Holds(new_decycle) = {} /\ Holds(derollup) \cap Holds(new_decycle) = {}
          /\ Holds(decycle) \cap Holds(new_decycle) = {}
    BY <1>2, <1>3
  <2> QED
    BY <1>2, <1>3, <1>5, <2>1, <2>2 DEF StashesApart
<1> QED
  BY <1>6, <1>7 DEF HolderInv, Held, OneHolder, InUse

(* retire_bfree refuses nothing when the stash holds allocated blocks and  *)
(* none of them twice: commit_delta then frees all of them.                *)
LEMMA AllRetired ==
  ASSUME NEW vals \in Seq(Block), IsInjective(vals), Range(vals) \subseteq bitmap
  PROVE  Refused(vals) = {} /\ Retired(vals) = Range(vals)
<1>1. DOMAIN vals = 1..Len(vals) /\ Len(vals) \in Nat
  BY LenProperties
<1>2. ASSUME NEW j \in DOMAIN vals, vals[j] \notin bitmap PROVE FALSE
  BY <1>2 DEF Range
<1>3. ASSUME NEW j \in DOMAIN vals, NEW i \in 1..(j - 1), vals[i] = vals[j] PROVE FALSE
  <2>1. i \in DOMAIN vals /\ i # j
    BY <1>1
  <2> QED
    BY <1>3, <2>1 DEF IsInjective
<1>4. Refused(vals) = {}
  BY <1>2, <1>3 DEF Refused
<1> QED
  BY <1>4 DEF Retired, Range

(* What a step that leaves the blocks and their holders alone preserves.   *)
LEMMA HolderStutter ==
  ASSUME HolderInv, UNCHANGED <<bitmap, live, nodes, leaves, bmloc, stashes>>, failed \subseteq failed'
  PROVE  HolderInv'
BY DEF HolderInv, Held, StashesApart, Stashed, InUse, Holds, Once, stashes

(* OneHolder holds in every state: until a rollup finds no space for the   *)
(* bitmap, each allocated block is in one tree, or is the bitmap's place,  *)
(* or is in one stash once, through any interleaving of changes and any    *)
(* failure of the log or the superblock.                                   *)
THEOREM OneHolderCorrect == Spec => []OneHolder
<1> USE CommitAssumption
<1>1. Init => HolderInv
  <2> SUFFICES ASSUME Init PROVE Held
    BY DEF HolderInv
  <2>1. EmptyStash.vals = <<>>
    BY DEF EmptyStash
  <2>2. /\ Holds(defree) = {} /\ Holds(derollup) = {} /\ Holds(decycle) = {} /\ Holds(new_decycle) = {}
        /\ Once(defree) /\ Once(derollup) /\ Once(decycle) /\ Once(new_decycle)
    BY <2>1, EmptyRange DEF Init, Holds, Once
  <2>3. live = {1} /\ nodes = {} /\ leaves = {} /\ bmloc = 0 /\ bitmap = {0, 1}
    BY DEF Init
  <2> QED
    BY <2>2, <2>3 DEF Held, StashesApart, Stashed, InUse
<1>2. TypeOK /\ TypeOK' /\ HolderInv /\ [Next]_vars => HolderInv'
  <2> SUFFICES ASSUME TypeOK, TypeOK', HolderInv, [Next]_vars PROVE HolderInv'
    OBVIOUS
  <2>a. /\ defree.vals \in Seq(Block) /\ derollup.vals \in Seq(Block)
        /\ decycle.vals \in Seq(Block) /\ new_decycle.vals \in Seq(Block) /\ bmloc \in Block
    BY DEF TypeOK, Stash
  <2>b. ASSUME NEW s \in Stash PROVE Holds(Unstashed(s)) = {} /\ Once(Unstashed(s))
    <3>1. Unstashed(s).vals = <<>>
      BY DEF Unstashed, Stash
    <3> QED
      BY <3>1, EmptyRange DEF Holds, Once
  <2>c. ASSUME NEW s \in Stash, NEW b \in Block
        PROVE  /\ Holds(stash_value(s, b)) = Holds(s) \cup {b}
               /\ Once(stash_value(s, b)) <=> Once(s) /\ b \notin Holds(s)
    <3>1. stash_value(s, b).vals = Append(s.vals, b) /\ s.vals \in Seq(Block)
      BY DEF stash_value, Stash
    <3> QED
      BY <3>1, AppendRange DEF Holds, Once
  <2>1. ASSUME NEW t \in Task, change_begin(t) PROVE HolderInv'
    BY <2>1, HolderStutter DEF change_begin, memory
  <2>2. ASSUME NEW t \in Task, change_end(t) PROVE HolderInv'
    BY <2>2, HolderStutter DEF change_end, memory
  <2>3. ASSUME NEW t \in Task, force_delta(t) PROVE HolderInv'
    BY <2>3, HolderStutter DEF force_delta, memory
  <2>4. ASSUME NEW t \in Task, CommitSkipped(t) PROVE HolderInv'
    BY <2>4, HolderStutter DEF CommitSkipped, memory
  <2>5. ASSUME NEW t \in Task, do_commit(t) PROVE HolderInv'
    BY <2>5, HolderStutter DEF do_commit, memory
  <2>6. ASSUME NEW t \in Task, AllocLogged(t) PROVE HolderInv'
    <3>1. PICK b \in Block : /\ b \notin bitmap /\ bitmap' = bitmap \cup {b} /\ live' = live \cup {b}
      BY <2>6 DEF AllocLogged, balloc
    <3>2. UNCHANGED <<nodes, leaves, bmloc, stashes, failed>>
      BY <2>6 DEF AllocLogged
    <3> QED
      BY <3>1, <3>2 DEF HolderInv, Held, StashesApart, Stashed, InUse, Holds, Once, stashes
  <2>7. ASSUME NEW t \in Task, NEW op \in {"bnode_split", "bnode_root"}, AllocNode(t, op)
        PROVE  HolderInv'
    <3>1. PICK b \in Block : /\ b \notin bitmap /\ bitmap' = bitmap \cup {b} /\ nodes' = nodes \cup {b}
      BY <2>7 DEF AllocNode, balloc
    <3>2. UNCHANGED <<live, leaves, bmloc, stashes, failed>>
      BY <2>7 DEF AllocNode
    <3> QED
      BY <3>1, <3>2 DEF HolderInv, Held, StashesApart, Stashed, InUse, Holds, Once, stashes
  <2>8. ASSUME NEW t \in Task, NEW b \in Block, FreeNow(t, b) PROVE HolderInv'
    <3>1. /\ b \in live \cup nodes \cup leaves /\ bitmap' = bitmap \ {b}
          /\ live' = live \ {b} /\ nodes' = nodes \ {b} /\ leaves' = leaves \ {b}
          /\ UNCHANGED <<bmloc, stashes, failed>>
      BY <2>8 DEF FreeNow
    <3> QED
      BY <3>1 DEF HolderInv, Held, StashesApart, Stashed, InUse, Holds, Once, stashes
  <2>9. ASSUME NEW t \in Task, new_cycle_log(t) PROVE HolderInv'
    <3> SUFFICES ASSUME "bitmap" \notin failed' PROVE Held'
      BY DEF HolderInv
    <3>1. /\ defree' = stash_values(defree, decycle.vals \o derollup.vals)
          /\ decycle' = new_decycle /\ new_decycle' = Unstashed(decycle)
          /\ derollup' = Unstashed(derollup)
          /\ UNCHANGED <<bitmap, live, nodes, leaves, bmloc, failed>>
      BY <2>9 DEF new_cycle_log, EmptiedStash
    <3>2. Held
      BY <3>1 DEF HolderInv
    <3>3. /\ Holds(new_decycle') = {} /\ Once(new_decycle')
          /\ Holds(derollup') = {} /\ Once(derollup')
          /\ Holds(decycle') = Holds(new_decycle) /\ Once(decycle') = Once(new_decycle)
      BY <2>b, <3>1 DEF TypeOK
    <3> DEFINE e == decycle.vals \o derollup.vals
    <3>4. /\ e \in Seq(Block) /\ Range(e) = Holds(decycle) \cup Holds(derollup)
          /\ IsInjective(e) <=> Once(decycle) /\ Once(derollup) /\ Holds(decycle) \cap Holds(derollup) = {}
      BY <2>a, ConcatRange DEF Holds, Once
    <3>5. defree'.vals = defree.vals \o e
      BY <3>1 DEF stash_values
    <3> HIDE DEF e
    <3>6. /\ Holds(defree') = Holds(defree) \cup Range(e)
          /\ Once(defree') <=> Once(defree) /\ IsInjective(e) /\ Holds(defree) \cap Range(e) = {}
      BY <2>a, <3>4, <3>5, ConcatRange DEF Holds, Once
    <3>7. StashesApart'
      BY <3>2, <3>3, <3>4, <3>6 DEF Held, StashesApart
    <3>8. Stashed' = Stashed
      BY <3>3, <3>4, <3>6 DEF Stashed
    <3> QED
      BY <3>1, <3>2, <3>7, <3>8 DEF Held, InUse
  <2>10. ASSUME NEW t \in Task, new_cycle_log_asserts(t) PROVE HolderInv'
    BY <2>10, HolderStutter DEF new_cycle_log_asserts, memory, Die
  <2>11. ASSUME NEW t \in Task, NEW b \in Block, write_bitmap(t, b) PROVE HolderInv'
    <3> SUFFICES ASSUME "bitmap" \notin failed' PROVE Held'
      BY DEF HolderInv
    <3>1. /\ b \notin bitmap /\ bitmap' = bitmap \cup {b} /\ bmloc' = b
          /\ derollup' = stash_value(derollup, bmloc)
          /\ UNCHANGED <<defree, live, nodes, leaves, decycle, new_decycle, failed>>
      BY <2>11 DEF write_bitmap, balloc, map_bfree, Die
    <3>2. Held
      BY <3>1 DEF HolderInv
    <3>3. /\ Holds(derollup') = Holds(derollup) \cup {bmloc}
          /\ Once(derollup') <=> Once(derollup) /\ bmloc \notin Holds(derollup)
      BY <2>a, <2>c, <3>1 DEF TypeOK
    <3>4. /\ Holds(defree') = Holds(defree) /\ Holds(decycle') = Holds(decycle)
          /\ Holds(new_decycle') = Holds(new_decycle)
          /\ Once(defree') = Once(defree) /\ Once(decycle') = Once(decycle)
          /\ Once(new_decycle') = Once(new_decycle)
      BY <3>1
    <3>5. StashesApart'
      BY <3>2, <3>3, <3>4 DEF Held, StashesApart, Stashed, InUse
    <3>6. Stashed' = Stashed \cup {bmloc}
      BY <3>3, <3>4 DEF Stashed
    <3> QED
      BY <3>1, <3>2, <3>5, <3>6 DEF Held, InUse
  <2>12. ASSUME NEW t \in Task, write_bitmap_enospc(t) PROVE HolderInv'
    BY <2>12 DEF write_bitmap_enospc, HolderInv
  <2>13. ASSUME NEW t \in Task, write_log(t) PROVE HolderInv'
    <3> SUFFICES ASSUME "bitmap" \notin failed' PROVE Held'
      BY DEF HolderInv
    <3>1. PICK b \in Block : /\ b \notin bitmap /\ bitmap' = bitmap \cup {b}
                             /\ new_decycle' = stash_value(new_decycle, b)
      BY <2>13 DEF write_log, balloc
    <3>0. UNCHANGED <<live, nodes, leaves, bmloc, defree, derollup, decycle, failed>>
      BY <2>13 DEF write_log
    <3>2. Held
      BY <3>0 DEF HolderInv
    <3>3. /\ Holds(new_decycle') = Holds(new_decycle) \cup {b}
          /\ Once(new_decycle') <=> Once(new_decycle) /\ b \notin Holds(new_decycle)
      BY <2>c, <3>1 DEF TypeOK
    <3>4. /\ Holds(defree') = Holds(defree) /\ Holds(decycle') = Holds(decycle)
          /\ Holds(derollup') = Holds(derollup)
          /\ Once(defree') = Once(defree) /\ Once(decycle') = Once(decycle)
          /\ Once(derollup') = Once(derollup)
      BY <3>0
    <3>5. StashesApart'
      BY <3>1, <3>2, <3>3, <3>4 DEF Held, StashesApart, Stashed
    <3>6. Stashed' = Stashed \cup {b}
      BY <3>3, <3>4 DEF Stashed
    <3> QED
      BY <3>0, <3>1, <3>2, <3>5, <3>6 DEF Held, InUse
  <2>14. ASSUME NEW t \in Task, write_log_fails(t) PROVE HolderInv'
    BY <2>14, HolderStutter DEF write_log_fails
  <2>15. ASSUME NEW t \in Task, write_log_done(t) PROVE HolderInv'
    BY <2>15, HolderStutter DEF write_log_done, memory
  <2>16. ASSUME NEW t \in Task, commit_delta(t) PROVE HolderInv'
    <3> SUFFICES ASSUME "bitmap" \notin failed' PROVE Held'
      BY DEF HolderInv
    <3>1. /\ bitmap' = bitmap \ Retired(defree.vals)
          /\ Refused(defree.vals) = {} => defree' = Unstashed(defree)
          /\ failed \subseteq failed'
          /\ UNCHANGED <<live, nodes, leaves, bmloc, derollup, decycle, new_decycle>>
      BY <2>16 DEF commit_delta
    <3>2. Held
      BY <3>1 DEF HolderInv
    <3>3. Once(defree) /\ Holds(defree) \subseteq bitmap
      BY <3>2 DEF Held, StashesApart, Stashed
    <3>4. Refused(defree.vals) = {} /\ Retired(defree.vals) = Holds(defree)
      BY <2>a, <3>3, AllRetired DEF Holds, Once
    <3>5. /\ Holds(defree') = {} /\ Once(defree')
          /\ Holds(derollup') = Holds(derollup) /\ Holds(decycle') = Holds(decycle)
          /\ Holds(new_decycle') = Holds(new_decycle) /\ Once(derollup') = Once(derollup)
          /\ Once(decycle') = Once(decycle) /\ Once(new_decycle') = Once(new_decycle)
      <4>1. defree \in Stash /\ defree' = Unstashed(defree)
        BY <3>1, <3>4 DEF TypeOK
      <4>2. Holds(defree') = {} /\ Once(defree')
        BY <2>b, <4>1
      <4> QED
        BY <3>1, <4>2
    <3>6. StashesApart'
      BY <3>2, <3>5 DEF Held, StashesApart
    <3>7. Stashed' = Stashed \ Holds(defree)
      BY <3>2, <3>5 DEF Held, StashesApart, Stashed
    <3>8. Holds(defree) \cap InUse = {}
      BY <3>2 DEF Held, Stashed
    <3> QED
      BY <3>1, <3>2, <3>4, <3>6, <3>7, <3>8 DEF Held, InUse
  <2>17. ASSUME NEW t \in Task, commit_delta_fails(t) PROVE HolderInv'
    BY <2>17, HolderStutter DEF commit_delta_fails, NotRetired
  <2>18. CASE sync_super
    BY <2>18, HolderStutter DEF sync_super, Die
  <2>19. CASE UNCHANGED vars
    BY <2>19, HolderStutter DEF vars, memory
  <2>20. ASSUME NEW t \in Task, AllocLeaf(t) PROVE HolderInv'
    <3>1. PICK b \in Block : /\ b \notin bitmap /\ bitmap' = bitmap \cup {b} /\ leaves' = leaves \cup {b}
      BY <2>20 DEF AllocLeaf, balloc
    <3>2. UNCHANGED <<live, nodes, bmloc, stashes, failed>>
      BY <2>20 DEF AllocLeaf
    <3> QED
      BY <3>1, <3>2 DEF HolderInv, Held, StashesApart, Stashed, InUse, Holds, Once, stashes
  <2>21. ASSUME NEW t \in Task, NEW b \in Block, AddChild(t, b) PROVE HolderInv'
    BY <2>21, HolderStutter DEF AddChild, memory
  <2>22. CASE sync_inodes
    BY <2>22, HolderStutter DEF sync_inodes
  <2> QED
    BY <2>1, <2>2, <2>3, <2>4, <2>5, <2>6, <2>7, <2>8, <2>9, <2>10, <2>11, <2>12, <2>13, <2>14,
       <2>15, <2>16, <2>17, <2>18, <2>19, <2>20, <2>21, <2>22 DEF Next, Commit
<1>3. TypeOK => (HolderInv <=> OneHolder)
  BY HolderIsOneHolder
<1> QED
  BY <1>1, <1>2, <1>3, TypeCorrect, PTL DEF Spec

-----------------------------------------------------------------------------
(***************************************************************************)
(* The lock and the deltas: one task commits at a time and alone, what it  *)
(* commits is the delta before count.delta, and the superblock is behind   *)
(* only while it does.                                                     *)
(***************************************************************************)
LockInv ==
  /\ \A t, u \in Task : pc[t] = "commit" /\ pc[u] \in {"commit", "in"} => t = u
  /\ \A t \in Task : pc[t] = "want" => mydelta[t] <= count.delta
  /\ \A t \in Task : pc[t] = "commit" => mydelta[t] + 1 = count.delta
  /\ failed = {} =>
       /\ (\A t \in Task : pc[t] # "commit") => super.delta = count.delta
       /\ \A t \in Task : pc[t] = "commit" => super.delta + 1 = count.delta

Returned(t) ==
  pc[t] \in {"want", "commit"} /\ pc'[t] = "out" /\ failed' = {} => super'.delta > mydelta[t]

(* What a step of the committing task that is not its last one preserves.  *)
LEMMA LockStutter ==
  ASSUME LockInv, UNCHANGED <<pc, mydelta>>, count'.delta = count.delta,
         super'.delta = super.delta, failed \subseteq failed'
  PROVE  LockInv' /\ \A t \in Task : Returned(t)
<1>1. failed' = {} => failed = {}
  OBVIOUS
<1>2. LockInv'
  BY <1>1 DEF LockInv
<1>3. \A t \in Task : Returned(t)
  BY DEF Returned
<1> QED
  BY <1>2, <1>3

(* A task that leaves the lock after a failed commit.                      *)
LEMMA LockFailed ==
  ASSUME TypeOK, LockInv, NEW t \in Task, pc' = [pc EXCEPT ![t] = "out"], UNCHANGED mydelta,
         count'.delta = count.delta, failed' # {}
  PROVE  LockInv' /\ \A u \in Task : Returned(u)
<1>1. pc \in [Task -> {"out", "in", "want", "commit"}]
  BY DEF TypeOK
<1>2. LockInv'
  BY <1>1 DEF LockInv
<1>3. \A u \in Task : Returned(u)
  BY DEF Returned
<1> QED
  BY <1>2, <1>3

(* A step keeps the lock and the deltas in order, and returns only from a  *)
(* delta that is on the device.                                            *)
LEMMA LockStep ==
  ASSUME TypeOK, LockInv, [Next]_vars
  PROVE  LockInv' /\ \A u \in Task : Returned(u)
<1> USE CommitAssumption
<1>a. /\ pc \in [Task -> {"out", "in", "want", "commit"}] /\ mydelta \in [Task -> Nat]
      /\ count \in [delta : Nat, rollup : Nat, ends : Nat, commits : Nat]
      /\ count.delta \in Nat /\ super.delta \in Nat
  BY DEF TypeOK
<1>1. ASSUME NEW t \in Task, change_begin(t) PROVE LockInv' /\ \A u \in Task : Returned(u)
  <2>1. /\ pc[t] = "out" /\ pc' = [pc EXCEPT ![t] = "in"]
        /\ \A u \in Task : pc[u] \notin {"commit", "want"}
        /\ UNCHANGED <<count, mydelta, super, failed>>
    BY <1>1 DEF change_begin
  <2>2. LockInv'
    BY <1>a, <2>1 DEF LockInv
  <2>3. \A u \in Task : Returned(u)
    BY <2>1 DEF Returned
  <2> QED
    BY <2>2, <2>3
<1>2. ASSUME NEW t \in Task, change_end(t) PROVE LockInv' /\ \A u \in Task : Returned(u)
  <2>1. /\ pc[t] = "in" /\ count'.delta = count.delta
        /\ UNCHANGED <<super, failed>>
    BY <1>2, <1>a DEF change_end
  <2>4. \/ pc' = [pc EXCEPT ![t] = "out"] /\ UNCHANGED mydelta
        \/ pc' = [pc EXCEPT ![t] = "want"] /\ mydelta' = [mydelta EXCEPT ![t] = count.delta]
    BY <1>2 DEF change_end
  <2>2. LockInv'
    BY <1>a, <2>1, <2>4 DEF LockInv
  <2>3. \A u \in Task : Returned(u)
    BY <1>a, <2>1, <2>4 DEF Returned
  <2> QED
    BY <2>2, <2>3
<1>3. ASSUME NEW t \in Task, force_delta(t) PROVE LockInv' /\ \A u \in Task : Returned(u)
  <2>1. /\ pc' = [pc EXCEPT ![t] = "commit"] /\ mydelta' = [mydelta EXCEPT ![t] = count.delta]
        /\ \A u \in Task : pc[u] \notin {"in", "commit", "want"}
        /\ count'.delta = count.delta + 1 /\ UNCHANGED <<super, failed>>
    BY <1>3, <1>a DEF force_delta
  <2>2. LockInv'
    BY <1>a, <2>1 DEF LockInv
  <2>3. \A u \in Task : Returned(u)
    BY <1>a, <2>1 DEF Returned
  <2> QED
    BY <2>2, <2>3
<1>4. ASSUME NEW t \in Task, CommitSkipped(t) PROVE LockInv' /\ \A u \in Task : Returned(u)
  <2>1. /\ pc[t] = "want" /\ pc' = [pc EXCEPT ![t] = "out"] /\ count.delta # mydelta[t]
        /\ \A u \in Task : pc[u] \notin {"in", "commit"}
        /\ UNCHANGED <<count, mydelta, super, failed>>
    BY <1>4 DEF CommitSkipped, up_write, Overtaken
  <2>2. LockInv'
    BY <1>a, <2>1 DEF LockInv
  <2>4. mydelta[t] < count.delta /\ (failed = {} => super.delta = count.delta)
    BY <1>a, <2>1 DEF LockInv
  <2>3. \A u \in Task : Returned(u)
    BY <1>a, <2>1, <2>4 DEF Returned
  <2> QED
    BY <2>2, <2>3
<1>5. ASSUME NEW t \in Task, do_commit(t) PROVE LockInv' /\ \A u \in Task : Returned(u)
  <2> DEFINE k == (count.commits + 1) % RollupEvery
  <2>1. count' = [delta |-> count.delta + 1, rollup |-> count.rollup, ends |-> count.ends,
                  commits |-> k]
    BY <1>5, <1>a, Zenon DEF do_commit
  <2>2. /\ pc[t] = "want" /\ pc' = [pc EXCEPT ![t] = "commit"] /\ count.delta = mydelta[t]
        /\ \A u \in Task : pc[u] \notin {"in", "commit"}
        /\ UNCHANGED <<mydelta, super, failed>>
    BY <1>5 DEF do_commit
  <2> HIDE DEF k
  <2>3. count'.delta = count.delta + 1
    BY <2>1
  <2>4. LockInv'
    BY <1>a, <2>2, <2>3 DEF LockInv
  <2>5. \A u \in Task : Returned(u)
    BY <1>a, <2>2, <2>3 DEF Returned
  <2> QED
    BY <2>4, <2>5
<1>6. ASSUME NEW t \in Task, AllocLogged(t) PROVE LockInv' /\ \A u \in Task : Returned(u)
  BY <1>6, LockStutter DEF AllocLogged, locks
<1>7. ASSUME NEW t \in Task, NEW op \in {"bnode_split", "bnode_root"}, AllocNode(t, op)
      PROVE  LockInv' /\ \A u \in Task : Returned(u)
  BY <1>7, LockStutter DEF AllocNode, locks
<1>8. ASSUME NEW t \in Task, NEW b \in Block, FreeNow(t, b)
      PROVE  LockInv' /\ \A u \in Task : Returned(u)
  BY <1>8, LockStutter DEF FreeNow, locks
<1>9. ASSUME NEW t \in Task, new_cycle_log(t) PROVE LockInv' /\ \A u \in Task : Returned(u)
  <2>1. count'.delta = count.delta /\ UNCHANGED <<pc, mydelta, super, failed>>
    BY <1>9, <1>a DEF new_cycle_log
  <2> QED
    BY <2>1, LockStutter
<1>10. ASSUME NEW t \in Task, new_cycle_log_asserts(t)
       PROVE  LockInv' /\ \A u \in Task : Returned(u)
  BY <1>10, LockStutter DEF new_cycle_log_asserts, locks, Die
<1>11. ASSUME NEW t \in Task, NEW b \in Block, write_bitmap(t, b)
       PROVE  LockInv' /\ \A u \in Task : Returned(u)
  <2>1. UNCHANGED <<count, pc, mydelta, super, failed>>
    BY <1>11 DEF write_bitmap, Die
  <2> QED
    BY <2>1, LockStutter
<1>12. ASSUME NEW t \in Task, write_bitmap_enospc(t)
       PROVE  LockInv' /\ \A u \in Task : Returned(u)
  <2>1. /\ pc' = [pc EXCEPT ![t] = "out"] /\ UNCHANGED <<mydelta, count>>
        /\ failed' = failed \cup {"bitmap"}
    BY <1>12 DEF write_bitmap_enospc
  <2> QED
    BY <2>1, LockFailed
<1>13. ASSUME NEW t \in Task, write_log(t) PROVE LockInv' /\ \A u \in Task : Returned(u)
  BY <1>13, LockStutter DEF write_log
<1>14. ASSUME NEW t \in Task, write_log_fails(t) PROVE LockInv' /\ \A u \in Task : Returned(u)
  BY <1>14, LockStutter DEF write_log_fails
<1>15. ASSUME NEW t \in Task, write_log_done(t) PROVE LockInv' /\ \A u \in Task : Returned(u)
  BY <1>15, LockStutter DEF write_log_done
<1>16. ASSUME NEW t \in Task, commit_delta(t) PROVE LockInv' /\ \A u \in Task : Returned(u)
  <2>1. /\ pc[t] = "commit" /\ pc' = [pc EXCEPT ![t] = "out"] /\ UNCHANGED <<mydelta, count>>
        /\ super'.delta = count.delta /\ failed \subseteq failed'
    BY <1>16 DEF commit_delta
  <2>2. \A u \in Task : pc[u] = "commit" => u = t
    BY <2>1 DEF LockInv
  <2>3. LockInv'
    BY <1>a, <2>1, <2>2 DEF LockInv
  <2>4. mydelta[t] < count.delta
    BY <1>a, <2>1 DEF LockInv
  <2>5. \A u \in Task : Returned(u)
    BY <1>a, <2>1, <2>4 DEF Returned
  <2> QED
    BY <2>3, <2>5
<1>17. ASSUME NEW t \in Task, commit_delta_fails(t)
       PROVE  LockInv' /\ \A u \in Task : Returned(u)
  <2>1. /\ pc' = [pc EXCEPT ![t] = "out"] /\ UNCHANGED <<mydelta, count>>
        /\ failed' = failed \cup {"super"}
    BY <1>17 DEF commit_delta_fails
  <2> QED
    BY <2>1, LockFailed
<1>18. CASE sync_super
  <2>1. /\ super \in [chain : Block \cup {NoBlock}, logcount : Nat, next_logcount : Nat,
                      used : SUBSET Block, maps : SUBSET Block, base : Nat, delta : Nat]
    BY DEF TypeOK
  <2>2. \/ super' = [super EXCEPT !.chain = NoBlock, !.used = live \cup nodes \cup {bmloc},
                                  !.maps = {bmloc}, !.base = 0]
        \/ super' = super
    BY <1>18 DEF sync_super
  <2>3. super'.delta = super.delta
    BY <2>1, <2>2, Zenon
  <2>4. UNCHANGED <<pc, mydelta, count>> /\ failed \subseteq failed'
    BY <1>18 DEF sync_super, Die
  <2> QED
    BY <2>3, <2>4, LockStutter
<1>19. CASE UNCHANGED vars
  BY <1>19, LockStutter DEF vars, locks
<1>20. ASSUME NEW t \in Task, AllocLeaf(t) PROVE LockInv' /\ \A u \in Task : Returned(u)
  BY <1>20, LockStutter DEF AllocLeaf, locks
<1>21. ASSUME NEW t \in Task, NEW b \in Block, AddChild(t, b)
       PROVE  LockInv' /\ \A u \in Task : Returned(u)
  BY <1>21, LockStutter DEF AddChild, locks
<1>22. CASE sync_inodes
  BY <1>22, LockStutter DEF sync_inodes
<1> QED
  BY <1>1, <1>2, <1>3, <1>4, <1>5, <1>6, <1>7, <1>8, <1>9, <1>10, <1>11, <1>12, <1>13, <1>14,
     <1>15, <1>16, <1>17, <1>18, <1>19, <1>20, <1>21, <1>22 DEF Next, Commit

(* One task commits at a time, alone, and the delta before count.delta.    *)
LEMMA LockHolds == Spec => []LockInv
<1>1. Init => LockInv
  <2> SUFFICES ASSUME Init PROVE LockInv
    OBVIOUS
  <2>1. pc = [t \in Task |-> "out"] /\ count.delta = 0 /\ super.delta = 0
    BY DEF Init
  <2> QED
    BY <2>1 DEF LockInv
<1>2. TypeOK /\ LockInv /\ [Next]_vars => LockInv'
  BY LockStep
<1> QED
  BY <1>1, <1>2, TypeCorrect, PTL DEF Spec

(* When change_end returns from the end of a delta, and every commit so    *)
(* far has succeeded, the superblock on the device has that delta or a     *)
(* later one, whoever has committed it.                                    *)
THEOREM CommittedCorrect == Spec => CommittedOnReturn
<1>1. TypeOK /\ LockInv /\ [Next]_vars => [\A t \in Task : Returned(t)]_vars
  BY LockStep
<1>2. (\A t \in Task : Returned(t)) =>
        \A t \in Task : pc[t] \in {"want", "commit"} /\ pc'[t] = "out" /\ failed' = {} =>
                          super'.delta > mydelta[t]
  BY DEF Returned
<1> QED
  BY <1>1, <1>2, TypeCorrect, LockHolds, PTL DEF Spec, CommittedOnReturn

-----------------------------------------------------------------------------
(***************************************************************************)
(* Chains of log blocks.  p gives the places of the log blocks lo..hi on   *)
(* the device d: each is a log block with its index, names the one before  *)
(* it, and lies in the set s; the last one is at tip.                      *)
(***************************************************************************)
IsChain(p, d, lo, hi, tip, s) ==
  /\ lo <= hi => p[hi] = tip
  /\ \A i \in lo..hi :
       /\ p[i] \in s
       /\ d[p[i]].kind = "log" /\ d[p[i]].index = i
       /\ i > lo => d[p[i]].chain = p[i - 1]

SamePlaces(p, q, lo, hi) == \A i \in lo..hi : q[i] = p[i]

(* A chain with no block asks for nothing.                                 *)
LEMMA ChainEmpty ==
  ASSUME NEW p, NEW d, NEW lo \in Int, NEW hi \in Int, NEW tip, NEW s, hi < lo
  PROVE  IsChain(p, d, lo, hi, tip, s)
BY DEF IsChain

(* A chain survives what happens to the device outside its set.            *)
LEMMA ChainKept ==
  ASSUME NEW p, NEW d, NEW e, NEW lo \in Int, NEW hi \in Int, NEW tip, NEW s, NEW r,
         IsChain(p, d, lo, hi, tip, s), s \subseteq r, \A b \in s : e[b] = d[b]
  PROVE  IsChain(p, e, lo, hi, tip, r)
BY DEF IsChain

(* The next log block, chained to the tip and written to a place outside   *)
(* the set, makes a longer chain.                                          *)
LEMMA ChainGrows ==
  ASSUME NEW p, NEW d, NEW e, NEW lo \in Int, NEW hi \in Int, NEW tip, NEW s, NEW r, NEW b,
         IsChain(p, d, lo, hi, tip, s), s \subseteq r, b \in r,
         \A c \in s : e[c] = d[c],
         e[b].kind = "log", e[b].index = hi + 1, e[b].chain = tip
  PROVE  \E q : IsChain(q, e, lo, hi + 1, b, r) /\ SamePlaces(p, q, lo, hi)
<1> DEFINE q == [i \in lo..(hi + 1) |-> IF i = hi + 1 THEN b ELSE p[i]]
<1>1. lo <= hi + 1 => q[hi + 1] = b
  OBVIOUS
<1>2. \A i \in lo..hi : i \in lo..(hi + 1) /\ i # hi + 1 /\ q[i] = p[i]
  OBVIOUS
<1> HIDE DEF q
<1>3. ASSUME NEW i \in lo..hi
      PROVE  /\ q[i] \in r
             /\ e[q[i]].kind = "log" /\ e[q[i]].index = i
             /\ i > lo => e[q[i]].chain = q[i - 1]
  <2>1. i > lo => i - 1 \in lo..hi
    OBVIOUS
  <2>2. q[i] = p[i] /\ (i > lo => q[i - 1] = p[i - 1])
    BY <1>2, <2>1
  <2>3. p[i] \in s /\ d[p[i]].kind = "log" /\ d[p[i]].index = i /\ (i > lo => d[p[i]].chain = p[i - 1])
    BY DEF IsChain
  <2> QED
    BY <2>2, <2>3
<1>4. ASSUME lo <= hi + 1
      PROVE  /\ q[hi + 1] \in r
             /\ e[q[hi + 1]].kind = "log" /\ e[q[hi + 1]].index = hi + 1
             /\ hi + 1 > lo => e[q[hi + 1]].chain = q[(hi + 1) - 1]
  <2>1. ASSUME hi + 1 > lo PROVE q[(hi + 1) - 1] = tip
    <3>1. hi \in lo..hi /\ (hi + 1) - 1 = hi /\ lo <= hi
      BY <2>1
    <3>2. q[hi] = p[hi] /\ p[hi] = tip
      BY <1>2, <3>1 DEF IsChain
    <3> QED
      BY <3>1, <3>2
  <2> QED
    BY <1>1, <1>4, <2>1
<1>5. \A i \in lo..(hi + 1) : i \in lo..hi \/ (i = hi + 1 /\ lo <= hi + 1)
  OBVIOUS
<1>6. \A i \in lo..(hi + 1) :
         /\ q[i] \in r
         /\ e[q[i]].kind = "log" /\ e[q[i]].index = i
         /\ i > lo => e[q[i]].chain = q[i - 1]
  BY <1>3, <1>4, <1>5
<1>7. IsChain(q, e, lo, hi + 1, b, r)
  BY <1>1, <1>6 DEF IsChain
<1>8. SamePlaces(p, q, lo, hi)
  BY <1>2 DEF SamePlaces
<1> QED
  BY <1>7, <1>8

(* Following a chain of at least one block back from its tip finds its     *)
(* blocks, newest first.                                                   *)
LEMMA ChainFollowed ==
  ASSUME NEW p, TypeOK,
         IsChain(p, disk, super.base, super.base + super.logcount - 1, super.chain, Block),
         NEW k \in 0..(super.logcount - 1)
  PROVE  ChainAt(k) = p[super.base + super.logcount - 1 - k]
<1> DEFINE last == super.base + super.logcount - 1
           Step(f, j) == IF j = 0 THEN super.chain
                         ELSE IF f[j - 1] = NoBlock THEN NoBlock ELSE disk[f[j - 1]].chain
           At == CHOOSE f : f = [j \in 0..k |-> Step(f, j)]
           g == [j \in 0..k |-> p[last - j]]
<1>1. super.base \in Nat /\ super.logcount \in Nat
  BY DEF TypeOK
<1>2. /\ last \in Int /\ last >= super.base /\ k \in Nat
      /\ \A j \in 0..k : last - j \in super.base..last
      /\ \A j \in 1..k : last - (j - 1) \in super.base..last /\ last - (j - 1) > super.base
                         /\ (last - (j - 1)) - 1 = last - j /\ j - 1 \in 0..k /\ j # 0
      /\ \A j \in 0..k : j = 0 \/ j \in 1..k
      /\ last - 0 = last /\ 0 \in 0..k /\ k \in 0..k
  BY <1>1
<1>3. p[last] = super.chain
  BY <1>2 DEF IsChain
<1>4. \A i \in super.base..last :
        p[i] \in Block /\ (i > super.base => disk[p[i]].chain = p[i - 1])
  BY DEF IsChain
<1> HIDE DEF last
<1>5. \A b \in Block : b # NoBlock
  BY DEF Block, NoBlock
<1>6. g[0] = super.chain
  BY <1>2, <1>3
<1>7. ASSUME NEW j \in 1..k PROVE g[j] = Step(g, j)
  <2>1. g[j - 1] = p[last - (j - 1)] /\ g[j] = p[last - j]
    BY <1>2
  <2>2. g[j - 1] # NoBlock /\ disk[g[j - 1]].chain = g[j]
    BY <1>2, <1>4, <1>5, <2>1
  <2> QED
    BY <1>2, <2>2
<1>8. g = [j \in 0..k |-> Step(g, j)]
  <2>1. \A j \in 0..k : g[j] = Step(g, j)
    BY <1>2, <1>6, <1>7
  <2> QED
    BY <2>1
<1>9. At = [j \in 0..k |-> Step(At, j)]
  <2> HIDE DEF Step, g
  <2> QED
    BY <1>8
<1>10. 0..k \subseteq {j \in Nat : At[j] = g[j]}
  <2> DEFINE S == {j \in Nat : At[j] = g[j]}
  <2> HIDE DEF At, g
  <2>1. 0 \in S
    BY <1>2, <1>6, <1>9
  <2>2. ASSUME NEW j \in 0..(k - 1), j \in S PROVE j + 1 \in S
    <3>1. j + 1 \in 1..k /\ j + 1 \in 0..k /\ (j + 1) - 1 = j /\ j + 1 \in Nat
      BY <1>2
    <3>2. At[j + 1] = Step(At, j + 1)
      <4> HIDE DEF Step
      <4> QED
        BY <1>9, <3>1
    <3>3. g[j + 1] = Step(g, j + 1)
      <4> HIDE DEF Step
      <4> QED
        BY <1>7, <3>1
    <3>4. At[(j + 1) - 1] = g[(j + 1) - 1]
      BY <2>2, <3>1
    <3> QED
      BY <3>1, <3>2, <3>3, <3>4
  <2> HIDE DEF S
  <2>3. 0..k \subseteq S
    BY <1>2, <2>1, <2>2, BoundedInduction
  <2> QED
    BY <2>3 DEF S
<1>11. ChainAt(k) = At[k]
  BY DEF ChainAt
<1>12. g[k] = p[last - k]
  BY <1>2
<1> HIDE DEF At, g
<1>13. At[k] = g[k]
  BY <1>2, <1>10
<1>14. ChainAt(k) = p[last - k]
  BY <1>11, <1>12, <1>13
<1>15. last - k = super.base + super.logcount - 1 - k
  BY <1>1 DEF last
<1> QED
  BY <1>14, <1>15

-----------------------------------------------------------------------------
(***************************************************************************)
(* Where a commit is: only while a task holds the lock for it, and past    *)
(* the log only when every pending block has been written.  sync_super     *)
(* runs alone, and its first half leaves the bitmap buffer clean.          *)
(***************************************************************************)
Stages ==
  /\ stage.at \notin {"idle", "sync"} => \E t \in Task : pc[t] = "commit"
  /\ stage.at = "sync" => ~bm.listed /\ \A t \in Task : pc[t] = "out"
  /\ stage.at # "log" => stage.done = 0
  /\ stage.at = "super" /\ "log" \notin failed => pend = <<>>

(* While a change runs, or a task waits to commit alone, no commit is      *)
(* under way; and no task does anything beside sync_super.                 *)
LEMMA NoCommitMeanwhile ==
  ASSUME LockInv, Stages
  PROVE  /\ (\E t \in Task : pc[t] = "in") => stage.at = "idle" /\ stage.done = 0
         /\ (\A t \in Task : pc[t] # "commit") => stage.at \in {"idle", "sync"} /\ stage.done = 0
         /\ \A t \in Task : pc[t] \in {"in", "want", "commit"} => stage.at # "sync"
<1>1. ASSUME NEW t \in Task, pc[t] = "in", NEW u \in Task, pc[u] = "commit" PROVE FALSE
  BY <1>1 DEF LockInv
<1>2. \A t \in Task : pc[t] \in {"in", "want", "commit"} => stage.at # "sync"
  BY DEF Stages
<1> QED
  BY <1>1, <1>2 DEF Stages

(* A step that neither takes nor leaves the lock for a commit.             *)
LEMMA StageStutter ==
  ASSUME Stages, UNCHANGED stage, stage.at = "super" => UNCHANGED pend, failed \subseteq failed',
         stage.at # "sync",
         \A t \in Task : pc[t] = "commit" => pc'[t] = "commit"
  PROVE  Stages'
BY DEF Stages

(* A commit that is over.                                                  *)
LEMMA StageIdle ==
  ASSUME stage' = [at |-> "idle", done |-> 0]
  PROVE  Stages'
BY DEF Stages

(* Every step keeps what the stages of a commit say of the log.            *)
LEMMA StageStep ==
  ASSUME TypeInv, LockInv, Stages, [Next]_vars
  PROVE  Stages'
<1> USE CommitAssumption
<1>a. /\ pc \in [Task -> {"out", "in", "want", "commit"}]
      /\ stage \in [at : {"idle", "rollup", "bitmap", "log", "super", "sync"}, done : Nat]
  BY DEF TypeInv, TypeOK
<1>1. ASSUME NEW t \in Task, change_begin(t) PROVE Stages'
  <2>1. UNCHANGED <<stage, pend, failed>> /\ stage.at # "sync" /\ \A u \in Task : pc[u] # "commit"
    BY <1>1 DEF change_begin, logs
  <2> QED
    BY <2>1, StageStutter
<1>2. ASSUME NEW t \in Task, change_end(t) PROVE Stages'
  <2>1. UNCHANGED <<stage, pend, failed>> /\ pc[t] = "in"
    BY <1>2 DEF change_end, logs
  <2>2. \A u \in Task : pc[u] = "commit" => pc'[u] = "commit"
    BY <1>2, <1>a DEF change_end
  <2> QED
    BY <2>1, <2>2, NoCommitMeanwhile, StageStutter
<1>3. ASSUME NEW t \in Task, force_delta(t) PROVE Stages'
  <2>1. stage' = [at |-> "log", done |-> 0] /\ pc' = [pc EXCEPT ![t] = "commit"]
    BY <1>3 DEF force_delta
  <2> QED
    BY <1>a, <2>1 DEF Stages
<1>4. ASSUME NEW t \in Task, CommitSkipped(t) PROVE Stages'
  <2>1. UNCHANGED <<stage, pend, failed>> /\ pc[t] = "want" /\ \A u \in Task : pc[u] # "commit"
    BY <1>4 DEF CommitSkipped, logs
  <2> QED
    BY <2>1, NoCommitMeanwhile, StageStutter
<1>5. ASSUME NEW t \in Task, do_commit(t) PROVE Stages'
  <2>1. /\ \/ stage' = [at |-> "log", done |-> 0]
           \/ stage' = [at |-> "rollup", done |-> 0]
        /\ pc' = [pc EXCEPT ![t] = "commit"]
    BY <1>5, Zenon DEF do_commit
  <2> QED
    BY <1>a, <2>1 DEF Stages
<1>6. ASSUME NEW t \in Task, AllocLogged(t) PROVE Stages'
  <2>1. UNCHANGED <<stage, pc, failed>> /\ stage.at = "idle"
    BY <1>6, NoCommitMeanwhile DEF AllocLogged, locks
  <2> QED
    BY <2>1, StageStutter
<1>7. ASSUME NEW t \in Task, NEW op \in {"bnode_split", "bnode_root"}, AllocNode(t, op)
      PROVE  Stages'
  <2>1. UNCHANGED <<stage, pc, failed>> /\ stage.at = "idle"
    BY <1>7, NoCommitMeanwhile DEF AllocNode, locks
  <2> QED
    BY <2>1, StageStutter
<1>8. ASSUME NEW t \in Task, NEW b \in Block, FreeNow(t, b) PROVE Stages'
  BY <1>8, NoCommitMeanwhile, StageStutter DEF FreeNow, locks, logs
<1>9. ASSUME NEW t \in Task, new_cycle_log(t) PROVE Stages'
  <2>1. /\ \/ stage' = [at |-> "log", done |-> 0]
           \/ stage' = [at |-> "bitmap", done |-> 0]
        /\ UNCHANGED pc /\ pc[t] = "commit"
    BY <1>9 DEF new_cycle_log
  <2> QED
    BY <2>1 DEF Stages
<1>10. ASSUME NEW t \in Task, new_cycle_log_asserts(t) PROVE Stages'
  BY <1>10, NoCommitMeanwhile, StageStutter DEF new_cycle_log_asserts, locks, logs, Die
<1>11. ASSUME NEW t \in Task, NEW b \in Block, write_bitmap(t, b) PROVE Stages'
  <2>1. /\ pc[t] = "commit" /\ stage.at = "bitmap"
        /\ UNCHANGED <<pc, failed>>
        /\ \/ stage' = [at |-> "log", done |-> 0]
           \/ UNCHANGED stage
    BY <1>11 DEF write_bitmap, Die
  <2> QED
    BY <2>1 DEF Stages
<1>12. ASSUME NEW t \in Task, write_bitmap_enospc(t) PROVE Stages'
  BY <1>12, StageIdle DEF write_bitmap_enospc
<1>13. ASSUME NEW t \in Task, write_log(t) PROVE Stages'
  <2>1. /\ pc[t] = "commit" /\ stage.at = "log" /\ UNCHANGED pc
        /\ stage' = [stage EXCEPT !.done = @ + 1]
    BY <1>13 DEF write_log
  <2> QED
    BY <1>a, <2>1 DEF Stages
<1>14. ASSUME NEW t \in Task, write_log_fails(t) PROVE Stages'
  <2>1. /\ pc[t] = "commit" /\ UNCHANGED pc /\ stage' = [at |-> "super", done |-> 0]
        /\ "log" \in failed'
    BY <1>14 DEF write_log_fails
  <2> QED
    BY <2>1 DEF Stages
<1>15. ASSUME NEW t \in Task, write_log_done(t) PROVE Stages'
  <2>1. /\ pc[t] = "commit" /\ UNCHANGED pc /\ stage' = [at |-> "super", done |-> 0]
        /\ pend' = <<>>
    BY <1>15 DEF write_log_done
  <2> QED
    BY <2>1 DEF Stages
<1>16. ASSUME NEW t \in Task, commit_delta(t) PROVE Stages'
  BY <1>16, StageIdle DEF commit_delta
<1>17. ASSUME NEW t \in Task, commit_delta_fails(t) PROVE Stages'
  BY <1>17, StageIdle DEF commit_delta_fails
<1>18. CASE sync_super
  BY <1>18, StageIdle DEF sync_super
<1>19. CASE UNCHANGED vars
  BY <1>19 DEF vars, locks, logs, memory, Stages
<1>20. ASSUME NEW t \in Task, AllocLeaf(t) PROVE Stages'
  <2>1. UNCHANGED <<stage, pc, failed>> /\ stage.at = "idle"
    BY <1>20, NoCommitMeanwhile DEF AllocLeaf, locks
  <2> QED
    BY <2>1, StageStutter
<1>21. ASSUME NEW t \in Task, NEW b \in Block, AddChild(t, b) PROVE Stages'
  <2>1. UNCHANGED <<stage, pc, failed>> /\ stage.at = "idle"
    BY <1>21, NoCommitMeanwhile DEF AddChild, locks
  <2> QED
    BY <2>1, StageStutter
<1>22. CASE sync_inodes
  <2>1. /\ stage' = [at |-> "sync", done |-> 0] /\ UNCHANGED pc
        /\ \A t \in Task : pc[t] = "out"
        /\ bm' = IF bm.listed THEN [state |-> Clean, listed |-> FALSE] ELSE bm
        /\ bm.listed \in BOOLEAN
    BY <1>22 DEF sync_inodes, TypeInv, TypeOK
  <2> QED
    BY <2>1 DEF Stages
<1> QED
  BY <1>1, <1>2, <1>3, <1>4, <1>5, <1>6, <1>7, <1>8, <1>9, <1>10, <1>11, <1>12, <1>13, <1>14,
     <1>15, <1>16, <1>17, <1>18, <1>19, <1>20, <1>21, <1>22 DEF Next, Commit

(* The stage is in step with the lock and the log in every state.          *)
LEMMA StagesHold == Spec => [](TypeInv /\ HolderInv /\ LockInv /\ Stages)
<1>1. Init => Stages
  BY DEF Init, Stages
<1>2. TypeInv /\ LockInv /\ Stages /\ [Next]_vars => Stages'
  BY StageStep
<1>3. TypeOK /\ LogNumbers => TypeInv
  BY DEF TypeInv
<1>4. TypeOK /\ OneHolder => HolderInv
  BY HolderIsOneHolder
<1> QED
  BY <1>1, <1>2, <1>3, <1>4, TypeCorrect, LockHolds, OneHolderCorrect, PTL DEF Spec

-----------------------------------------------------------------------------
(***************************************************************************)
(* The two chains.  The committed one starts at the superblock and may     *)
(* have blocks in any stash: what is retired at a commit belongs to a      *)
(* chain that this very commit has left behind.  The one in memory ends at *)
(* logchain; what it has from logbase on is in decycle and new_decycle,    *)
(* and what it has from next_logbase on is in new_decycle, so that a       *)
(* rollup, which gives decycle to defree, also moves logbase past those    *)
(* blocks.                                                                 *)
(***************************************************************************)
Committed ==
  \E p : IsChain(p, disk, super.base, super.base + super.logcount - 1, super.chain, Stashed)

Written == log.this + stage.done - 1

LogChain(lo, s) == \E p : IsChain(p, disk, lo, Written, log.chain, s)

InMemory ==
  /\ LogChain(log.base, Holds(decycle) \cup Holds(new_decycle))
  /\ LogChain(log.nbase, Holds(new_decycle))

Unharmed == "bitmap" \notin failed /\ "log" \notin failed /\ "sync" \notin failed

Paged(s) == s.vals # <<>> => s.page

Pages == Paged(defree) /\ Paged(derollup) /\ Paged(decycle) /\ Paged(new_decycle)

Chains == Pages /\ (Unharmed => Committed /\ InMemory)

(* The bounds of the chains are numbers.                                   *)
LEMMA ChainBounds ==
  ASSUME TypeOK
  PROVE  /\ super.base \in Int /\ super.base + super.logcount - 1 \in Int
         /\ super.base \in Nat /\ super.logcount \in Nat
         /\ log.base \in Int /\ log.nbase \in Int /\ Written \in Int
         /\ log.this \in Nat /\ stage.done \in Nat /\ log.next \in Nat
<1>1. super.base \in Nat /\ super.logcount \in Nat
  BY Zenon DEF TypeOK
<1>2. log.base \in Nat /\ log.nbase \in Nat /\ log.this \in Nat /\ log.next \in Nat
  BY Zenon DEF TypeOK
<1>3. stage.done \in Nat
  BY Zenon DEF TypeOK
<1> QED
  BY <1>1, <1>2, <1>3 DEF Written

(* The committed chain survives what happens to the device outside the     *)
(* stashes, as long as its blocks stay in them.                            *)
LEMMA CommittedKept ==
  ASSUME TypeOK, Committed, UNCHANGED super, Stashed \subseteq Stashed',
         \A b \in Stashed : disk'[b] = disk[b]
  PROVE  Committed'
<1>1. PICK p : IsChain(p, disk, super.base, super.base + super.logcount - 1, super.chain, Stashed)
  BY DEF Committed
<1>2. IsChain(p, disk', super.base, super.base + super.logcount - 1, super.chain, Stashed')
  BY <1>1, ChainKept, ChainBounds
<1> QED
  BY <1>2 DEF Committed

(* And so does the one in memory.                                          *)
LEMMA InMemoryKept ==
  ASSUME TypeOK, InMemory, Written' = Written, log'.base = log.base, log'.nbase = log.nbase,
         log'.chain = log.chain, UNCHANGED <<decycle, new_decycle>>,
         \A b \in Stashed : disk'[b] = disk[b]
  PROVE  InMemory'
<1> DEFINE s == Holds(decycle) \cup Holds(new_decycle)
<1>1. s \subseteq Stashed /\ Holds(new_decycle) \subseteq Stashed
  BY DEF Stashed
<1>2. PICK p : IsChain(p, disk, log.base, Written, log.chain, s)
  BY DEF InMemory, LogChain
<1>3. PICK q : IsChain(q, disk, log.nbase, Written, log.chain, Holds(new_decycle))
  BY DEF InMemory, LogChain
<1>4. \A b \in s : disk'[b] = disk[b]
  BY <1>1
<1>5. \A b \in Holds(new_decycle) : disk'[b] = disk[b]
  BY <1>1
<1> HIDE DEF s
<1>6. IsChain(p, disk', log.base, Written, log.chain, s)
  BY <1>2, <1>4, ChainKept, ChainBounds
<1>7. IsChain(q, disk', log.nbase, Written, log.chain, Holds(new_decycle))
  BY <1>3, <1>5, ChainKept, ChainBounds
<1>8. Holds(new_decycle)' = Holds(new_decycle) /\ s' = s
  BY DEF Holds, s
<1> QED
  BY <1>6, <1>7, <1>8 DEF InMemory, LogChain, s

(* A step that writes no log block and leaves the superblock alone.        *)
LEMMA ChainsStutter ==
  ASSUME TypeOK, Chains, UNCHANGED super, Written' = Written, log'.base = log.base,
         log'.nbase = log.nbase, log'.chain = log.chain, UNCHANGED <<decycle, new_decycle>>,
         Stashed \subseteq Stashed', \A b \in Stashed : disk'[b] = disk[b],
         failed \subseteq failed', Pages'
  PROVE  Chains'
<1>1. Unharmed' => Unharmed
  BY DEF Unharmed
<1> QED
  BY <1>1, CommittedKept, InMemoryKept DEF Chains

(* In particular one that leaves the log, the stashes and the device.      *)
LEMMA ChainsUnchanged ==
  ASSUME TypeOK, Chains, UNCHANGED <<super, log, stashes, disk>>, failed \subseteq failed',
         stage'.done = stage.done
  PROVE  Chains'
<1>1. Written' = Written /\ Stashed' = Stashed /\ Pages'
  BY DEF Written, Stashed, Holds, stashes, Pages, Paged, Chains
<1>2. UNCHANGED <<decycle, new_decycle>>
  BY DEF stashes
<1> QED
  BY <1>1, <1>2, ChainsStutter

(* Data written to a free block, or the bitmap to its place, misses every  *)
(* chain.                                                                  *)
LEMMA FreshBlock ==
  ASSUME TypeOK, HolderInv, Unharmed, NEW b \in Block, b \notin bitmap \/ b = bmloc, NEW c,
         disk' = [disk EXCEPT ![b] = c]
  PROVE  \A a \in Stashed : disk'[a] = disk[a]
<1>1. b \notin Stashed /\ Stashed \subseteq bitmap
  BY DEF Unharmed, HolderInv, Held, InUse
<1>2. disk \in [Block -> Content] /\ bitmap \subseteq Block
  BY DEF TypeOK
<1> QED
  BY <1>1, <1>2

(* A step of the commit or of a change keeps both chains.                  *)
LEMMA ChainsStep ==
  ASSUME TypeInv, TypeInv', HolderInv, LockInv, Stages, Chains, [Next]_vars
  PROVE  Chains'
<1> USE CommitAssumption
<1>a. /\ TypeOK /\ stage \in [at : {"idle", "rollup", "bitmap", "log", "super", "sync"}, done : Nat]
      /\ log \in LogType /\ disk \in [Block -> Content] /\ bitmap \subseteq Block
      /\ defree \in Stash /\ derollup \in Stash /\ decycle \in Stash /\ new_decycle \in Stash
  BY DEF TypeInv, TypeOK, LogType
<1>1. ASSUME NEW t \in Task, change_begin(t) PROVE Chains'
  BY <1>1, <1>a, ChainsUnchanged DEF change_begin, logs
<1>2. ASSUME NEW t \in Task, change_end(t) PROVE Chains'
  BY <1>2, <1>a, ChainsUnchanged DEF change_end, logs
<1>3. ASSUME NEW t \in Task, force_delta(t) PROVE Chains'
  <2>1. /\ stage'.done = 0 /\ UNCHANGED <<super, log, stashes, disk, failed>>
        /\ \A u \in Task : pc[u] # "commit"
    BY <1>3 DEF force_delta, logs
  <2>2. stage.done = 0
    BY <2>1, NoCommitMeanwhile
  <2> QED
    BY <1>a, <2>1, <2>2, ChainsUnchanged
<1>4. ASSUME NEW t \in Task, CommitSkipped(t) PROVE Chains'
  BY <1>4, <1>a, ChainsUnchanged DEF CommitSkipped, logs
<1>5. ASSUME NEW t \in Task, do_commit(t) PROVE Chains'
  <2>1. /\ stage'.done = 0 /\ UNCHANGED <<super, log, stashes, disk, failed>>
        /\ \A u \in Task : pc[u] # "commit"
    BY <1>5 DEF do_commit, logs
  <2>2. stage.done = 0
    BY <2>1, NoCommitMeanwhile
  <2> QED
    BY <1>a, <2>1, <2>2, ChainsUnchanged
<1>6. ASSUME NEW b \in Block, b \notin bitmap, disk' = [disk EXCEPT ![b] = Data],
             UNCHANGED <<stashes, stage, super, failed>>,
             log' = [log EXCEPT !.next = log'.next]
      PROVE  Chains'
  <2>1. Pages' /\ Stashed' = Stashed /\ (Unharmed' <=> Unharmed)
    BY <1>6 DEF Chains, Pages, Paged, Stashed, Holds, Unharmed, stashes
  <2>2. /\ log'.this = log.this /\ log'.base = log.base /\ log'.nbase = log.nbase
        /\ log'.chain = log.chain
    BY <1>6, <1>a DEF LogType
  <2>3. Written' = Written
    BY <1>6, <2>2 DEF Written
  <2>4. CASE ~Unharmed'
    BY <2>1, <2>4 DEF Chains
  <2>5. CASE Unharmed'
    <3>1. \A a \in Stashed : disk'[a] = disk[a]
      BY <1>6, <1>a, <2>1, <2>5, FreshBlock
    <3>2. UNCHANGED <<decycle, new_decycle, super, failed>>
      BY <1>6 DEF stashes
    <3> QED
      BY <1>a, <2>1, <2>2, <2>3, <3>1, <3>2, ChainsStutter
  <2> QED
    BY <2>4, <2>5
<1>7. ASSUME NEW t \in Task, AllocLogged(t) PROVE Chains'
  <2>1. PICK b \in Block : /\ b \notin bitmap /\ disk' = [disk EXCEPT ![b] = Data]
                           /\ Logged(<<Entry("balloc", b)>>)
    BY <1>7 DEF AllocLogged, balloc
  <2>2. <<Entry("balloc", b)>> \in Entries
    BY DEF Entries, Entry, Ops
  <2>3. log' = [log EXCEPT !.next = log'.next]
    BY <2>1, <2>2, LoggedType
  <2>4. UNCHANGED <<stashes, stage, super, failed>>
    BY <1>7 DEF AllocLogged, locks
  <2> QED
    BY <1>6, <2>1, <2>3, <2>4
<1>8. ASSUME NEW t \in Task, NEW op \in {"bnode_split", "bnode_root"}, AllocNode(t, op)
      PROVE  Chains'
  <2>1. PICK b \in Block : /\ b \notin bitmap /\ disk' = [disk EXCEPT ![b] = Data]
                           /\ Logged(<<Entry(op, b)>>)
    BY <1>8 DEF AllocNode, balloc
  <2>2. <<Entry(op, b)>> \in Entries
    BY DEF Entries, Entry, Ops
  <2>3. log' = [log EXCEPT !.next = log'.next]
    BY <2>1, <2>2, LoggedType
  <2>4. UNCHANGED <<stashes, stage, super, failed>>
    BY <1>8 DEF AllocNode, locks
  <2> QED
    BY <1>6, <2>1, <2>3, <2>4
<1>9. ASSUME NEW t \in Task, NEW b \in Block, FreeNow(t, b) PROVE Chains'
  BY <1>9, <1>a, ChainsUnchanged DEF FreeNow, logs, locks
<1>10. ASSUME NEW t \in Task, new_cycle_log(t) PROVE Chains'
  <2>1. /\ stage.at = "rollup" /\ stage'.done = 0 /\ UNCHANGED <<disk, super, failed>>
        /\ defree' = stash_values(defree, decycle.vals \o derollup.vals)
        /\ decycle' = new_decycle /\ new_decycle' = Unstashed(decycle)
        /\ derollup' = Unstashed(derollup)
    BY <1>10 DEF new_cycle_log, EmptiedStash
  <2> DEFINE n == log.this + Len(pend')
  <2>2. log' = [base |-> log.nbase, nbase |-> log.next, this |-> log.this, next |-> n,
                chain |-> log.chain]
    <3>1. log' = [log EXCEPT !.base = log.nbase, !.nbase = log.next, !.next = n]
      BY <1>10 DEF new_cycle_log, NextLogbase
    <3> HIDE DEF n
    <3> QED
      BY <1>a, <3>1, Zenon DEF LogType
  <2> HIDE DEF n
  <2>3. Written = log.this - 1 /\ Written' = Written /\ Written \in Int /\ Written < log.next
    <3>1. stage.done = 0
      BY <2>1 DEF Stages
    <3>2. log.this \in Nat /\ log.next \in Nat /\ Len(pend) \in Nat /\ log.next = log.this + Len(pend)
      BY <1>a, LenProperties DEF TypeInv, TypeOK, LogNumbers, LogType
    <3> QED
      BY <2>1, <2>2, <3>1, <3>2 DEF Written
  <2> DEFINE e == decycle.vals \o derollup.vals
  <2>4. /\ e \in Seq(Block) /\ Range(e) = Holds(decycle) \cup Holds(derollup)
        /\ (e = <<>> => Range(e) = {}) /\ defree.vals \in Seq(Block)
    <3>1. decycle.vals \in Seq(Block) /\ derollup.vals \in Seq(Block) /\ defree.vals \in Seq(Block)
      BY <1>a DEF Stash
    <3> QED
      BY <3>1, ConcatRange, EmptyRange DEF Holds
  <2>5. defree'.vals = defree.vals \o e /\ defree'.page = (defree.page \/ e # <<>>)
    BY <2>1 DEF stash_values
  <2> HIDE DEF e
  <2>6. Holds(defree') = Holds(defree) \cup Range(e)
    BY <2>4, <2>5, ConcatRange DEF Holds
  <2>7. /\ Holds(new_decycle') = {} /\ Holds(derollup') = {} /\ Holds(decycle') = Holds(new_decycle)
        /\ new_decycle'.vals = <<>> /\ derollup'.vals = <<>>
    <3>1. \A s \in Stash : Unstashed(s).vals = <<>>
      BY DEF Unstashed, Stash
    <3>2. new_decycle'.vals = <<>> /\ derollup'.vals = <<>>
      BY <1>a, <2>1, <3>1
    <3> QED
      BY <2>1, <3>2, EmptyRange DEF Holds
  <2>8. Pages'
    <3>1. Paged(defree')
      <4>1. ASSUME defree'.vals # <<>> PROVE defree.vals # <<>> \/ e # <<>>
        <5>1. <<>> \o <<>> = <<>>
          OBVIOUS
        <5> QED
          BY <2>5, <4>1, <5>1
      <4>2. defree.vals # <<>> => defree.page
        BY DEF Chains, Pages, Paged
      <4> QED
        BY <2>5, <4>1, <4>2 DEF Paged
    <3>2. Paged(decycle')
      BY <2>1 DEF Chains, Pages
    <3> QED
      BY <2>7, <3>1, <3>2 DEF Pages, Paged
  <2>9. Stashed \subseteq Stashed'
    BY <2>4, <2>6, <2>7 DEF Stashed
  <2>10. ASSUME Unharmed' PROVE Committed' /\ InMemory'
    <3>1. Committed /\ InMemory
      BY <2>1, <2>10 DEF Chains, Unharmed
    <3>2. Committed'
      BY <1>a, <2>1, <2>9, <3>1, CommittedKept
    <3>3. LogChain(log.base, Holds(decycle) \cup Holds(new_decycle))'
      <4>1. PICK p : IsChain(p, disk, log.nbase, Written, log.chain, Holds(new_decycle))
        BY <3>1 DEF InMemory, LogChain
      <4>2. /\ log'.base = log.nbase /\ log'.chain = log.chain
            /\ Holds(decycle') \cup Holds(new_decycle') = Holds(new_decycle)
        BY <2>2, <2>7
      <4>3. IsChain(p, disk', log'.base, Written', log'.chain,
                    Holds(decycle') \cup Holds(new_decycle'))
        BY <2>1, <2>3, <4>1, <4>2, Zenon
      <4> QED
        BY <4>3, Zenon DEF LogChain
    <3>4. LogChain(log.nbase, Holds(new_decycle))'
      <4>1. log'.nbase \in Int /\ Written' \in Int /\ Written' < log'.nbase
        BY <1>a, <2>2, <2>3 DEF LogType
      <4>2. IsChain(<<>>, disk', log'.nbase, Written', log'.chain, Holds(new_decycle'))
        BY <4>1, ChainEmpty
      <4> QED
        BY <4>2, Zenon DEF LogChain
    <3> QED
      BY <3>2, <3>3, <3>4 DEF InMemory
  <2> QED
    BY <2>8, <2>10 DEF Chains
<1>11. ASSUME NEW t \in Task, new_cycle_log_asserts(t) PROVE Chains'
  BY <1>11, <1>a, ChainsUnchanged DEF new_cycle_log_asserts, logs, locks, Die
<1>12. ASSUME NEW t \in Task, NEW b \in Block, write_bitmap(t, b) PROVE Chains'
  <2>1. /\ b \notin bitmap /\ stage.at = "bitmap" /\ stage'.done = 0
        /\ derollup' = stash_value(derollup, bmloc)
        /\ Logged(<<Entry("bfree_on_rollup", bmloc), Entry("balloc", b)>>)
        /\ UNCHANGED <<defree, decycle, new_decycle, super, failed>>
        /\ \/ disk' = [disk EXCEPT ![b] = MapBlock(Image(bitmap'))]
           \/ UNCHANGED disk
    <3>1. stage.done = 0
      BY <1>12 DEF Stages, write_bitmap
    <3> QED
      BY <1>12, <3>1 DEF write_bitmap, balloc, map_bfree, Die
  <2>2. <<Entry("bfree_on_rollup", bmloc), Entry("balloc", b)>> \in Entries /\ bmloc \in Block
    BY <1>a DEF Entries, Entry, Ops, TypeOK
  <2>3. log' = [log EXCEPT !.next = log'.next]
    BY <2>1, <2>2, LoggedType
  <2>4. /\ log'.this = log.this /\ log'.base = log.base /\ log'.nbase = log.nbase
        /\ log'.chain = log.chain
    BY <1>a, <2>3 DEF LogType
  <2>5. Written' = Written
    BY <2>1, <2>4 DEF Written, Stages
  <2>6. /\ derollup'.page /\ Holds(derollup) \subseteq Holds(derollup')
    <3>1. derollup'.vals = Append(derollup.vals, bmloc) /\ derollup.vals \in Seq(Block) /\ derollup'.page
      BY <1>a, <2>1 DEF stash_value, Stash
    <3> QED
      BY <2>2, <3>1, AppendRange DEF Holds
  <2>7. Pages'
    BY <2>1, <2>6 DEF Chains, Pages, Paged
  <2>8. Stashed \subseteq Stashed' /\ (Unharmed' <=> Unharmed)
    BY <2>1, <2>6 DEF Stashed, Unharmed
  <2>9. ASSUME Unharmed' PROVE \A a \in Stashed : disk'[a] = disk[a]
    BY <1>a, <2>1, <2>8, <2>9, FreshBlock
  <2>10. CASE Unharmed'
    BY <1>a, <2>1, <2>4, <2>5, <2>7, <2>8, <2>9, <2>10, ChainsStutter
  <2> QED
    BY <2>7, <2>10 DEF Chains
<1>13. ASSUME NEW t \in Task, write_bitmap_enospc(t) PROVE Chains'
  <2>1. /\ derollup'.page /\ "bitmap" \in failed' /\ UNCHANGED <<defree, decycle, new_decycle>>
    BY <1>13 DEF write_bitmap_enospc, map_bfree, stash_value
  <2> QED
    BY <2>1 DEF Chains, Pages, Paged, Unharmed
<1>14. ASSUME NEW t \in Task, write_log(t) PROVE Chains'
  <2>1. PICK b \in Block :
          /\ b \notin bitmap
          /\ disk' = [disk EXCEPT ![b] =
               LogBlock(log.this + stage.done, log.chain, pend[stage.done + 1])]
          /\ new_decycle' = stash_value(new_decycle, b)
          /\ log' = [log EXCEPT !.chain = b]
    BY <1>14 DEF write_log, balloc
  <2>2. /\ stage' = [stage EXCEPT !.done = @ + 1]
        /\ UNCHANGED <<defree, derollup, decycle, super, failed>>
    BY <1>14 DEF write_log
  <2>3. /\ log'.this = log.this /\ log'.base = log.base /\ log'.nbase = log.nbase /\ log'.chain = b
        /\ stage'.done = stage.done + 1
    BY <1>a, <2>1, <2>2 DEF LogType
  <2>4. Written + 1 = log.this + stage.done /\ Written' = Written + 1 /\ Written \in Int
    BY <1>a, <2>3 DEF Written, LogType
  <2>5. Holds(new_decycle') = Holds(new_decycle) \cup {b} /\ new_decycle'.page
    <3>1. /\ new_decycle'.vals = Append(new_decycle.vals, b) /\ new_decycle.vals \in Seq(Block)
          /\ new_decycle'.page
      BY <1>a, <2>1 DEF stash_value, Stash
    <3> QED
      BY <3>1, AppendRange DEF Holds
  <2>6. Pages'
    BY <2>2, <2>5 DEF Chains, Pages, Paged
  <2>7. Stashed' = Stashed \cup {b} /\ (Unharmed' <=> Unharmed)
    BY <2>2, <2>5 DEF Stashed, Unharmed
  <2>8. ASSUME Unharmed' PROVE Committed' /\ InMemory'
    <3>1. Committed /\ InMemory
      BY <2>7, <2>8 DEF Chains
    <3>2. \A a \in Stashed : disk'[a] = disk[a]
      BY <1>a, <2>1, <2>7, <2>8, FreshBlock
    <3>3. Committed'
      BY <1>a, <2>2, <2>7, <3>1, <3>2, CommittedKept
    <3>4. disk'[b] = LogBlock(log.this + stage.done, log.chain, pend[stage.done + 1])
      BY <1>a, <2>1
    <3>5. disk'[b].kind = "log" /\ disk'[b].index = Written + 1 /\ disk'[b].chain = log.chain
      BY <2>4, <3>4 DEF LogBlock
    <3>6. ASSUME NEW lo \in Int, NEW s, NEW r, LogChain(lo, s), s \subseteq Stashed,
                 s \subseteq r, b \in r
          PROVE  \E q : IsChain(q, disk', lo, Written', log'.chain, r)
      <4>1. PICK p : IsChain(p, disk, lo, Written, log.chain, s)
        BY <3>6 DEF LogChain
      <4>2. \A c \in s : disk'[c] = disk[c]
        BY <3>2, <3>6
      <4>3. \E q : IsChain(q, disk', lo, Written + 1, b, r)
        BY <2>4, <3>5, <3>6, <4>1, <4>2, ChainGrows
      <4> QED
        BY <2>3, <2>4, <4>3
    <3>7. LogChain(log.base, Holds(decycle) \cup Holds(new_decycle))'
      <4>1. log.base \in Int
        BY <1>a DEF LogType
      <4> DEFINE s == Holds(decycle) \cup Holds(new_decycle)
                 r == Holds(decycle') \cup Holds(new_decycle')
      <4>2. s \subseteq Stashed /\ s \subseteq r /\ b \in r
        BY <2>2, <2>5 DEF Stashed
      <4>3. LogChain(log.base, s)
        BY <3>1 DEF InMemory
      <4> HIDE DEF s, r
      <4>4. \E q : IsChain(q, disk', log.base, Written', log'.chain, r)
        BY <3>6, <4>1, <4>2, <4>3
      <4>5. log'.base = log.base
        BY <2>3
      <4> QED
        BY <4>4, <4>5, Zenon DEF LogChain, r
    <3>8. LogChain(log.nbase, Holds(new_decycle))'
      <4>1. log.nbase \in Int
        BY <1>a DEF LogType
      <4>2. /\ Holds(new_decycle) \subseteq Stashed /\ Holds(new_decycle) \subseteq Holds(new_decycle')
            /\ b \in Holds(new_decycle')
        BY <2>5 DEF Stashed
      <4>3. LogChain(log.nbase, Holds(new_decycle))
        BY <3>1 DEF InMemory
      <4>4. \E q : IsChain(q, disk', log.nbase, Written', log'.chain, Holds(new_decycle'))
        BY <3>6, <4>1, <4>2, <4>3
      <4>5. log'.nbase = log.nbase
        BY <2>3
      <4> QED
        BY <4>4, <4>5, Zenon DEF LogChain
    <3> QED
      BY <3>3, <3>7, <3>8 DEF InMemory
  <2> QED
    BY <2>6, <2>8 DEF Chains
<1>15. ASSUME NEW t \in Task, write_log_fails(t) PROVE Chains'
  <2>1. UNCHANGED stashes /\ "log" \in failed'
    BY <1>15 DEF write_log_fails
  <2> QED
    BY <2>1 DEF Chains, Pages, Paged, Unharmed, stashes
<1>16. ASSUME NEW t \in Task, write_log_done(t) PROVE Chains'
  <2>1. /\ stage.done = Len(pend) /\ log' = [log EXCEPT !.this = log.next] /\ stage'.done = 0
        /\ UNCHANGED <<stashes, disk, super, failed>>
    BY <1>16 DEF write_log_done
  <2>2. /\ log'.this = log.next /\ log'.base = log.base /\ log'.nbase = log.nbase
        /\ log'.chain = log.chain
    BY <1>a, <2>1 DEF LogType
  <2>3. log.next = log.this + stage.done /\ log.this \in Nat /\ stage.done \in Nat
    BY <1>a, <2>1 DEF TypeInv, LogNumbers, LogType
  <2>4. Written' = Written
    BY <2>1, <2>2, <2>3, SMTT(60) DEF Written
  <2>5. Stashed' = Stashed /\ Pages' /\ UNCHANGED <<decycle, new_decycle>>
    BY <2>1 DEF Stashed, Holds, stashes, Chains, Pages, Paged
  <2> QED
    BY <1>a, <2>1, <2>2, <2>4, <2>5, ChainsStutter
<1>17. ASSUME NEW t \in Task, commit_delta(t) PROVE Chains'
  <2>1. /\ stage.at = "super" /\ stage'.done = 0
        /\ super'.chain = log.chain /\ super'.logcount = log.next - log.base
        /\ super'.base = log.base
        /\ UNCHANGED <<log, pend, derollup, decycle, new_decycle, disk>>
        /\ defree' \in {defree, Unstashed(defree)} /\ failed \subseteq failed'
    BY <1>17 DEF commit_delta, logs
  <2>2. Pages'
    <3>1. Unstashed(defree).vals = <<>>
      BY <1>a DEF Unstashed, Stash
    <3>2. Paged(defree')
      BY <2>1, <3>1 DEF Chains, Pages, Paged
    <3> QED
      BY <2>1, <3>2 DEF Chains, Pages, Paged
  <2>3. ASSUME Unharmed' PROVE Committed' /\ InMemory'
    <3>1. Unharmed /\ InMemory
      BY <2>1, <2>3 DEF Chains, Unharmed
    <3>2. pend = <<>> /\ stage.done = 0
      BY <2>1, <3>1 DEF Stages, Unharmed
    <3>3. log.next = log.this /\ log.this \in Nat /\ log.base \in Nat /\ log.next \in Nat
      BY <1>a, <3>2 DEF TypeInv, LogNumbers, LogType
    <3>4. /\ Written = super'.base + super'.logcount - 1 /\ Written' = Written
      BY <2>1, <3>2, <3>3 DEF Written
    <3>5. InMemory'
      BY <2>1, <3>1, <3>4 DEF InMemory, LogChain, Holds
    <3>6. PICK p : IsChain(p, disk, log.base, Written, log.chain,
                           Holds(decycle) \cup Holds(new_decycle))
      BY <3>1 DEF InMemory, LogChain
    <3>7. Holds(decycle) \cup Holds(new_decycle) \subseteq Stashed'
      BY <2>1 DEF Stashed, Holds
    <3>8. IsChain(p, disk', log.base, Written, log.chain, Stashed')
      BY <1>a, <2>1, <3>6, <3>7, ChainKept, ChainBounds
    <3>9. Committed'
      BY <2>1, <3>4, <3>8 DEF Committed
    <3> QED
      BY <3>5, <3>9
  <2> QED
    BY <2>2, <2>3 DEF Chains
<1>18. ASSUME NEW t \in Task, commit_delta_fails(t) PROVE Chains'
  <2>1. /\ stage.at = "super" /\ stage'.done = 0 /\ UNCHANGED <<log, stashes, disk, super>>
        /\ failed \subseteq failed'
    BY <1>18 DEF commit_delta_fails, logs
  <2> QED
    BY <1>a, <2>1, ChainsUnchanged DEF Stages
<1>19. CASE sync_super
  <2>1. /\ log' = [base |-> 0, nbase |-> 0, this |-> 0, next |-> 0, chain |-> NoBlock]
        /\ UNCHANGED <<stashes, bmloc, disk>> /\ stage'.done = 0
        /\ failed \subseteq failed'
        /\ UNCHANGED super \/ NoStash
    BY <1>19 DEF sync_super, Die
  <2>2. Pages' /\ Stashed' = Stashed /\ (Unharmed' => Unharmed)
    BY <2>1 DEF Chains, Pages, Paged, Stashed, Holds, Unharmed, stashes
  <2>3. Written' = -1
    BY <2>1 DEF Written
  <2>4. ASSUME Unharmed' PROVE Committed' /\ InMemory'
    <3>1. Committed
      BY <2>2, <2>4 DEF Chains
    <3>2. \A a \in Stashed : disk'[a] = disk[a]
      BY <2>1
    <3>3. ASSUME UNCHANGED super PROVE Committed'
      BY <1>a, <2>2, <3>1, <3>2, <3>3, CommittedKept
    <3>4. ASSUME NoStash, super' # super PROVE Committed'
      <4>1. Stashed = {}
        <5>1. /\ defree.vals = <<>> /\ derollup.vals = <<>> /\ decycle.vals = <<>>
              /\ new_decycle.vals = <<>>
          BY <3>4 DEF NoStash, Chains, Pages, Paged
        <5> QED
          BY <5>1, EmptyRange DEF Stashed, Holds
      <4>2. super.base \in Nat /\ super.logcount \in Nat
        BY <1>a, ChainBounds
      <4>3. super.logcount = 0
        <5>1. PICK p : IsChain(p, disk, super.base, super.base + super.logcount - 1, super.chain, {})
          BY <3>1, <4>1 DEF Committed
        <5>2. super.base \notin super.base..(super.base + super.logcount - 1)
          BY <5>1 DEF IsChain
        <5> QED
          BY <4>2, <5>2
      <4>4. super'.logcount = 0 /\ super'.base = 0
        <5>1. super' = [super EXCEPT !.chain = NoBlock, !.used = live \cup nodes \cup {bmloc},
                                     !.maps = {bmloc}, !.base = 0]
          BY <1>19, <3>4 DEF sync_super
        <5>2. super \in [chain : Block \cup {NoBlock}, logcount : Nat, next_logcount : Nat,
                         used : SUBSET Block, maps : SUBSET Block, base : Nat, delta : Nat]
          BY <1>a DEF TypeOK
        <5>3. super'.logcount = super.logcount /\ super'.base = 0
          BY <5>1, <5>2, Zenon
        <5> QED
          BY <4>3, <5>3
      <4>5. super'.base \in Int /\ super'.base + super'.logcount - 1 \in Int
            /\ super'.base + super'.logcount - 1 < super'.base
        BY <4>4
      <4>6. IsChain(<<>>, disk', super'.base, super'.base + super'.logcount - 1, super'.chain, Stashed')
        BY <4>5, ChainEmpty
      <4> QED
        BY <4>6, Zenon DEF Committed
    <3>5. InMemory'
      <4>1. log'.base = 0 /\ log'.nbase = 0
        BY <2>1
      <4>2. /\ IsChain(<<>>, disk', log'.base, Written', log'.chain,
                       Holds(decycle') \cup Holds(new_decycle'))
            /\ IsChain(<<>>, disk', log'.nbase, Written', log'.chain, Holds(new_decycle'))
        BY <2>3, <4>1, ChainEmpty
      <4> QED
        BY <4>2, Zenon DEF InMemory, LogChain
    <3> QED
      BY <2>1, <3>3, <3>4, <3>5
  <2> QED
    BY <2>2, <2>4 DEF Chains
<1>20. CASE UNCHANGED vars
  BY <1>20, <1>a, ChainsUnchanged DEF vars, logs, locks
<1>21. ASSUME NEW t \in Task, AllocLeaf(t) PROVE Chains'
  <2>1. PICK b \in Block : /\ b \notin bitmap /\ disk' = [disk EXCEPT ![b] = Data]
                           /\ Logged(<<Entry("bnode_add", b)>>)
    BY <1>21 DEF AllocLeaf, balloc
  <2>2. <<Entry("bnode_add", b)>> \in Entries
    BY DEF Entries, Entry, Ops
  <2>3. log' = [log EXCEPT !.next = log'.next]
    BY <2>1, <2>2, LoggedType
  <2>4. UNCHANGED <<stashes, stage, super, failed>>
    BY <1>21 DEF AllocLeaf, locks
  <2> QED
    BY <1>6, <2>1, <2>3, <2>4
<1>22. ASSUME NEW t \in Task, NEW b \in Block, AddChild(t, b) PROVE Chains'
  <2>1. Logged(<<Entry("bnode_add", b)>>) /\ UNCHANGED <<stashes, stage, super, failed, disk>>
    BY <1>22 DEF AddChild, locks
  <2>2. <<Entry("bnode_add", b)>> \in Entries
    BY DEF Entries, Entry, Ops
  <2>3. log' = [log EXCEPT !.next = log'.next]
    BY <2>1, <2>2, LoggedType
  <2>4. /\ log'.this = log.this /\ log'.base = log.base /\ log'.nbase = log.nbase
        /\ log'.chain = log.chain
    BY <2>3, <1>a DEF LogType
  <2>5. Written' = Written /\ Pages' /\ Stashed' = Stashed
    BY <2>1, <2>4 DEF Written, Chains, Pages, Paged, Stashed, Holds, stashes
  <2>6. UNCHANGED <<decycle, new_decycle>>
    BY <2>1 DEF stashes
  <2> QED
    BY <1>a, <2>1, <2>4, <2>5, <2>6, ChainsStutter
<1>23. CASE sync_inodes
  <2>1. /\ UNCHANGED <<stashes, failed, super, logs>> /\ stage'.done = 0
        /\ stage.at = "idle"
        /\ disk' = [disk EXCEPT ![bmloc] = MapBlock(bitmap)] \/ UNCHANGED disk
    BY <1>23 DEF sync_inodes
  <2>2. stage.done = 0 /\ UNCHANGED log
    BY <2>1 DEF Stages, logs
  <2>3. Written' = Written /\ Pages' /\ Stashed' = Stashed /\ (Unharmed' <=> Unharmed)
    BY <2>1, <2>2 DEF Written, Chains, Pages, Paged, Stashed, Holds, Unharmed, stashes
  <2>4. CASE ~Unharmed'
    BY <2>3, <2>4 DEF Chains
  <2>5. CASE Unharmed'
    <3>1. \A a \in Stashed : disk'[a] = disk[a]
      <4>1. bmloc \in Block
        BY <1>a DEF TypeOK
      <4> QED
        BY <1>a, <2>1, <2>3, <2>5, <4>1, FreshBlock
    <3>2. UNCHANGED <<decycle, new_decycle, super, failed>>
      BY <2>1 DEF stashes
    <3> QED
      BY <1>a, <2>2, <2>3, <3>1, <3>2, ChainsStutter
  <2> QED
    BY <2>4, <2>5
<1> QED
  BY <1>1, <1>2, <1>3, <1>4, <1>5, <1>7, <1>8, <1>9, <1>10, <1>11, <1>12, <1>13, <1>14,
     <1>15, <1>16, <1>17, <1>18, <1>19, <1>20, <1>21, <1>22, <1>23 DEF Next, Commit

(* Both chains are intact in every state.                                  *)
LEMMA ChainsHold == Spec => []Chains
<1>1. Init => Chains
  <2> SUFFICES ASSUME Init PROVE Chains
    OBVIOUS
  <2>1. EmptyStash.vals = <<>>
    BY DEF EmptyStash
  <2>2. Pages
    BY <2>1 DEF Init, Pages, Paged
  <2>3. /\ super.base = 0 /\ super.logcount = 0 /\ Written = -1 /\ log.base = 0 /\ log.nbase = 0
    BY DEF Init, Written
  <2>4. /\ super.base \in Int /\ super.base + super.logcount - 1 \in Int
        /\ super.base + super.logcount - 1 < super.base
    BY <2>3
  <2>5. IsChain(<<>>, disk, super.base, super.base + super.logcount - 1, super.chain, Stashed)
    BY <2>4, ChainEmpty
  <2>6. /\ IsChain(<<>>, disk, log.base, Written, log.chain, Holds(decycle) \cup Holds(new_decycle))
        /\ IsChain(<<>>, disk, log.nbase, Written, log.chain, Holds(new_decycle))
    BY <2>3, ChainEmpty
  <2>7. Committed
    BY <2>5, Zenon DEF Committed
  <2>8. InMemory
    BY <2>6, Zenon DEF InMemory, LogChain
  <2> QED
    BY <2>2, <2>7, <2>8 DEF Chains
<1> DEFINE I == TypeInv /\ HolderInv /\ LockInv /\ Stages
<1>2. I /\ I' /\ Chains /\ [Next]_vars => Chains'
  BY ChainsStep
<1>3. Spec => []I
  BY StagesHold
<1> HIDE DEF I
<1> QED
  BY <1>1, <1>2, <1>3, PTL DEF Spec

(* LogChainIntact holds in every state, also between any two writes of a   *)
(* commit: unless a log block or the bitmap of a rollup could not be       *)
(* written, the superblock on the device leads back through all of its     *)
(* logcount log blocks, and all of them are still allocated.               *)
THEOREM LogChainCorrect == Spec => []LogChainIntact
<1>1. TypeInv /\ HolderInv /\ Chains => LogChainIntact
  <2> SUFFICES ASSUME TypeInv, HolderInv, Chains, failed \cap {"bitmap", "log", "sync"} = {},
                      NEW k \in 0..(super.logcount - 1)
               PROVE  ChainIntact(k)
    BY DEF LogChainIntact
  <2>1. Unharmed /\ TypeOK
    BY DEF Unharmed, TypeInv
  <2>2. Stashed \subseteq bitmap /\ bitmap \subseteq Block
    BY <2>1 DEF HolderInv, Unharmed, Held, TypeOK
  <2>3. PICK p : IsChain(p, disk, super.base, super.base + super.logcount - 1, super.chain, Stashed)
    BY <2>1 DEF Chains, Committed
  <2>4. Stashed \subseteq Block /\ super.base \in Int /\ super.base + super.logcount - 1 \in Int
    BY <2>1, <2>2, ChainBounds
  <2>5. IsChain(p, disk, super.base, super.base + super.logcount - 1, super.chain, Block)
    BY <2>3, <2>4, ChainKept
  <2> DEFINE i == super.base + super.logcount - 1 - k
  <2>6. ChainAt(k) = p[i]
    BY <2>1, <2>5, ChainFollowed
  <2>7. i \in super.base..(super.base + super.logcount - 1)
    BY <2>1, ChainBounds
  <2> HIDE DEF i
  <2>8. p[i] \in Stashed /\ disk[p[i]].kind = "log" /\ disk[p[i]].index = i
    BY <2>3, <2>7 DEF IsChain
  <2> QED
    BY <2>2, <2>6, <2>8 DEF ChainIntact, i
<1> QED
  BY <1>1, StagesHold, ChainsHold, PTL

-----------------------------------------------------------------------------
(***************************************************************************)
(* The images of the bitmap.  The superblock's are in a stash or are the   *)
(* current one.  The one before the current one is in derollup except      *)
(* while a rollup is about to replace it: a rollup that has nothing to     *)
(* write would retire it and keep it named in the superblock, so the       *)
(* invariant says that after the first rollup the bitmap buffer is always  *)
(* on the dirty list.  With BLOCKDIRTY the allocation of the new place     *)
(* puts it there, as long as the buffer's state is not that of the new     *)
(* cycle; without, the allocation of the next log block does.              *)
(***************************************************************************)
ImageAt(b) == disk[b].kind = "map"

Images ==
  /\ super.maps \subseteq Stashed \cup {bmloc}
  /\ \A b \in super.maps : ImageAt(b)
  /\ Alive => ImageAt(bmloc)
  /\ Alive /\ stage.at # "bitmap" =>
       ImageAt(oldloc) /\ (oldloc = bmloc \/ oldloc \in Holds(derollup))

ToBeListed == stage.at = "log" /\ stage.done = 0 /\ pend # <<>>

Buffer ==
  Alive =>
    /\ stage.at # "bitmap" /\ ~bm.listed =>
         bm.state = Clean /\ (oldloc = bmloc \/ ToBeListed \/ stage.at = "sync")
    /\ stage.at = "bitmap" => bm.state = cut.state

Maps == Unharmed => Images /\ Buffer

(* A bitmap buffer that is clean, or on the dirty list, is on the list     *)
(* after it has been dirtied, whatever its state number.                   *)
LEMMA DirtyListed ==
  ASSUME NEW m \in [state : States, listed : BOOLEAN], NEW r \in Nat,
         m.listed \/ m.state = Clean
  PROVE  blockdirty(m, r).listed = TRUE
<1>1. r % 4 \in 0..3 /\ Clean \notin 0..3
  BY SMT DEF Clean
<1>2. m.listed = TRUE \/ m.listed = FALSE
  OBVIOUS
<1> QED
  BY <1>1, <1>2 DEF blockdirty

(* A step that leaves the places of the bitmap alone, and writes to none   *)
(* of them.                                                                *)
LEMMA ImagesStutter ==
  ASSUME Images, UNCHANGED <<super, bmloc, oldloc, derollup>>, Stashed \subseteq Stashed',
         \A b \in Stashed \cup {bmloc} : disk'[b] = disk[b],
         Alive' => Alive, stage'.at # "bitmap" => stage.at # "bitmap"
  PROVE  Images'
<1>1. Holds(derollup') = Holds(derollup) /\ Holds(derollup) \subseteq Stashed
  BY DEF Stashed
<1>2. (super.maps \subseteq Stashed \cup {bmloc})'
  BY DEF Images
<1>3. (\A b \in super.maps : ImageAt(b))'
  BY DEF Images, ImageAt
<1>4. ASSUME Alive' PROVE ImageAt(bmloc)'
  BY <1>4 DEF Images, ImageAt
<1>5. ASSUME Alive', stage'.at # "bitmap"
      PROVE  (ImageAt(oldloc) /\ (oldloc = bmloc \/ oldloc \in Holds(derollup)))'
  <2>1. ImageAt(oldloc) /\ (oldloc = bmloc \/ oldloc \in Holds(derollup))
    BY <1>5 DEF Images
  <2>2. disk'[oldloc] = disk[oldloc]
    BY <1>1, <2>1
  <2> QED
    BY <1>1, <2>1, <2>2 DEF ImageAt
<1> QED
  BY <1>2, <1>3, <1>4, <1>5 DEF Images

(* One that leaves the stashes and the device alone, too.                  *)
LEMMA ImagesUnchanged ==
  ASSUME Images, UNCHANGED <<super, bmloc, oldloc, stashes, disk>>,
         Alive' => Alive, stage'.at # "bitmap" => stage.at # "bitmap"
  PROVE  Images'
<1>1. Stashed' = Stashed /\ UNCHANGED derollup
  BY DEF Stashed, Holds, stashes
<1> QED
  BY <1>1, ImagesStutter

(* A write to a free block misses the bitmap's place and the stashes.      *)
LEMMA FreshMiss ==
  ASSUME TypeOK, HolderInv, Unharmed, NEW b \in Block, b \notin bitmap, NEW c,
         disk' = [disk EXCEPT ![b] = c]
  PROVE  \A a \in Stashed \cup {bmloc} : disk'[a] = disk[a]
<1>1. Stashed \cup {bmloc} \subseteq bitmap
  BY DEF Unharmed, HolderInv, Held, InUse
<1>2. disk \in [Block -> Content] /\ bitmap \subseteq Block
  BY DEF TypeOK
<1> QED
  BY <1>1, <1>2

(* A buffer that the invariant lets be clean or listed ends up listed.     *)
LEMMA BufferDirtied ==
  ASSUME TypeOK, Buffer, Alive, stage.at # "bitmap", bm' = blockdirty(bm, count.rollup),
         stage'.at # "bitmap"
  PROVE  Buffer'
<1>1. bm \in [state : States, listed : BOOLEAN] /\ count.rollup \in Nat
  BY DEF TypeOK
<1>2. bm.listed \/ bm.state = Clean
  BY DEF Buffer
<1>3. bm'.listed = TRUE
  BY <1>1, <1>2, DirtyListed
<1> QED
  BY <1>3 DEF Buffer

(* A buffer that is left alone, outside the log.                           *)
LEMMA BufferKept ==
  ASSUME Buffer, UNCHANGED <<bm, cut, oldloc, bmloc>>, Alive' => Alive,
         UNCHANGED <<stage, pend>> \/ (stage.at \notin {"bitmap", "sync"} /\ stage'.at # "bitmap" /\ ~ToBeListed)
  PROVE  Buffer'
BY DEF Buffer, ToBeListed

(* A step of the commit or of a change keeps the images that the           *)
(* superblock names and those that the next one will name.                 *)
LEMMA MapsStep ==
  ASSUME TypeInv, TypeInv', HolderInv, HolderInv', LockInv, Stages, Maps, [Next]_vars
  PROVE  Maps'
<1> USE CommitAssumption
<1> SUFFICES ASSUME Unharmed' PROVE Images' /\ Buffer'
  BY DEF Maps
<1>a. /\ TypeOK /\ stage \in [at : {"idle", "rollup", "bitmap", "log", "super", "sync"}, done : Nat]
      /\ log \in LogType /\ disk \in [Block -> Content] /\ bitmap \subseteq Block
      /\ defree \in Stash /\ derollup \in Stash /\ decycle \in Stash /\ new_decycle \in Stash
      /\ bm \in [state : States, listed : BOOLEAN] /\ bmloc \in Block
      /\ count.rollup \in Nat
  BY DEF TypeInv, TypeOK, LogType
<1>b. ASSUME failed \subseteq failed' PROVE Unharmed /\ Images /\ Buffer
  BY <1>b DEF Maps, Unharmed
<1>1. ASSUME NEW t \in Task, change_begin(t) PROVE Images' /\ Buffer'
  <2>1. UNCHANGED <<bm, cut, oldloc, bmloc, stage, pend, super, stashes, disk, failed, dead>>
    BY <1>1 DEF change_begin, memory, logs
  <2> QED
    BY <1>b, <2>1, ImagesUnchanged, BufferKept DEF Alive
<1>2. ASSUME NEW t \in Task, change_end(t) PROVE Images' /\ Buffer'
  <2>1. UNCHANGED <<bm, cut, oldloc, bmloc, stage, pend, super, stashes, disk, failed, dead>>
    BY <1>2 DEF change_end, memory, logs
  <2> QED
    BY <1>b, <2>1, ImagesUnchanged, BufferKept DEF Alive
<1>3. ASSUME NEW t \in Task, force_delta(t) PROVE Images' /\ Buffer'
  <2>1. /\ UNCHANGED <<bm, cut, oldloc, bmloc, super, stashes, disk, failed, dead>>
        /\ stage'.at # "bitmap" /\ stage.at # "sync" /\ \A u \in Task : pc[u] # "commit"
    BY <1>3 DEF force_delta, memory, logs
  <2>2. stage.at = "idle"
    BY <2>1, NoCommitMeanwhile
  <2> QED
    BY <1>b, <2>1, <2>2, ImagesUnchanged, BufferKept DEF Alive, ToBeListed
<1>4. ASSUME NEW t \in Task, CommitSkipped(t) PROVE Images' /\ Buffer'
  <2>1. UNCHANGED <<bm, cut, oldloc, bmloc, stage, pend, super, stashes, disk, failed, dead>>
    BY <1>4 DEF CommitSkipped, memory, logs
  <2> QED
    BY <1>b, <2>1, ImagesUnchanged, BufferKept DEF Alive
<1>5. ASSUME NEW t \in Task, do_commit(t) PROVE Images' /\ Buffer'
  <2>1. /\ UNCHANGED <<bm, cut, oldloc, bmloc, super, stashes, disk, failed, dead>>
        /\ pc[t] = "want" /\ \A u \in Task : pc[u] # "commit"
    BY <1>5 DEF do_commit, memory, logs
  <2>3. stage.at = "idle"
    BY <2>1, NoCommitMeanwhile
  <2>2. stage'.at # "bitmap"
    <3>1. \/ stage' = [at |-> "log", done |-> 0]
          \/ stage' = [at |-> "rollup", done |-> 0]
      BY <1>5, Zenon DEF do_commit
    <3> QED
      BY <3>1
  <2> QED
    BY <1>b, <2>1, <2>2, <2>3, ImagesUnchanged, BufferKept DEF Alive, ToBeListed
<1>6. ASSUME NEW t \in Task, pc[t] = "in", Alive, NEW b \in Block, b \notin bitmap,
             disk' = [disk EXCEPT ![b] = Data], bm' = blockdirty(bm, count.rollup),
             UNCHANGED <<oldloc, bmloc, stage, super, stashes, failed, dead>>
      PROVE  Images' /\ Buffer'
  <2>1. Unharmed /\ Images /\ Buffer /\ stage.at = "idle"
    BY <1>6, <1>b, NoCommitMeanwhile
  <2>2. \A a \in Stashed \cup {bmloc} : disk'[a] = disk[a]
    BY <1>6, <1>a, <2>1, FreshMiss
  <2>3. Stashed' = Stashed /\ UNCHANGED derollup
    BY <1>6 DEF Stashed, Holds, stashes
  <2>4. Images'
    BY <1>6, <2>1, <2>2, <2>3, ImagesStutter
  <2>5. Buffer'
    BY <1>6, <1>a, <2>1, BufferDirtied
  <2> QED
    BY <2>4, <2>5
<1>7. ASSUME NEW t \in Task, AllocLogged(t) PROVE Images' /\ Buffer'
  <2>1. PICK b \in Block : b \notin bitmap /\ disk' = [disk EXCEPT ![b] = Data]
    BY <1>7 DEF AllocLogged, balloc
  <2>2. /\ pc[t] = "in" /\ Alive /\ bm' = blockdirty(bm, count.rollup)
        /\ UNCHANGED <<oldloc, bmloc, stage, super, stashes, failed, dead>>
    BY <1>7 DEF AllocLogged, locks
  <2> QED
    BY <1>6, <2>1, <2>2
<1>8. ASSUME NEW t \in Task, NEW op \in {"bnode_split", "bnode_root"}, AllocNode(t, op)
      PROVE  Images' /\ Buffer'
  <2>1. PICK b \in Block : b \notin bitmap /\ disk' = [disk EXCEPT ![b] = Data]
    BY <1>8 DEF AllocNode, balloc
  <2>2. /\ pc[t] = "in" /\ Alive /\ bm' = blockdirty(bm, count.rollup)
        /\ UNCHANGED <<oldloc, bmloc, stage, super, stashes, failed, dead>>
    BY <1>8 DEF AllocNode, locks
  <2> QED
    BY <1>6, <2>1, <2>2
<1>9. ASSUME NEW t \in Task, NEW b \in Block, FreeNow(t, b) PROVE Images' /\ Buffer'
  <2>1. /\ Alive /\ bm' = blockdirty(bm, count.rollup) /\ stage.at = "idle"
        /\ UNCHANGED <<oldloc, bmloc, stage, super, stashes, disk, failed, dead>>
    BY <1>9, NoCommitMeanwhile DEF FreeNow, locks
  <2>2. Images /\ Buffer
    BY <1>b, <2>1
  <2>3. Buffer'
    BY <1>a, <2>1, <2>2, BufferDirtied
  <2> QED
    BY <2>1, <2>2, <2>3, ImagesUnchanged
<1>10. ASSUME NEW t \in Task, new_cycle_log(t) PROVE Images' /\ Buffer'
  <2>1. /\ Alive /\ stage.at = "rollup"
        /\ cut' = IF bm.listed THEN [img |-> bitmap, state |-> bm.state] ELSE NoCut
        /\ bm' = [bm EXCEPT !.listed = FALSE]
        /\ derollup' = Unstashed(derollup)
        /\ stage' = [at |-> IF bm.listed THEN "bitmap" ELSE "log", done |-> 0]
        /\ UNCHANGED <<bitmap, bmloc, live, nodes, leaves, oldloc, disk, super, failed, dead>>
    BY <1>10 DEF new_cycle_log
  <2>2. Unharmed /\ Images /\ Buffer
    BY <1>b, <2>1
  <2>3. /\ bm'.listed = FALSE /\ bm'.state = bm.state /\ stage'.done = 0
        /\ stage'.at = IF bm.listed THEN "bitmap" ELSE "log"
    BY <1>a, <2>1
  <2>4. ~bm.listed => bm.state = Clean /\ oldloc = bmloc
    BY <2>1, <2>2 DEF Buffer, ToBeListed
  <2>5. Buffer'
    <3>1. CASE bm.listed
      <4>1. cut'.state = bm.state
        BY <2>1, <3>1
      <4> QED
        BY <2>3, <3>1, <4>1 DEF Buffer
    <3>2. CASE ~bm.listed
      BY <2>1, <2>3, <2>4, <3>2 DEF Buffer
    <3> QED
      BY <3>1, <3>2
  <2>6. Stashed' = Stashed
    <3>1. Held /\ Held'
      BY <2>2 DEF HolderInv, Unharmed
    <3>2. InUse' = InUse
      BY <2>1 DEF InUse
    <3> QED
      BY <2>1, <3>1, <3>2 DEF Held
  <2>7. Images'
    BY <2>1, <2>2, <2>3, <2>4, <2>6 DEF Images, ImageAt, Alive
  <2> QED
    BY <2>5, <2>7
<1>11. ASSUME NEW t \in Task, new_cycle_log_asserts(t) PROVE Images' /\ Buffer'
  <2>1. /\ UNCHANGED <<oldloc, bmloc, stage, super, stashes, disk, failed>> /\ ~Alive'
    BY <1>11 DEF new_cycle_log_asserts, memory, locks, Die, Alive
  <2> QED
    BY <1>b, <2>1, ImagesUnchanged DEF Buffer
<1>12. ASSUME NEW t \in Task, NEW b \in Block, write_bitmap(t, b) PROVE Images' /\ Buffer'
  <2>1. /\ Alive /\ b \notin bitmap /\ stage.at = "bitmap"
        /\ bmloc' = b /\ oldloc' = bmloc
        /\ derollup' = stash_value(derollup, bmloc)
        /\ UNCHANGED <<defree, decycle, new_decycle, super, failed>>
    BY <1>12 DEF write_bitmap, balloc, map_bfree, Die
  <2>2. \/ /\ cut.state = (count.rollup - 1) % 4
           /\ disk' = [disk EXCEPT ![b] = MapBlock(Image(bitmap'))]
           /\ bm' = IF BLOCKDIRTY THEN blockdirty(bm, count.rollup)
                    ELSE [state |-> Clean, listed |-> FALSE]
           /\ stage' = [at |-> "log", done |-> 0]
        \/ ~Alive' /\ UNCHANGED <<disk, stage>>
    BY <1>12 DEF write_bitmap, Die, Alive
  <2>3. Unharmed /\ Images /\ Buffer
    BY <1>b, <2>1
  <2>4. Holds(derollup') = Holds(derollup) \cup {bmloc}
    <3>1. derollup'.vals = Append(derollup.vals, bmloc) /\ derollup.vals \in Seq(Block)
      BY <1>a, <2>1 DEF stash_value, Stash
    <3> QED
      BY <1>a, <3>1, AppendRange DEF Holds
  <2>5. Stashed' = Stashed \cup {bmloc}
    BY <2>1, <2>4 DEF Stashed
  <2>6. \A a \in Stashed \cup {bmloc} : disk'[a] = disk[a]
    BY <1>a, <2>1, <2>2, <2>3, FreshMiss
  <2>7. Images'
    <3>1. (super.maps \subseteq Stashed \cup {bmloc})' /\ (\A c \in super.maps : ImageAt(c))'
      BY <2>1, <2>3, <2>5, <2>6 DEF Images, ImageAt
    <3>2. (Alive => ImageAt(bmloc))'
      <4>1. ASSUME Alive' PROVE disk'[b].kind = "map"
        BY <1>a, <2>2, <4>1 DEF MapBlock
      <4> QED
        BY <2>1, <4>1 DEF ImageAt
    <3>3. ImageAt(oldloc)' /\ (oldloc \in Holds(derollup))'
      BY <2>1, <2>3, <2>4, <2>6 DEF Images, ImageAt
    <3> QED
      BY <3>1, <3>2, <3>3 DEF Images
  <2>8. ASSUME Alive' PROVE Buffer'
    <3>1. /\ cut.state = (count.rollup - 1) % 4 /\ stage'.at = "log" /\ stage'.done = 0
          /\ bm' = IF BLOCKDIRTY THEN blockdirty(bm, count.rollup)
                   ELSE [state |-> Clean, listed |-> FALSE]
      BY <2>2, <2>8
    <3>2. CASE BLOCKDIRTY
      <4>1. bm.state # count.rollup % 4
        <5>1. bm.state = (count.rollup - 1) % 4
          BY <2>1, <2>3, <3>1 DEF Buffer
        <5>2. (count.rollup - 1) % 4 # count.rollup % 4
          BY <1>a
        <5> QED
          BY <5>1, <5>2
      <4>2. bm'.listed = TRUE
        BY <3>1, <3>2, <4>1 DEF blockdirty
      <4> QED
        BY <3>1, <4>2 DEF Buffer
    <3>3. CASE ~BLOCKDIRTY
      <4>1. bm'.state = Clean
        BY <3>1, <3>3
      <4>2. pend' # <<>>
        <5>1. Logged(<<Entry("bfree_on_rollup", bmloc), Entry("balloc", b)>>)
          BY <1>12 DEF write_bitmap
        <5>2. <<Entry("bfree_on_rollup", bmloc), Entry("balloc", b)>> # <<>>
          OBVIOUS
        <5>3. open'
          BY <5>1, <5>2 DEF Logged
        <5>4. Len(pend') > 0
          BY <5>3 DEF TypeInv, LogNumbers
        <5> QED
          BY <5>4
      <4> QED
        BY <3>1, <4>1, <4>2 DEF Buffer, ToBeListed
    <3> QED
      BY <3>2, <3>3
  <2> QED
    BY <2>7, <2>8 DEF Buffer
<1>13. ASSUME NEW t \in Task, write_bitmap_enospc(t) PROVE Images' /\ Buffer'
  BY <1>13 DEF write_bitmap_enospc, Unharmed
<1>14. ASSUME NEW t \in Task, write_log(t) PROVE Images' /\ Buffer'
  <2>1. PICK b \in Block :
          /\ b \notin bitmap
          /\ disk' = [disk EXCEPT ![b] =
               LogBlock(log.this + stage.done, log.chain, pend[stage.done + 1])]
          /\ new_decycle' = stash_value(new_decycle, b)
    BY <1>14 DEF write_log, balloc
  <2>2. /\ Alive /\ stage.at = "log" /\ stage' = [stage EXCEPT !.done = @ + 1]
        /\ bm' = blockdirty(bm, count.rollup)
        /\ UNCHANGED <<bmloc, oldloc, defree, derollup, decycle, super, failed, dead>>
    BY <1>14 DEF write_log
  <2>3. stage'.at = "log"
    BY <1>a, <2>2
  <2>4. Unharmed /\ Images /\ Buffer
    BY <1>b, <2>2
  <2>5. Stashed \subseteq Stashed'
    <3>1. new_decycle'.vals = Append(new_decycle.vals, b) /\ new_decycle.vals \in Seq(Block)
      BY <1>a, <2>1 DEF stash_value, Stash
    <3>2. Holds(new_decycle) \subseteq Holds(new_decycle')
      BY <3>1, AppendRange DEF Holds
    <3> QED
      BY <2>2, <3>2 DEF Stashed
  <2>6. \A a \in Stashed \cup {bmloc} : disk'[a] = disk[a]
    BY <1>a, <2>1, <2>4, FreshMiss
  <2>7. Images'
    BY <2>2, <2>3, <2>4, <2>5, <2>6, ImagesStutter
  <2>8. Buffer'
    BY <1>a, <2>2, <2>3, <2>4, BufferDirtied
  <2> QED
    BY <2>7, <2>8
<1>15. ASSUME NEW t \in Task, write_log_fails(t) PROVE Images' /\ Buffer'
  BY <1>15 DEF write_log_fails, Unharmed
<1>16. ASSUME NEW t \in Task, write_log_done(t) PROVE Images' /\ Buffer'
  <2>1. /\ stage.at = "log" /\ stage.done = Len(pend) /\ stage'.at = "super"
        /\ UNCHANGED <<bm, cut, oldloc, bmloc, super, stashes, disk, failed, dead>>
    BY <1>16 DEF write_log_done, memory
  <2>2. ~ToBeListed
    <3>1. pend \in Seq(Entries)
      BY <1>a DEF TypeOK
    <3>2. pend # <<>> => Len(pend) # 0
      BY <3>1, EmptySeq
    <3> QED
      BY <2>1, <3>2 DEF ToBeListed
  <2> QED
    BY <1>b, <2>1, <2>2, ImagesUnchanged, BufferKept DEF Alive
<1>17. ASSUME NEW t \in Task, commit_delta(t) PROVE Images' /\ Buffer'
  <2>1. /\ Alive /\ stage.at = "super" /\ stage'.at = "idle"
        /\ super'.maps = {bmloc, oldloc}
        /\ bm' = IF Retired(defree.vals) = {} THEN bm ELSE blockdirty(bm, count.rollup)
        /\ UNCHANGED <<bmloc, oldloc, cut, derollup, decycle, new_decycle, disk, dead>>
        /\ failed \subseteq failed'
    BY <1>17 DEF commit_delta
  <2>2. Unharmed /\ Images /\ Buffer
    BY <1>b, <2>1
  <2>3. Images'
    <3>1. ImageAt(bmloc) /\ ImageAt(oldloc) /\ (oldloc = bmloc \/ oldloc \in Holds(derollup))
      BY <2>1, <2>2 DEF Images
    <3>2. Holds(derollup') = Holds(derollup) /\ Holds(derollup') \subseteq Stashed'
      BY <2>1 DEF Stashed
    <3> QED
      BY <2>1, <3>1, <3>2 DEF Images, ImageAt
  <2>4. Buffer'
    <3>1. CASE bm' = bm
      BY <2>1, <2>2, <3>1, BufferKept DEF Alive, ToBeListed
    <3>2. CASE bm' = blockdirty(bm, count.rollup)
      BY <1>a, <2>1, <2>2, <3>2, BufferDirtied
    <3> QED
      BY <2>1, <3>1, <3>2
  <2> QED
    BY <2>3, <2>4
<1>18. ASSUME NEW t \in Task, commit_delta_fails(t) PROVE Images' /\ Buffer'
  <2>1. /\ stage.at = "super" /\ stage'.at = "idle" /\ failed \subseteq failed'
        /\ UNCHANGED <<bm, cut, oldloc, bmloc, super, stashes, disk, dead>>
    BY <1>18 DEF commit_delta_fails
  <2> QED
    BY <1>b, <2>1, ImagesUnchanged, BufferKept DEF Alive, ToBeListed
<1>19. CASE sync_super
  <2>1. /\ stage.at = "sync" /\ UNCHANGED <<bm, stashes, bmloc, disk>> /\ oldloc' = bmloc
        /\ stage'.at = "idle" /\ failed \subseteq failed' /\ (Alive' => Alive)
    BY <1>19 DEF sync_super, Die, Alive
  <2>2. UNCHANGED super \/ super'.maps = {bmloc}
    <3>1. super \in [chain : Block \cup {NoBlock}, logcount : Nat, next_logcount : Nat,
                     used : SUBSET Block, maps : SUBSET Block, base : Nat, delta : Nat]
      BY <1>a DEF TypeOK
    <3>2. \/ UNCHANGED super
          \/ super' = [super EXCEPT !.chain = NoBlock, !.used = live \cup nodes \cup {bmloc},
                                    !.maps = {bmloc}, !.base = 0]
      BY <1>19 DEF sync_super
    <3> QED
      BY <3>1, <3>2, Zenon
  <2>3. Images /\ Buffer /\ Alive
    BY <1>19, <1>b, <2>1 DEF sync_super
  <2>4. ImageAt(bmloc)'
    BY <2>1, <2>3 DEF Images, ImageAt
  <2>5. Stashed' = Stashed
    BY <2>1 DEF Stashed, Holds, stashes
  <2>6. (super.maps \subseteq Stashed \cup {bmloc})' /\ (\A b \in super.maps : ImageAt(b))'
    <3>1. CASE UNCHANGED super
      BY <2>1, <2>3, <2>5, <3>1 DEF Images, ImageAt
    <3>2. CASE super'.maps = {bmloc}
      BY <2>1, <2>4, <3>2
    <3> QED
      BY <2>2, <3>1, <3>2
  <2>7. Images'
    BY <2>1, <2>4, <2>6 DEF Images, ImageAt
  <2>8. Buffer'
    BY <2>1, <2>3 DEF Buffer
  <2> QED
    BY <2>7, <2>8
<1>20. CASE UNCHANGED vars
  BY <1>20, <1>b, ImagesUnchanged, BufferKept DEF vars, memory, logs, locks, Alive
<1>21. ASSUME NEW t \in Task, AllocLeaf(t) PROVE Images' /\ Buffer'
  <2>1. PICK b \in Block : b \notin bitmap /\ disk' = [disk EXCEPT ![b] = Data]
    BY <1>21 DEF AllocLeaf, balloc
  <2>2. /\ pc[t] = "in" /\ Alive /\ bm' = blockdirty(bm, count.rollup)
        /\ UNCHANGED <<oldloc, bmloc, stage, super, stashes, failed, dead>>
    BY <1>21 DEF AllocLeaf, locks
  <2> QED
    BY <1>6, <2>1, <2>2
<1>22. ASSUME NEW t \in Task, NEW b \in Block, AddChild(t, b) PROVE Images' /\ Buffer'
  <2>1. /\ stage.at = "idle" /\ UNCHANGED <<bm, cut, oldloc, bmloc, stage, super, stashes>>
        /\ UNCHANGED <<disk, failed, dead>>
    BY <1>22, NoCommitMeanwhile DEF AddChild, memory, locks
  <2> QED
    BY <1>b, <2>1, ImagesUnchanged, BufferKept DEF Alive, ToBeListed
<1>23. CASE sync_inodes
  <2>1. /\ stage.at = "idle" /\ stage'.at = "sync"
        /\ UNCHANGED <<stashes, failed, super, bmloc, oldloc, dead>>
        /\ disk' = [disk EXCEPT ![bmloc] = MapBlock(bitmap)] \/ UNCHANGED disk
        /\ bm' = IF bm.listed THEN [state |-> Clean, listed |-> FALSE] ELSE bm
    BY <1>23 DEF sync_inodes
  <2>2. Unharmed /\ Images /\ Buffer /\ (Alive' <=> Alive)
    BY <1>b, <2>1 DEF Alive
  <2>3. /\ \A a \in Block \ {bmloc} : disk'[a] = disk[a]
        /\ disk'[bmloc] = disk[bmloc] \/ disk'[bmloc].kind = "map"
    BY <1>a, <2>1 DEF MapBlock
  <2>4. Stashed' = Stashed /\ Stashed \subseteq Block /\ Holds(derollup') = Holds(derollup)
        /\ Holds(derollup) \subseteq Stashed
    <3>1. Stashed \subseteq bitmap
      BY <2>2 DEF HolderInv, Unharmed, Held
    <3> QED
      BY <1>a, <2>1, <3>1 DEF Stashed, Holds, stashes
  <2>5. \A a \in Stashed \cup {bmloc} : ImageAt(a) => ImageAt(a)'
    BY <2>3, <2>4 DEF ImageAt
  <2>6. Images'
    <3>1. (super.maps \subseteq Stashed \cup {bmloc})' /\ (\A b \in super.maps : ImageAt(b))'
      BY <2>1, <2>2, <2>4, <2>5 DEF Images
    <3>2. (Alive => ImageAt(bmloc))'
      BY <2>1, <2>2, <2>5 DEF Images
    <3>3. ASSUME Alive'
          PROVE  (ImageAt(oldloc) /\ (oldloc = bmloc \/ oldloc \in Holds(derollup)))'
      BY <2>1, <2>2, <2>4, <2>5, <3>3 DEF Images
    <3> QED
      BY <3>1, <3>2, <3>3 DEF Images
  <2>7. Buffer'
    BY <2>1, <2>2 DEF Buffer
  <2> QED
    BY <2>6, <2>7
<1> QED
  BY <1>1, <1>2, <1>3, <1>4, <1>5, <1>7, <1>8, <1>9, <1>10, <1>11, <1>12, <1>13, <1>14,
     <1>15, <1>16, <1>17, <1>18, <1>19, <1>20, <1>21, <1>22, <1>23 DEF Next, Commit

(* The images and the bitmap buffer are as they should be in every state.  *)
LEMMA MapsHold == Spec => []Maps
<1>1. Init => Maps
  <2> SUFFICES ASSUME Init PROVE Images /\ Buffer
    BY DEF Maps
  <2>1. /\ super.maps = {0} /\ bmloc = 0 /\ oldloc = 0 /\ stage.at = "idle"
        /\ bm = [state |-> Clean, listed |-> FALSE]
        /\ disk = [b \in Block |-> IF b = 0 THEN MapBlock({0, 1}) ELSE Data]
    BY DEF Init
  <2>2. disk[0].kind = "map"
    BY <2>1, CommitAssumption DEF MapBlock, Block
  <2> QED
    BY <2>1, <2>2 DEF Images, Buffer, ImageAt
<1> DEFINE I == TypeInv /\ HolderInv /\ LockInv /\ Stages
<1>2. I /\ I' /\ Maps /\ [Next]_vars => Maps'
  BY MapsStep
<1>3. Spec => []I
  BY StagesHold
<1> HIDE DEF I
<1> QED
  BY <1>1, <1>2, <1>3, PTL DEF Spec

(* ImagesKept holds in every state: as long as no log block or bitmap got  *)
(* lost, every place of the bitmap that the superblock names still holds   *)
(* an image of it, with and without BLOCKDIRTY.                            *)
THEOREM ImagesCorrect == Spec => []ImagesKept
<1>1. Maps => ImagesKept
  BY DEF Maps, ImagesKept, Orderly, Unharmed, Images, ImageAt
<1> QED
  BY <1>1, MapsHold, PTL

-----------------------------------------------------------------------------
(***************************************************************************)
(* What a log says of a block b.  E gives the entries of the log blocks by *)
(* their index.  The log from lo to hi is safe for b when every free of b  *)
(* in it is followed by an allocation of b, and it hits b when it has an   *)
(* allocation of b at all.  Replaying a safe log leaves b allocated if the *)
(* log hits b, or if b was allocated in the image it starts from.          *)
(***************************************************************************)
Frees(e, b)  == e.op \in {"bfree", "bfree_on_rollup"} /\ e.block = b
Allocs(e, b) == e.op \in {"balloc", "bnode_root", "bnode_split"} /\ e.block = b

Safe(E, lo, hi, b) ==
  \A k \in lo..hi : \A i \in DOMAIN E[k] :
    Frees(E[k][i], b) =>
      \E m \in k..hi : \E j \in DOMAIN E[m] : (m > k \/ j > i) /\ Allocs(E[m][j], b)

Hit(E, lo, hi, b) == \E k \in lo..hi : \E i \in DOMAIN E[k] : Allocs(E[k][i], b)

(* F from lo to new is E from lo to hi and one more entry, e, at the end.  *)
OneMore(E, F, lo, hi, new, e) ==
  /\ hi <= new
  /\ \A k \in lo..hi : \A i \in DOMAIN E[k] : i \in DOMAIN F[k] /\ F[k][i] = E[k][i]
  /\ \E j \in DOMAIN F[new] :
       /\ F[new][j] = e
       /\ \A k \in lo..new : \A i \in DOMAIN F[k] :
            \/ k = new /\ i = j
            \/ k \in lo..hi /\ i \in DOMAIN E[k] /\ F[k][i] = E[k][i] /\ (k < new \/ i < j)

(* What a longer log owes to the shorter one.                              *)
Keeps(E, F, lo, hi, new, b) ==
  /\ Safe(E, lo, hi, b) => Safe(F, lo, new, b)
  /\ \A m \in Int : m >= lo /\ Hit(E, m, hi, b) => Hit(F, m, new, b)

(* A log that ends with an allocation of b.                                *)
Takes(F, lo, new, b) ==
  Safe(F, lo, new, b) /\ \A m \in Int : m >= lo /\ m <= new => Hit(F, m, new, b)

(* An entry that does not free b takes nothing away from it.               *)
LEMMA EntryKeeps ==
  ASSUME NEW E, NEW F, NEW lo \in Int, NEW hi \in Int, NEW new \in Int, NEW e, NEW b,
         OneMore(E, F, lo, hi, new, e), ~Frees(e, b)
  PROVE  Keeps(E, F, lo, hi, new, b)
<1>1. /\ hi <= new
      /\ \A k \in lo..hi : \A i \in DOMAIN E[k] : i \in DOMAIN F[k] /\ F[k][i] = E[k][i]
  BY DEF OneMore
<1>2. PICK j \in DOMAIN F[new] :
       /\ F[new][j] = e
       /\ \A k \in lo..new : \A i \in DOMAIN F[k] :
            \/ k = new /\ i = j
            \/ k \in lo..hi /\ i \in DOMAIN E[k] /\ F[k][i] = E[k][i] /\ (k < new \/ i < j)
  BY DEF OneMore
<1>3. ASSUME Safe(E, lo, hi, b), NEW k \in lo..new, NEW i \in DOMAIN F[k], Frees(F[k][i], b)
      PROVE  \E m \in k..new : \E n \in DOMAIN F[m] : (m > k \/ n > i) /\ Allocs(F[m][n], b)
  <2>1. k \in lo..hi /\ i \in DOMAIN E[k] /\ F[k][i] = E[k][i]
    BY <1>2, <1>3
  <2>2. PICK m \in k..hi : \E n \in DOMAIN E[m] : (m > k \/ n > i) /\ Allocs(E[m][n], b)
    BY <1>3, <2>1 DEF Safe
  <2>3. PICK n \in DOMAIN E[m] : (m > k \/ n > i) /\ Allocs(E[m][n], b)
    BY <2>2
  <2>4. m \in lo..hi /\ m \in k..new
    BY <1>1, <2>1
  <2> QED
    BY <1>1, <2>3, <2>4
<1>4. ASSUME NEW m \in Int, m >= lo, Hit(E, m, hi, b) PROVE Hit(F, m, new, b)
  <2>1. PICK k \in m..hi : \E i \in DOMAIN E[k] : Allocs(E[k][i], b)
    BY <1>4 DEF Hit
  <2>2. k \in lo..hi /\ k \in m..new
    BY <1>1, <1>4
  <2> QED
    BY <1>1, <2>1, <2>2 DEF Hit
<1> QED
  BY <1>3, <1>4 DEF Keeps, Safe

(* After an entry that allocates b the log is safe for b, and hits it.     *)
LEMMA EntryTakes ==
  ASSUME NEW E, NEW F, NEW lo \in Int, NEW hi \in Int, NEW new \in Int, NEW e, NEW b,
         OneMore(E, F, lo, hi, new, e), Allocs(e, b)
  PROVE  Takes(F, lo, new, b)
<1>2. PICK j \in DOMAIN F[new] :
       /\ F[new][j] = e
       /\ \A k \in lo..new : \A i \in DOMAIN F[k] :
            \/ k = new /\ i = j
            \/ k \in lo..hi /\ i \in DOMAIN E[k] /\ F[k][i] = E[k][i] /\ (k < new \/ i < j)
  BY DEF OneMore
<1>3. ASSUME NEW k \in lo..new, NEW i \in DOMAIN F[k], Frees(F[k][i], b)
      PROVE  \E m \in k..new : \E n \in DOMAIN F[m] : (m > k \/ n > i) /\ Allocs(F[m][n], b)
  <2>1. ~Frees(e, b)
    BY DEF Frees, Allocs
  <2>2. k < new \/ i < j
    BY <1>2, <1>3, <2>1
  <2>3. new \in k..new /\ (new > k \/ j > i)
    BY <2>2
  <2> QED
    BY <1>2, <2>3
<1>4. ASSUME NEW m \in Int, m >= lo, m <= new PROVE Hit(F, m, new, b)
  <2>1. new \in m..new
    BY <1>4
  <2> QED
    BY <1>2, <2>1 DEF Hit
<1> QED
  BY <1>3, <1>4 DEF Takes, Safe

(* The log with its blocks from index t on replaced by the given ones.     *)
LogWith(E, t, blocks) == [k \in Int |-> IF k < t THEN E[k] ELSE blocks[k - t + 1]]

(* log_entry adds its entry at the end, in the last block or in a new one. *)
LEMMA EntryLogged ==
  ASSUME NEW E, NEW t \in Nat, NEW lo \in Int,
         NEW blocks \in Seq(Entries), NEW isopen \in BOOLEAN, NEW e \in Rec,
         isopen => Len(blocks) > 0
  PROVE  OneMore(LogWith(E, t, blocks), LogWith(E, t, log_entry(blocks, isopen, e)), lo,
                 t + Len(blocks) - 1, t + Len(log_entry(blocks, isopen, e)) - 1, e)
<1> DEFINE n == Len(blocks)
           after == log_entry(blocks, isopen, e)
           A == LogWith(E, t, blocks)
           F == LogWith(E, t, after)
           hi == t + n - 1
           new == t + Len(after) - 1
<1>0. n \in Nat /\ Entries = Seq(Rec) /\ DOMAIN blocks = 1..n
  BY LenProperties DEF Entries, Rec
<1>1. \A k \in Int : k < t => A[k] = E[k] /\ F[k] = E[k]
  BY DEF LogWith
<1>2. \A k \in Int : ~(k < t) => A[k] = blocks[k - t + 1] /\ F[k] = after[k - t + 1]
  BY DEF LogWith
<1>3. CASE isopen /\ Len(blocks[n]) < LogCap
  <2>1. after = [blocks EXCEPT ![n] = Append(blocks[n], e)]
    BY <1>3 DEF log_entry
  <2>2. n \in 1..n /\ n > 0
    BY <1>0, <1>3
  <2>3. blocks[n] \in Seq(Rec)
    BY <1>0, <2>2, ElementOfSeq
  <2> DEFINE j == Len(blocks[n]) + 1
             last == Append(blocks[n], e)
  <2>4. /\ DOMAIN last = 1..j /\ j \in Nat /\ last[j] = e
        /\ DOMAIN blocks[n] = 1..(j - 1)
        /\ \A i \in 1..(j - 1) : last[i] = blocks[n][i]
    <3>1. /\ Len(blocks[n]) \in Nat /\ DOMAIN blocks[n] = 1..Len(blocks[n])
          /\ last \in Seq(Rec) /\ Len(last) = Len(blocks[n]) + 1
          /\ \A i \in 1..Len(blocks[n]) : last[i] = blocks[n][i]
          /\ last[Len(blocks[n]) + 1] = e
      BY <2>3, AppendProperties, LenProperties
    <3>2. DOMAIN last = 1..Len(last)
      BY <3>1, LenProperties
    <3>3. j - 1 = Len(blocks[n]) /\ j = Len(blocks[n]) + 1 /\ j \in Nat
      BY <3>1
    <3> HIDE DEF j, last
    <3> QED
      BY <3>1, <3>2, <3>3, Zenon
  <2>5. Len(after) = n /\ \A k \in 1..n : after[k] = IF k = n THEN last ELSE blocks[k]
    <3>1. last \in Entries
      BY <1>0, <2>3, AppendProperties
    <3>2. Len(after) = n
      BY <2>1, <2>2, <3>1, ExceptSeq
    <3> HIDE DEF n, last
    <3>3. after = [blocks EXCEPT ![n] = last]
      BY <2>1 DEF last
    <3> QED
      BY <1>0, <3>2, <3>3
  <2>6. j \in 1..j /\ \A i \in 1..j : i = j \/ (i \in 1..(j - 1) /\ i < j)
    BY <2>4
  <2>7. \A i \in 1..(j - 1) : i \in 1..j
    BY <2>4
  <2> HIDE DEF n, after, A, F, j, last
  <2>8. new = hi /\ hi \in Int /\ ~(hi < t) /\ hi - t + 1 = n
    BY <1>0, <2>2, <2>5
  <2>9. \A k \in lo..hi : ~(k < t) /\ k # hi => k - t + 1 \in 1..n /\ k - t + 1 # n
    BY <1>0, <2>8
  <2>10. A[hi] = blocks[n] /\ F[hi] = last
    BY <1>2, <2>2, <2>5, <2>8
  <2>11. \A k \in lo..hi : k # hi => F[k] = A[k]
    BY <1>1, <1>2, <2>5, <2>9
  <2>12. \A k \in lo..hi : \A i \in DOMAIN A[k] : i \in DOMAIN F[k] /\ F[k][i] = A[k][i]
    BY <2>4, <2>7, <2>10, <2>11
  <2>13. ASSUME NEW k \in lo..hi, NEW i \in DOMAIN F[k]
         PROVE  \/ k = hi /\ i = j
                \/ k \in lo..hi /\ i \in DOMAIN A[k] /\ F[k][i] = A[k][i] /\ (k < hi \/ i < j)
    <3>1. CASE k = hi
      BY <2>4, <2>6, <2>10, <3>1
    <3>2. CASE k # hi
      <4>1. k < hi
        BY <2>8, <3>2
      <4> QED
        BY <2>11, <3>2, <4>1
    <3> QED
      BY <3>1, <3>2
  <2>14. j \in DOMAIN F[hi] /\ F[hi][j] = e /\ hi <= hi
    BY <2>4, <2>6, <2>8, <2>10
  <2>15. OneMore(A, F, lo, hi, hi, e)
    BY <2>12, <2>13, <2>14, Zenon DEF OneMore
  <2> QED
    BY <2>8, <2>15 DEF A, F, after, n
<1>4. CASE ~(isopen /\ Len(blocks[n]) < LogCap)
  <2>1. after = Append(blocks, <<e>>)
    BY <1>4 DEF log_entry
  <2> DEFINE last == <<e>>
  <2>2. last \in Entries /\ DOMAIN last = {1} /\ last[1] = e
    BY <1>0
  <2> HIDE DEF last
  <2>3. Len(after) = n + 1 /\ after[n + 1] = last /\ \A k \in 1..n : after[k] = blocks[k]
    BY <2>1, <2>2, AppendProperties DEF last
  <2> HIDE DEF n, after, A, F
  <2>4. new = hi + 1 /\ hi \in Int /\ ~(new < t) /\ new - t + 1 = n + 1 /\ new \in Int
    BY <1>0, <2>3
  <2>5. \A k \in lo..hi : ~(k < t) => k - t + 1 \in 1..n
    BY <1>0
  <2>6. F[new] = last
    BY <1>2, <2>3, <2>4
  <2>7. \A k \in lo..hi : F[k] = A[k]
    BY <1>1, <1>2, <2>3, <2>5, SMTT(60)
  <2>8. \A k \in lo..new : k = new \/ (k \in lo..hi /\ k < new)
    BY <2>4
  <2>9. \A k \in lo..hi : \A i \in DOMAIN A[k] : i \in DOMAIN F[k] /\ F[k][i] = A[k][i]
    BY <2>7
  <2>10. ASSUME NEW k \in lo..new, NEW i \in DOMAIN F[k]
         PROVE  \/ k = new /\ i = 1
                \/ k \in lo..hi /\ i \in DOMAIN A[k] /\ F[k][i] = A[k][i] /\ (k < new \/ i < 1)
    BY <2>2, <2>6, <2>7, <2>8
  <2>11. 1 \in DOMAIN F[new] /\ F[new][1] = e /\ hi <= new
    BY <2>2, <2>4, <2>6
  <2> HIDE DEF hi, new
  <2>15. OneMore(A, F, lo, hi, new, e)
    BY <2>9, <2>10, <2>11, Zenon DEF OneMore
  <2> QED
    BY <2>15 DEF A, F, after, n, hi, new
<1> QED
  BY <1>3, <1>4

(* One log keeps what another keeps of a third.                            *)
LEMMA KeepsOn ==
  ASSUME NEW E, NEW F, NEW G, NEW lo, NEW h1, NEW h2, NEW h3, NEW b,
         Keeps(E, F, lo, h1, h2, b), Keeps(F, G, lo, h2, h3, b)
  PROVE  Keeps(E, G, lo, h1, h3, b)
BY DEF Keeps

(* Entries that do not free b take nothing away from it, and when the last *)
(* of them allocates b the log takes it.                                   *)
LEMMA EntriesKeep ==
  ASSUME NEW E, NEW t \in Nat, NEW lo \in Int, NEW b,
         NEW blocks \in Seq(Entries), NEW isopen \in BOOLEAN, NEW es \in Entries,
         isopen => Len(blocks) > 0
  PROVE  LET after == log_entries(blocks, isopen, es)
             A == LogWith(E, t, blocks)
             F == LogWith(E, t, after)
         IN  /\ (\A i \in DOMAIN es : ~Frees(es[i], b))
                  => Keeps(A, F, lo, t + Len(blocks) - 1, t + Len(after) - 1, b)
             /\ es # <<>> /\ Allocs(es[Len(es)], b) => Takes(F, lo, t + Len(after) - 1, b)
<1> DEFINE n == Len(es)
           after == log_entries(blocks, isopen, es)
           A == LogWith(E, t, blocks)
           F == LogWith(E, t, after)
           hi == t + Len(blocks) - 1
           new == t + Len(after) - 1
<1>0. /\ Entries = Seq(Rec) /\ n \in Nat /\ DOMAIN es = 1..n /\ (es # <<>> => n > 0)
      /\ Len(blocks) \in Nat
  <2>1. es \in Seq(Rec)
    BY DEF Entries, Rec
  <2> QED
    BY <2>1, EmptySeq, LenProperties DEF Entries, Rec
<1>1. \A i \in 1..n : es[i] \in Rec
  BY <1>0, ElementOfSeq
<1>2. PICK g : LogSteps(g, blocks, isopen, es, n)
  BY LogEntriesUnfold
<1> DEFINE G(i) == LogWith(E, t, g[i])
           H(i) == t + Len(g[i]) - 1
<1> HIDE DEF n
<1>3. ASSUME NEW i \in 1..n
      PROVE  OneMore(G(i - 1), G(i), lo, H(i - 1), H(i), es[i]) /\ H(i - 1) \in Int /\ H(i) \in Int
  <2>1. i \in 0..n /\ i - 1 \in 0..n /\ (i - 1 > 0 <=> i > 1)
    BY <1>0
  <2>2. /\ g[i - 1] \in Seq(Entries) /\ g[i] \in Seq(Entries)
        /\ isopen \/ i - 1 > 0 => Len(g[i - 1]) > 0
        /\ g[i] = log_entry(g[i - 1], isopen \/ i > 1, es[i])
    BY <1>2, <2>1, Zenon DEF LogSteps
  <2>3. (isopen \/ i > 1) \in BOOLEAN /\ es[i] \in Rec /\ (isopen \/ i > 1 => Len(g[i - 1]) > 0)
    BY <1>1, <2>1, <2>2
  <2> DEFINE o == (isopen \/ i > 1)
  <2> HIDE DEF o
  <2>4. OneMore(LogWith(E, t, g[i - 1]), LogWith(E, t, log_entry(g[i - 1], o, es[i])), lo,
                t + Len(g[i - 1]) - 1, t + Len(log_entry(g[i - 1], o, es[i])) - 1, es[i])
    BY <2>2, <2>3, EntryLogged DEF o
  <2>5. g[i] = log_entry(g[i - 1], o, es[i])
    BY <2>2 DEF o
  <2>6. Len(g[i - 1]) \in Nat /\ Len(g[i]) \in Nat
    BY <2>2, LenProperties
  <2> QED
    BY <2>4, <2>5, <2>6
<1>4. g[0] = blocks /\ g[n] = after
  BY <1>2, Zenon DEF LogSteps
<1>5. ASSUME \A i \in 1..n : ~Frees(es[i], b) PROVE Keeps(G(0), G(n), lo, H(0), H(n), b)
  <2> DEFINE S == {i \in Nat : Keeps(G(0), G(i), lo, H(0), H(i), b)}
  <2> HIDE DEF G, H
  <2>1. 0 \in S
    BY DEF Keeps
  <2>2. ASSUME NEW i \in 0..(n - 1), i \in S PROVE i + 1 \in S
    <3>1. i + 1 \in 1..n /\ (i + 1) - 1 = i /\ i + 1 \in Nat
      BY <1>0
    <3>2. OneMore(G(i), G(i + 1), lo, H(i), H(i + 1), es[i + 1]) /\ H(i) \in Int /\ H(i + 1) \in Int
      BY <1>3, <3>1
    <3>3. Keeps(G(i), G(i + 1), lo, H(i), H(i + 1), b)
      BY <1>5, <3>1, <3>2, EntryKeeps
    <3>4. Keeps(G(0), G(i), lo, H(0), H(i), b)
      BY <2>2
    <3>5. Keeps(G(0), G(i + 1), lo, H(0), H(i + 1), b)
      BY <3>3, <3>4, KeepsOn
    <3> QED
      BY <3>1, <3>5
  <2> HIDE DEF S
  <2>3. 0..n \subseteq S
    BY <1>0, <2>1, <2>2, BoundedInduction
  <2>4. n \in 0..n
    BY <1>0
  <2> QED
    BY <2>3, <2>4 DEF S
<1>6. ASSUME n > 0, Allocs(es[n], b) PROVE Takes(G(n), lo, H(n), b)
  <2>1. n \in 1..n
    BY <1>0, <1>6
  <2> HIDE DEF G, H
  <2> QED
    BY <1>3, <1>6, <2>1, EntryTakes
<1>7. G(0) = A /\ G(n) = F /\ H(0) = hi /\ H(n) = new
  BY <1>4
<1> HIDE DEF G, H, A, F, hi, new
<1>8. (\A i \in 1..n : ~Frees(es[i], b)) => Keeps(A, F, lo, hi, new, b)
  BY <1>5, <1>7
<1>9. es # <<>> /\ Allocs(es[n], b) => Takes(F, lo, new, b)
  BY <1>0, <1>6, <1>7
<1> QED
  BY <1>0, <1>8, <1>9, Zenon DEF A, F, hi, new, n

-----------------------------------------------------------------------------
(***************************************************************************)
(* Replay.  ReplayBits is what the second pass carries: the bits and the count.  *)
(***************************************************************************)
ReplayBits == [bits : SUBSET Block, free : Int]

(* The entries that replay does not refuse.                                *)
Known(e) == e.op \notin {"bnode_root", "bnode_split"}

(* A log entry changes the bit of its block at most.                       *)
LEMMA EntryReplayed ==
  ASSUME NEW v \in ReplayBits, NEW e \in Rec
  PROVE  /\ replay_entry(v, e) \in ReplayBits
         /\ \A b : Known(e) /\ Allocs(e, b) => b \in replay_entry(v, e).bits
         /\ \A b : ~Frees(e, b) /\ b \in v.bits => b \in replay_entry(v, e).bits
<1>1. v.bits \in SUBSET Block /\ v.free \in Int /\ e.block \in Block /\ e.op \in Ops
  BY DEF ReplayBits, Rec
<1>2. CASE e.op = "balloc" /\ e.block \notin v.bits
  <2>1. replay_entry(v, e) = [bits |-> v.bits \cup {e.block}, free |-> v.free + 1]
    BY <1>2 DEF replay_entry, update_bitmap
  <2>2. replay_entry(v, e) \in ReplayBits /\ replay_entry(v, e).bits = v.bits \cup {e.block}
    BY <1>1, <2>1 DEF ReplayBits
  <2> QED
    BY <1>2, <2>2 DEF Allocs, Known
<1>3. CASE e.op \in {"bfree", "bfree_on_rollup"} /\ e.block \in v.bits
  <2>1. replay_entry(v, e) = [bits |-> v.bits \ {e.block}, free |-> v.free + (CountRange - 1)]
    BY <1>3 DEF replay_entry, update_bitmap
  <2>2. replay_entry(v, e) \in ReplayBits /\ replay_entry(v, e).bits = v.bits \ {e.block}
    BY <1>1, <2>1, RecoveryAssumption DEF ReplayBits
  <2> QED
    BY <1>3, <2>2 DEF Allocs, Frees
<1>4. CASE ~(e.op = "balloc" /\ e.block \notin v.bits)
           /\ ~(e.op \in {"bfree", "bfree_on_rollup"} /\ e.block \in v.bits)
  <2>1. replay_entry(v, e) = v
    BY <1>4 DEF replay_entry, update_bitmap
  <2> QED
    BY <1>4, <2>1 DEF Allocs, Known
<1> QED
  BY <1>2, <1>3, <1>4

(* Replaying a log block: a block that is allocated before, or allocated   *)
(* in it, is allocated after, unless the log block frees it and does not   *)
(* take it again.                                                          *)
LEMMA BlockReplayed ==
  ASSUME NEW v \in ReplayBits, NEW es \in Entries, \A i \in DOMAIN es : Known(es[i])
  PROVE  /\ replay_block(v, es) \in ReplayBits
         /\ \A b : /\ \A i \in DOMAIN es :
                        Frees(es[i], b) => \E j \in DOMAIN es : j > i /\ Allocs(es[j], b)
                   /\ b \in v.bits \/ \E i \in DOMAIN es : Allocs(es[i], b)
                   => b \in replay_block(v, es).bits
<1> DEFINE n == Len(es)
           Step(f, i) == replay_entry(f[i - 1], es[i])
           After == CHOOSE f : f = [i \in 0..n |-> IF i = 0 THEN v ELSE Step(f, i)]
           F == [z \in (1..n) \X ReplayBits |-> replay_entry(z[2], es[z[1]])]
<1>0. n \in Nat /\ DOMAIN es = 1..n /\ \A i \in 1..n : es[i] \in Rec
  <2>1. es \in Seq(Rec)
    BY DEF Entries, Rec
  <2> QED
    BY <2>1, LenProperties, ElementOfSeq
<1>a. replay_block(v, es) = After[n]
  BY Zenon DEF replay_block
<1> HIDE DEF n
<1>1. F \in [(1..n) \X ReplayBits -> ReplayBits]
  <2>1. ASSUME NEW z \in (1..n) \X ReplayBits PROVE replay_entry(z[2], es[z[1]]) \in ReplayBits
    <3>1. z[1] \in 1..n /\ z[2] \in ReplayBits
      OBVIOUS
    <3> QED
      BY <1>0, <3>1, EntryReplayed
  <2> QED
    BY <2>1
<1>2. PICK g \in [0..n -> ReplayBits] : Follows(g, n, v, F)
  <2> HIDE DEF F
  <2> QED
    BY <1>0, <1>1, RecursionExists
<1>3. g[0] = v /\ \A i \in 1..n : g[i] = Step(g, i) /\ g[i] \in ReplayBits /\ g[i - 1] \in ReplayBits
  <2>1. g[0] = v /\ \A i \in 1..n : g[i] = F[<<i, g[i - 1]>>]
    BY <1>2, Zenon DEF Follows
  <2>2. \A i \in 1..n : i - 1 \in 0..n /\ i \in 0..n
    BY <1>0
  <2>3. \A i \in 1..n : <<i, g[i - 1]>> \in (1..n) \X ReplayBits
    BY <2>2
  <2>4. \A i \in 1..n : F[<<i, g[i - 1]>>] = replay_entry(g[i - 1], es[i])
    BY <2>3
  <2> QED
    BY <2>1, <2>2, <2>4
<1> HIDE DEF F
<1>4. g = [i \in 0..n |-> IF i = 0 THEN v ELSE Step(g, i)]
  <2>1. \A i \in 0..n : i = 0 \/ i \in 1..n
    OBVIOUS
  <2>2. \A i \in 0..n : g[i] = IF i = 0 THEN v ELSE Step(g, i)
    BY <1>3, <2>1
  <2> HIDE DEF Step
  <2> QED
    BY <2>2
<1>5. After = [i \in 0..n |-> IF i = 0 THEN v ELSE Step(After, i)]
  <2> HIDE DEF Step
  <2> QED
    BY <1>4
<1> HIDE DEF After
<1>6. /\ After[0] = v
      /\ \A i \in 1..n : After[i] = Step(After, i)
  <2>1. 0 \in 0..n /\ \A i \in 1..n : i \in 0..n /\ i # 0
    BY <1>0
  <2> HIDE DEF Step
  <2> QED
    BY <1>5, <2>1
<1>7. \A i \in 0..n : After[i] \in ReplayBits
  <2> DEFINE S == {i \in Nat : After[i] \in ReplayBits}
  <2>1. 0 \in S
    BY <1>6
  <2>2. ASSUME NEW i \in 0..(n - 1), i \in S PROVE i + 1 \in S
    <3>1. i + 1 \in 1..n /\ (i + 1) - 1 = i /\ i + 1 \in Nat
      BY <1>0
    <3>2. After[i + 1] = replay_entry(After[i], es[i + 1]) /\ After[i] \in ReplayBits /\ es[i + 1] \in Rec
      BY <1>0, <1>6, <2>2, <3>1
    <3> QED
      BY <3>1, <3>2, EntryReplayed
  <2> HIDE DEF S
  <2>3. 0..n \subseteq S
    BY <1>0, <2>1, <2>2, BoundedInduction
  <2> QED
    BY <2>3 DEF S
<1>8. ASSUME NEW b,
             \A i \in 1..n : Frees(es[i], b) => \E j \in 1..n : j > i /\ Allocs(es[j], b),
             b \in v.bits \/ \E i \in 1..n : Allocs(es[i], b)
      PROVE  b \in After[n].bits
  <2> DEFINE Covers(m) ==
               /\ \A i \in 1..m : Frees(es[i], b) => \E j \in 1..m : j > i /\ Allocs(es[j], b)
               /\ b \in v.bits \/ \E i \in 1..m : Allocs(es[i], b)
             S == {m \in Nat : Covers(m) => b \in After[m].bits}
  <2>1. 0 \in S
    <3>1. Covers(0) => b \in v.bits
      OBVIOUS
    <3> HIDE DEF Covers
    <3> QED
      BY <1>6, <3>1
  <2>2. ASSUME NEW m \in 0..(n - 1), m \in S PROVE m + 1 \in S
    <3>1. /\ m + 1 \in 1..n /\ (m + 1) - 1 = m /\ m + 1 \in Nat /\ m \in 0..n
          /\ m + 1 \in 1..(m + 1)
          /\ \A i \in 1..(m + 1) : i \in 1..m \/ i = m + 1
          /\ \A i \in 1..m : i \in 1..(m + 1)
          /\ \A j \in 1..(m + 1) : ~(j > m + 1)
      BY <1>0
    <3>2. /\ After[m + 1] = replay_entry(After[m], es[m + 1]) /\ After[m] \in ReplayBits
          /\ es[m + 1] \in Rec /\ Known(es[m + 1])
      BY <1>0, <1>6, <1>7, <3>1
    <3>3. /\ Allocs(es[m + 1], b) => b \in After[m + 1].bits
          /\ ~Frees(es[m + 1], b) /\ b \in After[m].bits => b \in After[m + 1].bits
      BY <3>2, EntryReplayed
    <3>4. ASSUME Covers(m + 1), ~Allocs(es[m + 1], b) PROVE Covers(m) /\ ~Frees(es[m + 1], b)
      BY <3>1, <3>4
    <3> HIDE DEF Covers
    <3>5. Covers(m) => b \in After[m].bits
      BY <2>2
    <3>6. Covers(m + 1) => b \in After[m + 1].bits
      BY <3>3, <3>4, <3>5
    <3> QED
      BY <3>1, <3>6
  <2>3. Covers(n)
    BY <1>8
  <2> HIDE DEF S, Covers
  <2>4. 0..n \subseteq S
    BY <1>0, <2>1, <2>2, BoundedInduction
  <2>5. n \in 0..n
    BY <1>0
  <2> QED
    BY <2>3, <2>4, <2>5 DEF S
<1>9. After[n] \in ReplayBits
  BY <1>0, <1>7
<1> HIDE DEF Step
<1> QED
  BY <1>0, <1>a, <1>8, <1>9, Zenon

(* Replaying the log blocks that the superblock leads to, over an image of *)
(* the bitmap: what the log and the image cover is allocated in the end.   *)
LEMMA LogReplayed ==
  ASSUME TypeOK, NEW p, NEW E, NEW img \in SUBSET Block, NEW b, Recognized(LoadedLog),
         IsChain(p, disk, super.base, super.base + super.logcount - 1, super.chain, Block),
         \A k \in super.base..(super.base + super.logcount - 1) : disk[p[k]].entries = E[k],
         Safe(E, super.base, super.base + super.logcount - 1, b),
         Hit(E, super.base, super.base + super.logcount - 1, b) \/ b \in img
  PROVE  b \in replay(img).bits
<1> DEFINE n == super.logcount
           lo == super.base
           x0 == [bits |-> img, free |-> VolBlocks - Cardinality(img)]
           loaded == LoadedLog
           Step(f, k) == replay_block(f[k - 1], loaded[k])
           After == CHOOSE f : f = [k \in 0..n |-> IF k = 0 THEN x0 ELSE Step(f, k)]
           F == [z \in (1..n) \X ReplayBits |-> replay_block(z[2], loaded[z[1]])]
<1>0. n \in Nat /\ lo \in Nat
  BY ChainBounds
<1>1. \A k \in 1..n : /\ loaded[k] = E[lo + k - 1] /\ loaded[k] \in Entries
                     /\ lo + k - 1 \in lo..(lo + n - 1)
                     /\ \A i \in DOMAIN loaded[k] : Known(loaded[k][i])
  <2> SUFFICES ASSUME NEW k \in 1..n
               PROVE  /\ loaded[k] = E[lo + k - 1] /\ loaded[k] \in Entries
                      /\ lo + k - 1 \in lo..(lo + n - 1)
                      /\ \A i \in DOMAIN loaded[k] : Known(loaded[k][i])
    OBVIOUS
  <2>1. /\ n - k \in 0..(n - 1) /\ lo + n - 1 - (n - k) = lo + k - 1
        /\ lo + k - 1 \in lo..(lo + n - 1)
    BY <1>0
  <2>2. loaded[k] = disk[ChainAt(n - k)].entries
    BY DEF LoadedLog
  <2>3. ChainAt(n - k) = p[lo + k - 1]
    BY <2>1, ChainFollowed
  <2>4. p[lo + k - 1] \in Block /\ disk[p[lo + k - 1]].entries = E[lo + k - 1]
    BY <2>1 DEF IsChain
  <2>5. disk[p[lo + k - 1]].entries \in Entries
    BY <2>4 DEF TypeOK, Content
  <2>6. k \in DOMAIN loaded
    BY DEF LoadedLog
  <2>7. \A i \in DOMAIN loaded[k] : Known(loaded[k][i])
    BY <2>6, Zenon DEF Recognized, Known
  <2> QED
    BY <2>1, <2>2, <2>3, <2>4, <2>5, <2>7
<1>2. x0 \in ReplayBits
  <2>1. IsFiniteSet(Block)
    BY FS_Interval, CommitAssumption DEF Block
  <2>2. Cardinality(img) \in Nat
    BY <2>1, FS_Subset, FS_CardinalityType
  <2> QED
    BY <2>2, CommitAssumption DEF ReplayBits
<1>a. replay(img) = After[n]
  BY Zenon DEF replay
<1>b. x0.bits = img
  OBVIOUS
<1> HIDE DEF n, loaded, x0
<1>3. F \in [(1..n) \X ReplayBits -> ReplayBits]
  <2>1. ASSUME NEW z \in (1..n) \X ReplayBits PROVE replay_block(z[2], loaded[z[1]]) \in ReplayBits
    <3>1. z[1] \in 1..n /\ z[2] \in ReplayBits
      OBVIOUS
    <3> QED
      BY <1>1, <3>1, BlockReplayed
  <2> QED
    BY <2>1
<1>4. PICK g \in [0..n -> ReplayBits] : Follows(g, n, x0, F)
  <2> HIDE DEF F
  <2> QED
    BY <1>0, <1>2, <1>3, RecursionExists
<1>5. g[0] = x0 /\ \A i \in 1..n : g[i] = Step(g, i)
  <2>1. g[0] = x0 /\ \A i \in 1..n : g[i] = F[<<i, g[i - 1]>>]
    BY <1>4, Zenon DEF Follows
  <2>2. \A i \in 1..n : i - 1 \in 0..n
    BY <1>0
  <2>3. \A i \in 1..n : <<i, g[i - 1]>> \in (1..n) \X ReplayBits
    BY <2>2
  <2>4. \A i \in 1..n : F[<<i, g[i - 1]>>] = replay_block(g[i - 1], loaded[i])
    BY <2>3
  <2> QED
    BY <2>1, <2>4
<1> HIDE DEF F
<1>6. g = [k \in 0..n |-> IF k = 0 THEN x0 ELSE Step(g, k)]
  <2>1. \A k \in 0..n : k = 0 \/ k \in 1..n
    OBVIOUS
  <2>2. \A k \in 0..n : g[k] = IF k = 0 THEN x0 ELSE Step(g, k)
    BY <1>5, <2>1
  <2> HIDE DEF Step
  <2> QED
    BY <2>2
<1>7. After = [k \in 0..n |-> IF k = 0 THEN x0 ELSE Step(After, k)]
  <2> HIDE DEF Step
  <2> QED
    BY <1>6
<1> HIDE DEF After
<1>8. After[0] = x0 /\ \A k \in 1..n : After[k] = Step(After, k)
  <2>1. 0 \in 0..n /\ \A i \in 1..n : i \in 0..n /\ i # 0
    BY <1>0
  <2> HIDE DEF Step
  <2> QED
    BY <1>7, <2>1
<1> DEFINE Covers(m) == Safe(E, lo, lo + m - 1, b) /\ (Hit(E, lo, lo + m - 1, b) \/ b \in img)
           S == {m \in Nat : After[m] \in ReplayBits /\ (Covers(m) => b \in After[m].bits)}
<1>9. 0 \in S
  <2>1. ~Hit(E, lo, lo + 0 - 1, b)
    BY <1>0 DEF Hit
  <2> QED
    BY <1>2, <1>8, <1>b, <2>1
<1>10. ASSUME NEW m \in 0..(n - 1), m \in S PROVE m + 1 \in S
  <2> DEFINE es == E[lo + m]
             top == lo + m
  <2>1. /\ m + 1 \in 1..n /\ (m + 1) - 1 = m /\ m + 1 \in Nat /\ lo + (m + 1) - 1 = top
        /\ lo + m - 1 = top - 1 /\ top \in Int /\ top >= lo
    BY <1>0
  <2>a. lo + (m + 1) - 1 = lo + m /\ m + 1 \in 1..n
    BY <1>0, <2>1
  <2>b. loaded[m + 1] = es
    BY <1>1, <2>a
  <2>2. After[m + 1] = replay_block(After[m], es) /\ After[m] \in ReplayBits /\ es \in Entries
    BY <1>1, <1>8, <1>10, <2>1
  <2>c. \A i \in DOMAIN es : Known(es[i])
    <3> HIDE DEF es
    <3> QED
      BY <1>1, <2>a, <2>b, Zenon
  <2>3. After[m + 1] \in ReplayBits
    <3> HIDE DEF es
    <3> QED
      BY <2>2, <2>c, BlockReplayed
  <2>4. ASSUME Covers(m + 1) PROVE b \in After[m + 1].bits
    <3>1. Safe(E, lo, top, b) /\ (Hit(E, lo, top, b) \/ b \in img)
      BY <2>1, <2>4
    <3>2. \A i \in DOMAIN es : Frees(es[i], b) => \E j \in DOMAIN es : j > i /\ Allocs(es[j], b)
      <4>1. top \in lo..top /\ \A q \in top..top : q = top /\ ~(q > top)
        BY <1>0, <2>1
      <4> HIDE DEF top
      <4>2. es = E[top]
        BY DEF top
      <4> HIDE DEF es
      <4> QED
        BY <3>1, <4>1, <4>2 DEF Safe
    <3>3. ASSUME ~\E i \in DOMAIN es : Allocs(es[i], b) PROVE Covers(m)
      <4>1. \A k \in lo..top : k = top \/ k \in lo..(top - 1)
        BY <1>0, <2>1, SMTT(60)
      <4>2. \A k \in lo..(top - 1) : k \in lo..top /\ \A q \in k..top : q = top \/ q \in k..(top - 1)
        BY <1>0, <2>1
      <4> HIDE DEF top
      <4>3. es = E[top]
        BY DEF top
      <4> HIDE DEF es
      <4>4. Safe(E, lo, top - 1, b)
        <5> SUFFICES ASSUME NEW k \in lo..(top - 1), NEW i \in DOMAIN E[k], Frees(E[k][i], b)
                     PROVE  \E q \in k..(top - 1) : \E j \in DOMAIN E[q] :
                              (q > k \/ j > i) /\ Allocs(E[q][j], b)
          BY DEF Safe
        <5>1. PICK q \in k..top : \E j \in DOMAIN E[q] : (q > k \/ j > i) /\ Allocs(E[q][j], b)
          BY <3>1, <4>2 DEF Safe
        <5>2. q \in k..(top - 1)
          BY <3>3, <4>2, <4>3, <5>1
        <5> QED
          BY <5>1, <5>2
      <4>5. Hit(E, lo, top - 1, b) \/ b \in img
        BY <3>1, <3>3, <4>1, <4>3 DEF Hit
      <4> QED
        BY <2>1, <4>4, <4>5
    <3>4. b \in After[m].bits \/ \E i \in DOMAIN es : Allocs(es[i], b)
      BY <1>10, <3>3
    <3> HIDE DEF es
    <3> QED
      BY <2>2, <2>c, <3>2, <3>4, BlockReplayed, Zenon
  <2> QED
    BY <2>1, <2>3, <2>4
<1>11. Covers(n)
  BY DEF n
<1> HIDE DEF S, Covers
<1>12. 0..n \subseteq S
  BY <1>0, <1>9, <1>10, BoundedInduction
<1>13. n \in 0..n
  BY <1>0
<1> QED
  BY <1>a, <1>11, <1>12, <1>13 DEF S

-----------------------------------------------------------------------------
(***************************************************************************)
(* The log in memory: p gives the places of its written blocks, E the      *)
(* entries of the written and of the pending ones.  It covers a block b    *)
(* that is in use when it is safe for b and, from next_logbase on, hits b  *)
(* or starts from an image with b.  With the image before that, the log    *)
(* from logbase on does, which is what the next superblock will name.      *)
(* While a rollup has moved logbase and has not yet written the bitmap,    *)
(* the image at bmloc is the older of the two.                             *)
(***************************************************************************)
Journal(p, E) ==
  /\ IsChain(p, disk, log.base, Written, log.chain, Holds(decycle) \cup Holds(new_decycle))
  /\ \A k \in log.base..Written : disk[p[k]].entries = E[k]
  /\ \A k \in log.nbase..Written : p[k] \in Holds(new_decycle)
  /\ \A k \in log.this..(log.next - 1) : E[k] = pend[k - log.this + 1]

Covered(E, b) ==
  /\ Safe(E, log.base, log.next - 1, b)
  /\ stage.at # "bitmap" =>
       /\ Hit(E, log.nbase, log.next - 1, b) \/ b \in disk[bmloc].img
       /\ Hit(E, log.base, log.next - 1, b) \/ b \in disk[oldloc].img
  /\ stage.at = "bitmap" => Hit(E, log.base, log.next - 1, b) \/ b \in disk[bmloc].img

Trees == live \cup nodes

JournalCovers == \E p, E : Journal(p, E) /\ \A b \in Trees \cup {bmloc} : Covered(E, b)

(* An image that a rollup is about to write has what is in use, and so has *)
(* the one on the device while the bitmap buffer is clean.                 *)
Cycles ==
  /\ log.base <= log.nbase
  /\ open => log.nbase < log.next
  /\ stage.at = "bitmap" => Trees \subseteq cut.img
  /\ stage.at # "bitmap" /\ ~bm.listed => Trees \cup {bmloc} \subseteq disk[bmloc].img

(* The committed log covers the committed state, with each of the images.  *)
Recoverable ==
  \E p, E :
    /\ IsChain(p, disk, super.base, super.base + super.logcount - 1, super.chain, Stashed)
    /\ \A k \in super.base..(super.base + super.logcount - 1) : disk[p[k]].entries = E[k]
    /\ \A b \in super.used : \A loc \in super.maps :
         /\ Safe(E, super.base, super.base + super.logcount - 1, b)
         /\ Hit(E, super.base, super.base + super.logcount - 1, b) \/ b \in disk[loc].img

Logbook ==
  /\ Unharmed /\ Alive => Cycles /\ JournalCovers
  /\ Orderly /\ stage.at # "sync" => Recoverable

(* Nothing that the superblock or the next one needs is overwritten: only  *)
(* the end of a commit lets go of stashed blocks, and only sync_inodes     *)
(* writes in place.                                                        *)
DeviceKept ==
  /\ UNCHANGED super /\ Stashed \subseteq Stashed'
  /\ \A a \in Stashed \cup {bmloc} : disk'[a] = disk[a]

(* What a step does to the device and the superblock: nothing that the    *)
(* committed log needs, unless it commits or syncs.                        *)
LEMMA DeviceStep ==
  ASSUME TypeInv, HolderInv, HolderInv', Unharmed', [Next]_vars
  PROVE  DeviceKept \/ sync_inodes \/ sync_super \/ \E t \in Task : commit_delta(t)
<1>a. /\ TypeOK /\ disk \in [Block -> Content] /\ bmloc \in Block
      /\ defree \in Stash /\ derollup \in Stash /\ decycle \in Stash /\ new_decycle \in Stash
  BY DEF TypeInv, TypeOK
<1>b. ASSUME failed \subseteq failed' PROVE Unharmed
  BY <1>b DEF Unharmed
<1>c. ASSUME UNCHANGED <<super, stashes, disk>> PROVE DeviceKept
  BY <1>c DEF DeviceKept, Stashed, Holds, stashes
<1>d. ASSUME NEW b \in Block, b \notin bitmap, NEW c, disk' = [disk EXCEPT ![b] = c],
             UNCHANGED <<super, failed>>, Stashed \subseteq Stashed'
      PROVE  DeviceKept
  <2>1. Unharmed
    BY <1>b, <1>d
  <2>2. \A a \in Stashed \cup {bmloc} : disk'[a] = disk[a]
    BY <1>a, <1>d, <2>1, FreshMiss
  <2> QED
    BY <1>d, <2>2 DEF DeviceKept
<1>e. ASSUME NEW s \in Stash, NEW b \in Block PROVE Holds(s) \subseteq Holds(stash_value(s, b))
  <2>1. stash_value(s, b).vals = Append(s.vals, b) /\ s.vals \in Seq(Block)
    BY DEF stash_value, Stash
  <2> QED
    BY <2>1, AppendRange DEF Holds
<1>1. ASSUME NEW t \in Task, change_begin(t) PROVE DeviceKept
  BY <1>1, <1>c DEF change_begin
<1>2. ASSUME NEW t \in Task, change_end(t) PROVE DeviceKept
  BY <1>2, <1>c DEF change_end
<1>3. ASSUME NEW t \in Task, force_delta(t) PROVE DeviceKept
  BY <1>3, <1>c DEF force_delta
<1>4. ASSUME NEW t \in Task, CommitSkipped(t) PROVE DeviceKept
  BY <1>4, <1>c DEF CommitSkipped
<1>5. ASSUME NEW t \in Task, do_commit(t) PROVE DeviceKept
  BY <1>5, <1>c DEF do_commit
<1>6. ASSUME NEW t \in Task, AllocLogged(t) PROVE DeviceKept
  <2>1. PICK b \in Block : b \notin bitmap /\ disk' = [disk EXCEPT ![b] = Data]
    BY <1>6 DEF AllocLogged, balloc
  <2>2. UNCHANGED <<super, failed, stashes>>
    BY <1>6 DEF AllocLogged
  <2>3. Stashed' = Stashed
    BY <2>2 DEF Stashed, Holds, stashes
  <2> QED
    BY <1>d, <2>1, <2>2, <2>3
<1>7. ASSUME NEW t \in Task, NEW op \in {"bnode_split", "bnode_root"}, AllocNode(t, op)
      PROVE  DeviceKept
  <2>1. PICK b \in Block : b \notin bitmap /\ disk' = [disk EXCEPT ![b] = Data]
    BY <1>7 DEF AllocNode, balloc
  <2>2. UNCHANGED <<super, failed, stashes>>
    BY <1>7 DEF AllocNode
  <2>3. Stashed' = Stashed
    BY <2>2 DEF Stashed, Holds, stashes
  <2> QED
    BY <1>d, <2>1, <2>2, <2>3
<1>8. ASSUME NEW t \in Task, NEW b \in Block, FreeNow(t, b) PROVE DeviceKept
  BY <1>8, <1>c DEF FreeNow
<1>9. ASSUME NEW t \in Task, new_cycle_log(t) PROVE DeviceKept
  <2>1. UNCHANGED <<super, disk, failed, bitmap, live, nodes, leaves, bmloc>>
    BY <1>9 DEF new_cycle_log
  <2>2. Held /\ Held' /\ InUse' = InUse
    BY <2>1 DEF HolderInv, Unharmed, InUse
  <2>3. Stashed' = Stashed
    BY <2>1, <2>2 DEF Held
  <2> QED
    BY <2>1, <2>3 DEF DeviceKept
<1>10. ASSUME NEW t \in Task, new_cycle_log_asserts(t) PROVE DeviceKept
  BY <1>10, <1>c DEF new_cycle_log_asserts
<1>11. ASSUME NEW t \in Task, NEW b \in Block, write_bitmap(t, b) PROVE DeviceKept
  <2>1. /\ b \notin bitmap /\ derollup' = stash_value(derollup, bmloc)
        /\ UNCHANGED <<defree, decycle, new_decycle, super, failed>>
        /\ \/ disk' = [disk EXCEPT ![b] = MapBlock(Image(bitmap'))]
           \/ UNCHANGED disk
    BY <1>11 DEF write_bitmap, balloc, map_bfree, Die
  <2>2. Stashed \subseteq Stashed'
    BY <1>a, <1>e, <2>1 DEF Stashed
  <2>3. CASE UNCHANGED disk
    BY <2>1, <2>2, <2>3 DEF DeviceKept
  <2> QED
    BY <1>d, <2>1, <2>2, <2>3
<1>12. ASSUME NEW t \in Task, write_bitmap_enospc(t) PROVE FALSE
  BY <1>12 DEF write_bitmap_enospc, Unharmed
<1>13. ASSUME NEW t \in Task, write_log(t) PROVE DeviceKept
  <2>1. PICK b \in Block :
          /\ b \notin bitmap
          /\ disk' = [disk EXCEPT ![b] =
               LogBlock(log.this + stage.done, log.chain, pend[stage.done + 1])]
          /\ new_decycle' = stash_value(new_decycle, b)
    BY <1>13 DEF write_log, balloc
  <2>2. UNCHANGED <<defree, derollup, decycle, super, failed>>
    BY <1>13 DEF write_log
  <2>3. Stashed \subseteq Stashed'
    BY <1>a, <1>e, <2>1, <2>2 DEF Stashed
  <2> QED
    BY <1>d, <2>1, <2>2, <2>3
<1>14. ASSUME NEW t \in Task, write_log_fails(t) PROVE FALSE
  BY <1>14 DEF write_log_fails, Unharmed
<1>15. ASSUME NEW t \in Task, write_log_done(t) PROVE DeviceKept
  BY <1>15, <1>c DEF write_log_done
<1>16. ASSUME NEW t \in Task, commit_delta_fails(t) PROVE DeviceKept
  BY <1>16, <1>c DEF commit_delta_fails
<1>17. CASE UNCHANGED vars
  BY <1>17, <1>c DEF vars
<1>18. ASSUME NEW t \in Task, AllocLeaf(t) PROVE DeviceKept
  <2>1. PICK b \in Block : b \notin bitmap /\ disk' = [disk EXCEPT ![b] = Data]
    BY <1>18 DEF AllocLeaf, balloc
  <2>2. UNCHANGED <<super, failed, stashes>>
    BY <1>18 DEF AllocLeaf
  <2>3. Stashed' = Stashed
    BY <2>2 DEF Stashed, Holds, stashes
  <2> QED
    BY <1>d, <2>1, <2>2, <2>3
<1>19. ASSUME NEW t \in Task, NEW b \in Block, AddChild(t, b) PROVE DeviceKept
  BY <1>19, <1>c DEF AddChild
<1> QED
  BY <1>1, <1>2, <1>3, <1>4, <1>5, <1>6, <1>7, <1>8, <1>9, <1>10, <1>11, <1>12, <1>13, <1>14,
     <1>15, <1>16, <1>17, <1>18, <1>19 DEF Next, Commit

(* A log with no entries in its range is safe.                             *)
LEMMA SafeEmpty ==
  ASSUME NEW E, NEW lo \in Int, NEW hi \in Int, hi < lo, NEW b
  PROVE  Safe(E, lo, hi, b)
BY DEF Safe

(* The end of a safe log is safe, and what its end hits the whole hits.    *)
LEMMA LogTail ==
  ASSUME NEW E, NEW lo \in Int, NEW m \in Int, NEW hi \in Int, lo <= m, NEW b
  PROVE  /\ Safe(E, lo, hi, b) => Safe(E, m, hi, b)
         /\ Hit(E, m, hi, b) => Hit(E, lo, hi, b)
<1>1. \A k \in m..hi : k \in lo..hi
  OBVIOUS
<1> QED
  BY <1>1 DEF Safe, Hit

(* The end of a chain is a chain.                                          *)
LEMMA ChainTail ==
  ASSUME NEW p, NEW d, NEW lo \in Int, NEW m \in Int, NEW hi \in Int, NEW tip, NEW s, NEW r,
         IsChain(p, d, lo, hi, tip, s), lo <= m, \A k \in m..hi : p[k] \in r
  PROVE  IsChain(p, d, m, hi, tip, r)
<1>1. \A k \in m..hi : k \in lo..hi /\ (k > m => k > lo)
  OBVIOUS
<1>2. m <= hi => lo <= hi
  OBVIOUS
<1> QED
  BY <1>1, <1>2 DEF IsChain

(* The committed log survives what happens to the device outside the       *)
(* stashes and the place of the bitmap.                                    *)
LEMMA RecoverableKept ==
  ASSUME TypeOK, Images, Recoverable, DeviceKept
  PROVE  Recoverable'
<1> DEFINE last == super.base + super.logcount - 1
<1>1. PICK p, E :
        /\ IsChain(p, disk, super.base, last, super.chain, Stashed)
        /\ \A k \in super.base..last : disk[p[k]].entries = E[k]
        /\ \A b \in super.used : \A loc \in super.maps :
             Safe(E, super.base, last, b) /\ (Hit(E, super.base, last, b) \/ b \in disk[loc].img)
  BY Zenon DEF Recoverable
<1>2. UNCHANGED super /\ Stashed \subseteq Stashed' /\ \A a \in Stashed \cup {bmloc} : disk'[a] = disk[a]
  BY DEF DeviceKept
<1>3. super.base \in Int /\ last \in Int /\ super.maps \subseteq Stashed \cup {bmloc}
  BY ChainBounds DEF Images
<1> HIDE DEF last
<1>4. IsChain(p, disk', super.base, last, super.chain, Stashed')
  BY <1>1, <1>2, <1>3, ChainKept
<1>5. \A k \in super.base..last : p[k] \in Stashed
  BY <1>1 DEF IsChain
<1>6. \A k \in super.base..last : disk'[p[k]].entries = E[k]
  BY <1>1, <1>2, <1>5
<1>7. \A b \in super.used : \A loc \in super.maps :
        Safe(E, super.base, last, b) /\ (Hit(E, super.base, last, b) \/ b \in disk'[loc].img)
  BY <1>1, <1>2, <1>3
<1>8. last' = last /\ super' = super
  BY <1>2 DEF last
<1>9. /\ IsChain(p, disk', super'.base, last', super'.chain, Stashed')
      /\ \A k \in super'.base..last' : disk'[p[k]].entries = E[k]
  BY <1>4, <1>6, <1>8
<1>10. \A b \in super'.used : \A loc \in super'.maps :
         Safe(E, super'.base, last', b) /\ (Hit(E, super'.base, last', b) \/ b \in disk'[loc].img)
  BY <1>7, <1>8
<1> QED
  BY <1>9, <1>10, Zenon DEF Recoverable, last

(* The end of a commit makes the log in memory the committed one.          *)
LEMMA RecoverableCommitted ==
  ASSUME TypeInv, Stages, Unharmed, Cycles, JournalCovers, NEW t \in Task, commit_delta(t)
  PROVE  Recoverable'
<1> DEFINE last == super'.base + super'.logcount - 1
<1>1. /\ stage.at = "super"
      /\ super'.chain = log.chain /\ super'.logcount = log.next - log.base
      /\ super'.base = log.base /\ super'.used = Trees \cup {bmloc} /\ super'.maps = {bmloc, oldloc}
      /\ UNCHANGED <<decycle, new_decycle, disk>>
  BY DEF commit_delta, Trees
<1>2. PICK p, E : Journal(p, E) /\ \A b \in Trees \cup {bmloc} : Covered(E, b)
  BY DEF JournalCovers
<1>3. pend = <<>> /\ stage.done = 0
  BY <1>1 DEF Stages, Unharmed
<1>4. log.next = log.this /\ log.this \in Nat /\ log.base \in Nat /\ log.next \in Nat /\ log.nbase \in Nat
  BY <1>3 DEF TypeInv, TypeOK, LogNumbers
<1>5. Written = last /\ log.next - 1 = last /\ last \in Int
  BY <1>1, <1>3, <1>4 DEF Written
<1> HIDE DEF last
<1>6. /\ IsChain(p, disk, log.base, last, log.chain, Holds(decycle) \cup Holds(new_decycle))
      /\ \A k \in log.base..last : disk[p[k]].entries = E[k]
  BY <1>2, <1>5 DEF Journal
<1>7. Holds(decycle) \cup Holds(new_decycle) \subseteq Stashed'
  BY <1>1 DEF Stashed, Holds
<1>8. IsChain(p, disk', super'.base, last, super'.chain, Stashed')
  BY <1>1, <1>4, <1>5, <1>6, <1>7, ChainKept
<1>9. \A k \in super'.base..last : disk'[p[k]].entries = E[k]
  BY <1>1, <1>6
<1>10. ASSUME NEW b \in Trees \cup {bmloc}, NEW loc \in {bmloc, oldloc}
       PROVE  Safe(E, log.base, last, b) /\ (Hit(E, log.base, last, b) \/ b \in disk[loc].img)
  <2>1. Covered(E, b)
    BY <1>2
  <2>2. /\ Safe(E, log.base, last, b)
        /\ Hit(E, log.nbase, last, b) \/ b \in disk[bmloc].img
        /\ Hit(E, log.base, last, b) \/ b \in disk[oldloc].img
    BY <1>1, <1>5, <2>1 DEF Covered
  <2>3. Hit(E, log.nbase, last, b) => Hit(E, log.base, last, b)
    BY <1>4, <1>5, LogTail DEF Cycles
  <2> QED
    BY <2>2, <2>3
<1>11. \A b \in super'.used : \A loc \in super'.maps :
         Safe(E, super'.base, last, b) /\ (Hit(E, super'.base, last, b) \/ b \in disk'[loc].img)
  BY <1>1, <1>10
<1> QED
  BY <1>8, <1>9, <1>11, Zenon DEF Recoverable, last

(* After sync_super the device can be recovered from: there is no log to   *)
(* replay, and the image has all that is in use.                           *)
LEMMA RecoverableSynced ==
  ASSUME TypeInv, Unharmed, Committed, Pages, Cycles, ~bm.listed, sync_super,
         Orderly'
  PROVE  Recoverable'
<1>1. NoStash /\ bmloc' = bmloc /\ UNCHANGED <<stashes, disk>> /\ stage.at = "sync"
      /\ super' = [super EXCEPT !.chain = NoBlock, !.used = live \cup nodes \cup {bmloc},
                                !.maps = {bmloc}, !.base = 0]
  BY DEF sync_super, Die, Orderly
<1>2. Stashed = {}
  <2>1. /\ defree.vals = <<>> /\ derollup.vals = <<>> /\ decycle.vals = <<>>
        /\ new_decycle.vals = <<>>
    BY <1>1 DEF NoStash, Pages, Paged
  <2> QED
    BY <2>1, EmptyRange DEF Stashed, Holds
<1>3. super.base \in Nat /\ super.logcount \in Nat
  BY ChainBounds DEF TypeInv
<1>4. super.logcount = 0
  <2>1. PICK p : IsChain(p, disk, super.base, super.base + super.logcount - 1, super.chain, {})
    BY <1>2 DEF Committed
  <2>2. super.base \notin super.base..(super.base + super.logcount - 1)
    BY <2>1 DEF IsChain
  <2> QED
    BY <1>3, <2>2
<1>5. super'.logcount = 0 /\ super'.base = 0 /\ super'.used = Trees \cup {bmloc} /\ super'.maps = {bmloc}
  <2>1. super \in [chain : Block \cup {NoBlock}, logcount : Nat, next_logcount : Nat,
                   used : SUBSET Block, maps : SUBSET Block, base : Nat, delta : Nat]
    BY DEF TypeInv, TypeOK
  <2> DEFINE u == Trees \cup {bmloc}
             m == {bmloc}
  <2>2. super' = [super EXCEPT !.chain = NoBlock, !.used = u, !.maps = m, !.base = 0]
    BY <1>1 DEF Trees
  <2> HIDE DEF u, m
  <2>3. super'.logcount = super.logcount /\ super'.base = 0 /\ super'.used = u /\ super'.maps = m
    BY <2>1, <2>2, Zenon
  <2> QED
    BY <1>4, <2>3 DEF u, m
<1> DEFINE last == super'.base + super'.logcount - 1
<1>6. super'.base \in Int /\ last \in Int /\ last < super'.base
  BY <1>5
<1> HIDE DEF last
<1>7. IsChain(<<>>, disk', super'.base, last, super'.chain, Stashed')
  BY <1>6, ChainEmpty
<1>8. \A k \in super'.base..last : disk'[<<>>[k]].entries = <<>>[k]
  BY <1>6
<1>9. \A b \in super'.used : \A loc \in super'.maps :
        Safe(<<>>, super'.base, last, b) /\ (Hit(<<>>, super'.base, last, b) \/ b \in disk'[loc].img)
  <2>1. Trees \cup {bmloc} \subseteq disk'[bmloc].img
    BY <1>1 DEF Cycles
  <2> QED
    BY <1>5, <1>6, <2>1, SafeEmpty
<1> QED
  BY <1>7, <1>8, <1>9, Zenon DEF Recoverable, last

(* Every step keeps the committed log, but that nothing is said of it      *)
(* between the two halves of sync_super.                                   *)
LEMMA RecoverableStep ==
  ASSUME TypeInv, HolderInv, HolderInv', LockInv, Stages, Chains, Maps, Logbook, [Next]_vars
  PROVE  (Orderly /\ stage.at # "sync" => Recoverable)'
<1> SUFFICES ASSUME Orderly', stage'.at # "sync" PROVE Recoverable'
  OBVIOUS
<1>1. Unharmed' /\ dead' # "cleanup"
  BY DEF Orderly, Unharmed
<1>2. CASE DeviceKept /\ ~sync_super
  <2>1. /\ failed \subseteq failed' /\ (dead = "cleanup" => UNCHANGED dead)
        /\ stage.at = "sync" => UNCHANGED stage
    <3>1. failed \subseteq failed' /\ (dead = "cleanup" => UNCHANGED dead)
      <4> DEFINE Q == failed \subseteq failed' /\ (dead = "cleanup" => UNCHANGED dead)
      <4>1. ASSUME NEW t \in Task, Commit(t) PROVE Q
        BY <4>1 DEF Commit, CommitSkipped, do_commit, new_cycle_log, new_cycle_log_asserts,
                    write_bitmap, write_bitmap_enospc, write_log, write_log_fails,
                    write_log_done, commit_delta, commit_delta_fails, Die, Alive
      <4>2. ASSUME NEW t \in Task, change_begin(t) \/ change_end(t) \/ force_delta(t) PROVE Q
        BY <4>2 DEF change_begin, change_end, force_delta
      <4>3. ASSUME NEW t \in Task,
                   \/ AllocLogged(t) \/ AllocLeaf(t)
                   \/ \E op \in {"bnode_split", "bnode_root"} : AllocNode(t, op)
                   \/ \E b \in Block : AddChild(t, b) \/ FreeNow(t, b)
            PROVE  Q
        BY <4>3 DEF AllocLogged, AllocLeaf, AllocNode, AddChild, FreeNow
      <4>4. ASSUME sync_inodes \/ sync_super PROVE Q
        BY <4>4 DEF sync_inodes, sync_super, Die, Alive
      <4>5. UNCHANGED vars => Q
        BY DEF vars
      <4> HIDE DEF Q
      <4>6. Q
        BY <4>1, <4>2, <4>3, <4>4, <4>5 DEF Next
      <4> QED
        BY <4>6 DEF Q
    <3>2. ASSUME stage.at = "sync" PROVE UNCHANGED vars
      <4>1. \A t \in Task : pc[t] = "out"
        BY <3>2 DEF Stages
      <4>2. ASSUME NEW t \in Task, Commit(t) PROVE FALSE
        BY <4>1, <4>2 DEF Commit, CommitSkipped, do_commit, new_cycle_log,
                          new_cycle_log_asserts, write_bitmap, write_bitmap_enospc, write_log,
                          write_log_fails, write_log_done, commit_delta, commit_delta_fails
      <4>3. ASSUME NEW t \in Task, change_begin(t) \/ change_end(t) \/ force_delta(t) PROVE FALSE
        BY <3>2, <4>1, <4>3 DEF change_begin, change_end, force_delta
      <4>4. ASSUME NEW t \in Task,
                   \/ AllocLogged(t) \/ AllocLeaf(t)
                   \/ \E op \in {"bnode_split", "bnode_root"} : AllocNode(t, op)
                   \/ \E b \in Block : AddChild(t, b) \/ FreeNow(t, b)
            PROVE  FALSE
        BY <4>1, <4>4 DEF AllocLogged, AllocLeaf, AllocNode, AddChild, FreeNow
      <4>5. ~sync_inodes
        BY <3>2 DEF sync_inodes
      <4> QED
        BY <1>2, <4>2, <4>3, <4>4, <4>5 DEF Next
    <3>3. UNCHANGED vars => UNCHANGED stage
      BY DEF vars, locks
    <3> QED
      BY <3>1, <3>2, <3>3
  <2>2. Orderly /\ Unharmed /\ stage.at # "sync"
    BY <1>1, <2>1 DEF Orderly, Unharmed
  <2>3. Recoverable /\ Images /\ TypeOK
    BY <2>2 DEF Logbook, Maps, TypeInv
  <2> QED
    BY <1>2, <2>3, RecoverableKept
<1>3. ASSUME NEW t \in Task, commit_delta(t) PROVE Recoverable'
  <2>1. Alive /\ Unharmed
    BY <1>1, <1>3 DEF commit_delta, Unharmed
  <2>2. Cycles /\ JournalCovers
    BY <2>1 DEF Logbook
  <2> QED
    BY <1>3, <2>1, <2>2, RecoverableCommitted
<1>4. CASE sync_super
  <2>1. Alive /\ failed \subseteq failed' /\ stage.at = "sync"
    BY <1>4 DEF sync_super, Die
  <2>2. Unharmed /\ ~bm.listed
    BY <1>1, <2>1 DEF Unharmed, Stages
  <2>3. Cycles /\ Committed /\ Pages
    BY <2>1, <2>2 DEF Logbook, Chains
  <2> QED
    BY <1>4, <2>2, <2>3, RecoverableSynced
<1>5. ~sync_inodes
  BY DEF sync_inodes
<1> QED
  BY <1>1, <1>2, <1>3, <1>4, <1>5, DeviceStep

(* Logs with the same entries keep the same.                               *)
LEMMA SameLog ==
  ASSUME NEW E, NEW F, NEW lo \in Int, NEW hi \in Int, \A k \in Int : k <= hi => F[k] = E[k], NEW b
  PROVE  Keeps(E, F, lo, hi, hi, b)
<1>1. \A k \in lo..hi : F[k] = E[k] /\ \A m \in k..hi : F[m] = E[m]
  OBVIOUS
<1>2. ASSUME Safe(E, lo, hi, b) PROVE Safe(F, lo, hi, b)
  <2> SUFFICES ASSUME NEW k \in lo..hi, NEW i \in DOMAIN F[k], Frees(F[k][i], b)
               PROVE  \E m \in k..hi : \E j \in DOMAIN F[m] : (m > k \/ j > i) /\ Allocs(F[m][j], b)
    BY DEF Safe
  <2>1. \E m \in k..hi : \E j \in DOMAIN E[m] : (m > k \/ j > i) /\ Allocs(E[m][j], b)
    BY <1>1, <1>2 DEF Safe
  <2> QED
    BY <1>1, <2>1
<1>3. ASSUME NEW m \in Int, m >= lo, Hit(E, m, hi, b) PROVE Hit(F, m, hi, b)
  <2>1. \A k \in m..hi : k \in lo..hi
    BY <1>3
  <2> QED
    BY <1>1, <1>3, <2>1 DEF Hit
<1> QED
  BY <1>2, <1>3 DEF Keeps

(* The log after more entries in its pending blocks.                       *)
LEMMA LogMore ==
  ASSUME TypeInv, NEW E, NEW o \in BOOLEAN, o => Len(pend) > 0, NEW es \in Entries,
         \A k \in log.this..(log.next - 1) : E[k] = pend[k - log.this + 1],
         NEW lo \in Int, NEW b
  PROVE  LET after == log_entries(pend, o, es)
             F == LogWith(E, log.this, after)
         IN  /\ (\A i \in DOMAIN es : ~Frees(es[i], b))
                  => Keeps(E, F, lo, log.next - 1, log.this + Len(after) - 1, b)
             /\ es # <<>> /\ Allocs(es[Len(es)], b) => Takes(F, lo, log.this + Len(after) - 1, b)
<1> DEFINE after == log_entries(pend, o, es)
           A == LogWith(E, log.this, pend)
           F == LogWith(E, log.this, after)
           hi == log.this + Len(pend) - 1
           new == log.this + Len(after) - 1
<1>1. pend \in Seq(Entries) /\ log.this \in Nat /\ log.next \in Nat /\ log.next = log.this + Len(pend)
  BY DEF TypeInv, TypeOK, LogNumbers
<1>2. log.next - 1 = hi /\ hi \in Int
  BY <1>1, LenProperties
<1>3. \A k \in Int : k <= hi => A[k] = E[k]
  <2>1. \A k \in Int : k <= hi /\ ~(k < log.this) => k \in log.this..(log.next - 1)
    BY <1>1, <1>2
  <2> HIDE DEF hi
  <2> QED
    BY <2>1 DEF LogWith
<1>4. /\ (\A i \in DOMAIN es : ~Frees(es[i], b)) => Keeps(A, F, lo, hi, new, b)
      /\ es # <<>> /\ Allocs(es[Len(es)], b) => Takes(F, lo, new, b)
  BY <1>1, EntriesKeep
<1> HIDE DEF A, F, hi, new
<1>5. Keeps(E, A, lo, hi, hi, b)
  BY <1>2, <1>3, SameLog
<1>6. Keeps(A, F, lo, hi, new, b) => Keeps(E, F, lo, hi, new, b)
  BY <1>5, KeepsOn
<1> QED
  BY <1>2, <1>4, <1>6, Zenon DEF F, new

(* The first entry that is logged while no block is open opens one.        *)
LEMMA LogOpens ==
  ASSUME NEW blocks \in Seq(Entries), NEW es \in Entries, es # <<>>
  PROVE  Len(log_entries(blocks, FALSE, es)) > Len(blocks)
<1> DEFINE n == Len(es)
           l == Len(blocks)
<1>1. PICK g : LogSteps(g, blocks, FALSE, es, n)
  BY LogEntriesUnfold
<1>2. n \in Nat /\ n > 0 /\ l \in Nat /\ Entries = Seq(Rec)
  <2>1. es \in Seq(Rec)
    BY DEF Entries, Rec
  <2> QED
    BY <2>1, EmptySeq, LenProperties DEF Entries, Rec
<1>3. \A i \in 1..n : es[i] \in Rec
  BY <1>2, ElementOfSeq
<1> HIDE DEF n
<1>4. ASSUME NEW i \in 1..n
      PROVE  /\ g[i - 1] \in Seq(Entries) /\ (i > 1 => Len(g[i - 1]) > 0)
             /\ g[i] = log_entry(g[i - 1], i > 1, es[i])
  <2>1. i - 1 \in 0..n /\ (i - 1 > 0 <=> i > 1)
    BY <1>2
  <2>2. /\ g[i - 1] \in Seq(Entries) /\ (FALSE \/ i - 1 > 0 => Len(g[i - 1]) > 0)
        /\ g[i] = log_entry(g[i - 1], FALSE \/ i > 1, es[i])
    BY <1>1, <2>1, Zenon DEF LogSteps
  <2> QED
    BY <2>1, <2>2
<1> DEFINE S == {i \in Nat : i > 0 => Len(g[i]) > l}
<1>5. 0 \in S
  OBVIOUS
<1>6. ASSUME NEW i \in 0..(n - 1), i \in S PROVE i + 1 \in S
  <2>1. i + 1 \in 1..n /\ (i + 1) - 1 = i /\ i + 1 \in Nat
    BY <1>2
  <2>2. /\ g[i] \in Seq(Entries) /\ (i + 1 > 1 => Len(g[i]) > 0)
        /\ g[i + 1] = log_entry(g[i], i + 1 > 1, es[i + 1]) /\ es[i + 1] \in Rec
    BY <1>3, <1>4, <2>1
  <2>3. CASE i = 0
    <3>1. g[0] = blocks
      BY <1>1, Zenon DEF LogSteps
    <3>2. g[i + 1] = Append(blocks, <<es[1]>>)
      BY <2>2, <2>3, <3>1 DEF log_entry
    <3>3. <<es[1]>> \in Entries
      <4>1. es[1] \in Rec
        BY <2>2, <2>3
      <4> QED
        BY <1>2, <4>1
    <3>4. Len(g[i + 1]) = l + 1
      BY <3>2, <3>3, AppendProperties
    <3> QED
      BY <1>2, <2>1, <3>4
  <2>4. CASE i > 0
    <3>1. i + 1 > 1 /\ (i + 1 > 1) \in BOOLEAN
      BY <2>4
    <3>2. Len(g[i + 1]) >= Len(g[i])
      BY <2>2, <3>1, LogEntryType
    <3>3. Len(g[i + 1]) \in Nat /\ Len(g[i]) \in Nat
      <4>1. g[i + 1] \in Seq(Entries)
        BY <2>2, <3>1, LogEntryType
      <4> QED
        BY <2>2, <4>1, LenProperties
    <3>4. Len(g[i]) > l
      BY <1>6, <2>4
    <3> QED
      BY <1>2, <2>1, <3>2, <3>3, <3>4
  <2> QED
    BY <2>3, <2>4
<1> HIDE DEF S
<1>7. 0..n \subseteq S
  BY <1>2, <1>5, <1>6, BoundedInduction
<1>8. log_entries(blocks, FALSE, es) = g[n]
  BY <1>1, Zenon DEF LogSteps
<1>9. n \in 0..n
  BY <1>2
<1> QED
  BY <1>2, <1>7, <1>8, <1>9 DEF S

(* A step that logs nothing and takes no block.                            *)
LEMMA JournalStutter ==
  ASSUME TypeInv, Images, Alive, Cycles, JournalCovers, DeviceKept,
         log'.base = log.base, log'.nbase = log.nbase, log'.next = log.next, log'.chain = log.chain,
         Written' = Written, UNCHANGED <<decycle, new_decycle, bmloc, oldloc, cut>>,
         (log'.this = log.this /\ pend' = pend) \/ log'.this = log.next,
         open' => open, Trees' \subseteq Trees, bm' = bm \/ bm'.listed,
         stage'.at = "bitmap" <=> stage.at = "bitmap"
  PROVE  Cycles' /\ JournalCovers'
<1>1. PICK p, E : Journal(p, E) /\ \A b \in Trees \cup {bmloc} : Covered(E, b)
  BY DEF JournalCovers
<1>2. \A a \in Stashed \cup {bmloc} : disk'[a] = disk[a]
  BY DEF DeviceKept
<1>3. stage.at # "bitmap" => disk'[oldloc] = disk[oldloc]
  BY <1>2 DEF Images, Stashed
<1>4. /\ log.base \in Int /\ log.nbase \in Int /\ Written \in Int /\ log.next \in Nat
  BY ChainBounds DEF TypeInv
<1> DEFINE s == Holds(decycle) \cup Holds(new_decycle)
<1>5. s \subseteq Stashed /\ s' = s /\ Holds(new_decycle') = Holds(new_decycle)
  BY DEF Stashed
<1>6. Journal(p, E)'
  <2>1. /\ IsChain(p, disk, log.base, Written, log.chain, s)
        /\ \A k \in log.base..Written : disk[p[k]].entries = E[k]
        /\ \A k \in log.nbase..Written : p[k] \in Holds(new_decycle)
        /\ \A k \in log.this..(log.next - 1) : E[k] = pend[k - log.this + 1]
    BY <1>1 DEF Journal
  <2> HIDE DEF s
  <2>2. IsChain(p, disk', log.base, Written, log.chain, s)
    BY <1>2, <1>4, <1>5, <2>1, ChainKept
  <2>3. \A k \in log.base..Written : disk'[p[k]].entries = E[k]
    <3>1. \A k \in log.base..Written : p[k] \in Stashed
      BY <1>5, <2>1 DEF IsChain
    <3> QED
      BY <1>2, <2>1, <3>1
  <2>4. \A k \in log'.this..(log'.next - 1) : E[k] = pend'[k - log'.this + 1]
    <3>1. CASE log'.this = log.this /\ pend' = pend
      BY <2>1, <3>1
    <3>2. CASE log'.this = log.next
      BY <1>4, <3>2
    <3> QED
      BY <3>1, <3>2
  <2>5. /\ IsChain(p, disk', log'.base, Written', log'.chain, s')
        /\ \A k \in log'.base..Written' : disk'[p[k]].entries = E[k]
        /\ \A k \in log'.nbase..Written' : p[k] \in Holds(new_decycle')
    BY <1>5, <2>1, <2>2, <2>3
  <2> QED
    BY <2>4, <2>5, Zenon DEF Journal, s
<1>7. \A b \in Trees' \cup {bmloc'} : Covered(E, b)'
  BY <1>1, <1>2, <1>3 DEF Covered
<1>8. Cycles'
  BY <1>2 DEF Cycles
<1> QED
  BY <1>6, <1>7, <1>8, Zenon DEF JournalCovers

(* Logging extends the log in memory by the entries.                       *)
LoggedOver(E, F, es, lo, hi, new) ==
  \A b : /\ (\A i \in DOMAIN es : ~Frees(es[i], b)) => Keeps(E, F, lo, hi, new, b)
         /\ Allocs(es[Len(es)], b) => Takes(F, lo, new, b)

(* A step that logs entries, and takes at most the block that the last of  *)
(* them allocates.                                                         *)
LEMMA JournalLogged ==
  ASSUME TypeInv, Cycles, DeviceKept, NEW p, NEW E, Journal(p, E), stage.done = 0, stage'.done = 0,
         NEW es \in Entries, es # <<>>, Logged(es), UNCHANGED <<decycle, new_decycle>>
  PROVE  /\ log'.base = log.base /\ log'.nbase = log.nbase /\ log.nbase < log'.next
         /\ \E F : Journal(p, F)' /\ LoggedOver(E, F, es, log.base, log.next - 1, log'.next - 1)
<1>f. PICK F : F = LogWith(E, log.this, log_entries(pend, open, es))
  OBVIOUS
<1>2. \A a \in Stashed \cup {bmloc} : disk'[a] = disk[a]
  BY DEF DeviceKept
<1>4. /\ log.base \in Int /\ log.nbase \in Int /\ Written \in Int /\ log.next \in Nat
      /\ log.this \in Nat
  BY ChainBounds DEF TypeInv
<1> DEFINE after == log_entries(pend, open, es)
           hi == log.next - 1
           new == log.this + Len(after) - 1
<1>6. /\ pend' = after /\ open' = TRUE /\ log' = [log EXCEPT !.next = log'.next]
      /\ log'.next = log.this + Len(after) /\ log \in LogType /\ log'.next >= log.next
      /\ log' \in LogType
  <2>1. log' = [log EXCEPT !.next = log.this + Len(after)] /\ pend' = after /\ open' = (open \/ es # <<>>)
    BY DEF Logged
  <2>2. log \in LogType
    BY DEF TypeInv, TypeOK, LogType
  <2>3. log' = [log EXCEPT !.next = log'.next] /\ log'.next >= log.next /\ log' \in LogType
    BY LoggedType
  <2> HIDE DEF after
  <2>4. log'.next = log.this + Len(after)
    BY <2>1, <2>2 DEF LogType
  <2> QED
    BY <2>1, <2>2, <2>3, <2>4
<1> HIDE DEF after
<1>7. /\ log'.this = log.this /\ log'.base = log.base /\ log'.nbase = log.nbase
      /\ log'.chain = log.chain /\ log'.next \in Nat
  BY <1>6 DEF LogType
<1>8. Written' = Written /\ Written = log.this - 1 /\ new = log'.next - 1 /\ new \in Int
  BY <1>4, <1>6, <1>7 DEF Written
<1>9. open \in BOOLEAN /\ (open => Len(pend) > 0) /\ pend \in Seq(Entries)
      /\ \A k \in log.this..hi : E[k] = pend[k - log.this + 1]
  BY DEF TypeInv, TypeOK, LogNumbers, Journal
<1>10. log.nbase < log'.next
  <2>1. CASE open
    <3>1. log.nbase < log.next
      BY <2>1 DEF Cycles
    <3> QED
      BY <1>4, <1>6, <1>7, <3>1
  <2>2. CASE ~open
    <3>1. open = FALSE
      BY <1>9, <2>2
    <3>2. Len(after) > Len(pend)
      BY <1>9, <3>1, LogOpens DEF after
    <3>3. log.nbase <= log.next /\ log.next = log.this + Len(pend)
      BY DEF TypeInv, LogNumbers
    <3>4. Len(pend) \in Nat
      BY <1>9, LenProperties
    <3> QED
      BY <1>4, <1>6, <1>7, <3>2, <3>3, <3>4
  <2> QED
    BY <2>1, <2>2
<1>11. LoggedOver(E, F, es, log.base, hi, new)
  <2> SUFFICES ASSUME NEW b
               PROVE  /\ (\A i \in DOMAIN es : ~Frees(es[i], b)) => Keeps(E, F, log.base, hi, new, b)
                      /\ Allocs(es[Len(es)], b) => Takes(F, log.base, new, b)
    BY Zenon DEF LoggedOver
  <2>2. /\ (\A i \in DOMAIN es : ~Frees(es[i], b)) => Keeps(E, F, log.base, hi, new, b)
        /\ es # <<>> /\ Allocs(es[Len(es)], b) => Takes(F, log.base, new, b)
    BY <1>f, <1>4, <1>9, LogMore DEF after
  <2> HIDE DEF hi, new
  <2> QED
    BY <2>2, Zenon
<1> DEFINE s == Holds(decycle) \cup Holds(new_decycle)
<1>12. s \subseteq Stashed /\ s' = s /\ Holds(new_decycle') = Holds(new_decycle)
  BY DEF Stashed
<1>13. Journal(p, F)'
  <2>1. /\ IsChain(p, disk, log.base, Written, log.chain, s)
        /\ \A k \in log.base..Written : disk[p[k]].entries = E[k]
        /\ \A k \in log.nbase..Written : p[k] \in Holds(new_decycle)
    BY DEF Journal
  <2>2. \A k \in log.base..Written : F[k] = E[k]
    BY <1>f, <1>4, <1>8 DEF LogWith
  <2>3. \A k \in log'.this..(log'.next - 1) : F[k] = pend'[k - log'.this + 1]
    <3>1. F = LogWith(E, log.this, after)
      BY <1>f DEF after
    <3> QED
      BY <1>4, <1>6, <1>7, <3>1 DEF LogWith
  <2> HIDE DEF s
  <2>4. IsChain(p, disk', log.base, Written, log.chain, s)
    BY <1>2, <1>4, <1>12, <2>1, ChainKept
  <2>5. \A k \in log.base..Written : disk'[p[k]].entries = F[k]
    <3>1. \A k \in log.base..Written : p[k] \in Stashed
      BY <1>12, <2>1 DEF IsChain
    <3> QED
      BY <1>2, <2>1, <2>2, <3>1
  <2>6. /\ IsChain(p, disk', log'.base, Written', log'.chain, s')
        /\ \A k \in log'.base..Written' : disk'[p[k]].entries = F[k]
        /\ \A k \in log'.nbase..Written' : p[k] \in Holds(new_decycle')
    BY <1>7, <1>8, <1>12, <2>1, <2>4, <2>5
  <2> QED
    BY <2>3, <2>6, Zenon DEF Journal, s
<1> HIDE DEF new
<1> QED
  BY <1>7, <1>8, <1>10, <1>11, <1>13

(* A step of a change that logs one entry, which frees nothing, and takes  *)
(* at most the block of the entry.                                         *)
LEMMA JournalAlloc ==
  ASSUME TypeInv, TypeInv', Maps, Unharmed, Alive, Cycles, JournalCovers, DeviceKept,
         stage.at = "idle", stage.done = 0,
         NEW e \in Rec, e.op \notin {"bfree", "bfree_on_rollup"}, Logged(<<e>>),
         Trees' = Trees \/ (Allocs(e, e.block) /\ Trees' = Trees \cup {e.block}),
         bm' = blockdirty(bm, count.rollup) \/ (bm' = bm /\ Trees' = Trees),
         UNCHANGED <<decycle, new_decycle, bmloc, oldloc, stage>>
  PROVE  Cycles' /\ JournalCovers'
<1>1. PICK p, E : Journal(p, E) /\ \A b \in Trees \cup {bmloc} : Covered(E, b)
  BY DEF JournalCovers
<1>2. /\ \A a \in Stashed \cup {bmloc} : disk'[a] = disk[a]
      /\ disk'[oldloc] = disk[oldloc]
  <2>1. oldloc \in Stashed \cup {bmloc}
    BY DEF Maps, Images, Stashed
  <2> QED
    BY <2>1 DEF DeviceKept
<1>3. /\ log.base \in Int /\ log.nbase \in Int /\ log.next \in Int /\ log'.next \in Int
      /\ log.base <= log.nbase
  BY DEF TypeInv, TypeOK, Cycles
<1>4. <<e>> \in Entries /\ DOMAIN <<e>> = {1} /\ <<e>>[1] = e /\ <<e>> # <<>> /\ Len(<<e>>) = 1
  BY DEF Entries, Rec
<1> DEFINE hi == log.next - 1
           new == log'.next - 1
<1>5. /\ log'.base = log.base /\ log'.nbase = log.nbase /\ log.nbase < log'.next
      /\ \E F : Journal(p, F)' /\ LoggedOver(E, F, <<e>>, log.base, hi, new)
  BY <1>1, <1>4, JournalLogged
<1>6. PICK F : Journal(p, F)' /\ LoggedOver(E, F, <<e>>, log.base, hi, new)
  BY <1>5
<1>7. hi \in Int /\ new \in Int /\ log.nbase <= new /\ log.base <= new
  BY <1>3, <1>5
<1> HIDE DEF hi, new
<1>8. ASSUME NEW b
      PROVE  Keeps(E, F, log.base, hi, new, b) /\ (Allocs(e, b) => Takes(F, log.base, new, b))
  BY <1>4, <1>6 DEF LoggedOver, Frees
<1>9. ASSUME NEW b \in Trees' \cup {bmloc'} PROVE Covered(F, b)'
  <2>1. CASE b \in Trees \cup {bmloc}
    <3>1. Covered(E, b) /\ Keeps(E, F, log.base, hi, new, b)
      BY <1>1, <1>8, <2>1
    <3>2. /\ Safe(E, log.base, hi, b)
          /\ Hit(E, log.nbase, hi, b) \/ b \in disk[bmloc].img
          /\ Hit(E, log.base, hi, b) \/ b \in disk[oldloc].img
      BY <3>1 DEF Covered, hi
    <3>3. /\ Safe(F, log.base, new, b)
          /\ Hit(F, log.nbase, new, b) \/ b \in disk[bmloc].img
          /\ Hit(F, log.base, new, b) \/ b \in disk[oldloc].img
      BY <1>3, <3>1, <3>2 DEF Keeps
    <3> QED
      BY <1>2, <1>5, <3>3 DEF Covered, new
  <2>2. CASE b = e.block /\ Allocs(e, b)
    <3>1. Takes(F, log.base, new, b)
      BY <1>8, <2>2
    <3>2. Safe(F, log.base, new, b) /\ Hit(F, log.nbase, new, b) /\ Hit(F, log.base, new, b)
      BY <1>3, <1>7, <3>1 DEF Takes
    <3> QED
      BY <1>5, <3>2 DEF Covered, new
  <2> QED
    BY <2>1, <2>2
<1>10. bm'.listed = TRUE \/ (bm' = bm /\ Trees' = Trees)
  <2>1. bm \in [state : States, listed : BOOLEAN] /\ count.rollup \in Nat
    BY DEF TypeInv, TypeOK
  <2>2. bm.listed \/ bm.state = Clean
    BY DEF Maps, Buffer
  <2> QED
    BY <2>1, <2>2, DirtyListed
<1>11. Cycles'
  BY <1>2, <1>3, <1>5, <1>10 DEF Cycles
<1> QED
  BY <1>6, <1>9, <1>11, Zenon DEF JournalCovers

(* The bitmap at its new place: its image has what was in use when it was  *)
(* cut off, and the log from then on has the rest.                         *)
LEMMA JournalBitmap ==
  ASSUME TypeInv, TypeInv', HolderInv, Stages, Maps, Unharmed, Cycles, JournalCovers, DeviceKept, Alive',
         NEW t \in Task, NEW b \in Block, write_bitmap(t, b)
  PROVE  Cycles' /\ JournalCovers'
<1>0. /\ stage.at = "bitmap" /\ b \notin bitmap /\ bmloc' = b /\ oldloc' = bmloc /\ Alive
      /\ bitmap' = bitmap \cup {b}
      /\ cut.state = (count.rollup - 1) % 4
      /\ disk' = [disk EXCEPT ![b] = MapBlock(Image(bitmap'))]
      /\ bm' = IF BLOCKDIRTY THEN blockdirty(bm, count.rollup)
               ELSE [state |-> Clean, listed |-> FALSE]
      /\ stage'.at = "log" /\ stage'.done = 0
      /\ UNCHANGED <<Trees, decycle, new_decycle>>
      /\ Logged(<<Entry("bfree_on_rollup", bmloc), Entry("balloc", b)>>)
  BY DEF write_bitmap, balloc, Die, Alive, Trees
<1>1. PICK p, E : Journal(p, E) /\ \A c \in Trees \cup {bmloc} : Covered(E, c)
  BY DEF JournalCovers
<1>2. disk'[b].img = Image(bitmap') /\ disk'[bmloc] = disk[bmloc]
  <2> DEFINE m == MapBlock(Image(bitmap'))
  <2>1. m.img = Image(bitmap')
    BY Zenon DEF MapBlock
  <2>2. disk' = [disk EXCEPT ![b] = m] /\ disk \in [Block -> Content]
    BY <1>0 DEF TypeInv, TypeOK
  <2> HIDE DEF m
  <2>3. disk'[b] = m
    BY <2>2
  <2> QED
    BY <2>1, <2>3 DEF DeviceKept
<1>3. /\ log.base \in Int /\ log.nbase \in Int /\ log.next \in Int /\ log'.next \in Int
      /\ log.base <= log.nbase
  BY DEF TypeInv, TypeOK, Cycles
<1>4. bmloc \notin Trees /\ Trees \subseteq bitmap /\ bmloc \in Block
  BY DEF HolderInv, Unharmed, Held, InUse, TypeInv, TypeOK, Trees
<1> DEFINE e1 == Entry("bfree_on_rollup", bmloc)
           e2 == Entry("balloc", b)
           es == <<e1, e2>>
<1>5. /\ es \in Entries /\ DOMAIN es = {1, 2} /\ es[1] = e1 /\ es[2] = e2 /\ es # <<>>
      /\ es[Len(es)] = e2
  <2>1. e1 \in Rec /\ e2 \in Rec
    BY <1>4 DEF Rec, Entry, Ops
  <2> HIDE DEF e1, e2
  <2> QED
    BY <2>1 DEF Entries, Rec
<1>6. e1.op = "bfree_on_rollup" /\ e1.block = bmloc /\ e2.op = "balloc" /\ e2.block = b
  BY DEF Entry
<1> HIDE DEF e1, e2
<1>7. Logged(es)
  BY <1>0 DEF e1, e2
<1> HIDE DEF es
<1> DEFINE hi == log.next - 1
           new == log'.next - 1
<1>8. stage.done = 0
  BY <1>0 DEF Stages
<1>9. /\ log'.base = log.base /\ log'.nbase = log.nbase /\ log.nbase < log'.next
      /\ \E F : Journal(p, F)' /\ LoggedOver(E, F, es, log.base, hi, new)
  BY <1>0, <1>1, <1>5, <1>7, <1>8, JournalLogged
<1>10. PICK F : Journal(p, F)' /\ LoggedOver(E, F, es, log.base, hi, new)
  BY <1>9
<1>11. hi \in Int /\ new \in Int /\ log.nbase <= new /\ log.base <= new
  BY <1>3, <1>9
<1> HIDE DEF hi, new
<1>12. Trees \subseteq Image(bitmap') /\ (~BLOCKDIRTY => b \in Image(bitmap'))
  BY <1>0, <1>4 DEF Image, Cycles
<1>13. ASSUME NEW c \in Trees' \cup {bmloc'} PROVE Covered(F, c)'
  <2>1. CASE c \in Trees
    <3>1. \A i \in DOMAIN es : ~Frees(es[i], c)
      BY <1>4, <1>5, <1>6, <2>1 DEF Frees
    <3>2. Covered(E, c) /\ Keeps(E, F, log.base, hi, new, c)
      BY <1>1, <1>10, <2>1, <3>1 DEF LoggedOver
    <3>3. /\ Safe(E, log.base, hi, c)
          /\ Hit(E, log.base, hi, c) \/ c \in disk[bmloc].img
      BY <1>0, <3>2 DEF Covered, hi
    <3>4. /\ Safe(F, log.base, new, c)
          /\ Hit(F, log.base, new, c) \/ c \in disk[bmloc].img
      BY <1>3, <3>2, <3>3 DEF Keeps
    <3>5. c \in disk'[bmloc'].img
      BY <1>0, <1>2, <1>12, <2>1
    <3> QED
      BY <1>0, <1>2, <1>9, <3>4, <3>5 DEF Covered, new
  <2>2. CASE c = b
    <3>1. Takes(F, log.base, new, c)
      BY <1>5, <1>6, <1>10, <2>2 DEF LoggedOver, Allocs
    <3>2. Safe(F, log.base, new, c) /\ Hit(F, log.nbase, new, c) /\ Hit(F, log.base, new, c)
      BY <1>3, <1>11, <3>1 DEF Takes
    <3> QED
      BY <1>0, <1>9, <3>2 DEF Covered, new
  <2> QED
    BY <1>0, <2>1, <2>2
<1>14. ASSUME BLOCKDIRTY PROVE bm'.listed = TRUE
  <2>1. bm.state = (count.rollup - 1) % 4
    BY <1>0 DEF Maps, Buffer
  <2>2. (count.rollup - 1) % 4 # count.rollup % 4
    <3>1. count.rollup \in Nat
      BY DEF TypeInv, TypeOK
    <3> QED
      BY <3>1
  <2> QED
    BY <1>0, <1>14, <2>1, <2>2 DEF blockdirty
<1>15. Cycles'
  <2>1. ASSUME ~bm'.listed PROVE Trees' \cup {bmloc'} \subseteq disk'[bmloc'].img
    BY <1>0, <1>2, <1>12, <1>14, <2>1
  <2> QED
    BY <1>0, <1>3, <1>9, <2>1 DEF Cycles
<1> QED
  BY <1>10, <1>13, <1>15, Zenon DEF JournalCovers

(* A rollup leaves the older of the two cycles behind.  It logs frees of   *)
(* blocks that only the log before that cycle has used.                    *)
LEMMA JournalCycle ==
  ASSUME TypeInv, TypeInv', HolderInv, Stages, Maps, Unharmed, Alive, Cycles, JournalCovers,
         NEW t \in Task, new_cycle_log(t)
  PROVE  Cycles' /\ JournalCovers'
<1> DEFINE es == [i \in DOMAIN decycle.vals |-> Entry("bfree", decycle.vals[i])]
           after == log_entries(pend, FALSE, es)
           new == log.this + Len(after) - 1
           hi == log.next - 1
<1>0. /\ stage.at = "rollup" /\ stage'.done = 0
      /\ stage'.at = IF bm.listed THEN "bitmap" ELSE "log"
      /\ cut' = IF bm.listed THEN [img |-> bitmap, state |-> bm.state] ELSE NoCut
      /\ bm' = [bm EXCEPT !.listed = FALSE]
      /\ pend' = after /\ open' = (es # <<>>)
      /\ log' = [log EXCEPT !.base = log.nbase, !.nbase = log.next, !.next = log.this + Len(after)]
      /\ decycle' = new_decycle /\ new_decycle' = Unstashed(decycle)
      /\ UNCHANGED <<Trees, bmloc, oldloc, disk>>
  BY DEF new_cycle_log, NextLogbase, EmptiedStash, Trees
<1>1. PICK p, E : Journal(p, E) /\ \A b \in Trees \cup {bmloc} : Covered(E, b)
  BY DEF JournalCovers
<1>2. /\ log \in LogType /\ pend \in Seq(Entries) /\ decycle \in Stash
      /\ log.next = log.this + Len(pend)
      /\ log.nbase <= log.next /\ log.base <= log.nbase
  BY DEF TypeInv, TypeOK, LogNumbers, LogType, Cycles
<1>3. decycle.vals \in Seq(Block) /\ DOMAIN decycle.vals = 1..Len(decycle.vals)
      /\ Len(decycle.vals) \in Nat /\ \A i \in DOMAIN decycle.vals : decycle.vals[i] \in Block
  <2>1. decycle.vals \in Seq(Block)
    BY <1>2 DEF Stash
  <2> QED
    BY <2>1, LenProperties, ElementOfSeq
<1>4. /\ es \in Entries
      /\ \A i \in DOMAIN es : i \in DOMAIN decycle.vals /\ es[i].block = decycle.vals[i] /\ es[i].op = "bfree"
  <2> DEFINE n == Len(decycle.vals)
             v == decycle.vals
  <2>1. n \in Nat /\ DOMAIN v = 1..n /\ \A i \in 1..n : v[i] \in Block
    BY <1>3
  <2> HIDE DEF n, v
  <2>2. \A i \in 1..n : Entry("bfree", v[i]) \in Rec
    BY <2>1 DEF Entry, Rec, Ops
  <2>3. [i \in 1..n |-> Entry("bfree", v[i])] \in Seq(Rec)
    BY <2>1, <2>2
  <2>4. es = [i \in 1..n |-> Entry("bfree", v[i])]
    BY <2>1 DEF v
  <2>5. es \in Entries
    BY <2>3, <2>4 DEF Entries, Rec
  <2>6. \A i \in DOMAIN es : i \in DOMAIN v /\ es[i] = Entry("bfree", v[i])
    BY <2>1, <2>4
  <2> QED
    BY <2>5, <2>6 DEF Entry, v
<1> HIDE DEF es, after
<1>5. log' = [base |-> log.nbase, nbase |-> log.next, this |-> log.this, next |-> log'.next,
              chain |-> log.chain] /\ log'.next = log.this + Len(after)
  <2> DEFINE n == log.this + Len(after)
  <2>1. log' = [log EXCEPT !.base = log.nbase, !.nbase = log.next, !.next = n]
    BY <1>0
  <2> HIDE DEF n
  <2>2. log' = [base |-> log.nbase, nbase |-> log.next, this |-> log.this, next |-> n, chain |-> log.chain]
    BY <1>2, <2>1, Zenon DEF LogType
  <2>3. log'.next = n
    BY <2>2
  <2> QED
    BY <2>2, <2>3 DEF n
<1>6. /\ log'.base = log.nbase /\ log'.nbase = log.next /\ log'.this = log.this /\ log'.chain = log.chain
      /\ log.base \in Nat /\ log.nbase \in Nat /\ log.next \in Nat /\ log.this \in Nat /\ log'.next \in Nat
  BY <1>2, <1>5 DEF LogType, TypeInv, TypeOK
<1>7. /\ new = log'.next - 1 /\ new \in Int /\ hi \in Int
      /\ Written = log.this - 1 /\ Written' = Written /\ Written \in Int /\ Written < log.next
  <2>1. stage.done = 0
    BY <1>0 DEF Stages
  <2>2. Len(pend) \in Nat
    BY <1>2, LenProperties
  <2> QED
    BY <1>0, <1>2, <1>5, <1>6, <2>1, <2>2, SMTT(60) DEF Written
<1>n. /\ log.base \in Int /\ log.nbase \in Int /\ log.next \in Int /\ log.this \in Int
      /\ log.base <= log.nbase
  BY <1>2, <1>6
<1>8. PICK F : F = LogWith(E, log.this, after)
  OBVIOUS
<1>9. \A b \in Trees \cup {bmloc} : \A i \in DOMAIN es : ~Frees(es[i], b)
  <2>1. \A i \in DOMAIN es : es[i].block \in Holds(decycle)
    <3>1. \A i \in DOMAIN decycle.vals : decycle.vals[i] \in Holds(decycle)
      BY DEF Holds, Range
    <3> QED
      BY <1>4, <3>1
  <2>2. Holds(decycle) \cap (Trees \cup {bmloc}) = {}
    BY DEF HolderInv, Unharmed, Held, InUse, Stashed, Trees
  <2> QED
    BY <2>1, <2>2 DEF Frees
<1>10. \A b \in Trees \cup {bmloc} : Keeps(E, F, log.nbase, hi, new, b)
  <2> SUFFICES ASSUME NEW b \in Trees \cup {bmloc} PROVE Keeps(E, F, log.nbase, hi, new, b)
    OBVIOUS
  <2>1. \A k \in log.this..(log.next - 1) : E[k] = pend[k - log.this + 1]
    BY <1>1 DEF Journal
  <2>2. (\A i \in DOMAIN es : ~Frees(es[i], b)) => Keeps(E, F, log.nbase, hi, new, b)
    <3>1. FALSE \in BOOLEAN /\ (FALSE => Len(pend) > 0)
      OBVIOUS
    <3>2. (\A i \in DOMAIN es : ~Frees(es[i], b))
            => Keeps(E, LogWith(E, log.this, after), log.nbase, hi, new, b)
      BY <1>n, <1>4, <2>1, <3>1, LogMore DEF after
    <3> HIDE DEF hi, new
    <3> QED
      BY <1>8, <3>2
  <2> HIDE DEF hi, new
  <2> QED
    BY <1>9, <2>2, Zenon
<1>11. Journal(p, F)'
  <2>1. /\ IsChain(p, disk, log.base, Written, log.chain, Holds(decycle) \cup Holds(new_decycle))
        /\ \A k \in log.base..Written : disk[p[k]].entries = E[k]
        /\ \A k \in log.nbase..Written : p[k] \in Holds(new_decycle)
    BY <1>1 DEF Journal
  <2> DEFINE r == Holds(decycle') \cup Holds(new_decycle')
  <2>2. \A k \in log.nbase..Written : p[k] \in r
    BY <1>0, <2>1
  <2> HIDE DEF r
  <2>3. IsChain(p, disk, log.nbase, Written, log.chain, r)
    <3>1. Written \in Int
      BY <1>7
    <3> QED
      BY <1>n, <2>1, <2>2, <3>1, ChainTail
  <2>4. \A k \in log.nbase..Written : disk[p[k]].entries = F[k]
    <3>1. \A k \in log.nbase..Written : k \in log.base..Written /\ k < log.this /\ k \in Int
      <4>1. Written = log.this - 1
        BY <1>7
      <4> QED
        BY <1>n, <4>1
    <3>2. \A k \in log.nbase..Written : F[k] = E[k]
      BY <1>8, <3>1 DEF LogWith
    <3> QED
      BY <2>1, <3>1, <3>2
  <2>5. \A k \in log'.this..(log'.next - 1) : F[k] = pend'[k - log'.this + 1]
    BY <1>0, <1>6, <1>8, SMTT(60) DEF LogWith
  <2>6. /\ IsChain(p, disk', log'.base, Written', log'.chain, r)
        /\ \A k \in log'.base..Written' : disk'[p[k]].entries = F[k]
    BY <1>0, <1>6, <1>7, <2>3, <2>4
  <2>7. \A k \in log'.nbase..Written' : p[k] \in Holds(new_decycle')
    BY <1>6, <1>7
  <2> QED
    BY <2>5, <2>6, <2>7, Zenon DEF Journal, r
<1>12. ASSUME NEW b \in Trees \cup {bmloc}
       PROVE  Safe(F, log.nbase, new, b) /\ (Hit(F, log.nbase, new, b) \/ b \in disk[bmloc].img)
  <2>1. Covered(E, b)
    BY <1>1
  <2>2. Safe(E, log.base, hi, b) /\ (Hit(E, log.nbase, hi, b) \/ b \in disk[bmloc].img)
    BY <1>0, <2>1 DEF Covered
  <2> HIDE DEF hi, new
  <2>3. Safe(E, log.nbase, hi, b)
    BY <1>n, <1>7, <2>2, LogTail
  <2>4. Keeps(E, F, log.nbase, hi, new, b)
    BY <1>10
  <2> QED
    BY <1>6, <2>2, <2>3, <2>4 DEF Keeps
<1>13. ASSUME ~bm.listed PROVE oldloc = bmloc /\ Trees \cup {bmloc} \subseteq disk[bmloc].img
  BY <1>0, <1>13 DEF Maps, Buffer, ToBeListed, Cycles
<1>14. ASSUME NEW b \in Trees' \cup {bmloc'} PROVE Covered(F, b)'
  <2> HIDE DEF new
  <2>1. CASE bm.listed
    BY <1>0, <1>6, <1>7, <1>12, <2>1 DEF Covered
  <2>2. CASE ~bm.listed
    <3>1. b \in disk'[bmloc'].img /\ b \in disk'[oldloc'].img
      BY <1>0, <1>13, <2>2
    <3>2. Safe(F, log'.base, log'.next - 1, b) /\ stage'.at # "bitmap"
      BY <1>0, <1>6, <1>7, <1>12, <2>2
    <3> QED
      BY <3>1, <3>2 DEF Covered
  <2> QED
    BY <2>1, <2>2
<1>15. Cycles'
  <2>1. (open => log.nbase < log.next)'
    <3> SUFFICES ASSUME es # <<>> PROVE log'.nbase < log'.next
      BY <1>0
    <3>1. Len(after) > Len(pend)
      BY <1>2, <1>4, LogOpens DEF after
    <3>2. Len(pend) \in Nat
      BY <1>2, LenProperties
    <3> QED
      BY <1>2, <1>5, <1>6, <3>1, <3>2
  <2>2. (stage.at = "bitmap" => Trees \subseteq cut.img)'
    <3>1. Trees \subseteq bitmap
      BY DEF HolderInv, Unharmed, Held, InUse, Trees
    <3>2. CASE bm.listed
      BY <1>0, <3>1, <3>2
    <3>3. CASE ~bm.listed
      BY <1>0, <3>3
    <3> QED
      BY <3>2, <3>3
  <2>3. (stage.at # "bitmap" /\ ~bm.listed => Trees \cup {bmloc} \subseteq disk[bmloc].img)'
    <3>1. CASE bm.listed
      BY <1>0, <3>1
    <3>2. CASE ~bm.listed
      BY <1>0, <1>13, <3>2
    <3> QED
      BY <3>1, <3>2
  <2>4. (log.base <= log.nbase)'
    BY <1>2, <1>6
  <2> QED
    BY <2>1, <2>2, <2>3, <2>4 DEF Cycles
<1> QED
  BY <1>11, <1>14, <1>15, Zenon DEF JournalCovers

(* A pending log block that gets written stays the same log.               *)
LEMMA JournalWritten ==
  ASSUME TypeInv, Maps, Unharmed, Alive, Cycles, JournalCovers, DeviceKept,
         NEW t \in Task, write_log(t)
  PROVE  Cycles' /\ JournalCovers'
<1>0. /\ stage.at = "log" /\ stage.done < Len(pend) /\ stage' = [stage EXCEPT !.done = @ + 1]
      /\ bm' = blockdirty(bm, count.rollup) /\ open' = FALSE
      /\ UNCHANGED <<Trees, bmloc, oldloc, pend, decycle>>
  BY DEF write_log, Trees
<1>a. PICK b \in Block :
        /\ b \notin bitmap
        /\ disk' = [disk EXCEPT ![b] =
             LogBlock(log.this + stage.done, log.chain, pend[stage.done + 1])]
        /\ new_decycle' = stash_value(new_decycle, b)
        /\ log' = [log EXCEPT !.chain = b]
  BY DEF write_log, balloc
<1>1. PICK p, E : Journal(p, E) /\ \A c \in Trees \cup {bmloc} : Covered(E, c)
  BY DEF JournalCovers
<1>2. /\ log \in LogType /\ stage \in [at : {"idle", "rollup", "bitmap", "log", "super", "sync"}, done : Nat]
      /\ disk \in [Block -> Content] /\ new_decycle \in Stash
      /\ log.next = log.this + Len(pend) /\ Len(pend) \in Nat
  BY LenProperties DEF TypeInv, TypeOK, LogType, LogNumbers
<1>3. /\ log'.this = log.this /\ log'.base = log.base /\ log'.nbase = log.nbase /\ log'.chain = b
      /\ log'.next = log.next /\ stage'.done = stage.done + 1 /\ stage'.at = "log"
      /\ log.base \in Nat /\ log.nbase \in Nat /\ log.this \in Nat /\ log.next \in Nat
  BY <1>0, <1>a, <1>2 DEF LogType
<1>4. /\ Written + 1 = log.this + stage.done /\ Written' = Written + 1 /\ Written \in Int
      /\ Written + 1 \in log.this..(log.next - 1)
      /\ (Written + 1) - log.this + 1 = stage.done + 1
  <2>1. /\ log.this \in Nat /\ stage.done \in Nat /\ Len(pend) \in Nat /\ stage.done < Len(pend)
        /\ log.next = log.this + Len(pend)
    BY <1>0, <1>2, <1>3
  <2>2. log'.this = log.this /\ stage'.done = stage.done + 1
    BY <1>3
  <2> QED
    BY <2>1, <2>2, SMTT(60) DEF Written
<1>5. Holds(new_decycle') = Holds(new_decycle) \cup {b}
  <2>1. new_decycle'.vals = Append(new_decycle.vals, b) /\ new_decycle.vals \in Seq(Block)
    BY <1>a, <1>2 DEF stash_value, Stash
  <2> QED
    BY <2>1, AppendRange DEF Holds
<1>6. /\ \A a \in Stashed \cup {bmloc} : disk'[a] = disk[a]
      /\ disk'[oldloc] = disk[oldloc]
  <2>1. oldloc \in Stashed \cup {bmloc}
    BY <1>0 DEF Maps, Images, Stashed
  <2> QED
    BY <2>1 DEF DeviceKept
<1>7. /\ disk'[b].kind = "log" /\ disk'[b].index = Written + 1 /\ disk'[b].chain = log.chain
      /\ disk'[b].entries = E[Written + 1]
  <2> DEFINE i == log.this + stage.done
             es == pend[stage.done + 1]
             m == LogBlock(i, log.chain, es)
  <2>1. m.kind = "log" /\ m.index = i /\ m.chain = log.chain /\ m.entries = es
    BY Zenon DEF LogBlock
  <2>2. disk' = [disk EXCEPT ![b] = m]
    BY <1>a
  <2>3. E[Written + 1] = es
    BY <1>1, <1>4 DEF Journal
  <2> HIDE DEF m
  <2>4. disk'[b] = m
    BY <1>2, <2>2
  <2> QED
    BY <1>4, <2>1, <2>3, <2>4
<1> DEFINE s == Holds(decycle) \cup Holds(new_decycle)
           r == Holds(decycle') \cup Holds(new_decycle')
<1>8. s \subseteq r /\ b \in r /\ s \subseteq Stashed
  BY <1>0, <1>5 DEF Stashed
<1>9. /\ IsChain(p, disk, log.base, Written, log.chain, s)
      /\ \A k \in log.base..Written : disk[p[k]].entries = E[k]
      /\ \A k \in log.nbase..Written : p[k] \in Holds(new_decycle)
      /\ \A k \in log.this..(log.next - 1) : E[k] = pend[k - log.this + 1]
  BY <1>1 DEF Journal
<1> HIDE DEF s, r
<1>10. PICK q : IsChain(q, disk', log.base, Written + 1, b, r) /\ SamePlaces(p, q, log.base, Written)
  <2>1. \A c \in s : disk'[c] = disk[c]
    BY <1>6, <1>8
  <2>2. log.base \in Int /\ Written \in Int
    BY <1>3, <1>4
  <2>3. disk'[b].kind = "log" /\ disk'[b].index = Written + 1 /\ disk'[b].chain = log.chain
    BY <1>7
  <2>4. IsChain(p, disk, log.base, Written, log.chain, s)
    BY <1>9
  <2> QED
    BY <1>8, <2>1, <2>2, <2>3, <2>4, ChainGrows
<1>11. Journal(q, E)'
  <2>1. \A k \in log.base..Written : p[k] \in Stashed /\ q[k] = p[k]
    BY <1>8, <1>9, <1>10 DEF IsChain, SamePlaces
  <2>2. log.base <= Written + 1 => q[Written + 1] = b
    BY <1>10 DEF IsChain
  <2>3. \A k \in log.base..(Written + 1) : k \in log.base..Written \/ (k = Written + 1 /\ log.base <= Written + 1)
    BY <1>3, <1>4
  <2>4. \A k \in log.nbase..(Written + 1) : k \in log.base..(Written + 1) /\ (k # Written + 1 => k \in log.nbase..Written)
    <3>1. log.base \in Int /\ log.nbase \in Int /\ Written \in Int
      BY <1>3, <1>4
    <3>2. log.base <= log.nbase
      BY <1>0 DEF Cycles
    <3> QED
      BY <3>1, <3>2
  <2>5. \A k \in log.base..(Written + 1) : disk'[q[k]].entries = E[k]
    <3>1. ASSUME NEW k \in log.base..Written PROVE disk'[q[k]].entries = E[k]
      <4>1. q[k] = p[k] /\ p[k] \in Stashed
        BY <2>1
      <4>2. disk'[p[k]] = disk[p[k]]
        BY <1>6, <4>1
      <4> QED
        BY <1>9, <4>1, <4>2
    <3> QED
      BY <1>7, <2>2, <2>3, <3>1
  <2>6. \A k \in log.nbase..(Written + 1) : q[k] \in Holds(new_decycle')
    BY <1>5, <1>9, <2>1, <2>2, <2>3, <2>4
  <2>7. /\ IsChain(q, disk', log'.base, Written', log'.chain, r)
        /\ \A k \in log'.base..Written' : disk'[q[k]].entries = E[k]
        /\ \A k \in log'.nbase..Written' : q[k] \in Holds(new_decycle')
        /\ \A k \in log'.this..(log'.next - 1) : E[k] = pend'[k - log'.this + 1]
    BY <1>0, <1>3, <1>4, <1>9, <1>10, <2>5, <2>6
  <2> QED
    BY <2>7, Zenon DEF Journal, r
<1>12. \A c \in Trees' \cup {bmloc'} : Covered(E, c)'
  BY <1>0, <1>1, <1>3, <1>6 DEF Covered
<1>13. bm'.listed = TRUE
  <2>1. bm \in [state : States, listed : BOOLEAN] /\ count.rollup \in Nat
    BY DEF TypeInv, TypeOK
  <2>2. bm.listed \/ bm.state = Clean
    BY <1>0 DEF Maps, Buffer
  <2> QED
    BY <1>0, <2>1, <2>2, DirtyListed
<1>14. Cycles'
  BY <1>0, <1>3, <1>13 DEF Cycles
<1> QED
  BY <1>11, <1>12, <1>14, Zenon DEF JournalCovers

(* sync_inodes writes an image with what is in use over the one at bmloc.  *)
LEMMA JournalInPlace ==
  ASSUME TypeInv, HolderInv, LockInv, Stages, Unharmed, Cycles, JournalCovers, sync_inodes
  PROVE  Cycles' /\ JournalCovers'
<1>1. /\ stage.at = "idle" /\ stage' = [at |-> "sync", done |-> 0]
      /\ \A t \in Task : pc[t] # "commit"
      /\ UNCHANGED <<log, pend, open, bmloc, oldloc, cut, decycle, new_decycle, Trees>>
      /\ disk' = IF bm.listed THEN [disk EXCEPT ![bmloc] = MapBlock(bitmap)] ELSE disk
  BY DEF sync_inodes, logs, stashes, Trees
<1>2. stage.done = 0 /\ stage'.done = 0 /\ stage'.at = "sync"
  BY <1>1, NoCommitMeanwhile
<1>3. \A a \in Block \ {bmloc} : disk'[a] = disk[a]
  BY <1>1 DEF TypeInv, TypeOK
<1>5. Trees \cup {bmloc} \subseteq disk'[bmloc].img
  <2>1. CASE ~bm.listed
    BY <1>1, <2>1 DEF Cycles
  <2>2. CASE bm.listed
    <3>1. disk'[bmloc] = MapBlock(bitmap)
      BY <1>1, <2>2 DEF TypeInv, TypeOK
    <3>2. Trees \cup {bmloc} \subseteq bitmap
      BY DEF HolderInv, Unharmed, Held, InUse, Trees
    <3> QED
      BY <3>1, <3>2 DEF MapBlock
  <2> QED
    BY <2>1, <2>2
<1>6. PICK p, E : Journal(p, E) /\ \A b \in Trees \cup {bmloc} : Covered(E, b)
  BY DEF JournalCovers
<1> DEFINE r == Holds(decycle) \cup Holds(new_decycle)
<1>7. \A a \in r : disk'[a] = disk[a]
  <2>1. r \subseteq Stashed /\ Stashed \subseteq bitmap /\ bmloc \notin Stashed
    BY DEF HolderInv, Unharmed, Held, InUse, Stashed
  <2>2. bitmap \subseteq Block
    BY DEF TypeInv, TypeOK
  <2> QED
    BY <1>3, <2>1, <2>2
<1> HIDE DEF r
<1>8. /\ IsChain(p, disk, log.base, Written, log.chain, r)
      /\ \A k \in log.base..Written : disk[p[k]].entries = E[k]
      /\ \A k \in log.nbase..Written : p[k] \in Holds(new_decycle)
      /\ \A k \in log.this..(log.next - 1) : E[k] = pend[k - log.this + 1]
  BY <1>6 DEF Journal, r
<1>9. log.base \in Int /\ Written \in Int /\ Written' = Written
  BY <1>1, <1>2, ChainBounds DEF TypeInv, Written
<1>10. IsChain(p, disk', log.base, Written, log.chain, r)
  BY <1>7, <1>8, <1>9, ChainKept
<1>11. \A k \in log.base..Written : disk'[p[k]].entries = E[k]
  <2>1. \A k \in log.base..Written : p[k] \in r
    BY <1>8 DEF IsChain
  <2> QED
    BY <1>7, <1>8, <2>1
<1>12. Holds(decycle') = Holds(decycle) /\ Holds(new_decycle') = Holds(new_decycle)
  BY <1>1
<1>13. /\ IsChain(p, disk', log'.base, Written', log'.chain, Holds(decycle') \cup Holds(new_decycle'))
       /\ \A k \in log'.base..Written' : disk'[p[k]].entries = E[k]
       /\ \A k \in log'.nbase..Written' : p[k] \in Holds(new_decycle')
       /\ \A k \in log'.this..(log'.next - 1) : E[k] = pend'[k - log'.this + 1]
  BY <1>1, <1>8, <1>9, <1>10, <1>11, <1>12 DEF r
<1>14. Journal(p, E)'
  BY <1>13, Zenon DEF Journal
<1>15. ASSUME NEW b \in Trees' \cup {bmloc'} PROVE Covered(E, b)'
  <2>1. Covered(E, b) /\ b \in disk'[bmloc].img
    BY <1>1, <1>5, <1>6
  <2>2. Safe(E, log.base, log.next - 1, b)
        /\ (Hit(E, log.base, log.next - 1, b) \/ b \in disk[oldloc].img)
    BY <1>1, <2>1 DEF Covered
  <2>3. oldloc = bmloc \/ disk'[oldloc] = disk[oldloc]
    BY <1>3 DEF TypeInv, TypeOK
  <2> QED
    BY <1>1, <1>2, <2>1, <2>2, <2>3 DEF Covered
<1>16. Cycles'
  BY <1>1, <1>2, <1>5 DEF Cycles
<1> QED
  BY <1>14, <1>15, <1>16, Zenon DEF JournalCovers

(* sync_super throws the log away, and the image has what is in use.       *)
LEMMA JournalSynced ==
  ASSUME Stages, Cycles, sync_super
  PROVE  Cycles' /\ JournalCovers'
<1>1. /\ log' = [base |-> 0, nbase |-> 0, this |-> 0, next |-> 0, chain |-> NoBlock]
      /\ UNCHANGED <<bmloc, Trees, disk, bm>> /\ oldloc' = bmloc /\ open' = FALSE
      /\ stage.at = "sync" /\ stage' = [at |-> "idle", done |-> 0]
  BY DEF sync_super, Trees
<1>2. stage'.at = "idle" /\ stage'.done = 0
  BY <1>1
<1>3. Trees \cup {bmloc} \subseteq disk'[bmloc].img
  BY <1>1 DEF Stages, Cycles
<1>4. Written' = -1 /\ log'.base = 0 /\ log'.nbase = 0 /\ log'.this = 0 /\ log'.next = 0
  BY <1>1, <1>2 DEF Written
<1>5. IsChain(<<>>, disk', log'.base, Written', log'.chain, Holds(decycle') \cup Holds(new_decycle'))
  BY <1>4, ChainEmpty
<1>6. /\ \A k \in log'.base..Written' : disk'[<<>>[k]].entries = <<>>[k]
      /\ \A k \in log'.nbase..Written' : <<>>[k] \in Holds(new_decycle')
      /\ \A k \in log'.this..(log'.next - 1) : <<>>[k] = pend'[k - log'.this + 1]
  BY <1>4
<1>7. Journal(<<>>, <<>>)'
  BY <1>5, <1>6, Zenon DEF Journal
<1>8. ASSUME NEW b \in Trees' \cup {bmloc'} PROVE Covered(<<>>, b)'
  <2>1. Safe(<<>>, log'.base, log'.next - 1, b)
    BY <1>4, SafeEmpty
  <2>2. b \in disk'[bmloc'].img /\ b \in disk'[oldloc'].img /\ stage'.at # "bitmap"
    BY <1>1, <1>2, <1>3
  <2> QED
    BY <2>1, <2>2 DEF Covered
<1>9. Cycles'
  BY <1>1, <1>2, <1>3, <1>4 DEF Cycles
<1> QED
  BY <1>7, <1>8, <1>9, Zenon DEF JournalCovers

(* Every step keeps the log in memory, as long as the program runs.        *)
LEMMA JournalStep ==
  ASSUME TypeInv, TypeInv', HolderInv, HolderInv', LockInv, Stages, Stages', Maps, Logbook, [Next]_vars
  PROVE  (Unharmed /\ Alive => Cycles /\ JournalCovers)'
<1> SUFFICES ASSUME Unharmed', Alive' PROVE Cycles' /\ JournalCovers'
  OBVIOUS
<1>a. DeviceKept \/ (stage.at \in {"idle", "sync", "super"} /\ \A t \in Task : pc[t] # "in")
  <2>1. sync_inodes => stage.at = "idle" /\ \A t \in Task : pc[t] = "out"
    BY DEF sync_inodes
  <2>2. sync_super => stage.at = "sync"
    BY DEF sync_super
  <2>3. ASSUME \E t \in Task : commit_delta(t) PROVE stage.at = "super"
    BY <2>3 DEF commit_delta
  <2>4. \A t \in Task : pc[t] = "in" => stage.at = "idle"
    BY NoCommitMeanwhile
  <2>5. DeviceKept \/ sync_inodes \/ sync_super \/ \E t \in Task : commit_delta(t)
    BY DeviceStep
  <2> QED
    BY <2>1, <2>2, <2>3, <2>4, <2>5
<1>b. ASSUME Alive, failed \subseteq failed' PROVE Unharmed /\ Images /\ Buffer /\ Cycles /\ JournalCovers
  BY <1>b DEF Maps, Unharmed, Logbook
<1>c. ASSUME Alive, failed \subseteq failed', UNCHANGED <<super, stashes, disk>>,
             UNCHANGED <<log, pend, bmloc, oldloc, cut>>, stage'.done = stage.done,
             open' => open, Trees' \subseteq Trees, bm' = bm \/ bm'.listed,
             stage'.at = "bitmap" <=> stage.at = "bitmap"
      PROVE  Cycles' /\ JournalCovers'
  <2>1. DeviceKept /\ UNCHANGED <<decycle, new_decycle>>
    BY <1>c DEF DeviceKept, Stashed, Holds, stashes
  <2>2. Written' = Written
    BY <1>c DEF Written
  <2> QED
    BY <1>b, <1>c, <2>1, <2>2, JournalStutter
<1>d. ASSUME Alive, failed \subseteq failed', stage.at # "bitmap", bm' = blockdirty(bm, count.rollup)
      PROVE  bm'.listed = TRUE
  <2>1. bm \in [state : States, listed : BOOLEAN] /\ count.rollup \in Nat
    BY DEF TypeInv, TypeOK
  <2>2. bm.listed \/ bm.state = Clean
    BY <1>b, <1>d DEF Buffer
  <2> QED
    BY <1>d, <2>1, <2>2, DirtyListed
<1>1. ASSUME NEW t \in Task, change_begin(t) PROVE Cycles' /\ JournalCovers'
  BY <1>1, <1>c DEF change_begin, memory, logs, Trees
<1>2. ASSUME NEW t \in Task, change_end(t) PROVE Cycles' /\ JournalCovers'
  BY <1>2, <1>c DEF change_end, memory, logs, Trees
<1>3. ASSUME NEW t \in Task, force_delta(t) PROVE Cycles' /\ JournalCovers'
  <2>1. /\ UNCHANGED <<super, stashes, disk, log, pend, open, bmloc, oldloc, cut, Trees, bm, failed>>
        /\ stage'.at = "log" /\ stage'.done = 0 /\ Alive /\ \A u \in Task : pc[u] # "commit"
    BY <1>3 DEF force_delta, memory, logs, Trees
  <2>2. stage.at # "bitmap" /\ stage.done = 0
    BY <2>1, NoCommitMeanwhile
  <2> QED
    BY <1>c, <2>1, <2>2
<1>4. ASSUME NEW t \in Task, CommitSkipped(t) PROVE Cycles' /\ JournalCovers'
  BY <1>4, <1>c DEF CommitSkipped, memory, logs, Trees
<1>5. ASSUME NEW t \in Task, do_commit(t) PROVE Cycles' /\ JournalCovers'
  <2>1. /\ UNCHANGED <<super, stashes, disk, log, pend, open, bmloc, oldloc, cut, Trees, bm, failed>>
        /\ stage'.done = 0 /\ Alive /\ \A u \in Task : pc[u] # "commit"
    BY <1>5 DEF do_commit, memory, logs, Trees
  <2>2. stage.at # "bitmap" /\ stage.done = 0
    BY <2>1, NoCommitMeanwhile
  <2>3. stage'.at # "bitmap"
    <3>1. \/ stage' = [at |-> "log", done |-> 0]
          \/ stage' = [at |-> "rollup", done |-> 0]
      BY <1>5, Zenon DEF do_commit
    <3> QED
      BY <3>1
  <2> QED
    BY <1>c, <2>1, <2>2, <2>3
<1>6. ASSUME NEW t \in Task, AllocLogged(t) PROVE Cycles' /\ JournalCovers'
  <2>1. PICK b \in Block : /\ Trees' = Trees \cup {b} /\ Logged(<<Entry("balloc", b)>>)
    BY <1>6 DEF AllocLogged, Trees
  <2>2. /\ pc[t] = "in" /\ Alive /\ bm' = blockdirty(bm, count.rollup)
        /\ UNCHANGED <<bmloc, oldloc, stage, decycle, new_decycle, failed>>
    BY <1>6 DEF AllocLogged, stashes, locks
  <2>3. stage.at = "idle" /\ stage.done = 0
    BY <2>2, NoCommitMeanwhile
  <2>4. DeviceKept
    BY <1>a, <2>2
  <2> DEFINE e == Entry("balloc", b)
  <2>5. e \in Rec /\ e.op = "balloc" /\ e.block = b
    BY DEF Entry, Rec, Ops
  <2> HIDE DEF e
  <2>6. /\ Logged(<<e>>) /\ e.op \notin {"bfree", "bfree_on_rollup"} /\ Allocs(e, e.block)
        /\ Trees' = Trees \cup {e.block}
    BY <2>1, <2>5 DEF e, Allocs
  <2>7. Unharmed /\ Cycles /\ JournalCovers
    BY <1>b, <2>2
  <2> QED
    BY <2>2, <2>3, <2>4, <2>5, <2>6, <2>7, JournalAlloc
<1>7. ASSUME NEW t \in Task, NEW op \in {"bnode_split", "bnode_root"}, AllocNode(t, op)
      PROVE  Cycles' /\ JournalCovers'
  <2>1. PICK b \in Block : /\ Trees' = Trees \cup {b} /\ Logged(<<Entry(op, b)>>)
    BY <1>7 DEF AllocNode, Trees
  <2>2. /\ pc[t] = "in" /\ Alive /\ bm' = blockdirty(bm, count.rollup)
        /\ UNCHANGED <<bmloc, oldloc, stage, decycle, new_decycle, failed>>
    BY <1>7 DEF AllocNode, stashes, locks
  <2>3. stage.at = "idle" /\ stage.done = 0
    BY <2>2, NoCommitMeanwhile
  <2>4. DeviceKept
    BY <1>a, <2>2
  <2> DEFINE e == Entry(op, b)
  <2>5. e \in Rec /\ e.op = op /\ e.block = b
    BY DEF Entry, Rec, Ops
  <2> HIDE DEF e
  <2>6. /\ Logged(<<e>>) /\ e.op \notin {"bfree", "bfree_on_rollup"} /\ Allocs(e, e.block)
        /\ Trees' = Trees \cup {e.block}
    BY <2>1, <2>5 DEF e, Allocs
  <2>7. Unharmed /\ Cycles /\ JournalCovers
    BY <1>b, <2>2
  <2> QED
    BY <2>2, <2>3, <2>4, <2>5, <2>6, <2>7, JournalAlloc
<1>8. ASSUME NEW t \in Task, NEW b \in Block, FreeNow(t, b) PROVE Cycles' /\ JournalCovers'
  <2>1. /\ UNCHANGED <<super, stashes, disk, log, pend, open, bmloc, oldloc, cut, failed, stage>>
        /\ Alive /\ pc[t] = "in" /\ Trees' \subseteq Trees /\ bm' = blockdirty(bm, count.rollup)
    BY <1>8 DEF FreeNow, logs, locks, Trees
  <2>2. stage.at = "idle"
    BY <2>1, NoCommitMeanwhile
  <2>3. bm'.listed = TRUE
    BY <1>d, <2>1, <2>2
  <2> QED
    BY <1>c, <2>1, <2>3
<1>9. ASSUME NEW t \in Task, new_cycle_log(t) PROVE Cycles' /\ JournalCovers'
  <2>1. Alive /\ UNCHANGED failed
    BY <1>9 DEF new_cycle_log
  <2>2. Unharmed /\ Cycles /\ JournalCovers
    BY <1>b, <2>1
  <2> QED
    BY <1>9, <2>1, <2>2, JournalCycle
<1>10. ASSUME NEW t \in Task, new_cycle_log_asserts(t) PROVE FALSE
  BY <1>10 DEF new_cycle_log_asserts, Die, Alive
<1>11. ASSUME NEW t \in Task, NEW b \in Block, write_bitmap(t, b) PROVE Cycles' /\ JournalCovers'
  <2>1. Alive /\ UNCHANGED failed /\ stage.at = "bitmap" /\ pc[t] = "commit"
    BY <1>11 DEF write_bitmap, Die
  <2>2. Unharmed /\ Cycles /\ JournalCovers
    BY <1>b, <2>1
  <2>3. DeviceKept
    BY <1>a, <2>1
  <2> QED
    BY <1>11, <2>1, <2>2, <2>3, JournalBitmap
<1>12. ASSUME NEW t \in Task, write_bitmap_enospc(t) PROVE FALSE
  BY <1>12 DEF write_bitmap_enospc, Unharmed
<1>13. ASSUME NEW t \in Task, write_log(t) PROVE Cycles' /\ JournalCovers'
  <2>1. Alive /\ UNCHANGED failed /\ stage.at = "log" /\ pc[t] = "commit"
    BY <1>13 DEF write_log
  <2>2. Unharmed /\ Cycles /\ JournalCovers
    BY <1>b, <2>1
  <2>3. DeviceKept
    BY <1>a, <2>1
  <2> QED
    BY <1>13, <2>1, <2>2, <2>3, JournalWritten
<1>14. ASSUME NEW t \in Task, write_log_fails(t) PROVE FALSE
  BY <1>14 DEF write_log_fails, Unharmed
<1>15. ASSUME NEW t \in Task, write_log_done(t) PROVE Cycles' /\ JournalCovers'
  <2>1. /\ Alive /\ stage.at = "log" /\ stage.done = Len(pend)
        /\ log' = [log EXCEPT !.this = log.next] /\ stage'.at = "super" /\ stage'.done = 0
        /\ UNCHANGED <<super, stashes, disk, bmloc, oldloc, cut, Trees, bm, failed>> /\ open' = FALSE
    BY <1>15 DEF write_log_done, memory, Trees
  <2>2. log \in LogType /\ log.next = log.this + Len(pend)
    BY DEF TypeInv, TypeOK, LogType, LogNumbers
  <2>3. /\ log'.this = log.next /\ log'.base = log.base /\ log'.nbase = log.nbase
        /\ log'.chain = log.chain /\ log'.next = log.next
    BY <2>1, <2>2 DEF LogType
  <2>4. Written' = Written
    BY <2>1, <2>2, <2>3 DEF Written, LogType
  <2>5. DeviceKept /\ UNCHANGED <<decycle, new_decycle>>
    BY <2>1 DEF DeviceKept, Stashed, Holds, stashes
  <2>6. Images /\ Cycles /\ JournalCovers
    BY <1>b, <2>1
  <2> QED
    BY <2>1, <2>3, <2>4, <2>5, <2>6, JournalStutter
<1>16. ASSUME NEW t \in Task, commit_delta(t) PROVE Cycles' /\ JournalCovers'
  <2>1. /\ Alive /\ stage.at = "super" /\ stage'.at = "idle" /\ stage'.done = 0
        /\ bm' = bm \/ bm' = blockdirty(bm, count.rollup)
        /\ UNCHANGED <<bmloc, oldloc, cut, derollup, decycle, new_decycle, disk, log, pend, open, Trees>>
        /\ failed \subseteq failed'
    BY <1>16 DEF commit_delta, logs, Trees
  <2>2. Images /\ Cycles /\ JournalCovers /\ stage.done = 0
    BY <1>b, <2>1 DEF Stages
  <2>3. bm' = bm \/ bm'.listed
    BY <1>d, <2>1
  <2>4. PICK p, E : Journal(p, E) /\ \A b \in Trees \cup {bmloc} : Covered(E, b)
    BY <2>2 DEF JournalCovers
  <2>5. Written' = Written
    BY <2>1, <2>2 DEF Written
  <2>6. Journal(p, E)'
    BY <2>1, <2>4, <2>5 DEF Journal, Holds
  <2>7. \A b \in Trees' \cup {bmloc'} : Covered(E, b)'
    BY <2>1, <2>4 DEF Covered
  <2>8. Cycles'
    BY <2>1, <2>2, <2>3 DEF Cycles
  <2> QED
    BY <2>6, <2>7, <2>8, Zenon DEF JournalCovers
<1>17. ASSUME NEW t \in Task, commit_delta_fails(t) PROVE Cycles' /\ JournalCovers'
  <2>1. /\ Alive /\ stage.at = "super" /\ stage'.at = "idle" /\ stage'.done = 0
        /\ UNCHANGED <<super, stashes, disk, log, pend, open, bmloc, oldloc, cut, Trees, bm>>
        /\ failed \subseteq failed'
    BY <1>17 DEF commit_delta_fails, logs, Trees
  <2>2. stage.done = 0
    BY <2>1 DEF Stages
  <2> QED
    BY <1>c, <2>1, <2>2
<1>18. CASE sync_super
  <2>1. Alive /\ failed \subseteq failed'
    BY <1>18 DEF sync_super, Die
  <2> QED
    BY <1>18, <1>b, <2>1, JournalSynced
<1>19. CASE UNCHANGED vars
  BY <1>19, <1>c DEF vars, memory, logs, locks, Alive, Trees
<1>20. ASSUME NEW t \in Task, AllocLeaf(t) PROVE Cycles' /\ JournalCovers'
  <2>1. PICK b \in Block : Logged(<<Entry("bnode_add", b)>>)
    BY <1>20 DEF AllocLeaf
  <2>2. /\ pc[t] = "in" /\ Alive /\ bm' = blockdirty(bm, count.rollup) /\ Trees' = Trees
        /\ UNCHANGED <<bmloc, oldloc, stage, decycle, new_decycle, failed>>
    BY <1>20 DEF AllocLeaf, stashes, locks, Trees
  <2>3. stage.at = "idle" /\ stage.done = 0
    BY <2>2, NoCommitMeanwhile
  <2>4. DeviceKept
    BY <1>a, <2>2
  <2> DEFINE e == Entry("bnode_add", b)
  <2>5. e \in Rec /\ e.op = "bnode_add"
    BY DEF Entry, Rec, Ops
  <2> HIDE DEF e
  <2>6. Logged(<<e>>) /\ e.op \notin {"bfree", "bfree_on_rollup"}
    BY <2>1, <2>5 DEF e
  <2>7. Unharmed /\ Cycles /\ JournalCovers
    BY <1>b, <2>2
  <2> QED
    BY <2>2, <2>3, <2>4, <2>5, <2>6, <2>7, JournalAlloc
<1>21. ASSUME NEW t \in Task, NEW b \in Block, AddChild(t, b) PROVE Cycles' /\ JournalCovers'
  <2>1. Logged(<<Entry("bnode_add", b)>>)
    BY <1>21 DEF AddChild
  <2>2. /\ pc[t] = "in" /\ Alive /\ bm' = bm /\ Trees' = Trees
        /\ UNCHANGED <<bmloc, oldloc, stage, decycle, new_decycle, failed>>
    BY <1>21 DEF AddChild, memory, stashes, locks, Trees
  <2>3. stage.at = "idle" /\ stage.done = 0
    BY <2>2, NoCommitMeanwhile
  <2>4. DeviceKept
    BY <1>a, <2>2
  <2> DEFINE e == Entry("bnode_add", b)
  <2>5. e \in Rec /\ e.op = "bnode_add"
    BY DEF Entry, Rec, Ops
  <2> HIDE DEF e
  <2>6. Logged(<<e>>) /\ e.op \notin {"bfree", "bfree_on_rollup"}
    BY <2>1, <2>5 DEF e
  <2>7. Unharmed /\ Cycles /\ JournalCovers
    BY <1>b, <2>2
  <2> QED
    BY <2>2, <2>3, <2>4, <2>5, <2>6, <2>7, JournalAlloc
<1>22. CASE sync_inodes
  <2>1. Alive /\ failed \subseteq failed'
    BY <1>22 DEF sync_inodes
  <2> QED
    BY <1>22, <1>b, <2>1, JournalInPlace
<1> QED
  BY <1>1, <1>2, <1>3, <1>4, <1>5, <1>6, <1>7, <1>8, <1>9, <1>10, <1>11, <1>12, <1>13, <1>14,
     <1>15, <1>16, <1>17, <1>18, <1>19, <1>20, <1>21, <1>22 DEF Next, Commit

(* In the beginning there is no log, and the image has the two blocks that *)
(* make_tux3 has taken.                                                    *)
LEMMA LogbookInit == Init => Logbook
<1> SUFFICES ASSUME Init PROVE Logbook
  OBVIOUS
<1>1. /\ log = [base |-> 0, nbase |-> 0, this |-> 0, next |-> 0, chain |-> NoBlock]
      /\ stage = [at |-> "idle", done |-> 0] /\ Trees = {1} /\ bmloc = 0 /\ oldloc = 0 /\ open = FALSE
      /\ super.base = 0 /\ super.logcount = 0 /\ super.used = {0, 1} /\ super.maps = {0}
      /\ disk = [b \in Block |-> IF b = 0 THEN MapBlock({0, 1}) ELSE Data]
  BY DEF Init, Trees
<1>2. disk[0].img = {0, 1}
  <2>1. 0 \in Block
    BY CommitAssumption DEF Block
  <2>2. disk[0] = MapBlock({0, 1})
    BY <1>1, <2>1
  <2> QED
    BY <2>2 DEF MapBlock
<1>3. /\ log.base = 0 /\ log.nbase = 0 /\ log.this = 0 /\ log.next = 0 /\ Written = -1
      /\ stage.at = "idle"
  BY <1>1 DEF Written
<1>4. Cycles
  BY <1>1, <1>2, <1>3 DEF Cycles
<1>5. Journal(<<>>, <<>>)
  <2>1. IsChain(<<>>, disk, log.base, Written, log.chain, Holds(decycle) \cup Holds(new_decycle))
    BY <1>3, ChainEmpty
  <2>2. /\ \A k \in log.base..Written : disk[<<>>[k]].entries = <<>>[k]
        /\ \A k \in log.nbase..Written : <<>>[k] \in Holds(new_decycle)
        /\ \A k \in log.this..(log.next - 1) : <<>>[k] = pend[k - log.this + 1]
    BY <1>3
  <2> QED
    BY <2>1, <2>2, Zenon DEF Journal
<1>6. \A b \in Trees \cup {bmloc} : Covered(<<>>, b)
  <2> SUFFICES ASSUME NEW b \in Trees \cup {bmloc} PROVE Covered(<<>>, b)
    OBVIOUS
  <2>1. Safe(<<>>, log.base, log.next - 1, b)
    BY <1>3, SafeEmpty
  <2>2. b \in disk[bmloc].img /\ b \in disk[oldloc].img
    BY <1>1, <1>2
  <2> QED
    BY <1>3, <2>1, <2>2 DEF Covered
<1>7. Recoverable
  <2> DEFINE last == super.base + super.logcount - 1
  <2>1. super.base = 0 /\ last = -1
    BY <1>1
  <2> HIDE DEF last
  <2>2. /\ IsChain(<<>>, disk, super.base, last, super.chain, Stashed)
        /\ \A k \in super.base..last : disk[<<>>[k]].entries = <<>>[k]
    BY <2>1, ChainEmpty
  <2>3. \A b \in super.used : \A loc \in super.maps :
          Safe(<<>>, super.base, last, b) /\ (Hit(<<>>, super.base, last, b) \/ b \in disk[loc].img)
    BY ONLY <1>1, <1>2, <2>1, SafeEmpty
  <2> QED
    BY <2>2, <2>3, Zenon DEF Recoverable, last
<1>8. JournalCovers
  BY <1>5, <1>6, Zenon DEF JournalCovers
<1> QED
  BY <1>4, <1>7, <1>8 DEF Logbook

(* ReplayCovers holds in every state: wherever between two writes of the   *)
(* device the machine stops, but for the two halves of sync_super,         *)
(* replay() either refuses the log or finds allocated every extent, index  *)
(* node and logged leaf of the committed state, whichever of the two       *)
(* bitmap images it starts from, for any number of rollups and any length  *)
(* of the log.  The leaves that map_region has added and the log's own     *)
(* blocks are not among what it finds.                                     *)
THEOREM ReplayCorrect == Spec => []ReplayCovers
<1> DEFINE I == TypeInv /\ HolderInv /\ LockInv /\ Stages
<1>1. I /\ I' /\ Chains /\ Maps /\ Logbook /\ [Next]_vars => Logbook'
  BY JournalStep, RecoverableStep DEF Logbook
<1>2. TypeInv /\ HolderInv /\ Logbook => ReplayCovers
  <2> SUFFICES ASSUME TypeInv, HolderInv, Logbook, Orderly, stage.at # "sync",
                      Recognized(LoadedLog), NEW loc \in super.maps, NEW b \in super.used
               PROVE  b \in replay(disk[loc].img).bits
    BY DEF ReplayCovers
  <2> DEFINE last == super.base + super.logcount - 1
  <2>1. PICK p, E :
          /\ IsChain(p, disk, super.base, last, super.chain, Stashed)
          /\ \A k \in super.base..last : disk[p[k]].entries = E[k]
          /\ \A c \in super.used : \A l \in super.maps :
               Safe(E, super.base, last, c) /\ (Hit(E, super.base, last, c) \/ c \in disk[l].img)
    BY Zenon DEF Logbook, Recoverable
  <2>2. Safe(E, super.base, last, b) /\ (Hit(E, super.base, last, b) \/ b \in disk[loc].img)
    BY <2>1
  <2>3. Stashed \subseteq Block
    BY DEF HolderInv, Orderly, Held, TypeInv, TypeOK
  <2>4. super.base \in Int /\ last \in Int /\ TypeOK
    BY ChainBounds DEF TypeInv
  <2>5. IsChain(p, disk, super.base, last, super.chain, Block)
    BY <2>1, <2>3, <2>4, ChainKept
  <2>6. disk[loc].img \in SUBSET Block
    BY DEF TypeInv, TypeOK, Content
  <2> QED
    BY <2>1, <2>2, <2>4, <2>5, <2>6, LogReplayed
<1>3. Init => Logbook
  BY LogbookInit
<1>4. Spec => []I
  BY StagesHold
<1>5. I => TypeInv /\ HolderInv
  OBVIOUS
<1> HIDE DEF I
<1> QED
  BY <1>1, <1>2, <1>3, <1>4, <1>5, ChainsHold, MapsHold, PTL DEF Spec
=============================================================================
