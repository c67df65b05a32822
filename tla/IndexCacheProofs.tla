-------------------------- MODULE IndexCacheProofs --------------------------
(***************************************************************************)
(* What the cache of open indexes promises to the searches, for every      *)
(* finite set of threads and every bound.                                  *)
(***************************************************************************)
EXTENDS IndexCache, FiniteSetTheorems, SequenceTheorems, TLAPS

-----------------------------------------------------------------------------
(* The inductive invariant.                                                *)

Entry == [key : Seqs, gen : Nat, epoch : Nat, ref : Nat, retired : BOOLEAN, open : BOOLEAN]
Pcs == {"idle", "lookup", "open", "recheck", "insert", "search", "release", "crashed", "evict"}
Local == [flock : BOOLEAN, key : Seqs, entry : Nat, attempt : 0..1, gen : Nat, epoch : Nat]

\* commit_seq stays below the number of runs; a lock file outlives its writer.
DiskOK ==
    /\ gen \in Nat /\ epoch \in Nat
    /\ seq \in Seqs /\ lockFile \in BOOLEAN
    /\ writer \in [op : WriterOps \cup {"none"}, wrote : BOOLEAN]
    /\ runs \in 0..MaxRuns
    /\ seq < runs /\ (writer.op # "none" => seq + 1 < runs)
    /\ writer.wrote => writer.op # "none"
    /\ writer.op # "none" \/ seq # -1 => lockFile

\* Cached entries are open and not retired; _retired has retired ones.
ProcessOK ==
    /\ entries \in Seq(Entry) /\ Len(entries) <= MaxOpens
    /\ cache \in [Seqs -> 0..Len(entries)]
    /\ retired \subseteq 1..Len(entries)
    /\ \A k \in Seqs : cache[k] # 0 =>
         /\ entries[cache[k]].key = k
         /\ entries[cache[k]].open /\ ~entries[cache[k]].retired
    /\ cache[-1] = 0
    /\ \A e \in retired : entries[e].retired

\* Entries of one epoch and one commit_seq have one generation: the present one
\* for the present commit_seq, while no writer has changed the data.
VersionsOK ==
    \A e \in 1..Len(entries) :
        /\ entries[e].epoch <= epoch
        /\ entries[e].epoch = epoch => entries[e].key <= seq
        /\ entries[e].epoch = epoch /\ entries[e].key = seq /\ ~writer.wrote
           => entries[e].gen = gen

\* A view that has not been published is its thread's own.
OwnEntry(t) ==
    LET e == th[t].entry IN
    /\ seq # -1 /\ e \notin Cached /\ ~entries[e].retired
    /\ entries[e].key = th[t].key
    /\ th[t].flock => entries[e].gen = th[t].gen
    /\ \A u \in Threads : u # t => ~Holds(u, e)

\* Under the shared flock the disk is what it was when the flock was taken;
\* only a directory without lock file and manifest is read without it.
ThreadOK(t) ==
    /\ th[t].entry <= Len(entries)
    /\ pc[t] \in {"recheck", "insert", "search", "release", "crashed"} => th[t].entry # 0
    /\ th[t].flock =>
         /\ lockFile /\ writer.op = "none"
         /\ seq = th[t].key /\ gen = th[t].gen /\ epoch = th[t].epoch
    /\ pc[t] \in {"lookup", "open", "recheck", "insert"} => th[t].flock \/ th[t].key = -1
    /\ pc[t] \in {"recheck", "insert"} => OwnEntry(t)
    /\ pc[t] = "insert" => th[t].key # -1
    /\ pc[t] = "search" /\ entries[th[t].entry].epoch = th[t].epoch
         => entries[th[t].entry].gen = th[t].gen

Holders(e) == {t \in Threads : Holds(t, e)}

\* The refcount of an open entry counts its holders, and a closed one has none.
RefOK(e) ==
    /\ entries[e].open => entries[e].ref = Cardinality(Holders(e))
    /\ Holders(e) # {} => entries[e].open

IInv ==
    /\ DiskOK /\ ProcessOK /\ VersionsOK
    /\ pc \in [Threads -> Pcs] /\ th \in [Threads -> Local]
    /\ \A t \in Threads : ThreadOK(t)
    /\ \A e \in 1..Len(entries) : RefOK(e)

-----------------------------------------------------------------------------
(* The operators on entries.                                               *)

LEMMA FunctionIsSeq ==
  ASSUME NEW S, NEW n \in Nat, NEW f \in [1..n -> S]
  PROVE  f \in Seq(S) /\ Len(f) = n
OBVIOUS

LEMMA RetireFacts ==
  ASSUME NEW es \in Seq(Entry), NEW S
  PROVE  /\ Retire(es, S) \in Seq(Entry) /\ Len(Retire(es, S)) = Len(es)
         /\ \A e \in 1..Len(es) :
              LET r == Retire(es, S)[e] IN
              /\ r.key = es[e].key /\ r.gen = es[e].gen /\ r.epoch = es[e].epoch
              /\ r.ref = es[e].ref
              /\ r.retired <=> es[e].retired \/ e \in S
              /\ r.open <=> es[e].open /\ (e \in S => es[e].ref # 0)
<1> DEFINE n == Len(es)
           R == Retire(es, S)
<1>1. n \in Nat /\ DOMAIN es = 1..n /\ \A e \in 1..n : es[e] \in Entry
  OBVIOUS
<1>2. R = [e \in 1..n |->
             IF e \in S THEN [es[e] EXCEPT !.retired = TRUE, !.open = @ /\ es[e].ref # 0]
             ELSE es[e]]
  BY <1>1 DEF Retire
<1>3. R \in [1..n -> Entry]
  BY <1>1, <1>2 DEF Entry
<1>4. R \in Seq(Entry) /\ Len(R) = n
  BY <1>1, <1>3, FunctionIsSeq
<1>5. ASSUME NEW e \in 1..n
      PROVE  /\ R[e].key = es[e].key /\ R[e].gen = es[e].gen /\ R[e].epoch = es[e].epoch
             /\ R[e].ref = es[e].ref
             /\ R[e].retired <=> es[e].retired \/ e \in S
             /\ R[e].open <=> es[e].open /\ (e \in S => es[e].ref # 0)
  BY <1>1, <1>2 DEF Entry
<1> QED BY <1>4, <1>5

LEMMA SweepFacts ==
  ASSUME NEW es \in Seq(Entry)
  PROVE  /\ Sweep(es) \in Seq(Entry) /\ Len(Sweep(es)) = Len(es)
         /\ \A e \in 1..Len(es) :
              LET r == Sweep(es)[e] IN
              /\ r.key = es[e].key /\ r.gen = es[e].gen /\ r.epoch = es[e].epoch
              /\ r.ref = es[e].ref /\ r.retired = es[e].retired
              /\ r.open <=> es[e].open /\ (e \in retired => es[e].ref # 0)
<1> DEFINE n == Len(es)
           R == Sweep(es)
<1>1. n \in Nat /\ DOMAIN es = 1..n /\ \A e \in 1..n : es[e] \in Entry
  OBVIOUS
<1>2. R = [e \in 1..n |-> IF e \in retired /\ es[e].ref = 0 THEN [es[e] EXCEPT !.open = FALSE]
                          ELSE es[e]]
  BY <1>1 DEF Sweep
<1>3. R \in [1..n -> Entry]
  BY <1>1, <1>2 DEF Entry
<1>4. R \in Seq(Entry) /\ Len(R) = n
  BY <1>1, <1>3, FunctionIsSeq
<1>5. ASSUME NEW e \in 1..n
      PROVE  /\ R[e].key = es[e].key /\ R[e].gen = es[e].gen /\ R[e].epoch = es[e].epoch
             /\ R[e].ref = es[e].ref /\ R[e].retired = es[e].retired
             /\ R[e].open <=> es[e].open /\ (e \in retired => es[e].ref # 0)
  BY <1>1, <1>2 DEF Entry
<1> QED BY <1>4, <1>5

\* One entry is written.
LEMMA UpdateFacts ==
  ASSUME NEW es \in Seq(Entry), NEW e \in 1..Len(es), NEW r \in Entry
  PROVE  /\ [es EXCEPT ![e] = r] \in Seq(Entry) /\ Len([es EXCEPT ![e] = r]) = Len(es)
         /\ [es EXCEPT ![e] = r][e] = r
         /\ \A d \in 1..Len(es) : d # e => [es EXCEPT ![e] = r][d] = es[d]
OBVIOUS

-----------------------------------------------------------------------------
(* The initial states and the writers.                                     *)

LEMMA InitInvariant == Init => IInv
<1> SUFFICES ASSUME Init PROVE IInv
  OBVIOUS
<1>1. Fresh \in Local
  BY CacheBounds DEF Fresh, Local, Seqs
<1>2. Len(entries) = 0 /\ entries \in Seq(Entry)
  BY DEF Init
<1>3. DiskOK
  <2>1. MaxRuns \in Nat /\ seq = -1 /\ runs = 0 /\ -1 \in Seqs
    BY CacheBounds DEF Init, Seqs
  <2>2. writer.op = "none" /\ writer.wrote = FALSE
    BY DEF Init
  <2>3. writer \in [op : WriterOps \cup {"none"}, wrote : BOOLEAN]
    BY DEF Init
  <2>4. gen = 0 /\ epoch = 0 /\ lockFile = FALSE
    BY DEF Init
  <2>5. seq < runs /\ runs \in 0..MaxRuns
    BY <2>1
  <2>6. ~(writer.op # "none" \/ seq # -1) /\ ~writer.wrote
    BY <2>1, <2>2
  <2>7. seq \in Seqs /\ lockFile \in BOOLEAN /\ gen \in Nat /\ epoch \in Nat
    BY <2>1, <2>4
  <2> QED BY <2>3, <2>5, <2>6, <2>7 DEF DiskOK
<1>4. ProcessOK
  BY <1>2, CacheBounds DEF Init, ProcessOK, Seqs
<1>5. \A t \in Threads : th[t] = Fresh /\ pc[t] = "idle"
  BY DEF Init
<1>6. \A t \in Threads : ThreadOK(t)
  BY <1>2, <1>5 DEF ThreadOK, Fresh
<1> QED BY <1>1, <1>2, <1>3, <1>4, <1>6 DEF Init, IInv, VersionsOK, Pcs

LEMMA WriterKeeps ==
  ASSUME IInv, WriterBegins \/ WriterWrites \/ WriterCommits \/ WriterDies
  PROVE  IInv'
<1>1. UNCHANGED <<process, pc, th>>
  BY DEF WriterBegins, WriterWrites, WriterCommits, WriterDies
<1>2. \A t \in Threads : ~th[t].flock
  BY DEF WriterBegins, WriterWrites, WriterCommits, WriterDies, IInv, ThreadOK, DiskOK
<1>0. /\ gen \in Nat /\ epoch \in Nat /\ seq \in Int /\ runs \in Int /\ MaxRuns \in Nat
      /\ seq >= -1 /\ runs <= MaxRuns /\ runs >= 0 /\ seq < runs
      /\ writer.op # "none" => seq + 1 < runs /\ lockFile
      /\ writer.wrote => writer.op # "none"
      /\ seq # -1 => lockFile
  BY CacheBounds DEF IInv, DiskOK, Seqs
<1>3. DiskOK' /\ (seq # -1 => seq' # -1)
  <2>1. CASE WriterBegins
    <3>1. PICK o \in WriterOps : writer' = [op |-> o, wrote |-> FALSE]
      BY <2>1 DEF WriterBegins
    <3>2. writer' \in [op : WriterOps \cup {"none"}, wrote : BOOLEAN] /\ ~writer'.wrote
      BY <3>1
    <3> QED BY <1>0, <2>1, <3>2 DEF WriterBegins, IInv, DiskOK
  <2>2. CASE WriterWrites
    <3>1. /\ writer' \in [op : WriterOps \cup {"none"}, wrote : BOOLEAN]
          /\ writer'.op = writer.op
      BY <2>2 DEF WriterWrites, IInv, DiskOK
    <3> QED BY <1>0, <2>2, <3>1 DEF WriterWrites, IInv, DiskOK
  <2>3. CASE WriterCommits \/ WriterDies
    <3>1. /\ writer' \in [op : WriterOps \cup {"none"}, wrote : BOOLEAN]
          /\ writer'.op = "none" /\ ~writer'.wrote
      <4>1. writer' = [op |-> "none", wrote |-> FALSE]
        BY <2>3 DEF WriterCommits, WriterDies
      <4> QED BY <4>1
    <3>2. seq' \in Seqs /\ seq' < runs /\ (seq # -1 => seq' # -1) /\ (seq' # -1 => lockFile)
      BY <1>0, <2>3 DEF WriterCommits, WriterDies, Seqs
    <3>3. epoch' \in Nat
      BY <1>0, <2>3 DEF WriterCommits, WriterDies
    <3> QED BY <1>0, <2>3, <3>1, <3>2, <3>3 DEF WriterCommits, WriterDies, IInv, DiskOK
  <2> QED BY <2>1, <2>2, <2>3
<1>4. ProcessOK'
  BY <1>1 DEF process, IInv, ProcessOK
<1>5. VersionsOK'
  <2>1. ASSUME NEW e \in 1..Len(entries)
        PROVE  entries[e].epoch \in Nat /\ entries[e].key \in Int
    <3>1. entries[e] \in Entry
      BY DEF IInv, ProcessOK
    <3> QED BY <1>0, <3>1 DEF Entry, Seqs
  <2>2. CASE WriterBegins
    <3>1. ~writer.wrote
      BY <2>2 DEF WriterBegins, IInv, DiskOK
    <3> QED BY <1>1, <2>2, <3>1 DEF WriterBegins, process, IInv, VersionsOK
  <2>3. CASE WriterWrites
    <3>1. writer'.wrote
      BY <2>3 DEF WriterWrites, IInv, DiskOK
    <3> QED BY <1>1, <2>3, <3>1 DEF WriterWrites, process, IInv, VersionsOK
  <2>4. CASE WriterCommits
    BY <1>0, <1>1, <2>1, <2>4 DEF WriterCommits, process, IInv, VersionsOK
  <2>5. CASE WriterDies
    <3>1. ~writer'.wrote
      BY <2>5 DEF WriterDies
    <3> QED BY <1>0, <1>1, <2>1, <2>5, <3>1 DEF WriterDies, process, IInv, VersionsOK
  <2> QED BY <2>2, <2>3, <2>4, <2>5
<1>7. \A t \in Threads : ThreadOK(t)'
  BY <1>1, <1>2, <1>3 DEF process, IInv, ThreadOK, OwnEntry, Cached, Holds
<1>8. \A e \in 1..Len(entries) : RefOK(e)'
  BY <1>1 DEF process, IInv, RefOK, Holders, Holds
<1> QED BY <1>1, <1>3, <1>4, <1>5, <1>7, <1>8 DEF process, IInv

-----------------------------------------------------------------------------
(* What the steps of the threads have in common.                           *)

\* The entries are what they were, but for refcounts and closing.
Stable ==
    /\ Len(entries) <= Len(entries')
    /\ \A e \in 1..Len(entries) :
         /\ entries'[e].key = entries[e].key /\ entries'[e].gen = entries[e].gen
         /\ entries'[e].epoch = entries[e].epoch
         /\ entries'[e].retired => entries[e].retired \/ e \in Cached

\* Only what t holds is published.
Published(t) == \A e \in Cached' : e \in Cached \/ Holds(t, e)

\* t comes to hold what is in the cache or new.
Taken(t) ==
    \A e \in 1..Len(entries) : Holds(t, e)' => Holds(t, e) \/ e \in Cached

LEMMA StepOf ==
  ASSUME IInv, NEW t \in Threads, UNCHANGED disk,
         NEW p \in Pcs, NEW l \in Local,
         pc' = [pc EXCEPT ![t] = p], th' = [th EXCEPT ![t] = l],
         ProcessOK', VersionsOK', Stable, Published(t), Taken(t), ThreadOK(t)',
         \A e \in 1..Len(entries') : RefOK(e)'
  PROVE  IInv'
<1>1. pc' \in [Threads -> Pcs] /\ th' \in [Threads -> Local]
  BY DEF IInv
<1>2. DiskOK'
  BY DEF disk, IInv, DiskOK
<1>3. ASSUME NEW u \in Threads, u # t
      PROVE  ThreadOK(u)'
  <2>1. pc'[u] = pc[u] /\ th'[u] = th[u] /\ th[u].entry \in Nat
    BY <1>3 DEF IInv, Local
  <2>2. ThreadOK(u)
    BY DEF IInv
  <2>3. Len(entries) \in Nat /\ Len(entries') \in Nat
    BY DEF IInv, ProcessOK
  <2>4. /\ th[u].entry <= Len(entries')
        /\ pc[u] \in {"recheck", "insert", "search", "release", "crashed"} => th[u].entry # 0
    BY <2>1, <2>2, <2>3 DEF ThreadOK, Stable
  <2>5. pc[u] = "search" /\ entries'[th[u].entry].epoch = th[u].epoch
        => entries'[th[u].entry].gen = th[u].gen
    BY <2>1, <2>2, <2>3 DEF ThreadOK, Stable
  <2>6. ASSUME pc[u] \in {"recheck", "insert"}
        PROVE  OwnEntry(u)'
    <3> DEFINE e == th[u].entry
    <3>1. e \in 1..Len(entries) /\ OwnEntry(u)
      BY <2>1, <2>2, <2>3, <2>6 DEF ThreadOK
    <3>2. e \notin Cached'
      BY <1>3, <3>1 DEF OwnEntry, Published
    <3>3. ~entries'[e].retired
      BY <3>1 DEF OwnEntry, Stable
    <3>4. \A w \in Threads : w # u => ~Holds(w, e)'
      <4>1. \A w \in Threads : w # t => (Holds(w, e)' <=> Holds(w, e))
        BY <2>1, <3>1 DEF Holds, IInv
      <4>2. ~Holds(t, e)'
        BY <1>3, <3>1 DEF OwnEntry, Taken
      <4> QED BY <3>1, <4>1, <4>2 DEF OwnEntry
    <3> QED BY <2>1, <3>1, <3>2, <3>3, <3>4 DEF OwnEntry, disk, Stable
  <2> QED BY <2>1, <2>2, <2>4, <2>5, <2>6 DEF ThreadOK, disk
<1> QED BY <1>1, <1>2, <1>3 DEF IInv

\* What a thread holds depends on where it stands only.
LEMMA HoldersOf ==
  ASSUME IInv, NEW t \in Threads, NEW e,
         \A u \in Threads : u # t => pc'[u] = pc[u] /\ th'[u] = th[u]
  PROVE  /\ IsFiniteSet(Holders(e))
         /\ (Holds(t, e)' <=> Holds(t, e)) => Holders(e)' = Holders(e)
         /\ Holds(t, e)' => Holders(e)' = Holders(e) \cup {t}
         /\ ~Holds(t, e)' => Holders(e)' = Holders(e) \ {t}
<1>1. IsFiniteSet(Holders(e))
  BY CacheBounds, FS_Subset DEF Holders
<1>2. \A u \in Threads : u # t => (Holds(u, e)' <=> Holds(u, e))
  BY DEF Holds
<1> QED BY <1>1, <1>2 DEF Holders

\* An open entry without readers has no holders, and the other way round.
LEMMA NoRefNoHolders ==
  ASSUME IInv, NEW e \in 1..Len(entries)
  PROVE  /\ entries[e].ref = 0 => Holders(e) = {}
         /\ entries[e].open /\ entries[e].ref # 0 => Holders(e) # {}
         /\ entries[e].ref \in Nat
<1>1. IsFiniteSet(Holders(e))
  BY CacheBounds, FS_Subset DEF Holders
<1>2. Cardinality(Holders(e)) = 0 <=> Holders(e) = {}
  BY <1>1, FS_EmptySet
<1>3. RefOK(e) /\ entries[e] \in Entry
  BY DEF IInv, ProcessOK
<1> QED BY <1>2, <1>3 DEF RefOK, Entry

\* Closing entries without readers, with nobody taking or leaving one.
LEMMA ClosingKeepsRefs ==
  ASSUME IInv, NEW t \in Threads,
         \A u \in Threads : u # t => pc'[u] = pc[u] /\ th'[u] = th[u],
         \A e \in 1..Len(entries) : Holds(t, e)' <=> Holds(t, e),
         Len(entries') = Len(entries),
         \A e \in 1..Len(entries) :
           /\ entries'[e].ref = entries[e].ref
           /\ entries'[e].open => entries[e].open
           /\ entries[e].open /\ entries[e].ref # 0 => entries'[e].open
  PROVE  \A e \in 1..Len(entries') : RefOK(e)'
<1> SUFFICES ASSUME NEW e \in 1..Len(entries) PROVE RefOK(e)'
  OBVIOUS
<1>1. Holders(e)' = Holders(e)
  BY HoldersOf
<1>2. RefOK(e)
  BY DEF IInv
<1> QED BY <1>1, <1>2, NoRefNoHolders DEF RefOK

\* A step that leaves the disk, the entries and what t holds alone.
LEMMA LocalStep ==
  ASSUME IInv, NEW t \in Threads, UNCHANGED <<disk, process>>,
         NEW p \in Pcs, NEW l \in Local,
         pc' = [pc EXCEPT ![t] = p], th' = [th EXCEPT ![t] = l],
         \A e \in 1..Len(entries) : Holds(t, e)' <=> Holds(t, e),
         ThreadOK(t)'
  PROVE  IInv'
<1>1. ProcessOK' /\ VersionsOK' /\ Stable /\ Published(t) /\ Taken(t)
  BY DEF IInv, process, disk, ProcessOK, VersionsOK, Stable, Published, Taken, Cached
<1>2. \A u \in Threads : u # t => pc'[u] = pc[u] /\ th'[u] = th[u]
  BY DEF IInv
<1>3. \A e \in 1..Len(entries') : RefOK(e)'
  BY <1>2, ClosingKeepsRefs DEF process
<1> QED BY <1>1, <1>3, StepOf

-----------------------------------------------------------------------------
(* The steps of a search.                                                  *)

LEMMA FreshIsLocal == Fresh \in Local
BY CacheBounds DEF Fresh, Local, Seqs

LEMMA ReadSeqKeeps ==
  ASSUME IInv, NEW t \in Threads, ReadSeq(t)
  PROVE  IInv'
<1> DEFINE l == [Fresh EXCEPT !.flock = lockFile, !.key = seq, !.attempt = th[t].attempt,
                              !.gen = gen, !.epoch = epoch]
<1>1. /\ pc[t] = "idle" /\ (lockFile => writer.op = "none")
      /\ th' = [th EXCEPT ![t] = l] /\ pc' = [pc EXCEPT ![t] = "lookup"]
      /\ UNCHANGED <<disk, process>>
  BY DEF ReadSeq, Goto
<1>2. /\ l \in Local /\ l.flock = lockFile /\ l.key = seq /\ l.gen = gen
      /\ l.epoch = epoch /\ l.entry = 0
  BY FreshIsLocal DEF IInv, DiskOK, Local, Fresh
<1> HIDE DEF l
<1>3. th'[t] = l /\ pc'[t] = "lookup"
  BY <1>1 DEF IInv
<1>4. ThreadOK(t)'
  BY <1>1, <1>2, <1>3 DEF ThreadOK, IInv, DiskOK, ProcessOK, disk, process
<1>5. \A e \in 1..Len(entries) : Holds(t, e)' <=> Holds(t, e)
  BY <1>1, <1>3 DEF Holds
<1> QED BY <1>1, <1>2, <1>4, <1>5, LocalStep DEF Pcs

LEMMA SearchKeeps ==
  ASSUME IInv, NEW t \in Threads, Search(t)
  PROVE  IInv'
<1>1. PICK p \in {"release", "crashed"} : pc' = [pc EXCEPT ![t] = p]
  BY DEF Search, Goto
<1>2. pc[t] = "search" /\ UNCHANGED <<disk, process, th>>
  BY DEF Search
<1>3. th' = [th EXCEPT ![t] = th[t]] /\ th[t] \in Local /\ pc'[t] = p
  BY <1>1, <1>2 DEF IInv
<1>4. \A e \in 1..Len(entries) : Holds(t, e)' <=> Holds(t, e)
  BY <1>2, <1>3 DEF Holds
<1>5. ThreadOK(t)'
  BY <1>2, <1>3 DEF ThreadOK, IInv, disk, process
<1>6. p \in Pcs
  BY DEF Pcs
<1> QED BY <1>1, <1>2, <1>3, <1>4, <1>5, <1>6, LocalStep

\* What every _sweep_retired and every _retire of unread or of all cached
\* entries leaves: nothing is published, and only unread entries are closed.
Closing ==
    /\ entries' \in Seq(Entry) /\ Len(entries') = Len(entries)
    /\ \A e \in 1..Len(entries) :
         /\ entries'[e].key = entries[e].key /\ entries'[e].gen = entries[e].gen
         /\ entries'[e].epoch = entries[e].epoch
         /\ entries[e].retired => entries'[e].retired
         /\ entries'[e].retired => entries[e].retired \/ e \in Cached
         /\ entries'[e].open => entries[e].open

LEMMA ClosingFacts ==
  ASSUME IInv, Closing, UNCHANGED disk
  PROVE  VersionsOK' /\ Stable
<1>1. Len(entries) \in Nat
  BY DEF IInv, ProcessOK
<1> QED BY <1>1 DEF Closing, Stable, VersionsOK, IInv, disk

\* A miss, or a crash of the daemon: the whole directory leaves the cache.
Flush ==
    /\ entries' = Retire(Sweep(entries), Cached)
    /\ cache' = Without(Cached)
    /\ retired' = Swept(entries) \cup Deferred(entries, Cached)

LEMMA FlushFacts ==
  ASSUME IInv, Flush, UNCHANGED disk
  PROVE  /\ Closing /\ ProcessOK' /\ Cached' = {}
         /\ \A e \in 1..Len(entries) :
              /\ entries'[e].ref = entries[e].ref
              /\ entries[e].open /\ entries[e].ref # 0 => entries'[e].open
<1> DEFINE es == Sweep(entries)
<1>1. entries \in Seq(Entry) /\ Len(entries) \in Nat
  BY DEF IInv, ProcessOK
<1>2. es \in Seq(Entry) /\ Len(es) = Len(entries)
  BY <1>1, SweepFacts
<1>3. \A e \in 1..Len(entries) :
        /\ es[e].key = entries[e].key /\ es[e].gen = entries[e].gen
        /\ es[e].epoch = entries[e].epoch
        /\ es[e].ref = entries[e].ref /\ es[e].retired = entries[e].retired
        /\ es[e].open <=> entries[e].open /\ (e \in retired => entries[e].ref # 0)
  BY <1>1, SweepFacts
<1> HIDE DEF es
<1>4. entries' = Retire(es, Cached)
  BY DEF Flush, es
<1>5. entries' \in Seq(Entry) /\ Len(entries') = Len(entries)
  BY <1>2, <1>4, RetireFacts
<1>6. \A e \in 1..Len(entries) :
        /\ entries'[e].key = es[e].key /\ entries'[e].gen = es[e].gen
        /\ entries'[e].epoch = es[e].epoch /\ entries'[e].ref = es[e].ref
        /\ entries'[e].retired <=> es[e].retired \/ e \in Cached
        /\ entries'[e].open <=> es[e].open /\ (e \in Cached => es[e].ref # 0)
  BY <1>2, <1>4, RetireFacts
<1>7. Closing
  BY <1>3, <1>5, <1>6 DEF Closing
<1>8. \A e \in 1..Len(entries) :
        /\ entries'[e].ref = entries[e].ref
        /\ entries[e].open /\ entries[e].ref # 0 => entries'[e].open
  BY <1>3, <1>6
<1>9. \A k \in Seqs : cache'[k] = 0
  BY DEF Flush, Without, Cached, IInv, ProcessOK
<1>10. Cached \subseteq 1..Len(entries)
  BY DEF Cached, IInv, ProcessOK
<1>11. retired' \subseteq 1..Len(entries) /\ \A e \in retired' : entries'[e].retired
  BY <1>3, <1>6, <1>10 DEF Flush, Swept, Deferred, IInv, ProcessOK
<1>12. cache' \in [Seqs -> 0..Len(entries)]
  BY <1>1, <1>9 DEF Flush, Without
<1>13. -1 \in Seqs
  BY CacheBounds DEF Seqs
<1>14. ProcessOK'
  BY <1>5, <1>9, <1>11, <1>12, <1>13 DEF ProcessOK, IInv
<1> QED BY <1>7, <1>8, <1>9, <1>14 DEF Cached

LEMMA FlushKeeps ==
  ASSUME IInv, NEW t \in Threads, Flush, UNCHANGED disk, UNCHANGED th,
         NEW p, pc' = [pc EXCEPT ![t] = p],
         pc[t] \in {"lookup", "evict"}, p = IF pc[t] = "lookup" THEN "open" ELSE "idle"
  PROVE  IInv'
<1>0. p \in Pcs /\ ((pc[t] = "lookup" /\ p = "open") \/ (pc[t] = "evict" /\ p = "idle"))
  BY DEF Pcs
<1>1. Closing /\ ProcessOK' /\ Cached' = {}
  BY FlushFacts
<1>2. VersionsOK' /\ Stable
  BY <1>1, ClosingFacts
<1>3. pc'[t] = p /\ th' = [th EXCEPT ![t] = th[t]] /\ th[t] \in Local
  BY <1>0 DEF IInv
<1>4. \A e \in 1..Len(entries) : ~Holds(t, e)' /\ ~Holds(t, e)
  BY <1>0, <1>3 DEF Holds
<1>5. Published(t) /\ Taken(t)
  BY <1>1, <1>4 DEF Published, Taken
<1>6. \A e \in 1..Len(entries') : RefOK(e)'
  <2>1. \A u \in Threads : u # t => pc'[u] = pc[u] /\ th'[u] = th[u]
    BY DEF IInv
  <2>2. \A e \in 1..Len(entries) :
          /\ entries'[e].ref = entries[e].ref
          /\ entries[e].open /\ entries[e].ref # 0 => entries'[e].open
    BY FlushFacts
  <2> QED BY <1>1, <1>4, <2>1, <2>2, ClosingKeepsRefs DEF Closing
<1>7. ThreadOK(t)'
  BY <1>0, <1>1, <1>3 DEF Closing, ThreadOK, IInv, disk
<1> QED BY <1>0, <1>1, <1>2, <1>3, <1>5, <1>6, <1>7, StepOf

LEMMA EvictDirKeeps ==
  ASSUME IInv, NEW t \in Threads, EvictDir(t)
  PROVE  IInv'
BY FlushKeeps DEF EvictDir, Goto, Flush, Pcs

\* A thread that takes a cached entry counts itself, and only unread entries go.
HitFacts(e) ==
    /\ Closing /\ ProcessOK' /\ Cached' \subseteq Cached
    /\ entries[e].open /\ entries'[e].open /\ entries'[e].ref = entries[e].ref + 1
    /\ \A d \in 1..Len(entries) : d # e =>
         /\ entries'[d].ref = entries[d].ref
         /\ entries[d].open /\ entries[d].ref # 0 => entries'[d].open

LEMMA HitFactsHold ==
  ASSUME IInv, NEW t \in Threads, NEW e \in Cached, Hit(t, e), UNCHANGED disk
  PROVE  e \in 1..Len(entries) /\ HitFacts(e)
<1> DEFINE sw == Sweep(entries)
           es == Referenced(sw, e)
<1>1. entries \in Seq(Entry) /\ Len(entries) \in Nat
  BY DEF IInv, ProcessOK
<1>2. PICK k \in Seqs : cache[k] = e /\ e # 0
  BY DEF Cached
<1>3. e \in 1..Len(entries) /\ entries[e].open /\ ~entries[e].retired /\ e \notin retired
  BY <1>2 DEF IInv, ProcessOK
<1>4. sw \in Seq(Entry) /\ Len(sw) = Len(entries)
  BY <1>1, SweepFacts
<1>5. \A d \in 1..Len(entries) :
        /\ sw[d].key = entries[d].key /\ sw[d].gen = entries[d].gen
        /\ sw[d].epoch = entries[d].epoch
        /\ sw[d].ref = entries[d].ref /\ sw[d].retired = entries[d].retired
        /\ sw[d].open <=> entries[d].open /\ (d \in retired => entries[d].ref # 0)
  BY <1>1, SweepFacts
<1> HIDE DEF sw
<1> DEFINE r == [sw[e] EXCEPT !.ref = @ + 1]
<1>6. /\ sw[e] \in Entry /\ r \in Entry /\ r.ref = sw[e].ref + 1 /\ r.key = sw[e].key
      /\ r.gen = sw[e].gen /\ r.epoch = sw[e].epoch /\ r.retired = sw[e].retired
      /\ r.open = sw[e].open
  <2>1. sw[e] \in Entry
    BY <1>3, <1>4
  <2> QED BY <2>1 DEF Entry
<1>7. es = [sw EXCEPT ![e] = r]
  BY DEF Referenced
<1> HIDE DEF r, es
<1>8. /\ es \in Seq(Entry) /\ Len(es) = Len(entries) /\ es[e] = r
      /\ \A d \in 1..Len(entries) : d # e => es[d] = sw[d]
  BY <1>3, <1>4, <1>6, <1>7, UpdateFacts
<1>9. PICK S \in SUBSET Evictable(es, cache) :
        /\ entries' = Retire(es, S) /\ cache' = Without(S) /\ retired' = Swept(entries)
  BY DEF Hit, es, sw
<1>10. entries[e].ref \in Nat
  BY <1>3, NoRefNoHolders
<1>11. e \notin S /\ S \subseteq Cached /\ \A d \in S : es[d].ref = 0
  BY <1>5, <1>6, <1>8, <1>3, <1>10 DEF Evictable, Cached
<1>12. entries' \in Seq(Entry) /\ Len(entries') = Len(entries)
  BY <1>8, <1>9, RetireFacts
<1>13. \A d \in 1..Len(entries) :
         /\ entries'[d].key = es[d].key /\ entries'[d].gen = es[d].gen
         /\ entries'[d].epoch = es[d].epoch /\ entries'[d].ref = es[d].ref
         /\ entries'[d].retired <=> es[d].retired \/ d \in S
         /\ entries'[d].open <=> es[d].open /\ (d \in S => es[d].ref # 0)
  BY <1>8, <1>9, RetireFacts
<1>14. \A d \in 1..Len(entries) :
         /\ entries'[d].key = entries[d].key /\ entries'[d].gen = entries[d].gen
         /\ entries'[d].epoch = entries[d].epoch
         /\ entries'[d].retired <=> entries[d].retired \/ d \in S
         /\ entries'[d].open <=> /\ entries[d].open
                                 /\ d \in retired => entries[d].ref # 0
                                 /\ d \notin S
  <2> SUFFICES ASSUME NEW d \in 1..Len(entries)
               PROVE  /\ entries'[d].key = entries[d].key /\ entries'[d].gen = entries[d].gen
                      /\ entries'[d].epoch = entries[d].epoch
                      /\ entries'[d].retired <=> entries[d].retired \/ d \in S
                      /\ entries'[d].open <=> /\ entries[d].open
                                              /\ d \in retired => entries[d].ref # 0
                                              /\ d \notin S
    OBVIOUS
  <2>1. CASE d = e
    BY <1>5, <1>6, <1>8, <1>11, <1>13, <2>1
  <2>2. CASE d # e
    BY <1>5, <1>8, <1>11, <1>13, <2>2
  <2> QED BY <2>1, <2>2
<1>15. Closing
  BY <1>11, <1>12, <1>14 DEF Closing
<1>16. entries'[e].open /\ entries'[e].ref = entries[e].ref + 1
  BY <1>3, <1>5, <1>6, <1>8, <1>11, <1>13, <1>14
<1>17. \A d \in 1..Len(entries) : d # e =>
         /\ entries'[d].ref = entries[d].ref
         /\ entries[d].open /\ entries[d].ref # 0 => entries'[d].open
  BY <1>5, <1>8, <1>11, <1>13, <1>14
<1>18. /\ cache' \in [Seqs -> 0..Len(entries)] /\ cache'[-1] = 0
       /\ \A j \in Seqs : cache'[j] # 0 => cache'[j] = cache[j] /\ cache[j] \notin S
  BY <1>1, <1>9, CacheBounds DEF Without, IInv, ProcessOK, Seqs
<1>19. Cached' \subseteq Cached
  BY <1>18 DEF Cached
<1>20. \A j \in Seqs : cache'[j] # 0 =>
         /\ entries'[cache'[j]].key = j
         /\ entries'[cache'[j]].open /\ ~entries'[cache'[j]].retired
  BY <1>14, <1>18 DEF IInv, ProcessOK
<1>21. retired' \subseteq 1..Len(entries) /\ \A d \in retired' : entries'[d].retired
  BY <1>9, <1>14 DEF Swept, IInv, ProcessOK
<1>22. ProcessOK'
  BY <1>12, <1>18, <1>20, <1>21 DEF ProcessOK, IInv
<1> QED BY <1>3, <1>15, <1>16, <1>17, <1>19, <1>22 DEF HitFacts

LEMMA LookupKeeps ==
  ASSUME IInv, NEW t \in Threads, Lookup(t)
  PROVE  IInv'
<1> DEFINE e == cache[th[t].key]
<1>0. /\ pc[t] = "lookup" /\ UNCHANGED disk /\ th[t] \in Local /\ th[t].key \in Seqs
      /\ ThreadOK(t)
  BY DEF Lookup, IInv, Local
<1>1. CASE e = 0
  <2>1. Flush /\ UNCHANGED th /\ pc' = [pc EXCEPT ![t] = "open"]
    BY <1>1 DEF Lookup, Flush, Goto
  <2>2. pc[t] \in {"lookup", "evict"} /\ "open" = IF pc[t] = "lookup" THEN "open" ELSE "idle"
    BY <1>0
  <2> QED BY <1>0, <2>1, <2>2, FlushKeeps
<1>2. CASE e # 0
  <2>0. PICK d \in Cached : d = e
    BY <1>0, <1>2 DEF Cached
  <2> DEFINE l == [Unlock(t) EXCEPT !.entry = d]
  <2>1. Hit(t, d) /\ th' = [th EXCEPT ![t] = l] /\ pc' = [pc EXCEPT ![t] = "search"]
    BY <1>2, <2>0 DEF Lookup, Goto
  <2>2. d \in 1..Len(entries) /\ HitFacts(d)
    BY <1>0, <2>1, HitFactsHold
  <2>3. /\ l \in Local /\ l.entry = d /\ ~l.flock /\ l.gen = th[t].gen /\ l.epoch = th[t].epoch
    <3>1. d \in Nat
      BY <2>2
    <3>2. l = [th[t] EXCEPT !.flock = FALSE, !.entry = d]
      BY DEF Unlock
    <3> QED BY <1>0, <3>1, <3>2 DEF Local
  <2> HIDE DEF l
  <2>4. pc'[t] = "search" /\ th'[t] = l
    BY <2>1 DEF IInv
  <2>5. \A u \in Threads : u # t => pc'[u] = pc[u] /\ th'[u] = th[u]
    BY <2>1 DEF IInv
  <2>6. VersionsOK' /\ Stable
    BY <1>0, <2>2, ClosingFacts DEF HitFacts
  <2>7. Published(t) /\ Taken(t)
    BY <2>0, <2>2, <2>3, <2>4 DEF HitFacts, Published, Taken, Holds
  <2>8. ASSUME NEW c \in 1..Len(entries) PROVE RefOK(c)'
    <3>1. RefOK(c) /\ ~Holds(t, c)
      BY <1>0 DEF IInv, Holds
    <3>2. CASE c = d
      <4>1. Holds(t, c)'
        BY <2>3, <2>4, <3>2 DEF Holds
      <4>2. Holders(c)' = Holders(c) \cup {t} /\ t \notin Holders(c) /\ IsFiniteSet(Holders(c))
        BY <2>5, <3>1, <4>1, HoldersOf DEF Holders
      <4>3. Cardinality(Holders(c)') = Cardinality(Holders(c)) + 1
        BY <4>2, FS_AddElement
      <4> QED BY <2>2, <3>1, <3>2, <4>3 DEF RefOK, HitFacts
    <3>3. CASE c # d
      <4>1. ~Holds(t, c)'
        BY <2>3, <2>4, <3>3 DEF Holds
      <4>2. Holders(c)' = Holders(c)
        BY <2>5, <3>1, <4>1, HoldersOf
      <4>3. /\ entries'[c].ref = entries[c].ref
            /\ entries'[c].open => entries[c].open
            /\ entries[c].open /\ entries[c].ref # 0 => entries'[c].open
        BY <2>2, <3>3 DEF HitFacts, Closing
      <4> QED BY <3>1, <4>2, <4>3, NoRefNoHolders DEF RefOK
    <3> QED BY <3>2, <3>3
  <2>9. ThreadOK(t)'
    <3>1. entries[d].key = th[t].key /\ th[t].key # -1
      BY <1>0, <2>0, <1>2 DEF IInv, ProcessOK
    <3>2. th[t].flock
      BY <1>0, <3>1 DEF ThreadOK
    <3>3. entries[d].epoch = th[t].epoch => entries[d].gen = th[t].gen
      BY <1>0, <2>2, <3>1, <3>2 DEF ThreadOK, IInv, VersionsOK, DiskOK
    <3>4. entries'[d].epoch = entries[d].epoch /\ entries'[d].gen = entries[d].gen
      BY <2>2 DEF HitFacts, Closing
    <3>5. Len(entries') = Len(entries)
      BY <2>2 DEF HitFacts, Closing
    <3> QED BY <2>2, <2>3, <2>4, <3>3, <3>4, <3>5 DEF ThreadOK
  <2>10. \A c \in 1..Len(entries') : RefOK(c)'
    BY <2>2, <2>8 DEF HitFacts, Closing
  <2>11. ProcessOK' /\ "search" \in Pcs
    BY <2>2 DEF HitFacts, Pcs
  <2> QED BY <1>0, <2>1, <2>3, <2>6, <2>7, <2>9, <2>10, <2>11, StepOf
<1> QED BY <1>1, <1>2

LEMMA OpenKeeps ==
  ASSUME IInv, NEW t \in Threads, Open(t)
  PROVE  IInv'
<1> PICK n \in Nat : n = Len(entries)
  BY DEF IInv, ProcessOK
<1>0. /\ pc[t] = "open" /\ UNCHANGED <<disk, cache, retired>>
      /\ th[t] \in Local /\ ThreadOK(t) /\ n = Len(entries) /\ entries \in Seq(Entry)
  BY DEF Open, IInv, ProcessOK
<1>1. CASE seq = -1
  <2>1. /\ th' = [th EXCEPT ![t] = Fresh] /\ pc' = [pc EXCEPT ![t] = "idle"]
        /\ UNCHANGED entries
    BY <1>1 DEF Open, Goto
  <2>2. th'[t] = Fresh /\ pc'[t] = "idle"
    BY <2>1 DEF IInv
  <2>3. \A e \in 1..n : Holds(t, e)' <=> Holds(t, e)
    BY <1>0, <2>2 DEF Holds
  <2>4. ThreadOK(t)'
    BY <1>0, <2>1, <2>2 DEF ThreadOK, Fresh
  <2>5. UNCHANGED <<disk, process>> /\ "idle" \in Pcs
    BY <1>0, <2>1 DEF process, Pcs
  <2> QED BY <2>1, <2>3, <2>4, <2>5, FreshIsLocal, LocalStep
<1>2. CASE seq # -1
  <2> DEFINE new == NewEntry(th[t].key)
             l == [th[t] EXCEPT !.entry = n + 1]
  <2>1. /\ n < MaxOpens /\ entries' = Append(entries, new)
        /\ th' = [th EXCEPT ![t] = [th[t] EXCEPT !.entry = Len(entries')]]
        /\ pc' = [pc EXCEPT ![t] = "recheck"]
    BY <1>2 DEF Open, Goto
  <2>2. /\ new \in Entry /\ new.key = th[t].key /\ new.gen = gen /\ new.epoch = epoch
        /\ new.ref = 1 /\ ~new.retired /\ new.open
    BY <1>0 DEF NewEntry, Entry, Local, IInv, DiskOK
  <2>3. /\ l \in Local /\ l.entry = n + 1 /\ l.key = th[t].key /\ l.gen = th[t].gen
        /\ l.flock = th[t].flock /\ l.epoch = th[t].epoch
    BY <1>0 DEF Local
  <2> HIDE DEF new
  <2>4. /\ entries' \in Seq(Entry) /\ Len(entries') = n + 1 /\ entries'[n + 1] = new
        /\ \A e \in 1..n : entries'[e] = entries[e]
    BY <1>0, <2>1, <2>2
  <2>5. th' = [th EXCEPT ![t] = l]
    BY <2>1, <2>4
  <2> HIDE DEF l
  <2>6. pc'[t] = "recheck" /\ th'[t] = l
    BY <2>1, <2>5 DEF IInv
  <2>7. \A u \in Threads : u # t => pc'[u] = pc[u] /\ th'[u] = th[u]
    BY <2>1, <2>5 DEF IInv
  <2>8. Cached \subseteq 1..n /\ Cached' = Cached
    BY <1>0 DEF Cached, IInv, ProcessOK
  <2>9. ProcessOK'
    <3>1. n + 1 <= MaxOpens
      BY <1>0, <2>1, CacheBounds
    <3>2. cache' \in [Seqs -> 0..(n + 1)] /\ retired' \subseteq 1..(n + 1)
      BY <1>0 DEF IInv, ProcessOK
    <3>3. \A k \in Seqs : cache[k] # 0 => cache[k] \in 1..n
      BY DEF IInv, ProcessOK
    <3> QED BY <1>0, <2>4, <3>1, <3>2, <3>3 DEF ProcessOK, IInv
  <2>10. \A e \in 1..n : entries[e] \in Entry
    BY <1>0
  <2>11. VersionsOK'
    <3>1. new.key <= seq
      BY <1>0, <2>2 DEF ThreadOK, IInv, DiskOK, Seqs, Local
    <3>2. epoch \in Nat
      BY DEF IInv, DiskOK
    <3> QED BY <1>0, <2>2, <2>4, <3>1, <3>2 DEF VersionsOK, IInv, disk
  <2>12. Stable /\ Published(t) /\ Taken(t)
    BY <1>0, <2>3, <2>4, <2>6, <2>8 DEF Stable, Published, Taken, Holds
  <2>13. \A u \in Threads : u # t => ~Holds(u, n + 1)'
    <3> SUFFICES ASSUME NEW u \in Threads, u # t PROVE ~Holds(u, n + 1)'
      OBVIOUS
    <3>1. th'[u] = th[u] /\ th[u].entry <= n /\ th[u].entry \in Nat
      BY <2>7 DEF IInv, ThreadOK, Local
    <3> QED BY <1>0, <3>1 DEF Holds
  <2>14. ThreadOK(t)'
    <3>1. OwnEntry(t)'
      BY <1>0, <1>2, <2>2, <2>3, <2>4, <2>6, <2>8, <2>13 DEF OwnEntry, ThreadOK, disk
    <3> QED BY <1>0, <2>3, <2>4, <2>6, <3>1 DEF ThreadOK, disk
  <2>15. ASSUME NEW e \in 1..n PROVE RefOK(e)'
    <3>1. ~Holds(t, e) /\ ~Holds(t, e)'
      BY <1>0, <2>3, <2>6 DEF Holds
    <3>2. Holders(e)' = Holders(e)
      BY <2>7, <3>1, HoldersOf
    <3> QED BY <2>4, <3>2 DEF RefOK, IInv
  <2>16. RefOK(n + 1)'
    <3>1. Holders(n + 1)' = {t}
      BY <2>3, <2>6, <2>13 DEF Holders, Holds
    <3> QED BY <2>2, <2>4, <3>1, FS_Singleton DEF RefOK
  <2>17. \A e \in 1..Len(entries') : RefOK(e)'
    BY <1>0, <2>4, <2>15, <2>16
  <2>18. "recheck" \in Pcs
    BY DEF Pcs
  <2> QED BY <1>0, <2>1, <2>3, <2>5, <2>9, <2>11, <2>12, <2>14, <2>17, <2>18, StepOf
<1> QED BY <1>1, <1>2

LEMMA RecheckKeeps ==
  ASSUME IInv, NEW t \in Threads, Recheck(t)
  PROVE  IInv'
<1>0. /\ pc[t] = "recheck" /\ UNCHANGED <<disk, cache, retired>>
      /\ th[t] \in Local /\ ThreadOK(t) /\ OwnEntry(t)
      /\ entries \in Seq(Entry) /\ Len(entries) \in Nat
  BY DEF Recheck, IInv, ProcessOK, ThreadOK
<1>1. CASE seq = th[t].key
  <2>1. pc' = [pc EXCEPT ![t] = "insert"] /\ UNCHANGED <<entries, th>>
    BY <1>1 DEF Recheck, Goto
  <2>2. pc'[t] = "insert" /\ th' = [th EXCEPT ![t] = th[t]]
    BY <2>1 DEF IInv
  <2>3. \A u \in Threads, e \in 1..Len(entries) : Holds(u, e)' <=> Holds(u, e)
    BY <1>0, <2>1, <2>2 DEF Holds, IInv
  <2>4. OwnEntry(t)'
    <3>1. th[t].entry \in 1..Len(entries)
      BY <1>0 DEF ThreadOK, Local
    <3> QED BY <1>0, <2>1, <2>3, <3>1 DEF OwnEntry, Cached, disk
  <2>5. ThreadOK(t)'
    BY <1>0, <1>1, <2>1, <2>2, <2>4 DEF ThreadOK, OwnEntry, disk
  <2>6. UNCHANGED <<disk, process>> /\ "insert" \in Pcs
    BY <1>0, <2>1 DEF process, Pcs
  <2> QED BY <1>0, <2>1, <2>2, <2>3, <2>5, <2>6, LocalStep
<1>2. CASE seq # th[t].key
  <2>0. PICK e \in 1..Len(entries) : e = th[t].entry
    BY <1>0 DEF ThreadOK, Local
  <2> DEFINE r == [entries[e] EXCEPT !.open = FALSE]
             l == [Fresh EXCEPT !.attempt = th[t].attempt]
  <2>1. /\ entries' = [entries EXCEPT ![e] = r]
        /\ th' = [th EXCEPT ![t] = l]
        /\ pc' = [pc EXCEPT ![t] = "idle"]
    BY <1>2, <2>0 DEF Recheck, Goto
  <2>2. /\ r \in Entry /\ r.key = entries[e].key /\ r.gen = entries[e].gen
        /\ r.epoch = entries[e].epoch /\ r.retired = entries[e].retired /\ ~r.open
    <3>1. entries[e] \in Entry
      BY <1>0
    <3> QED BY <3>1 DEF Entry
  <2>3. l \in Local /\ l.entry = 0 /\ ~l.flock
    BY <1>0, FreshIsLocal DEF Local, Fresh
  <2> HIDE DEF r, l
  <2>4. /\ entries' \in Seq(Entry) /\ Len(entries') = Len(entries) /\ entries'[e] = r
        /\ \A d \in 1..Len(entries) : d # e => entries'[d] = entries[d]
    BY <1>0, <2>1, <2>2, UpdateFacts
  <2>5. pc'[t] = "idle" /\ th'[t] = l
    BY <2>1 DEF IInv
  <2>6. \A u \in Threads : u # t => pc'[u] = pc[u] /\ th'[u] = th[u]
    BY <2>1 DEF IInv
  <2>7. Closing
    BY <2>2, <2>4 DEF Closing
  <2>8. VersionsOK' /\ Stable
    BY <1>0, <2>7, ClosingFacts
  <2>9. \A d \in 1..Len(entries) : ~Holds(t, d)'
    BY <2>5 DEF Holds
  <2>10. Published(t) /\ Taken(t)
    BY <1>0, <2>9 DEF Published, Taken, Cached
  <2>11. ProcessOK'
    <3>1. \A k \in Seqs : cache[k] # 0 => cache[k] # e /\ cache[k] \in 1..Len(entries)
      BY <1>0, <2>0 DEF OwnEntry, Cached, IInv, ProcessOK
    <3>2. \A d \in retired : d # e /\ d \in 1..Len(entries)
      BY <1>0, <2>0 DEF OwnEntry, IInv, ProcessOK
    <3> QED BY <1>0, <2>4, <3>1, <3>2 DEF ProcessOK, IInv
  <2>12. ASSUME NEW d \in 1..Len(entries) PROVE RefOK(d)'
    <3>1. RefOK(d)
      BY DEF IInv
    <3>2. Holders(d)' = Holders(d) \ {t}
      BY <2>6, <2>9, HoldersOf
    <3>3. CASE d = e
      <4>1. Holders(d)' = {}
        BY <1>0, <2>0, <3>2, <3>3 DEF OwnEntry, Holders
      <4> QED BY <2>2, <2>4, <3>3, <4>1 DEF RefOK
    <3>4. CASE d # e
      <4>1. ~Holds(t, d)
        BY <2>0, <3>4 DEF Holds
      <4>2. Holders(d)' = Holders(d)
        BY <3>2, <4>1 DEF Holders
      <4> QED BY <2>4, <3>1, <3>4, <4>2 DEF RefOK
    <3> QED BY <3>3, <3>4
  <2>13. \A d \in 1..Len(entries') : RefOK(d)'
    BY <2>4, <2>12
  <2>14. ThreadOK(t)'
    BY <1>0, <2>3, <2>4, <2>5 DEF ThreadOK
  <2>15. "idle" \in Pcs
    BY DEF Pcs
  <2> QED BY <1>0, <2>1, <2>3, <2>8, <2>10, <2>11, <2>13, <2>14, <2>15, StepOf
<1> QED BY <1>1, <1>2

LEMMA InsertKeeps ==
  ASSUME IInv, NEW t \in Threads, Insert(t)
  PROVE  IInv'
<1>0. /\ pc[t] = "insert" /\ UNCHANGED <<disk, retired>>
      /\ th[t] \in Local /\ ThreadOK(t) /\ OwnEntry(t) /\ th[t].flock
      /\ entries \in Seq(Entry) /\ Len(entries) \in Nat
      /\ cache \in [Seqs -> 0..Len(entries)]
  BY DEF Insert, IInv, ProcessOK, ThreadOK
<1>1. PICK e \in 1..Len(entries), k \in Seqs : e = th[t].entry /\ k = th[t].key
  BY <1>0 DEF ThreadOK, Local
<1> DEFINE c == [cache EXCEPT ![k] = e]
           l == Unlock(t)
<1>2. PICK S \in SUBSET Evictable(entries, c) :
        /\ entries' = Retire(entries, S)
        /\ cache' = [j \in Seqs |-> IF c[j] \in S THEN 0 ELSE c[j]]
  <2>1. c = [cache EXCEPT ![th[t].key] = th[t].entry]
    BY <1>1
  <2> HIDE DEF c
  <2> QED BY <2>1 DEF Insert
<1>3. th' = [th EXCEPT ![t] = l] /\ pc' = [pc EXCEPT ![t] = "search"]
  BY DEF Insert, Goto
<1>4. /\ l \in Local /\ ~l.flock /\ l.entry = e /\ l.gen = th[t].gen /\ l.epoch = th[t].epoch
  BY <1>0, <1>1 DEF Unlock, Local
<1> HIDE DEF l
<1>5. pc'[t] = "search" /\ th'[t] = l
  BY <1>3 DEF IInv
<1>6. \A u \in Threads : u # t => pc'[u] = pc[u] /\ th'[u] = th[u]
  BY <1>3 DEF IInv
<1>7. \A d \in 1..Len(entries) : (Holds(t, d)' <=> Holds(t, d)) /\ (Holds(t, d) <=> d = e)
  BY <1>0, <1>1, <1>4, <1>5 DEF Holds
<1>8. entries[e].open /\ entries[e].ref # 0
  <2>1. t \in Holders(e)
    BY <1>7 DEF Holders
  <2> QED BY <2>1, NoRefNoHolders DEF IInv, RefOK
<1>9. /\ \A j \in Seqs : c[j] = IF j = k THEN e ELSE cache[j]
      /\ c \in [Seqs -> 0..Len(entries)]
  BY <1>0
<1> HIDE DEF c
<1>10. e \notin S /\ S \subseteq Cached
  BY <1>8, <1>9 DEF Evictable, Cached
<1>11. \A d \in S : entries[d].ref = 0
  BY DEF Evictable
<1>12. entries' \in Seq(Entry) /\ Len(entries') = Len(entries)
  BY <1>0, <1>2, RetireFacts
<1>13. \A d \in 1..Len(entries) :
         /\ entries'[d].key = entries[d].key /\ entries'[d].gen = entries[d].gen
         /\ entries'[d].epoch = entries[d].epoch /\ entries'[d].ref = entries[d].ref
         /\ entries'[d].retired <=> entries[d].retired \/ d \in S
         /\ entries'[d].open <=> entries[d].open /\ d \notin S
  <2>1. \A d \in 1..Len(entries) :
          /\ entries'[d].key = entries[d].key /\ entries'[d].gen = entries[d].gen
          /\ entries'[d].epoch = entries[d].epoch /\ entries'[d].ref = entries[d].ref
          /\ entries'[d].retired <=> entries[d].retired \/ d \in S
          /\ entries'[d].open <=> entries[d].open /\ (d \in S => entries[d].ref # 0)
    BY <1>0, <1>2, RetireFacts
  <2> QED BY <1>11, <2>1
<1>14. Closing
  BY <1>10, <1>12, <1>13 DEF Closing
<1>15. VersionsOK' /\ Stable
  BY <1>0, <1>14, ClosingFacts
<1>16. \A j \in Seqs : cache'[j] # 0 =>
         /\ cache'[j] \notin S
         /\ cache'[j] = IF j = k THEN e ELSE cache[j]
  BY <1>2, <1>9
<1>17. cache' \in [Seqs -> 0..Len(entries)]
  BY <1>0, <1>2, <1>9
<1>18. Published(t) /\ Taken(t)
  BY <1>7, <1>16 DEF Published, Taken, Cached
<1>19. ProcessOK'
  <2>1. \A j \in Seqs : cache'[j] # 0 =>
          /\ entries'[cache'[j]].key = j
          /\ entries'[cache'[j]].open /\ ~entries'[cache'[j]].retired
    <3> SUFFICES ASSUME NEW j \in Seqs, cache'[j] # 0
                 PROVE  /\ entries'[cache'[j]].key = j
                        /\ entries'[cache'[j]].open /\ ~entries'[cache'[j]].retired
      OBVIOUS
    <3>1. CASE j = k
      BY <1>0, <1>1, <1>8, <1>10, <1>13, <1>16, <3>1 DEF OwnEntry
    <3>2. CASE j # k
      <4>1. cache'[j] = cache[j] /\ cache[j] # 0 /\ cache[j] \in 1..Len(entries) /\ cache[j] \notin S
        BY <1>0, <1>16, <3>2
      <4> QED BY <1>13, <4>1 DEF IInv, ProcessOK
    <3> QED BY <3>1, <3>2
  <2>2. cache'[-1] = 0
    <3>1. -1 \in Seqs /\ k # -1
      BY <1>0, <1>1, CacheBounds DEF Seqs, ThreadOK
    <3> QED BY <1>16, <3>1 DEF IInv, ProcessOK
  <2>3. \A d \in retired : entries'[d].retired
    BY <1>13 DEF IInv, ProcessOK
  <2> QED BY <1>0, <1>12, <1>17, <2>1, <2>2, <2>3 DEF ProcessOK, IInv
<1>20. \A d \in 1..Len(entries') : RefOK(d)'
  <2>1. \A d \in 1..Len(entries) :
          /\ entries'[d].ref = entries[d].ref
          /\ entries'[d].open => entries[d].open
          /\ entries[d].open /\ entries[d].ref # 0 => entries'[d].open
    BY <1>11, <1>13
  <2> QED BY <1>6, <1>7, <1>12, <2>1, ClosingKeepsRefs
<1>21. ThreadOK(t)'
  BY <1>0, <1>1, <1>4, <1>5, <1>12, <1>13 DEF ThreadOK, OwnEntry
<1>22. "search" \in Pcs
  BY DEF Pcs
<1> QED BY <1>0, <1>3, <1>4, <1>15, <1>18, <1>19, <1>20, <1>21, <1>22, StepOf

LEMMA ReleaseKeeps ==
  ASSUME IInv, NEW t \in Threads, Release(t)
  PROVE  IInv'
<1>0. /\ pc[t] \in {"release", "crashed"} /\ UNCHANGED <<disk, cache>>
      /\ th[t] \in Local /\ ThreadOK(t)
      /\ entries \in Seq(Entry) /\ Len(entries) \in Nat
  BY DEF Release, IInv, ProcessOK
<1>1. PICK e \in 1..Len(entries) : e = th[t].entry
  BY <1>0 DEF ThreadOK, Local
<1> DEFINE ref == entries[e].ref - 1
           closes == entries[e].retired /\ ref = 0
           retry == pc[t] = "crashed" /\ th[t].attempt = 0
           r == [entries[e] EXCEPT !.ref = ref, !.open = @ /\ ~closes]
           l == IF retry THEN [Fresh EXCEPT !.attempt = 1] ELSE Fresh
           p == IF retry THEN "evict" ELSE "idle"
<1>2. /\ entries' = [entries EXCEPT ![e] = r]
      /\ retired' = IF closes THEN retired \ {e} ELSE retired
      /\ th' = [th EXCEPT ![t] = l]
      /\ pc' = [pc EXCEPT ![t] = p]
  BY <1>1 DEF Release, Goto
<1>3. entries[e] \in Entry
  BY <1>0
<1>4. \A d \in 1..Len(entries) : Holds(t, d) <=> d = e
  BY <1>0, <1>1 DEF Holds
<1>5. /\ t \in Holders(e) /\ entries[e].open /\ IsFiniteSet(Holders(e))
      /\ entries[e].ref = Cardinality(Holders(e))
  <2>1. t \in Holders(e)
    BY <1>4 DEF Holders
  <2> QED BY <2>1, CacheBounds, FS_Subset DEF Holders, IInv, RefOK
<1>6. IsFiniteSet(Holders(e) \ {t}) /\ Cardinality(Holders(e) \ {t}) = ref
  BY <1>5, FS_RemoveElement
<1>7. ref \in Nat /\ (ref = 0 <=> Holders(e) \ {t} = {})
  BY <1>6, FS_CardinalityType, FS_EmptySet
<1>8. /\ r \in Entry /\ r.key = entries[e].key /\ r.gen = entries[e].gen
      /\ r.epoch = entries[e].epoch /\ r.retired = entries[e].retired
      /\ r.ref = ref /\ (r.open <=> entries[e].open /\ ~closes)
  BY <1>3, <1>7 DEF Entry
<1>9. l \in Local /\ l.entry = 0 /\ ~l.flock /\ p \in {"evict", "idle"} /\ p \in Pcs
  <2>1. p \in {"evict", "idle"} /\ p \in Pcs
    BY DEF Pcs
  <2> DEFINE again == [Fresh EXCEPT !.attempt = 1]
  <2>2. Fresh \in Local /\ Fresh.entry = 0 /\ ~Fresh.flock
    BY FreshIsLocal DEF Fresh
  <2>3. again \in Local /\ again.entry = 0 /\ ~again.flock
    BY <2>2 DEF Local
  <2>4. l = again \/ l = Fresh
    OBVIOUS
  <2> HIDE DEF again, l, p
  <2> QED BY <2>1, <2>2, <2>3, <2>4
<1> HIDE DEF r, l, p
<1>10. /\ entries' \in Seq(Entry) /\ Len(entries') = Len(entries) /\ entries'[e] = r
       /\ \A d \in 1..Len(entries) : d # e => entries'[d] = entries[d]
  BY <1>0, <1>2, <1>8, UpdateFacts
<1>11. pc'[t] = p /\ th'[t] = l
  BY <1>2 DEF IInv
<1>12. \A u \in Threads : u # t => pc'[u] = pc[u] /\ th'[u] = th[u]
  BY <1>2 DEF IInv
<1>13. Closing
  BY <1>8, <1>10 DEF Closing
<1>14. VersionsOK' /\ Stable
  BY <1>0, <1>13, ClosingFacts
<1>15. \A d \in 1..Len(entries) : ~Holds(t, d)'
  BY <1>9, <1>11 DEF Holds
<1>16. Published(t) /\ Taken(t)
  BY <1>0, <1>15 DEF Published, Taken, Cached
<1>17. ProcessOK'
  <2>1. \A k \in Seqs : cache[k] # 0 =>
          /\ entries'[cache[k]].key = k
          /\ entries'[cache[k]].open /\ ~entries'[cache[k]].retired
    <3> SUFFICES ASSUME NEW k \in Seqs, cache[k] # 0
                 PROVE  /\ entries'[cache[k]].key = k
                        /\ entries'[cache[k]].open /\ ~entries'[cache[k]].retired
      OBVIOUS
    <3>1. /\ cache[k] \in 1..Len(entries) /\ entries[cache[k]].key = k
          /\ entries[cache[k]].open /\ ~entries[cache[k]].retired
      BY DEF IInv, ProcessOK
    <3>2. CASE cache[k] = e
      BY <1>8, <1>10, <3>1, <3>2
    <3>3. CASE cache[k] # e
      BY <1>10, <3>1, <3>3
    <3> QED BY <3>2, <3>3
  <2>2. retired' \subseteq 1..Len(entries) /\ \A d \in retired' : entries'[d].retired
    <3>1. retired' \subseteq retired /\ retired \subseteq 1..Len(entries)
      BY <1>2 DEF IInv, ProcessOK
    <3>2. \A d \in retired : entries'[d].retired
      BY <1>8, <1>10, <3>1 DEF IInv, ProcessOK
    <3> QED BY <3>1, <3>2
  <2> HIDE DEF closes, ref
  <2> QED BY <1>0, <1>10, <2>1, <2>2 DEF ProcessOK, IInv
<1>18. ASSUME NEW d \in 1..Len(entries) PROVE RefOK(d)'
  <2>1. RefOK(d)
    BY DEF IInv
  <2>2. Holders(d)' = Holders(d) \ {t}
    BY <1>12, <1>15, HoldersOf
  <2>3. CASE d = e
    <3> HIDE DEF ref
    <3>1. entries'[e].ref = ref /\ (entries'[e].open => TRUE)
      BY <1>8, <1>10
    <3>2. Holders(e)' # {} => entries'[e].open
      BY <1>5, <1>7, <1>8, <1>10, <2>2, <2>3
    <3> QED BY <1>6, <2>2, <2>3, <3>1, <3>2 DEF RefOK
  <2>4. CASE d # e
    <3>1. Holders(d)' = Holders(d)
      BY <1>4, <2>2, <2>4 DEF Holders
    <3> QED BY <1>10, <2>1, <2>4, <3>1 DEF RefOK
  <2> QED BY <2>3, <2>4
<1>19. \A d \in 1..Len(entries') : RefOK(d)'
  BY <1>10, <1>18
<1>20. ThreadOK(t)'
  BY <1>0, <1>9, <1>10, <1>11 DEF ThreadOK
<1> QED BY <1>0, <1>2, <1>9, <1>14, <1>16, <1>17, <1>19, <1>20, StepOf

-----------------------------------------------------------------------------
(* Which views are lost.                                                   *)

\* A step of t loses no view that stays open only while something has it.
LEMMA NotLost ==
  ASSUME IInv, NEW t \in Threads, NEW e \in 1..Len(entries),
         \A u \in Threads : u # t => pc'[u] = pc[u] /\ th'[u] = th[u],
         pc[t] \in {"recheck", "insert"} /\ th[t].entry = e => ~Lost(e)',
         entries'[e].open => entries[e].open,
         entries'[e].open /\ e \in Cached \cup retired => e \in Cached' \cup retired'
  PROVE  Lost(e)' => Lost(e)
BY DEF Lost

\* A miss and an eviction close or retire every cached view.
LEMMA FlushLoses ==
  ASSUME IInv, NEW t \in Threads, Flush, UNCHANGED disk,
         \A u \in Threads : u # t => pc'[u] = pc[u] /\ th'[u] = th[u],
         pc[t] \notin {"recheck", "insert"},
         NEW e \in 1..Len(entries)
  PROVE  Lost(e)' => Lost(e)
<1> DEFINE es == Sweep(entries)
<1>1. entries \in Seq(Entry)
  BY DEF IInv, ProcessOK
<1>2. /\ es \in Seq(Entry) /\ Len(es) = Len(entries) /\ es[e].ref = entries[e].ref
      /\ es[e].open <=> entries[e].open /\ (e \in retired => entries[e].ref # 0)
  BY <1>1, SweepFacts
<1> HIDE DEF es
<1>3. entries' = Retire(es, Cached)
  BY DEF Flush, es
<1>4. entries'[e].open <=> es[e].open /\ (e \in Cached => es[e].ref # 0)
  BY <1>2, <1>3, RetireFacts
<1>5. entries'[e].open /\ e \in Cached \cup retired => e \in retired'
  BY <1>2, <1>4 DEF Flush, Swept, Deferred
<1> QED BY <1>2, <1>4, <1>5, NotLost

\* A hit closes what it drops from the cache.
LEMMA HitLoses ==
  ASSUME IInv, NEW t \in Threads, NEW c \in Cached, Hit(t, c),
         \A u \in Threads : u # t => pc'[u] = pc[u] /\ th'[u] = th[u],
         pc[t] \notin {"recheck", "insert"},
         NEW e \in 1..Len(entries)
  PROVE  Lost(e)' => Lost(e)
<1> DEFINE sw == Sweep(entries)
           es == Referenced(sw, c)
<1>1. entries \in Seq(Entry) /\ cache \in [Seqs -> 0..Len(entries)]
  BY DEF IInv, ProcessOK
<1>2. c \in 1..Len(entries)
  BY <1>1 DEF Cached
<1>3. /\ sw \in Seq(Entry) /\ Len(sw) = Len(entries) /\ sw[e].ref = entries[e].ref
      /\ sw[e].open <=> entries[e].open /\ (e \in retired => entries[e].ref # 0)
  BY <1>1, SweepFacts
<1> HIDE DEF sw
<1> DEFINE r == [sw[c] EXCEPT !.ref = @ + 1]
<1>4. r \in Entry /\ r.open = sw[c].open
  <2>1. sw[c] \in Entry
    BY <1>2, <1>3
  <2> QED BY <2>1 DEF Entry
<1>5. es = [sw EXCEPT ![c] = r]
  BY DEF Referenced
<1> HIDE DEF r, es
<1>6. es \in Seq(Entry) /\ Len(es) = Len(entries) /\ es[e].open = sw[e].open
  BY <1>2, <1>3, <1>4, <1>5, UpdateFacts
<1>7. PICK S \in SUBSET Evictable(es, cache) :
        /\ entries' = Retire(es, S) /\ cache' = Without(S) /\ retired' = Swept(entries)
  BY DEF Hit, es, sw
<1>8. entries'[e].open <=> es[e].open /\ (e \in S => es[e].ref # 0)
  BY <1>6, <1>7, RetireFacts
<1>9. e \in S => es[e].ref = 0
  BY <1>7 DEF Evictable
<1>10. entries'[e].open /\ e \in Cached => e \in Cached'
  BY <1>7, <1>8, <1>9 DEF Cached, Without
<1>11. entries'[e].open /\ e \in retired => e \in retired'
  BY <1>3, <1>6, <1>7, <1>8 DEF Swept
<1> QED BY <1>3, <1>6, <1>8, <1>10, <1>11, NotLost

LEMMA InsertLoses ==
  ASSUME IInv, NEW t \in Threads, Insert(t), NEW e \in 1..Len(entries),
         Lost(e)', ~Lost(e)
  PROVE  cache[th[t].key] = e
<1>0. /\ th[t] \in Local /\ ThreadOK(t) /\ pc[t] = "insert" /\ UNCHANGED retired
      /\ entries \in Seq(Entry) /\ cache \in [Seqs -> 0..Len(entries)]
  BY DEF Insert, IInv, ProcessOK
<1>1. PICK o \in 1..Len(entries), k \in Seqs : o = th[t].entry /\ k = th[t].key
  BY <1>0 DEF ThreadOK, Local
<1> DEFINE c == [cache EXCEPT ![k] = o]
<1>2. PICK S \in SUBSET Evictable(entries, c) :
        /\ entries' = Retire(entries, S)
        /\ cache' = [j \in Seqs |-> IF c[j] \in S THEN 0 ELSE c[j]]
  <2>1. c = [cache EXCEPT ![th[t].key] = th[t].entry]
    BY <1>1
  <2> HIDE DEF c
  <2> QED BY <2>1 DEF Insert
<1>3. \A j \in Seqs : c[j] = IF j = k THEN o ELSE cache[j]
  BY <1>0
<1> HIDE DEF c
<1>4. \A u \in Threads : u # t => pc'[u] = pc[u] /\ th'[u] = th[u]
  BY DEF Insert, Goto, IInv
<1>5. /\ entries'[e].open => entries[e].open
      /\ entries'[e].open => e \notin S
  <2>1. entries'[e].open <=> entries[e].open /\ (e \in S => entries[e].ref # 0)
    BY <1>0, <1>2, RetireFacts
  <2> QED BY <1>2, <2>1 DEF Evictable
<1>6. entries'[e].open /\ e = o => e \in Cached'
  BY <1>2, <1>3, <1>5 DEF Cached
<1>7. ASSUME entries'[e].open, e \in Cached, e # cache[k]
      PROVE  e \in Cached'
  <2>1. PICK j \in Seqs : cache[j] = e /\ e # 0
    BY <1>7 DEF Cached
  <2>2. cache'[j] = e
    BY <1>2, <1>3, <1>5, <1>7, <2>1
  <2> QED BY <2>1, <2>2 DEF Cached
<1> QED BY <1>0, <1>1, <1>4, <1>5, <1>6, <1>7 DEF Lost

\* No other step of a thread loses a view.
LEMMA ReaderLoses ==
  ASSUME IInv, NEW t \in Threads, Reader(t), NEW e \in 1..Len(entries),
         Lost(e)', ~Lost(e)
  PROVE  Insert(t) /\ cache[th[t].key] = e
<1>0. /\ th[t] \in Local /\ ThreadOK(t) /\ entries \in Seq(Entry) /\ Len(entries) \in Nat
      /\ th \in [Threads -> Local] /\ pc \in [Threads -> Pcs]
  BY DEF IInv, ProcessOK
<1>1. CASE ReadSeq(t) \/ Search(t)
  <2>1. /\ UNCHANGED <<entries, cache, retired>> /\ pc[t] \in {"idle", "search"}
        /\ \A u \in Threads : u # t => pc'[u] = pc[u] /\ th'[u] = th[u]
    BY <1>0, <1>1 DEF ReadSeq, Search, Goto, process
  <2> QED BY <2>1, NotLost DEF Cached
<1>2. CASE Lookup(t)
  <2>1. pc[t] = "lookup" /\ UNCHANGED disk /\ th[t].key \in Seqs
    BY <1>0, <1>2 DEF Lookup, Local
  <2>2. \A u \in Threads : u # t => pc'[u] = pc[u] /\ th'[u] = th[u]
    BY <1>0, <1>2 DEF Lookup, Goto
  <2>3. CASE cache[th[t].key] = 0
    <3>1. Flush
      BY <1>2, <2>3 DEF Lookup, Flush
    <3> QED BY <2>1, <2>2, <3>1, FlushLoses
  <2>4. CASE cache[th[t].key] # 0
    <3>1. PICK c \in Cached : c = cache[th[t].key]
      BY <2>1, <2>4 DEF Cached
    <3>2. Hit(t, c)
      BY <1>2, <2>4, <3>1 DEF Lookup
    <3> QED BY <2>1, <2>2, <3>2, HitLoses
  <2> QED BY <2>3, <2>4
<1>3. CASE Open(t)
  <2>1. /\ pc[t] = "open" /\ UNCHANGED <<cache, retired>>
        /\ \A u \in Threads : u # t => pc'[u] = pc[u] /\ th'[u] = th[u]
    BY <1>0, <1>3 DEF Open, Goto
  <2>2. entries'[e] = entries[e]
    BY <1>0, <1>3 DEF Open
  <2> QED BY <2>1, <2>2, NotLost DEF Cached
<1>4. CASE Recheck(t)
  <2>1. /\ pc[t] = "recheck" /\ UNCHANGED <<cache, retired>>
        /\ \A u \in Threads : u # t => pc'[u] = pc[u] /\ th'[u] = th[u]
    BY <1>0, <1>4 DEF Recheck, Goto
  <2>2. PICK o \in 1..Len(entries) : o = th[t].entry
    BY <1>0, <2>1 DEF ThreadOK, Local
  <2>3. CASE seq = th[t].key
    <3>1. UNCHANGED <<entries, th>> /\ pc'[t] = "insert"
      BY <1>0, <1>4, <2>3 DEF Recheck, Goto
    <3> QED BY <2>1, <3>1, NotLost DEF Cached, Lost
  <2>4. CASE seq # th[t].key
    <3>1. entries' = [entries EXCEPT ![o].open = FALSE]
      BY <1>4, <2>2, <2>4 DEF Recheck
    <3>2. entries[o] \in Entry
      BY <1>0
    <3>3. ~entries'[o].open /\ (e # o => entries'[e] = entries[e])
      BY <1>0, <3>1, <3>2 DEF Entry
    <3> QED BY <2>1, <2>2, <3>3, NotLost DEF Cached, Lost
  <2> QED BY <2>3, <2>4
<1>5. CASE Insert(t)
  BY <1>5, InsertLoses
<1>6. CASE Release(t)
  <2>1. /\ pc[t] \in {"release", "crashed"} /\ UNCHANGED cache
        /\ \A u \in Threads : u # t => pc'[u] = pc[u] /\ th'[u] = th[u]
    BY <1>0, <1>6 DEF Release, Goto
  <2>2. PICK o \in 1..Len(entries) : o = th[t].entry
    BY <1>0, <2>1 DEF ThreadOK, Local
  <2>3. PICK closes \in BOOLEAN : \E ref :
          /\ entries' = [entries EXCEPT ![o].ref = ref, ![o].open = @ /\ ~closes]
          /\ retired' = IF closes THEN retired \ {o} ELSE retired
    <3>1. /\ entries' = [entries EXCEPT ![o].ref = entries[o].ref - 1,
                                        ![o].open = @ /\ ~(entries[o].retired /\ entries[o].ref - 1 = 0)]
          /\ retired' = IF entries[o].retired /\ entries[o].ref - 1 = 0
                        THEN retired \ {o} ELSE retired
      BY <1>6, <2>2 DEF Release
    <3>2. (entries[o].retired /\ entries[o].ref - 1 = 0) \in BOOLEAN
      OBVIOUS
    <3> QED BY <3>1, <3>2
  <2>4. entries[o] \in Entry
    BY <1>0
  <2>5. /\ entries'[o].open <=> entries[o].open /\ ~closes
        /\ e # o => entries'[e] = entries[e]
    <3>1. PICK ref : entries' = [entries EXCEPT ![o].ref = ref, ![o].open = @ /\ ~closes]
      BY <2>3
    <3>2. entries \in Seq(Entry) /\ e \in 1..Len(entries)
      BY <1>0
    <3>3. e # o => entries'[e] = entries[e]
      BY <2>2, <3>1, <3>2
    <3>4. PICK r : r = [entries[o] EXCEPT !.ref = ref, !.open = @ /\ ~closes]
      OBVIOUS
    <3>5. entries' = [entries EXCEPT ![o] = r]
      BY <2>2, <3>1, <3>2, <3>4
    <3>6. entries'[o].open = (entries[o].open /\ ~closes)
      <4>1. entries'[o] = r
        BY <2>2, <3>2, <3>5
      <4>2. r.open = (entries[o].open /\ ~closes)
        BY <2>4, <3>4 DEF Entry
      <4> QED BY <4>1, <4>2
    <3> QED BY <3>3, <3>6
  <2> QED BY <2>1, <2>3, <2>5, NotLost DEF Cached
<1>7. CASE EvictDir(t)
  <2>1. /\ pc[t] = "evict" /\ UNCHANGED disk /\ Flush
        /\ \A u \in Threads : u # t => pc'[u] = pc[u] /\ th'[u] = th[u]
    BY <1>0, <1>7 DEF EvictDir, Goto, Flush
  <2> QED BY <2>1, FlushLoses
<1> QED BY <1>1, <1>2, <1>3, <1>4, <1>5, <1>6, <1>7 DEF Reader


-----------------------------------------------------------------------------
(* The theorems.                                                           *)

LEMMA NextInvariant == IInv /\ [Next]_vars => IInv'
<1> SUFFICES ASSUME IInv, [Next]_vars PROVE IInv'
  OBVIOUS
<1>1. ASSUME UNCHANGED vars PROVE IInv'
  <2>1. DiskOK' /\ ProcessOK' /\ VersionsOK'
    BY <1>1 DEF vars, disk, process, IInv, DiskOK, ProcessOK, VersionsOK
  <2>2. \A t \in Threads : ThreadOK(t)'
    BY <1>1 DEF vars, disk, process, IInv, ThreadOK, OwnEntry, Cached, Holds
  <2>3. \A e \in 1..Len(entries) : RefOK(e)'
    BY <1>1 DEF vars, process, IInv, RefOK, Holders, Holds
  <2> QED BY <1>1, <2>1, <2>2, <2>3 DEF vars, process, IInv
<1>2. ASSUME NEW t \in Threads, Reader(t) PROVE IInv'
  BY <1>2, ReadSeqKeeps, LookupKeeps, OpenKeeps, RecheckKeeps, InsertKeeps, SearchKeeps,
     ReleaseKeeps, EvictDirKeeps DEF Reader
<1> QED BY <1>1, <1>2, WriterKeeps DEF Next

LEMMA SpecInvariant == Spec => []IInv
<1> QED BY InitInvariant, NextInvariant, PTL DEF Spec

\* The entries, the cache and _retired are well formed, and the threads refer
\* to entries that exist.
THEOREM TypeCorrect == Spec => []TypeOK
<1>1. IInv => TypeOK
  <2> SUFFICES ASSUME IInv PROVE TypeOK
    OBVIOUS
  <2>1. DOMAIN entries = 1..Len(entries) /\ Len(entries) \in 0..MaxOpens
    BY CacheBounds DEF IInv, ProcessOK
  <2>2. \A e \in DOMAIN entries : entries[e] \in Entry
    BY <2>1 DEF IInv, ProcessOK
  <2>3. th \in [Threads -> [flock : BOOLEAN, key : Seqs, entry : 0..Len(entries),
                            attempt : 0..1, gen : Nat, epoch : Nat]]
    <3> SUFFICES ASSUME NEW t \in Threads
                 PROVE  th[t] \in [flock : BOOLEAN, key : Seqs, entry : 0..Len(entries),
                                   attempt : 0..1, gen : Nat, epoch : Nat]
      BY DEF IInv
    <3>1. th[t] \in Local /\ th[t].entry <= Len(entries) /\ Len(entries) \in Nat
      BY DEF IInv, ThreadOK, ProcessOK
    <3> QED BY <3>1 DEF Local
  <2> QED BY <2>1, <2>2, <2>3 DEF IInv, DiskOK, ProcessOK, Entry, Pcs, TypeOK
<1> QED BY <1>1, SpecInvariant, PTL

\* _acquire_entry, _release_entry, _retire, _sweep_retired, _evict_lru and
\* _evict_dir together: however many threads search while writers commit and
\* the daemon crashes, a view is closed only when no thread holds it, and its
\* refcount is the number of threads that do.
THEOREM HeldViewsAreOpen == Spec => []NoUseAfterFree
<1>1. IInv => NoUseAfterFree
  <2> SUFFICES ASSUME IInv PROVE NoUseAfterFree
    OBVIOUS
  <2>1. DOMAIN entries = 1..Len(entries)
    BY DEF IInv, ProcessOK
  <2>2. \A e \in DOMAIN entries : RefOK(e)
    BY <2>1 DEF IInv
  <2> QED BY <2>2 DEF RefOK, Holders, NoUseAfterFree
<1> QED BY <1>1, SpecInvariant, PTL

\* The two reads of commit_seq around the opening, and the shared flock: a
\* search answers from the generation it found on disk, in every epoch.
THEOREM SearchesAreCurrent == Spec => []AnswersAreCurrent
<1>1. IInv => AnswersAreCurrent
  BY DEF IInv, ThreadOK, AnswersAreCurrent
<1> QED BY <1>1, SpecInvariant, PTL

\* What keeps a search server from leaking mapped views: an open view leaves
\* the sight of the cache, of _retired and of the thread that opened it in one
\* way only, when another thread inserts a view of the same generation over it.
THEOREM OnlyOverwritingLoses == Spec => LostByOverwritingOnly
<1>1. IInv /\ [Next]_vars =>
        [\A e \in DOMAIN entries :
           Lost(e)' /\ ~Lost(e) => \E t \in Threads : Insert(t) /\ cache[th[t].key] = e]_vars
  <2> SUFFICES ASSUME IInv, Next, NEW e \in DOMAIN entries, Lost(e)', ~Lost(e)
               PROVE  \E t \in Threads : Insert(t) /\ cache[th[t].key] = e
    BY DEF vars
  <2>1. e \in 1..Len(entries)
    BY DEF IInv, ProcessOK
  <2>2. CASE WriterBegins \/ WriterWrites \/ WriterCommits \/ WriterDies
    <3>1. UNCHANGED <<process, pc, th>>
      BY <2>2 DEF WriterBegins, WriterWrites, WriterCommits, WriterDies
    <3> QED BY <3>1 DEF Lost, process, Cached
  <2>3. ASSUME NEW t \in Threads, Reader(t)
        PROVE  Insert(t) /\ cache[th[t].key] = e
    BY <2>1, <2>3, ReaderLoses
  <2> QED BY <2>2, <2>3 DEF Next
<1> QED BY <1>1, SpecInvariant, PTL DEF Spec, LostByOverwritingOnly

=============================================================================
