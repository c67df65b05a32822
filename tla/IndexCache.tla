----------------------------- MODULE IndexCache ------------------------------
(***************************************************************************)
(* The refcounted cache of open Index objects of a search process          *)
(* (src/search/indexer.py): threads look an index directory up by the      *)
(* commit_seq of its manifest, open it on a miss, search it and release    *)
(* it, while writers of other processes commit new generations and the C   *)
(* daemon that serves the views may crash.                                 *)
(*                                                                         *)
(* One index directory.  The generation stands for what a search of the    *)
(* directory finds; the writers are those of IndexStore, seen from outside *)
(* the exclusive flock: they change the data, then the manifest.           *)
(***************************************************************************)
EXTENDS Integers, Sequences, FiniteSets

CONSTANTS
    Threads,    \* reader threads of the process
    MaxOpens,   \* bound: Index objects opened in a behaviour
    MaxRuns     \* bound: writer runs in a behaviour

ASSUME CacheBounds == IsFiniteSet(Threads) /\ MaxOpens \in Nat /\ MaxRuns \in Nat

VARIABLES
    gen,        \* generation of the data on disk
    seq,        \* commit_seq of manifest.json, -1 without one
    lockFile,   \* does index.lock exist?
    writer,     \* the writer that holds LOCK_EX, and how far it got
    runs,       \* writer runs so far
    epoch,      \* history: changes of the data that commit_seq did not follow
    entries,    \* every _CacheEntry ever made
    cache,      \* _index_cache: entry by commit_seq, 0 for none
    retired,    \* _retired: entries whose close waits for their readers
    pc,         \* where each thread stands
    th          \* local variables of each thread

disk == <<gen, seq, lockFile, writer, runs, epoch>>
process == <<entries, cache, retired>>
vars == <<disk, process, pc, th>>

Seqs == -1..MaxRuns
WriterOps == {"update", "compact", "build"}

\* A search that has not started holds nothing.
Fresh == [flock |-> FALSE, key |-> -1, entry |-> 0, attempt |-> 0, gen |-> 0, epoch |-> 0]

TypeOK ==
    /\ gen \in Nat /\ epoch \in Nat
    /\ seq \in Seqs /\ lockFile \in BOOLEAN
    /\ writer \in [op : WriterOps \cup {"none"}, wrote : BOOLEAN]
    /\ runs \in 0..MaxRuns
    /\ Len(entries) \in 0..MaxOpens
    /\ \A e \in DOMAIN entries :
         entries[e] \in [key : Seqs, gen : Nat, epoch : Nat, ref : Nat,
                         retired : BOOLEAN, open : BOOLEAN]
    /\ cache \in [Seqs -> 0..Len(entries)]
    /\ retired \subseteq DOMAIN entries
    /\ pc \in [Threads -> {"idle", "lookup", "open", "recheck", "insert",
                           "search", "release", "crashed", "evict"}]
    /\ th \in [Threads -> [flock : BOOLEAN, key : Seqs, entry : 0..Len(entries),
                           attempt : 0..1, gen : Nat, epoch : Nat]]

Init ==
    /\ gen = 0 /\ seq = -1 /\ lockFile = FALSE
    /\ writer = [op |-> "none", wrote |-> FALSE]
    /\ runs = 0 /\ epoch = 0
    /\ entries = <<>> /\ cache = [k \in Seqs |-> 0] /\ retired = {}
    /\ pc = [t \in Threads |-> "idle"]
    /\ th = [t \in Threads |-> Fresh]

-----------------------------------------------------------------------------
(* The writers, in other processes.                                        *)

WriterBegins ==
    /\ writer.op = "none" /\ runs < MaxRuns
    /\ \A t \in Threads : ~th[t].flock
    /\ \E o \in WriterOps :
         /\ seq = -1 => o = "build"
         /\ writer' = [op |-> o, wrote |-> FALSE]
    /\ lockFile' = TRUE
    /\ runs' = runs + 1
    /\ UNCHANGED <<gen, seq, epoch, process, pc, th>>

\* A compaction leaves every answer as it was.
WriterWrites ==
    /\ writer.op # "none" /\ ~writer.wrote
    /\ writer' = [writer EXCEPT !.wrote = TRUE]
    /\ gen' = IF writer.op = "compact" THEN gen ELSE gen + 1
    /\ UNCHANGED <<seq, lockFile, runs, epoch, process, pc, th>>

\* update() and compact() move commit_seq on, build() writes 0.
WriterCommits ==
    /\ writer.wrote
    /\ seq' = IF writer.op = "build" THEN 0 ELSE seq + 1
    /\ epoch' = IF writer.op = "build" THEN epoch + 1 ELSE epoch
    /\ writer' = [op |-> "none", wrote |-> FALSE]
    /\ UNCHANGED <<gen, lockFile, runs, process, pc, th>>

\* A writer that dies leaves the data changed under the old commit_seq.
WriterDies ==
    /\ writer.op # "none"
    /\ writer' = [op |-> "none", wrote |-> FALSE]
    /\ epoch' = IF writer.wrote THEN epoch + 1 ELSE epoch
    /\ UNCHANGED <<gen, seq, lockFile, runs, process, pc, th>>

-----------------------------------------------------------------------------
(* The entries; each operator runs under _index_cache_lock.                *)

\* Mutant: an entry is closed at once, whoever still searches it.
RetireNow(es, S) ==
    [e \in DOMAIN es |-> IF e \in S THEN [es[e] EXCEPT !.retired = TRUE, !.open = FALSE]
                         ELSE es[e]]

\* Mutant: an entry that nobody reads is left to be closed by a reader.
RetireLater(es, S) ==
    [e \in DOMAIN es |-> IF e \in S THEN [es[e] EXCEPT !.retired = TRUE] ELSE es[e]]

\* _retire: close now if nobody reads the entry, else leave it to the last one.
Retire(es, S) ==
    [e \in DOMAIN es |->
       IF e \in S THEN [es[e] EXCEPT !.retired = TRUE, !.open = @ /\ es[e].ref # 0]
       ELSE es[e]]
Deferred(es, S) == {e \in S : es[e].ref # 0}

\* _sweep_retired: close what nobody reads any more.
Sweep(es) ==
    [e \in DOMAIN es |-> IF e \in retired /\ es[e].ref = 0 THEN [es[e] EXCEPT !.open = FALSE]
                         ELSE es[e]]
Swept(es) == {e \in retired : es[e].ref # 0}

Cached == {cache[k] : k \in Seqs} \ {0}
Without(S) == [k \in Seqs |-> IF cache[k] \in S THEN 0 ELSE cache[k]]

\* _evict_lru may drop any unread entry: which ones is a matter of clocks and
\* of the other directories in the cache.
Evictable(es, c) == {e \in {c[k] : k \in Seqs} \ {0} : es[e].ref = 0}

Referenced(es, e) == [es EXCEPT ![e].ref = @ + 1]

-----------------------------------------------------------------------------
(* The threads.                                                            *)

Goto(t, next) == pc' = [pc EXCEPT ![t] = next]
Unlock(t) == [th[t] EXCEPT !.flock = FALSE]

\* Mutant: the directory is opened without the shared flock.
ReadSeqUnlocked(t) ==
    /\ pc[t] = "idle"
    /\ th' = [th EXCEPT ![t] = [Fresh EXCEPT !.key = seq, !.attempt = th[t].attempt,
                                            !.gen = gen, !.epoch = epoch]]
    /\ Goto(t, "lookup")
    /\ UNCHANGED <<disk, process>>

\* The shared flock, if there is a lock file, and the commit_seq under it.
ReadSeq(t) ==
    /\ pc[t] = "idle"
    /\ lockFile => writer.op = "none"
    /\ th' = [th EXCEPT ![t] = [Fresh EXCEPT !.flock = lockFile, !.key = seq,
                                            !.attempt = th[t].attempt,
                                            !.gen = gen, !.epoch = epoch]]
    /\ Goto(t, "lookup")
    /\ UNCHANGED <<disk, process>>

Hit(t, e) ==
    LET es == Referenced(Sweep(entries), e) IN
    \E S \in SUBSET Evictable(es, cache) :
        /\ entries' = Retire(es, S)
        /\ cache' = Without(S)
        /\ retired' = Swept(entries)

\* The entry of this commit_seq, or a miss that retires every other one.
Lookup(t) ==
    /\ pc[t] = "lookup"
    /\ LET e == cache[th[t].key] IN
         IF e # 0
         THEN /\ Hit(t, e)
              /\ th' = [th EXCEPT ![t] = [Unlock(t) EXCEPT !.entry = e]]
              /\ Goto(t, "search")
         ELSE /\ entries' = Retire(Sweep(entries), Cached)
              /\ cache' = Without(Cached)
              /\ retired' = Swept(entries) \cup Deferred(entries, Cached)
              /\ UNCHANGED th
              /\ Goto(t, "open")
    /\ UNCHANGED disk

\* Mutant: the thread that opens an entry is not counted.
NewEntryUnreferenced(k) ==
    [key |-> k, gen |-> gen, epoch |-> epoch, ref |-> 0, retired |-> FALSE, open |-> TRUE]

NewEntry(k) ==
    [key |-> k, gen |-> gen, epoch |-> epoch, ref |-> 1, retired |-> FALSE, open |-> TRUE]

\* Index(idx_dir) raises without a manifest.
Open(t) ==
    /\ pc[t] = "open"
    /\ IF seq = -1
       THEN /\ th' = [th EXCEPT ![t] = Fresh]
            /\ Goto(t, "idle")
            /\ UNCHANGED entries
       ELSE /\ Len(entries) < MaxOpens
            /\ entries' = Append(entries, NewEntry(th[t].key))
            /\ th' = [th EXCEPT ![t].entry = Len(entries')]
            /\ Goto(t, "recheck")
    /\ UNCHANGED <<disk, cache, retired>>

\* A commit between the two reads of commit_seq: close and start again.
Recheck(t) ==
    /\ pc[t] = "recheck"
    /\ IF seq = th[t].key
       THEN Goto(t, "insert") /\ UNCHANGED <<entries, th>>
       ELSE /\ entries' = [entries EXCEPT ![th[t].entry].open = FALSE]
            /\ th' = [th EXCEPT ![t] = [Fresh EXCEPT !.attempt = th[t].attempt]]
            /\ Goto(t, "idle")
    /\ UNCHANGED <<disk, cache, retired>>

Insert(t) ==
    /\ pc[t] = "insert"
    /\ LET c == [cache EXCEPT ![th[t].key] = th[t].entry] IN
         \E S \in SUBSET Evictable(entries, c) :
            /\ entries' = Retire(entries, S)
            /\ cache' = [k \in Seqs |-> IF c[k] \in S THEN 0 ELSE c[k]]
    /\ th' = [th EXCEPT ![t] = Unlock(t)]
    /\ Goto(t, "search")
    /\ UNCHANGED <<disk, retired>>

\* The search is answered, or the daemon has crashed.
Search(t) ==
    /\ pc[t] = "search"
    /\ \E next \in {"release", "crashed"} : Goto(t, next)
    /\ UNCHANGED <<disk, process, th>>

\* _release_entry: the last reader of a retired entry closes it.  After a
\* crash of the daemon the directory is evicted and the search tried again.
Release(t) ==
    /\ pc[t] \in {"release", "crashed"}
    /\ LET e == th[t].entry
           ref == entries[e].ref - 1
           closes == entries[e].retired /\ ref = 0
           retry == pc[t] = "crashed" /\ th[t].attempt = 0
       IN /\ entries' = [entries EXCEPT ![e].ref = ref, ![e].open = @ /\ ~closes]
          /\ retired' = IF closes THEN retired \ {e} ELSE retired
          /\ th' = [th EXCEPT ![t] = IF retry THEN [Fresh EXCEPT !.attempt = 1] ELSE Fresh]
          /\ Goto(t, IF retry THEN "evict" ELSE "idle")
    /\ UNCHANGED <<disk, cache>>

\* _evict_dir
EvictDir(t) ==
    /\ pc[t] = "evict"
    /\ entries' = Retire(Sweep(entries), Cached)
    /\ cache' = Without(Cached)
    /\ retired' = Swept(entries) \cup Deferred(entries, Cached)
    /\ Goto(t, "idle")
    /\ UNCHANGED <<disk, th>>

Reader(t) ==
    \/ ReadSeq(t) \/ Lookup(t) \/ Open(t) \/ Recheck(t) \/ Insert(t)
    \/ Search(t) \/ Release(t) \/ EvictDir(t)

Next ==
    \/ WriterBegins \/ WriterWrites \/ WriterCommits \/ WriterDies
    \/ \E t \in Threads : Reader(t)

Spec == Init /\ [][Next]_vars

-----------------------------------------------------------------------------
(* What the cache promises to the searches.                                *)

Holds(t, e) ==
    /\ th[t].entry = e
    /\ pc[t] \in {"recheck", "insert", "search", "release", "crashed"}

\* "an in-flight reader never observes a freed view": every entry a thread
\* holds is open, and its refcount says exactly how many threads hold it.
NoUseAfterFree ==
    \A e \in DOMAIN entries :
        LET holders == {t \in Threads : Holds(t, e)} IN
        /\ entries[e].open => entries[e].ref = Cardinality(holders)
        /\ holders # {} => entries[e].open

\* A search is answered from the generation that was on disk when it asked,
\* as long as commit_seq follows every change of the data.
AnswersAreCurrent ==
    \A t \in Threads : pc[t] = "search" =>
        LET e == entries[th[t].entry] IN
        e.epoch = th[t].epoch => e.gen = th[t].gen

\* "keep long-running servers from leaking mmaps ... under a thread pool": an
\* open view can be found in the cache, in _retired, or by the thread that has
\* just opened it.  There is one way to lose one, and it takes two threads:
\* both miss, and the second insertion drops the entry of the first unretired.
Lost(e) ==
    /\ entries[e].open
    /\ e \notin Cached \cup retired
    /\ \A t \in Threads : ~(th[t].entry = e /\ pc[t] \in {"recheck", "insert"})
LostByOverwritingOnly ==
    [][\A e \in DOMAIN entries :
         Lost(e)' /\ ~Lost(e) => \E t \in Threads : Insert(t) /\ cache[th[t].key] = e]_vars
=============================================================================
