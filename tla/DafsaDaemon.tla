---------------------------- MODULE DafsaDaemon ----------------------------
(***************************************************************************)
(* One Python process and its dafsa-cli daemon (src/indexer/dafsa): the    *)
(* handle table of the daemon, the client that restarts it silently, the   *)
(* searches that keep views open in _index_cache (src/search/indexer.py),  *)
(* and the update tool's compaction, all through one daemon.               *)
(*                                                                         *)
(* A daemon is known by its life, the number of daemons the process has    *)
(* started.  IndexCache has the cache of one directory in more detail;     *)
(* here several directories share one daemon.                              *)
(***************************************************************************)
EXTENDS Integers, Sequences, FiniteSets

CONSTANTS
    Domains,        \* index directories
    Threads,        \* searching threads
    MaxHandles,     \* slots of the handle table (4095 in the C daemon)
    MaxFaults,      \* bound: daemon crashes and refused handshakes
    MaxCalls        \* bound: searches and compactions begun, and updates committed

ASSUME DaemonBounds ==
    /\ Domains # {} /\ IsFiniteSet(Threads)
    /\ {MaxHandles, MaxFaults, MaxCalls} \subseteq Nat

VARIABLES
    daemon,     \* [alive, life, table]: table maps the handles in use to objects
    attached,   \* is _proc set?
    faults,     \* faults so far
    wal,        \* wal[d]: does d have WAL records that are not in its base?
    base,       \* base[d]: whose index index.fst holds, and is the WAL folded in?
    seq,        \* commit_seq of each directory
    entries,    \* every _CacheEntry made
    cache,      \* the cached entry of each directory, 0 for none
    lock,       \* the threads inside _index_cache_lock
    pc, th,     \* where each searching thread stands, and its local variables
    job,        \* the compaction in progress
    calls       \* searches, compactions and commits so far

client == <<daemon, attached, faults>>
disk == <<wal, base, seq>>
store == <<entries, cache>>
vars == <<client, disk, store, lock, pc, th, job, calls>>

CountCall == calls < MaxCalls /\ calls' = calls + 1

Seqs == 0..MaxCalls
Handles == 1..MaxHandles
Empty == [h \in {} |-> 0]
Objects == [kind : {"view", "dafsa", "wal"}, dir : Domains, entry : Nat, folded : BOOLEAN]
Somewhere == CHOOSE d \in Domains : TRUE

Fresh == [dir |-> Somewhere, key |-> 0, entry |-> 0, attempt |-> 0, closing |-> {},
          next |-> "idle", out |-> "none", from |-> Somewhere]
NoJob == [pc |-> "idle", dir |-> Somewhere, h |-> 0, walh |-> 0, replay |-> "none",
          failed |-> FALSE, robbed |-> FALSE]

TypeOK ==
    /\ daemon.alive \in BOOLEAN /\ daemon.life \in 0..(MaxFaults + 1)
    /\ DOMAIN daemon.table \subseteq Handles
    /\ \A h \in DOMAIN daemon.table : daemon.table[h] \in Objects
    /\ attached \in BOOLEAN /\ faults \in 0..MaxFaults
    /\ wal \in [Domains -> BOOLEAN]
    /\ base \in [Domains -> [dir : Domains, folded : BOOLEAN]]
    /\ seq \in [Domains -> Seqs]
    /\ \A e \in DOMAIN entries :
         entries[e] \in [dir : Domains, key : Seqs, h : Handles, life : Nat, ref : Nat,
                         retired : BOOLEAN, open : BOOLEAN, robbed : BOOLEAN, lost : BOOLEAN]
    /\ cache \in [Domains -> 0..Len(entries)]
    /\ lock \in SUBSET Threads /\ Cardinality(lock) <= 1
    /\ pc \in [Threads -> {"idle", "flock", "lookup", "open", "insert", "search",
                           "release", "evict", "closing"}]
    /\ \A t \in Threads :
         /\ th[t].closing \subseteq DOMAIN entries
         /\ th[t].out \in {"none", "answered", "failed", "crashed"}
    /\ job.pc \in {"idle", "load", "wal", "replay", "close", "save", "free", "unlink"}

Init ==
    /\ daemon = [alive |-> FALSE, life |-> 0, table |-> Empty]
    /\ attached = FALSE /\ faults = 0
    /\ wal = [d \in Domains |-> TRUE]
    /\ base = [d \in Domains |-> [dir |-> d, folded |-> FALSE]]
    /\ seq = [d \in Domains |-> 0]
    /\ entries = <<>> /\ cache = [d \in Domains |-> 0] /\ lock = {}
    /\ pc = [t \in Threads |-> "idle"] /\ th = [t \in Threads |-> Fresh]
    /\ job = NoJob
    /\ calls = 0

-----------------------------------------------------------------------------
(* The daemon and request(): under _req_lock, so one request is one step.  *)

\* The daemon that receives the next request: a dead one is replaced first,
\* and the new one knows no handle.
Serving ==
    IF attached /\ daemon.alive THEN daemon
    ELSE [alive |-> TRUE, life |-> daemon.life + 1, table |-> Empty]

Replies(d) == daemon' = d /\ attached' = TRUE /\ UNCHANGED faults

\* The request, or the handshake of the daemon started for it, meets a broken
\* pipe, end of file, a line that is not JSON or another id: the process is
\* given up and DafsaDaemonCrashed raised.
Crashes ==
    /\ faults < MaxFaults /\ faults' = faults + 1
    /\ daemon' = [Serving EXCEPT !.alive = FALSE, !.table = Empty]
    /\ attached' = FALSE

\* The daemon that had to be started has another ABI or protocol version:
\* _kill() and a RuntimeError that is not DafsaDaemonCrashed.
Refused ==
    /\ ~(attached /\ daemon.alive)
    /\ faults < MaxFaults /\ faults' = faults + 1
    /\ daemon' = [alive |-> FALSE, life |-> daemon.life, table |-> Empty]
    /\ attached' = FALSE

\* The daemon dies between two requests; only the next request notices.
Dies ==
    /\ daemon.alive /\ faults < MaxFaults /\ faults' = faults + 1
    /\ daemon' = [daemon EXCEPT !.alive = FALSE, !.table = Empty]
    /\ UNCHANGED <<attached, disk, store, lock, pc, th, job, calls>>

\* Mutant: the next handle is the number of handles in use plus one.
NextHandle(d) ==
    IF Cardinality(DOMAIN d.table) < MaxHandles THEN Cardinality(DOMAIN d.table) + 1 ELSE 0

\* h_alloc: the first empty slot, 0 when the table is full.
NewHandle(d) ==
    LET free == Handles \ DOMAIN d.table IN
    IF free = {} THEN 0 ELSE CHOOSE h \in free : \A g \in free : h <= g

With(d, h, obj) ==
    [d EXCEPT !.table = [g \in DOMAIN d.table \cup {h} |-> IF g = h THEN obj ELSE d.table[g]]]

\* h_release
Without(d, h) == [d EXCEPT !.table = [g \in DOMAIN d.table \ {h} |-> d.table[g]]]

Knows(d, h) == h \in DOMAIN d.table
IsA(d, h, kind) == Knows(d, h) /\ d.table[h].kind = kind

-----------------------------------------------------------------------------
(* The cache of views.                                                     *)

\* LOCK_SH of index.lock, held from the reading of commit_seq to the return.
Shared(d) ==
    {t \in Threads : /\ th[t].dir = d
                     /\ \/ pc[t] \in {"lookup", "open", "insert"}
                        \/ pc[t] = "closing" /\ th[t].next \in {"open", "search"}}

\* Entries nobody reads may be dropped for their age or by the size bound.
Idle(es, c) == {e \in {c[d] : d \in Domains} \ {0} : es[e].ref = 0}

Retired(es, S) == [e \in DOMAIN es |-> IF e \in S THEN [es[e] EXCEPT !.retired = TRUE] ELSE es[e]]
Dropped(c, S) == [d \in Domains |-> IF c[d] \in S THEN 0 ELSE c[d]]

\* The thread goes on to next, closing the entries of S first, under the lock.
Proceed(t, rec, S, next) ==
    IF S = {}
    THEN /\ pc' = [pc EXCEPT ![t] = next]
         /\ th' = [th EXCEPT ![t] = IF next = "idle" THEN Fresh ELSE rec]
         /\ lock' = {}
    ELSE /\ pc' = [pc EXCEPT ![t] = "closing"]
         /\ th' = [th EXCEPT ![t] = [rec EXCEPT !.closing = S, !.next = next]]
         /\ lock' = {t}

\* The object in the slot of handle h belongs to an entry other than e.
Robs(e, h) == {f \in DOMAIN entries :
                 f # e /\ Knows(Serving, h) /\ Serving.table[h].kind = "view"
                       /\ Serving.table[h].entry = f}
RobsJob(h) == Knows(Serving, h) /\ Serving.table[h].kind # "view"
MarkRobbed(es, S) == [e \in DOMAIN es |-> IF e \in S THEN [es[e] EXCEPT !.robbed = TRUE] ELSE es[e]]

\* _close_entry: one free request; whatever it raises is swallowed.
Close(t) ==
    /\ pc[t] = "closing"
    /\ \E e \in th[t].closing :
         LET h == entries[e].h IN
         /\ \/ /\ Replies(Without(Serving, h))
               /\ entries' = MarkRobbed([entries EXCEPT ![e].open = FALSE], Robs(e, h))
               /\ job' = [job EXCEPT !.robbed = @ \/ RobsJob(h)]
            \/ /\ Crashes \/ Refused
               /\ entries' = [entries EXCEPT ![e].open = FALSE]
               /\ UNCHANGED job
         /\ Proceed(t, [th[t] EXCEPT !.closing = {}], th[t].closing \ {e}, th[t].next)
    /\ UNCHANGED <<disk, cache, calls>>

-----------------------------------------------------------------------------
(* A search (search_fst).                                                  *)

Begin(t) ==
    /\ pc[t] = "idle" /\ CountCall
    /\ \E d \in Domains : th' = [th EXCEPT ![t] = [Fresh EXCEPT !.dir = d]]
    /\ pc' = [pc EXCEPT ![t] = "flock"]
    /\ UNCHANGED <<client, disk, store, lock, job>>

ReadSeq(t) ==
    /\ pc[t] = "flock"
    /\ job.pc = "idle" \/ job.dir # th[t].dir
    /\ th' = [th EXCEPT ![t].key = seq[th[t].dir]]
    /\ pc' = [pc EXCEPT ![t] = "lookup"]
    /\ UNCHANGED <<client, disk, store, lock, job, calls>>

\* The entry of this commit_seq, or a miss that retires the older one.
Lookup(t) ==
    /\ pc[t] = "lookup" /\ lock = {}
    /\ LET e == cache[th[t].dir] IN
         IF e # 0 /\ entries[e].key = th[t].key
         THEN LET es == [entries EXCEPT ![e].ref = @ + 1] IN
              \E S \in SUBSET Idle(es, cache) :
                 /\ entries' = Retired(es, S)
                 /\ cache' = Dropped(cache, S)
                 /\ Proceed(t, [th[t] EXCEPT !.entry = e], S, "search")
         ELSE LET S == {e} \ {0} IN
              /\ entries' = Retired(entries, S)
              /\ cache' = Dropped(cache, S)
              /\ Proceed(t, th[t], S \cap Idle(entries, cache), "open")
    /\ UNCHANGED <<client, disk, job, calls>>

\* After DafsaDaemonCrashed: evict and try once more, or give up.
AfterCrash(t) == IF th[t].attempt = 0 THEN "evict" ELSE "idle"
Leave(t, next) ==
    /\ pc' = [pc EXCEPT ![t] = next]
    /\ th' = [th EXCEPT ![t] = IF next = "idle" THEN Fresh ELSE th[t]]

\* Index(idx_dir): a load request for a view layered over the WAL.
Open(t) ==
    /\ pc[t] = "open"
    /\ LET h == NewHandle(Serving)
           new == [dir |-> th[t].dir, key |-> th[t].key, h |-> h, life |-> Serving.life,
                   ref |-> 1, retired |-> FALSE, open |-> TRUE, robbed |-> FALSE, lost |-> FALSE]
           e == Len(entries) + 1
       IN \/ /\ h # 0
             /\ Replies(With(Serving, h, [kind |-> "view", dir |-> th[t].dir, entry |-> e,
                                          folded |-> FALSE]))
             /\ entries' = Append(entries, new)
             /\ th' = [th EXCEPT ![t].entry = e]
             /\ pc' = [pc EXCEPT ![t] = "insert"]
          \/ /\ h = 0 /\ Replies(Serving) /\ Leave(t, "idle") /\ UNCHANGED entries
          \/ /\ Crashes /\ Leave(t, AfterCrash(t)) /\ UNCHANGED entries
          \/ /\ Refused /\ Leave(t, "idle") /\ UNCHANGED entries
    /\ UNCHANGED <<disk, cache, lock, job, calls>>

\* commit_seq is read again, but no writer commits while LOCK_SH is held.  The
\* entry that another thread inserted under the same key meanwhile is lost.
Insert(t) ==
    /\ pc[t] = "insert" /\ lock = {}
    /\ LET c == [cache EXCEPT ![th[t].dir] = th[t].entry]
           es == [e \in DOMAIN entries |->
                    IF e = cache[th[t].dir] THEN [entries[e] EXCEPT !.lost = TRUE] ELSE entries[e]]
       IN \E S \in SUBSET Idle(es, c) :
            /\ entries' = Retired(es, S)
            /\ cache' = Dropped(c, S)
            /\ Proceed(t, th[t], S, "search")
    /\ UNCHANGED <<client, disk, job, calls>>

\* prefix_enum.  The daemon checks that the handle is in use, not whose it is;
\* a WAL in the slot is read as if it were an automaton.
Search(t) ==
    /\ pc[t] = "search"
    /\ LET h == entries[th[t].entry].h IN
         \/ /\ Knows(Serving, h) /\ Replies(Serving)
            /\ th' = [th EXCEPT ![t].out = "answered", ![t].from = Serving.table[h].dir]
         \/ /\ IsA(Serving, h, "wal") /\ Replies(Serving)
            /\ th' = [th EXCEPT ![t].out = "failed"]
         \/ /\ ~Knows(Serving, h) /\ Replies(Serving)
            /\ th' = [th EXCEPT ![t].out = "failed"]
         \/ Crashes /\ th' = [th EXCEPT ![t].out = "crashed"]
         \/ Refused /\ th' = [th EXCEPT ![t].out = "failed"]
    /\ pc' = [pc EXCEPT ![t] = "release"]
    /\ UNCHANGED <<disk, store, lock, job, calls>>

\* Mutant: the last reader of a retired entry leaves it open.
ReleaseOnly(t) ==
    /\ pc[t] = "release" /\ lock = {}
    /\ LET e == th[t].entry IN
         /\ entries' = [entries EXCEPT ![e].ref = @ - 1]
         /\ Proceed(t, th[t], {}, IF th[t].out = "crashed" THEN AfterCrash(t) ELSE "idle")
    /\ UNCHANGED <<client, disk, cache, job, calls>>

\* Mutant: the reference is given back twice.
ReleaseTwice(t) ==
    /\ pc[t] = "release" /\ lock = {}
    /\ LET e == th[t].entry IN
         /\ entries' = [entries EXCEPT ![e].ref = @ - 2]
         /\ Proceed(t, th[t], {}, IF th[t].out = "crashed" THEN AfterCrash(t) ELSE "idle")
    /\ UNCHANGED <<client, disk, cache, job, calls>>

\* Mutant: the last reader closes an entry that is still cached.
ReleaseEarly(t) ==
    /\ pc[t] = "release" /\ lock = {}
    /\ LET e == th[t].entry IN
         /\ entries' = [entries EXCEPT ![e].ref = @ - 1]
         /\ Proceed(t, th[t], IF entries[e].ref = 1 THEN {e} ELSE {},
                    IF th[t].out = "crashed" THEN AfterCrash(t) ELSE "idle")
    /\ UNCHANGED <<client, disk, cache, job, calls>>

\* _release_entry: the last reader of a retired entry closes it.
Release(t) ==
    /\ pc[t] = "release" /\ lock = {}
    /\ LET e == th[t].entry
           last == entries[e].retired /\ entries[e].ref = 1
       IN /\ entries' = [entries EXCEPT ![e].ref = @ - 1]
          /\ Proceed(t, th[t], IF last THEN {e} ELSE {},
                     IF th[t].out = "crashed" THEN AfterCrash(t) ELSE "idle")
    /\ UNCHANGED <<client, disk, cache, job, calls>>

\* _evict_dir, of the directory whose search met the crash and of no other.
EvictDir(t) ==
    /\ pc[t] = "evict" /\ lock = {}
    /\ LET S == {cache[th[t].dir]} \ {0} IN
         /\ entries' = Retired(entries, S)
         /\ cache' = Dropped(cache, S)
         /\ Proceed(t, [Fresh EXCEPT !.dir = th[t].dir, !.attempt = 1],
                    S \cap Idle(entries, cache), "flock")
    /\ UNCHANGED <<client, disk, job, calls>>

-----------------------------------------------------------------------------
(* The writers: other processes, and the update tool of this one.          *)

\* Another process appends to the WAL of d and commits.
Commit(d) ==
    /\ CountCall
    /\ Shared(d) = {} /\ (job.pc = "idle" \/ job.dir # d)
    /\ wal' = [wal EXCEPT ![d] = TRUE]
    /\ base' = [base EXCEPT ![d].folded = FALSE]
    /\ seq' = [seq EXCEPT ![d] = @ + 1]
    /\ UNCHANGED <<client, store, lock, pc, th, job>>

Job(next) == job' = [job EXCEPT !.pc = next]
JobFails(next) == job' = [job EXCEPT !.pc = next, !.failed = TRUE]
JobOnly == UNCHANGED <<store, lock, pc, th, calls>>

\* _compact_locked under LOCK_EX; without a WAL it does nothing.
CompactBegins(d) ==
    /\ job.pc = "idle" /\ wal[d] /\ Shared(d) = {}
    /\ CountCall
    /\ job' = [NoJob EXCEPT !.pc = "load", !.dir = d]
    /\ UNCHANGED <<client, disk, store, lock, pc, th>>

\* Dafsa.load(readonly=False): an exception leaves before the with statement.
CompactLoads ==
    /\ job.pc = "load"
    /\ LET h == NewHandle(Serving) IN
         \/ /\ h # 0
            /\ Replies(With(Serving, h, [kind |-> "dafsa", dir |-> base[job.dir].dir,
                                         entry |-> 0, folded |-> base[job.dir].folded]))
            /\ job' = [job EXCEPT !.pc = "wal", !.h = h]
         \/ h = 0 /\ Replies(Serving) /\ job' = NoJob
         \/ (Crashes \/ Refused) /\ job' = NoJob
    /\ UNCHANGED disk /\ JobOnly

\* DafsaWal.open
CompactOpensWal ==
    /\ job.pc = "wal"
    /\ LET h == NewHandle(Serving) IN
         \/ /\ h # 0
            /\ Replies(With(Serving, h, [kind |-> "wal", dir |-> job.dir, entry |-> 0,
                                         folded |-> FALSE]))
            /\ job' = [job EXCEPT !.pc = "replay", !.walh = h]
         \/ h = 0 /\ Replies(Serving) /\ JobFails("free")
         \/ (Crashes \/ Refused) /\ JobFails("free")
    /\ UNCHANGED disk /\ JobOnly

\* replay_into turns every RuntimeError, DafsaDaemonCrashed among them, into -1,
\* which _compact_locked does not look at.
CompactReplays ==
    /\ job.pc = "replay"
    /\ LET h == job.h
           both == IsA(Serving, h, "dafsa") /\ IsA(Serving, job.walh, "wal")
       IN \/ /\ both
             /\ Replies(With(Serving, h, [Serving.table[h] EXCEPT !.folded = TRUE]))
             /\ job' = [job EXCEPT !.pc = "close", !.replay = "done"]
          \/ /\ both /\ Replies(Serving)
             /\ job' = [job EXCEPT !.pc = "close", !.replay = "error"]
          \/ /\ ~both /\ Replies(Serving)
             /\ job' = [job EXCEPT !.pc = "close", !.replay = "stale"]
          \/ /\ Crashes \/ Refused
             /\ job' = [job EXCEPT !.pc = "close", !.replay = "crash"]
    /\ UNCHANGED disk /\ JobOnly

\* A free request of the compaction: which entry it takes the slot from.
JobFree(h) ==
    /\ Replies(Without(Serving, h))
    /\ entries' = MarkRobbed(entries, Robs(0, h))
    /\ UNCHANGED <<cache, lock, pc, th, calls>>

\* wal.close(), in the finally clause.
CompactClosesWal ==
    /\ job.pc = "close"
    /\ \/ Knows(Serving, job.walh) /\ JobFree(job.walh) /\ Job("save")
       \/ ~Knows(Serving, job.walh) /\ Replies(Serving) /\ JobFails("free") /\ JobOnly
       \/ (Crashes \/ Refused) /\ JobFails("free") /\ JobOnly
    /\ UNCHANGED disk

Saved(obj) == base' = [base EXCEPT ![job.dir] = [dir |-> obj.dir, folded |-> obj.folded]]

\* Mutant: save takes whatever object the handle names.
CompactSavesAnything ==
    /\ job.pc = "save"
    /\ LET h == job.h IN
         \/ Knows(Serving, h) /\ Replies(Serving) /\ Saved(Serving.table[h]) /\ Job("free")
         \/ ~Knows(Serving, h) /\ Replies(Serving) /\ JobFails("free") /\ UNCHANGED base
         \/ (Crashes \/ Refused) /\ JobFails("free") /\ UNCHANGED base
    /\ UNCHANGED <<wal, seq>> /\ JobOnly

\* save: refused for a view.  A crash may come before or after the rename.
CompactSaves ==
    /\ job.pc = "save"
    /\ LET h == job.h IN
         \/ IsA(Serving, h, "dafsa") /\ Replies(Serving) /\ Saved(Serving.table[h]) /\ Job("free")
         \/ ~IsA(Serving, h, "dafsa") /\ Replies(Serving) /\ JobFails("free") /\ UNCHANGED base
         \/ IsA(Serving, h, "dafsa") /\ Crashes /\ Saved(Serving.table[h]) /\ JobFails("free")
         \/ (Crashes \/ Refused) /\ JobFails("free") /\ UNCHANGED base
    /\ UNCHANGED <<wal, seq>> /\ JobOnly

\* Dafsa.__exit__: its exception ends the compaction as well.
CompactFrees ==
    /\ job.pc = "free"
    /\ LET next == IF job.failed THEN NoJob ELSE [job EXCEPT !.pc = "unlink"] IN
         \/ Knows(Serving, job.h) /\ JobFree(job.h) /\ job' = next
         \/ ~Knows(Serving, job.h) /\ Replies(Serving) /\ job' = NoJob /\ JobOnly
         \/ (Crashes \/ Refused) /\ job' = NoJob /\ JobOnly
    /\ UNCHANGED disk

\* The WAL goes, and commit_seq moves on.
CompactCommits ==
    /\ job.pc = "unlink"
    /\ wal' = [wal EXCEPT ![job.dir] = FALSE]
    /\ seq' = [seq EXCEPT ![job.dir] = @ + 1]
    /\ job' = NoJob
    /\ UNCHANGED <<client, base>> /\ JobOnly

-----------------------------------------------------------------------------
Searching(t) ==
    \/ ReadSeq(t) \/ Lookup(t) \/ Open(t) \/ Insert(t) \/ Search(t)
    \/ Release(t) \/ EvictDir(t) \/ Close(t)

Compacting ==
    \/ CompactLoads \/ CompactOpensWal \/ CompactReplays \/ CompactClosesWal
    \/ CompactSaves \/ CompactFrees \/ CompactCommits

Next ==
    \/ \E t \in Threads : Begin(t) \/ Searching(t)
    \/ Compacting
    \/ \E d \in Domains : CompactBegins(d) \/ Commit(d)
    \/ Dies

Spec == Init /\ [][Next]_vars

-----------------------------------------------------------------------------
(* What the users of the daemon rely on.                                   *)

\* A handle of the running daemon names the view it was given out for, until
\* a free through somebody else's handle takes the slot away (robbed).
HandlesAreExact ==
    daemon.alive =>
        \A e \in DOMAIN entries :
            LET v == entries[e] IN
            v.open /\ v.life = daemon.life /\ ~v.robbed =>
                /\ Knows(daemon, v.h)
                /\ daemon.table[v.h].kind = "view" /\ daemon.table[v.h].entry = e

\* Only a handle that outlived its daemon can take a slot from another entry,
\* or be answered from the index of another directory.
NoMixingInFirstLife ==
    daemon.life <= 1 =>
        /\ ~job.robbed /\ \A e \in DOMAIN entries : ~entries[e].robbed
        /\ \A t \in Threads : th[t].out = "answered" => th[t].from = th[t].dir

\* "keep long-running servers from leaking mmaps": a view in the table can be
\* found from the cache, from a thread that reads it or is about to close it.
\* The exception is the entry that a second insertion of its key overwrote.
Reachable(e) ==
    \/ \E d \in Domains : cache[d] = e
    \/ \E t \in Threads : th[t].entry = e \/ e \in th[t].closing
SlotsAreOwned ==
    \A h \in DOMAIN daemon.table :
        LET obj == daemon.table[h] IN
        CASE obj.kind = "view" -> Reachable(obj.entry) \/ entries[obj.entry].lost
          [] OTHER -> job.pc # "idle"

\* A compaction removes the WAL only after index.fst holds its own directory's
\* index with the WAL folded in: a crash that replay_into swallowed never leads
\* there.  The exceptions are a failed replay that the daemon reported, and a
\* stale handle of a search that took a slot from the compaction.
CompactionKeepsItsIndex ==
    job.pc = "unlink" =>
        /\ base[job.dir].dir = job.dir
        /\ base[job.dir].folded \/ job.replay = "error" \/ job.robbed

\* The comment of _evict_dir takes a stale handle for one "the new daemon
\* doesn't know": a search of a directory is answered from its own index.
AnswersComeFromTheirIndex ==
    \A t \in Threads : th[t].out = "answered" => th[t].from = th[t].dir
=============================================================================
