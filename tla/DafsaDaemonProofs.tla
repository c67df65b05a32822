-------------------------- MODULE DafsaDaemonProofs -------------------------
(***************************************************************************)
(* The handle table under crashes and silent restarts, the cache above it  *)
(* and the compaction beside it, for every set of directories, every       *)
(* finite set of threads and all bounds.                                   *)
(***************************************************************************)
EXTENDS DafsaDaemon, FiniteSetTheorems, SequenceTheorems, WellFoundedInduction, TLAPS

-----------------------------------------------------------------------------
(* The inductive invariant: types.                                         *)

Pcs == {"idle", "flock", "lookup", "open", "insert", "search", "release", "evict", "closing"}
Nexts == {"idle", "open", "search", "evict", "flock"}
Outs == {"none", "answered", "failed", "crashed"}
JobPcs == {"idle", "load", "wal", "replay", "close", "save", "free", "unlink"}
Replays == {"none", "done", "error", "stale", "crash"}

Tables == UNION {[S -> Objects] : S \in SUBSET Handles}
Daemons == [alive : BOOLEAN, life : Nat, table : Tables]
Entry == [dir : Domains, key : Seqs, h : Handles, life : Nat, ref : Nat,
          retired : BOOLEAN, open : BOOLEAN, robbed : BOOLEAN, lost : BOOLEAN]
Local == [dir : Domains, key : Seqs, entry : Nat, attempt : Nat, closing : SUBSET Nat,
          next : Nexts, out : Outs, from : Domains]
Jobs == [pc : JobPcs, dir : Domains, h : Nat, walh : Nat, replay : Replays,
         failed : BOOLEAN, robbed : BOOLEAN]
Bases == [dir : Domains, folded : BOOLEAN]
Entries == 1..Len(entries)

-----------------------------------------------------------------------------
(* The threads and the cache.                                              *)

Holds(t, e) ==
    /\ th[t].entry = e
    /\ \/ pc[t] \in {"insert", "search", "release"}
       \/ pc[t] = "closing" /\ th[t].next = "search"
Holders(e) == {t \in Threads : Holds(t, e)}
Inserts(t, e) == pc[t] = "insert" /\ th[t].entry = e
Cached(e) == \E d \in Domains : cache[d] = e

\* Only the thread inside the lock closes entries: retired ones that nobody
\* reads or can find.
LockOK ==
    /\ lock \in SUBSET Threads
    /\ \A t, u \in lock : t = u
    /\ \A t \in Threads : pc[t] = "closing" <=> t \in lock
    /\ \A t \in Threads : pc[t] # "closing" => th[t].closing = {}
ClosingOK(t) ==
    \A e \in th[t].closing :
        /\ e \in Entries /\ entries[e].open /\ entries[e].retired
        /\ ~Cached(e) /\ Holders(e) = {}

CacheOK ==
    /\ cache \in [Domains -> 0..Len(entries)]
    /\ \A d \in Domains : cache[d] # 0 =>
         LET e == entries[cache[d]] IN e.dir = d /\ e.open /\ ~e.retired

\* A view that is not yet in the cache is its thread's own.
ThreadOK(t) ==
    /\ th[t].entry <= Len(entries)
    /\ \A e : Holds(t, e) => e # 0 /\ entries[e].dir = th[t].dir
    /\ pc[t] = "insert" =>
         LET e == th[t].entry IN
         /\ ~Cached(e) /\ ~entries[e].retired
         /\ \A u \in Threads : u # t => ~Holds(u, e)

\* Who is answerable for an open entry: the cache, those who hold it and will
\* close or publish it, the thread that is closing it; or it was overwritten.
Owned(e) ==
    \/ Cached(e) \/ entries[e].lost
    \/ Holders(e) # {} /\ entries[e].retired
    \/ \E t \in Threads : Inserts(t, e)
    \/ \E t \in Threads : e \in th[t].closing
EntryOK(e) ==
    /\ entries[e].ref = Cardinality(Holders(e))
    /\ Holders(e) # {} => entries[e].open
    /\ entries[e].open => Owned(e)

StoreOK ==
    /\ entries \in Seq(Entry)
    /\ pc \in [Threads -> Pcs] /\ th \in [Threads -> Local]
    /\ LockOK /\ CacheOK
    /\ \A t \in Threads : ThreadOK(t) /\ ClosingOK(t)
    /\ \A e \in Entries : EntryOK(e)

-----------------------------------------------------------------------------
(* The daemon that is running, or that the next request starts.            *)

Loaded == {"wal", "replay", "close", "save", "free"}
WithWal == {"replay", "close"}

\* A view in the table belongs to an open entry of this life.
ViewOK(d, h) ==
    d.table[h].kind = "view" =>
        LET e == d.table[h].entry IN
        /\ e \in Entries /\ entries[e].open
        /\ entries[e].h = h /\ entries[e].life = d.life
        /\ entries[e].dir = d.table[h].dir

\* An automaton or a WAL in the table is the compaction's.
JobSlotOK(d, h) ==
    /\ d.table[h].kind = "dafsa" =>
         /\ h = job.h /\ job.pc \in Loaded /\ d.table[h].dir = job.dir
         /\ job.pc = "replay" => job.robbed \/ IsA(d, job.walh, "wal")
         /\ job.pc \in {"close", "save"} =>
              \/ job.replay = "done" /\ d.table[h].folded
              \/ job.replay = "error" \/ job.robbed
    /\ d.table[h].kind = "wal" => h = job.walh /\ job.pc \in WithWal

HandleOK(d, e) ==
    d.alive /\ entries[e].open /\ entries[e].life = d.life /\ ~entries[e].robbed =>
        IsA(d, entries[e].h, "view") /\ d.table[entries[e].h].entry = e

\* Before the first restart every handle is good.
FirstLifeOK(d) ==
    d.life <= 1 =>
        /\ ~job.robbed /\ \A e \in Entries : ~entries[e].robbed
        /\ d.alive /\ job.pc \in Loaded => IsA(d, job.h, "dafsa")
        /\ d.alive /\ job.pc \in WithWal => IsA(d, job.walh, "wal")

TableOK(d) ==
    /\ d \in Daemons
    /\ \A h \in DOMAIN d.table : ViewOK(d, h) /\ JobSlotOK(d, h)
    /\ \A e \in Entries : HandleOK(d, e) /\ entries[e].life \in 1..d.life
    /\ job.pc \in Loaded => d.life >= 1
    /\ FirstLifeOK(d)

AnswersOK ==
    daemon.life <= 1 => \A t \in Threads : th[t].out = "answered" => th[t].from = th[t].dir

ClientOK ==
    /\ attached \in BOOLEAN /\ faults \in 0..MaxFaults
    /\ daemon.life + (IF attached /\ daemon.alive THEN 0 ELSE 1) <= faults + 1
    /\ daemon.alive => daemon.life >= 1
    /\ TableOK(daemon) /\ AnswersOK

-----------------------------------------------------------------------------
(* The files and the compaction.                                           *)

Active(d) == IF job.pc # "idle" /\ job.dir = d THEN 1 ELSE 0

DiskOK ==
    /\ job \in Jobs
    /\ wal \in [Domains -> BOOLEAN] /\ base \in [Domains -> Bases]
    /\ seq \in [Domains -> Nat] /\ calls \in 0..MaxCalls
    /\ \A d \in Domains : base[d].dir = d /\ seq[d] + Active(d) <= calls
    /\ job.failed => job.pc = "free"
    /\ (job.pc = "free" /\ ~job.failed) \/ job.pc = "unlink" =>
         base[job.dir].folded \/ job.replay = "error" \/ job.robbed

IInv == StoreOK /\ ClientOK /\ DiskOK

-----------------------------------------------------------------------------
(* The handle table.                                                       *)

Less == {p \in Nat \X Nat : p[1] < p[2]}

LEMMA LeastElement ==
  ASSUME NEW S \in SUBSET Nat, S # {}
  PROVE  \E m \in S : \A x \in S : m <= x
<1>1. IsWellFoundedOn(Less, Nat)
  BY NatLessThanWellFounded DEF OpToRel, Less
<1>2. PICK m \in S : \A x \in S : ~(<<x, m>> \in Less)
  BY <1>1, WFMin
<1>3. ASSUME NEW x \in S
      PROVE  m <= x
  <2>1. m \in Nat /\ x \in Nat /\ ~(x < m)
    BY <1>2 DEF Less
  <2> QED BY <2>1
<1> QED BY <1>2, <1>3

LEMMA NewHandleIsFree ==
  ASSUME NEW d
  PROVE  NewHandle(d) = 0 \/ NewHandle(d) \in Handles \ DOMAIN d.table
<1> DEFINE free == Handles \ DOMAIN d.table
<1>1. CASE free = {}
  BY <1>1 DEF NewHandle
<1>2. CASE free # {}
  <2>1. free \in SUBSET Nat
    BY DaemonBounds DEF Handles
  <2> HIDE DEF free
  <2>2. \E m \in free : \A x \in free : m <= x
    BY <1>2, <2>1, LeastElement
  <2> QED BY <1>2, <2>2 DEF NewHandle, free
<1> QED BY <1>1, <1>2

LEMMA TableFacts ==
  ASSUME NEW d \in Daemons
  PROVE  /\ DOMAIN d.table \subseteq Handles
         /\ \A h \in DOMAIN d.table : d.table[h] \in Objects
         /\ d.alive \in BOOLEAN /\ d.life \in Nat
BY DEF Daemons, Tables

WithAs(n, d, h, obj) ==
    /\ n \in Daemons /\ n.alive = d.alive /\ n.life = d.life
    /\ DOMAIN n.table = DOMAIN d.table \cup {h}
    /\ n.table[h] = obj
    /\ \A g \in DOMAIN d.table : g # h => n.table[g] = d.table[g]

LEMMA WithFacts ==
  ASSUME NEW d \in Daemons, NEW h \in Handles, NEW obj \in Objects
  PROVE  WithAs(With(d, h, obj), d, h, obj)
<1> DEFINE T == [g \in DOMAIN d.table \cup {h} |-> IF g = h THEN obj ELSE d.table[g]]
<1>1. T \in [DOMAIN d.table \cup {h} -> Objects] /\ DOMAIN d.table \cup {h} \subseteq Handles
  BY TableFacts
<1>2. T \in Tables
  BY <1>1 DEF Tables
<1>3. /\ DOMAIN T = DOMAIN d.table \cup {h} /\ T[h] = obj
      /\ \A g \in DOMAIN d.table : g # h => T[g] = d.table[g]
  OBVIOUS
<1>4. With(d, h, obj) = [d EXCEPT !.table = T]
  BY DEF With
<1> HIDE DEF T
<1>5. /\ With(d, h, obj) \in Daemons /\ With(d, h, obj).alive = d.alive
      /\ With(d, h, obj).life = d.life /\ With(d, h, obj).table = T
  BY <1>2, <1>4 DEF Daemons
<1> QED BY <1>3, <1>5 DEF WithAs

WithoutAs(n, d, h) ==
    /\ n \in Daemons /\ n.alive = d.alive /\ n.life = d.life
    /\ DOMAIN n.table = DOMAIN d.table \ {h}
    /\ \A g \in DOMAIN d.table : g # h => n.table[g] = d.table[g]

LEMMA WithoutFacts ==
  ASSUME NEW d \in Daemons, NEW h
  PROVE  WithoutAs(Without(d, h), d, h)
<1> DEFINE T == [g \in DOMAIN d.table \ {h} |-> d.table[g]]
<1>1. T \in [DOMAIN d.table \ {h} -> Objects] /\ DOMAIN d.table \ {h} \subseteq Handles
  BY TableFacts
<1>2. T \in Tables
  BY <1>1 DEF Tables
<1>3. /\ DOMAIN T = DOMAIN d.table \ {h}
      /\ \A g \in DOMAIN d.table : g # h => T[g] = d.table[g]
  OBVIOUS
<1>4. Without(d, h) = [d EXCEPT !.table = T]
  BY DEF Without
<1> HIDE DEF T
<1>5. /\ Without(d, h) \in Daemons /\ Without(d, h).alive = d.alive
      /\ Without(d, h).life = d.life /\ Without(d, h).table = T
  BY <1>2, <1>4 DEF Daemons
<1> QED BY <1>3, <1>5 DEF WithoutAs

LEMMA EmptyFacts == Empty \in Tables /\ DOMAIN Empty = {}
<1>1. DOMAIN Empty = {}
  BY DEF Empty
<1>2. Empty \in [{} -> Objects]
  BY DEF Empty
<1>3. {} \in SUBSET Handles
  OBVIOUS
<1> QED BY <1>1, <1>2, <1>3 DEF Tables

\* A daemon that is started knows nothing and has a life of its own.
LEMMA ServingFacts ==
  ASSUME ClientOK
  PROVE  /\ Serving.alive /\ Serving.life >= daemon.life /\ Serving.life <= faults + 1
         /\ Serving.life \in Nat /\ Serving.life >= 1
         /\ TableOK(Serving)
<1>1. daemon \in Daemons /\ daemon.life \in Nat /\ daemon.alive \in BOOLEAN
  BY TableFacts DEF ClientOK, TableOK
<1>2. attached \in BOOLEAN /\ faults \in Nat
  BY DaemonBounds DEF ClientOK
<1>3. CASE attached /\ daemon.alive
  <2>1. Serving = daemon
    BY <1>3 DEF Serving
  <2>2. daemon.life <= faults + 1
    BY <1>1, <1>2, <1>3 DEF ClientOK
  <2>3. TableOK(daemon)
    BY DEF ClientOK
  <2>4. daemon.life >= 1
    BY <1>1, <1>3 DEF ClientOK
  <2> QED BY <1>1, <1>3, <2>1, <2>2, <2>3, <2>4
<1>4. CASE ~(attached /\ daemon.alive)
  <2> DEFINE d == Serving
  <2>1. d = [alive |-> TRUE, life |-> daemon.life + 1, table |-> Empty]
    BY <1>4 DEF Serving
  <2>2. /\ d \in Daemons /\ d.alive /\ d.life = daemon.life + 1 /\ d.table = Empty
    BY <1>1, <2>1, EmptyFacts DEF Daemons
  <2> HIDE DEF d
  <2>3. daemon.life + 1 <= faults + 1
    BY <1>1, <1>2, <1>4 DEF ClientOK
  <2>4. ASSUME NEW e \in Entries
        PROVE  entries[e].life \in 1..d.life /\ entries[e].life # d.life
    BY <1>1, <2>2 DEF ClientOK, TableOK
  <2>5. \A e \in Entries : HandleOK(d, e) /\ entries[e].life \in 1..d.life
    BY <2>4 DEF HandleOK
  <2>6. job.pc \in Loaded => d.life >= 2
    BY <1>1, <2>2 DEF ClientOK, TableOK
  <2>7. FirstLifeOK(d)
    <3>1. CASE d.life <= 1
      <4>1. daemon.life <= 1 /\ job.pc \notin Loaded /\ WithWal \subseteq Loaded
        BY <1>1, <2>2, <2>6, <3>1 DEF WithWal, Loaded
      <4> QED BY <4>1 DEF ClientOK, TableOK, FirstLifeOK
    <3>2. CASE ~(d.life <= 1)
      BY <3>2 DEF FirstLifeOK
    <3> QED BY <3>1, <3>2
  <2>8. TableOK(d)
    BY <1>1, <2>2, <2>5, <2>6, <2>7, EmptyFacts DEF TableOK
  <2> QED BY <1>1, <1>2, <2>2, <2>3, <2>8 DEF d
<1> QED BY <1>3, <1>4

-----------------------------------------------------------------------------
(* The operators on entries.                                               *)

LEMMA FunctionIsSeq ==
  ASSUME NEW S, NEW n \in Nat, NEW f \in [1..n -> S]
  PROVE  f \in Seq(S) /\ Len(f) = n
OBVIOUS

LEMMA EntryFacts ==
  ASSUME NEW es \in Seq(Entry)
  PROVE  Len(es) \in Nat /\ DOMAIN es = 1..Len(es) /\ \A e \in 1..Len(es) : es[e] \in Entry
OBVIOUS

RetiredAs(R, es, S) ==
    /\ R \in Seq(Entry) /\ Len(R) = Len(es)
    /\ \A e \in 1..Len(es) :
         /\ R[e].dir = es[e].dir /\ R[e].h = es[e].h /\ R[e].life = es[e].life
         /\ R[e].open = es[e].open /\ R[e].robbed = es[e].robbed /\ R[e].lost = es[e].lost
         /\ R[e].ref = es[e].ref
         /\ R[e].retired <=> es[e].retired \/ e \in S

LEMMA RetiredFacts ==
  ASSUME NEW es \in Seq(Entry), NEW S
  PROVE  RetiredAs(Retired(es, S), es, S)
<1> DEFINE R == Retired(es, S)
           n == Len(es)
<1>1. n \in Nat /\ DOMAIN es = 1..n /\ \A e \in 1..n : es[e] \in Entry
  BY EntryFacts
<1>2. R = [e \in 1..n |-> IF e \in S THEN [es[e] EXCEPT !.retired = TRUE] ELSE es[e]]
  BY <1>1 DEF Retired
<1>3. ASSUME NEW e \in 1..n
      PROVE  R[e] \in Entry
  <2>1. es[e] \in Entry
    BY <1>1
  <2>2. [es[e] EXCEPT !.retired = TRUE] \in Entry
    BY <2>1 DEF Entry
  <2>3. R[e] \in {es[e], [es[e] EXCEPT !.retired = TRUE]}
    BY <1>2
  <2> QED BY <2>1, <2>2, <2>3
<1>4. R \in Seq(Entry) /\ Len(R) = n
  <2>1. R \in [1..n -> Entry]
    BY <1>2, <1>3
  <2> QED BY <1>1, <2>1, FunctionIsSeq
<1>5. ASSUME NEW e \in 1..n
      PROVE  /\ R[e].dir = es[e].dir /\ R[e].h = es[e].h /\ R[e].life = es[e].life
             /\ R[e].open = es[e].open /\ R[e].robbed = es[e].robbed /\ R[e].lost = es[e].lost
             /\ R[e].ref = es[e].ref
             /\ R[e].retired <=> es[e].retired \/ e \in S
  BY <1>1, <1>2 DEF Entry
<1> QED BY <1>4, <1>5 DEF RetiredAs

RobbedAs(R, es, S) ==
    /\ R \in Seq(Entry) /\ Len(R) = Len(es)
    /\ \A e \in 1..Len(es) :
         /\ R[e].dir = es[e].dir /\ R[e].h = es[e].h /\ R[e].life = es[e].life
         /\ R[e].open = es[e].open /\ R[e].retired = es[e].retired /\ R[e].lost = es[e].lost
         /\ R[e].ref = es[e].ref
         /\ R[e].robbed <=> es[e].robbed \/ e \in S

LEMMA MarkRobbedFacts ==
  ASSUME NEW es \in Seq(Entry), NEW S
  PROVE  RobbedAs(MarkRobbed(es, S), es, S)
<1> DEFINE R == MarkRobbed(es, S)
           n == Len(es)
<1>1. n \in Nat /\ DOMAIN es = 1..n /\ \A e \in 1..n : es[e] \in Entry
  BY EntryFacts
<1>2. R = [e \in 1..n |-> IF e \in S THEN [es[e] EXCEPT !.robbed = TRUE] ELSE es[e]]
  BY <1>1 DEF MarkRobbed
<1>3. ASSUME NEW e \in 1..n
      PROVE  R[e] \in Entry
  <2>1. es[e] \in Entry
    BY <1>1
  <2>2. [es[e] EXCEPT !.robbed = TRUE] \in Entry
    BY <2>1 DEF Entry
  <2>3. R[e] \in {es[e], [es[e] EXCEPT !.robbed = TRUE]}
    BY <1>2
  <2> QED BY <2>1, <2>2, <2>3
<1>4. R \in Seq(Entry) /\ Len(R) = n
  <2>1. R \in [1..n -> Entry]
    BY <1>2, <1>3
  <2> QED BY <1>1, <2>1, FunctionIsSeq
<1>5. ASSUME NEW e \in 1..n
      PROVE  /\ R[e].dir = es[e].dir /\ R[e].h = es[e].h /\ R[e].life = es[e].life
             /\ R[e].open = es[e].open /\ R[e].retired = es[e].retired /\ R[e].lost = es[e].lost
             /\ R[e].ref = es[e].ref
             /\ R[e].robbed <=> es[e].robbed \/ e \in S
  BY <1>1, <1>2 DEF Entry
<1> QED BY <1>4, <1>5 DEF RobbedAs

\* The entry that an insertion overwrites.
Overwritten(es, o) ==
    [e \in DOMAIN es |-> IF e = o THEN [es[e] EXCEPT !.lost = TRUE] ELSE es[e]]

OverwrittenAs(R, es, o) ==
    /\ R \in Seq(Entry) /\ Len(R) = Len(es)
    /\ \A e \in 1..Len(es) :
         /\ R[e].dir = es[e].dir /\ R[e].h = es[e].h /\ R[e].life = es[e].life
         /\ R[e].open = es[e].open /\ R[e].retired = es[e].retired
         /\ R[e].robbed = es[e].robbed /\ R[e].ref = es[e].ref
         /\ R[e].lost <=> es[e].lost \/ e = o

LEMMA OverwrittenFacts ==
  ASSUME NEW es \in Seq(Entry), NEW o
  PROVE  OverwrittenAs(Overwritten(es, o), es, o)
<1> DEFINE R == Overwritten(es, o)
           n == Len(es)
<1>1. n \in Nat /\ DOMAIN es = 1..n /\ \A e \in 1..n : es[e] \in Entry
  BY EntryFacts
<1>2. R = [e \in 1..n |-> IF e = o THEN [es[e] EXCEPT !.lost = TRUE] ELSE es[e]]
  BY <1>1 DEF Overwritten
<1>3. ASSUME NEW e \in 1..n
      PROVE  R[e] \in Entry
  <2>1. es[e] \in Entry
    BY <1>1
  <2>2. [es[e] EXCEPT !.lost = TRUE] \in Entry
    BY <2>1 DEF Entry
  <2>3. R[e] \in {es[e], [es[e] EXCEPT !.lost = TRUE]}
    BY <1>2
  <2> QED BY <2>1, <2>2, <2>3
<1>4. R \in Seq(Entry) /\ Len(R) = n
  <2>1. R \in [1..n -> Entry]
    BY <1>2, <1>3
  <2> QED BY <1>1, <2>1, FunctionIsSeq
<1>5. ASSUME NEW e \in 1..n
      PROVE  /\ R[e].dir = es[e].dir /\ R[e].h = es[e].h /\ R[e].life = es[e].life
             /\ R[e].open = es[e].open /\ R[e].retired = es[e].retired
             /\ R[e].robbed = es[e].robbed /\ R[e].ref = es[e].ref
             /\ R[e].lost <=> es[e].lost \/ e = o
  BY <1>1, <1>2 DEF Entry
<1> QED BY <1>4, <1>5 DEF OverwrittenAs

\* A new refcount, or the closing, of one entry.
RefAs(R, es, o, k) ==
    /\ R \in Seq(Entry) /\ Len(R) = Len(es)
    /\ \A e \in 1..Len(es) :
         /\ R[e].dir = es[e].dir /\ R[e].h = es[e].h /\ R[e].life = es[e].life
         /\ R[e].open = es[e].open /\ R[e].retired = es[e].retired
         /\ R[e].robbed = es[e].robbed /\ R[e].lost = es[e].lost
         /\ R[e].ref = IF e = o THEN k ELSE es[e].ref

LEMMA RefFacts ==
  ASSUME NEW es \in Seq(Entry), NEW o \in 1..Len(es), NEW k \in Nat
  PROVE  RefAs([es EXCEPT ![o].ref = k], es, o, k)
<1>1. es[o] \in Entry
  OBVIOUS
<1> DEFINE r == [es[o] EXCEPT !.ref = k]
<1>2. /\ r \in Entry /\ r.dir = es[o].dir /\ r.h = es[o].h /\ r.life = es[o].life
      /\ r.open = es[o].open /\ r.retired = es[o].retired /\ r.robbed = es[o].robbed
      /\ r.lost = es[o].lost /\ r.ref = k
  BY <1>1 DEF Entry
<1>3. [es EXCEPT ![o].ref = k] = [es EXCEPT ![o] = r]
  OBVIOUS
<1> HIDE DEF r
<1>4. [es EXCEPT ![o] = r] \in Seq(Entry) /\ Len([es EXCEPT ![o] = r]) = Len(es)
  BY <1>2
<1>5. \A e \in 1..Len(es) : [es EXCEPT ![o] = r][e] = IF e = o THEN r ELSE es[e]
  OBVIOUS
<1> QED BY <1>2, <1>3, <1>4, <1>5 DEF RefAs

ClosedAs(R, es, o) ==
    /\ R \in Seq(Entry) /\ Len(R) = Len(es)
    /\ \A e \in 1..Len(es) :
         /\ R[e].dir = es[e].dir /\ R[e].h = es[e].h /\ R[e].life = es[e].life
         /\ R[e].ref = es[e].ref /\ R[e].retired = es[e].retired
         /\ R[e].robbed = es[e].robbed /\ R[e].lost = es[e].lost
         /\ R[e].open <=> es[e].open /\ e # o

LEMMA ClosedFacts ==
  ASSUME NEW es \in Seq(Entry), NEW o \in 1..Len(es)
  PROVE  ClosedAs([es EXCEPT ![o].open = FALSE], es, o)
<1>1. es[o] \in Entry /\ \A e \in 1..Len(es) : es[e] \in Entry
  OBVIOUS
<1> DEFINE r == [es[o] EXCEPT !.open = FALSE]
<1>2. /\ r \in Entry /\ r.dir = es[o].dir /\ r.h = es[o].h /\ r.life = es[o].life
      /\ r.ref = es[o].ref /\ r.retired = es[o].retired /\ r.robbed = es[o].robbed
      /\ r.lost = es[o].lost /\ r.open = FALSE
  BY <1>1 DEF Entry
<1>3. [es EXCEPT ![o].open = FALSE] = [es EXCEPT ![o] = r]
  OBVIOUS
<1> HIDE DEF r
<1>4. [es EXCEPT ![o] = r] \in Seq(Entry) /\ Len([es EXCEPT ![o] = r]) = Len(es)
  BY <1>2
<1>5. \A e \in 1..Len(es) : [es EXCEPT ![o] = r][e] = IF e = o THEN r ELSE es[e]
  OBVIOUS
<1> QED BY <1>1, <1>2, <1>3, <1>4, <1>5 DEF ClosedAs

-----------------------------------------------------------------------------
(* What the steps of the threads have in common.                           *)

LEMMA FreshFacts ==
  /\ Somewhere \in Domains
  /\ Fresh \in Local /\ Fresh.entry = 0 /\ Fresh.closing = {} /\ Fresh.out = "none"
<1>1. Somewhere \in Domains
  BY DaemonBounds DEF Somewhere
<1>2. 0 \in Seqs
  BY DaemonBounds DEF Seqs
<1> QED BY <1>1, <1>2 DEF Fresh, Local, Nexts, Outs

\* What nobody but t holds more or less of.
LEMMA HoldersOf ==
  ASSUME NEW t \in Threads, NEW e,
         \A u \in Threads : u # t => pc'[u] = pc[u] /\ th'[u] = th[u]
  PROVE  /\ IsFiniteSet(Holders(e)) /\ Cardinality(Holders(e)) \in Nat
         /\ (Holds(t, e)' <=> Holds(t, e)) => Holders(e)' = Holders(e)
         /\ Holds(t, e)' => Holders(e)' = Holders(e) \cup {t}
         /\ ~Holds(t, e)' => Holders(e)' = Holders(e) \ {t}
         /\ Holds(t, e) <=> t \in Holders(e)
<1>1. IsFiniteSet(Holders(e))
  BY DaemonBounds, FS_Subset DEF Holders
<1>2. Cardinality(Holders(e)) \in Nat
  BY <1>1, FS_CardinalityType
<1>3. \A u \in Threads : u # t => (Holds(u, e)' <=> Holds(u, e))
  BY DEF Holds
<1> QED BY <1>1, <1>2, <1>3 DEF Holders

LEMMA RefCounts ==
  ASSUME StoreOK, NEW e \in Entries
  PROVE  /\ IsFiniteSet(Holders(e))
         /\ entries[e].ref = Cardinality(Holders(e)) /\ entries[e].ref \in Nat
         /\ entries[e].ref = 0 <=> Holders(e) = {}
         /\ \A t \in Threads : Holds(t, e) => entries[e].ref >= 1 /\ entries[e].open
<1>1. IsFiniteSet(Holders(e))
  BY DaemonBounds, FS_Subset DEF Holders
<1>2. Cardinality(Holders(e)) \in Nat
  BY <1>1, FS_CardinalityType
<1>3. Cardinality(Holders(e)) = 0 <=> Holders(e) = {}
  BY <1>1, FS_EmptySet
<1>4. EntryOK(e)
  BY DEF StoreOK
<1>5. \A t \in Threads : Holds(t, e) => Holders(e) # {}
  BY DEF Holders
<1> QED BY <1>1, <1>2, <1>3, <1>4, <1>5 DEF EntryOK

\* The job's steps: the entries are what they were, but for thefts.
LEMMA StoreFrame ==
  ASSUME StoreOK, UNCHANGED <<cache, lock, pc, th>>,
         entries' \in Seq(Entry), Len(entries') = Len(entries),
         \A e \in Entries :
           /\ entries'[e].dir = entries[e].dir /\ entries'[e].open = entries[e].open
           /\ entries'[e].retired = entries[e].retired /\ entries'[e].lost = entries[e].lost
           /\ entries'[e].ref = entries[e].ref
  PROVE  StoreOK'
<1>0. /\ Len(entries) \in Nat /\ Entries' = Entries
      /\ \A e : (Holders(e)' = Holders(e)) /\ (Cached(e)' <=> Cached(e))
      /\ \A t, e : Holds(t, e)' <=> Holds(t, e)
  BY DEF StoreOK, Entries, Holders, Holds, Cached
<1>1. LockOK'
  BY DEF StoreOK, LockOK
<1>2. CacheOK'
  <2>1. \A d \in Domains : cache[d] # 0 => cache[d] \in Entries
    BY DEF StoreOK, CacheOK, Entries
  <2> QED BY <2>1 DEF StoreOK, CacheOK
<1>3. ASSUME NEW t \in Threads
      PROVE  ThreadOK(t)' /\ ClosingOK(t)'
  <2>1. ThreadOK(t) /\ ClosingOK(t) /\ th[t] \in Local
    BY DEF StoreOK
  <2>2. ThreadOK(t)'
    <3>1. th[t].entry \in 0..Len(entries)
      BY <1>0, <2>1 DEF ThreadOK, Local
    <3>2. \A e : Holds(t, e) => e \in Entries
      BY <1>0, <2>1, <3>1 DEF ThreadOK, Holds, Entries
    <3>3. pc[t] = "insert" => th[t].entry \in Entries
      BY <3>2 DEF Holds
    <3> QED BY <1>0, <2>1, <3>2, <3>3 DEF ThreadOK
  <2>3. ClosingOK(t)'
    BY <1>0, <2>1 DEF ClosingOK
  <2> QED BY <2>2, <2>3
<1>4. ASSUME NEW e \in Entries
      PROVE  EntryOK(e)'
  <2>1. EntryOK(e)
    BY DEF StoreOK
  <2>2. Owned(e) => Owned(e)'
    BY <1>0 DEF Owned, Inserts
  <2> QED BY <1>0, <2>1, <2>2 DEF EntryOK
<1> QED BY <1>0, <1>1, <1>2, <1>3, <1>4 DEF StoreOK

\* A step of t that touches neither the cache nor what t holds.
LEMMA LocalStep ==
  ASSUME StoreOK, NEW t \in Threads, UNCHANGED <<store, lock>>,
         NEW p \in Pcs, NEW l \in Local,
         pc' = [pc EXCEPT ![t] = p], th' = [th EXCEPT ![t] = l],
         {p, pc[t]} \cap {"closing", "insert"} = {},
         l.closing = {}, l.entry <= Len(entries),
         \A e : Holds(t, e)' <=> Holds(t, e),
         (\E e : Holds(t, e)) => l.dir = th[t].dir
  PROVE  StoreOK'
<1>0. /\ pc' \in [Threads -> Pcs] /\ th' \in [Threads -> Local]
      /\ pc'[t] = p /\ th'[t] = l
      /\ \A u \in Threads : u # t => pc'[u] = pc[u] /\ th'[u] = th[u]
  BY DEF StoreOK
<1>1. /\ UNCHANGED <<entries, cache, lock>> /\ Entries' = Entries
      /\ \A e : Cached(e)' <=> Cached(e)
  BY DEF store, Entries, Cached
<1>2. \A u \in Threads : \A e : Holds(u, e)' <=> Holds(u, e)
  BY <1>0 DEF Holds
<1>3. \A e : Holders(e)' = Holders(e)
  BY <1>2 DEF Holders
<1>4. LockOK'
  BY <1>0, <1>1 DEF StoreOK, LockOK
<1>5. CacheOK'
  BY <1>1 DEF StoreOK, CacheOK
<1>6. ASSUME NEW u \in Threads
      PROVE  ThreadOK(u)' /\ ClosingOK(u)'
  <2>1. CASE u = t
    <3>1. ThreadOK(t)
      BY DEF StoreOK
    <3> QED BY <1>0, <1>1, <1>2, <2>1, <3>1 DEF ThreadOK, ClosingOK
  <2>2. CASE u # t
    <3>1. ThreadOK(u) /\ ClosingOK(u)
      BY DEF StoreOK
    <3> QED BY <1>0, <1>1, <1>2, <1>3, <2>2, <3>1 DEF ThreadOK, ClosingOK
  <2> QED BY <2>1, <2>2
<1>7. ASSUME NEW e \in Entries
      PROVE  EntryOK(e)'
  <2>1. EntryOK(e)
    BY DEF StoreOK
  <2>2. \A u \in Threads : (Inserts(u, e)' <=> Inserts(u, e))
    BY <1>0 DEF Inserts
  <2>3. \A u \in Threads : e \in th[u].closing => e \in th'[u].closing
    BY <1>0 DEF StoreOK, LockOK
  <2>4. Owned(e) => Owned(e)'
    BY <1>1, <1>3, <2>2, <2>3 DEF Owned
  <2> QED BY <1>1, <1>3, <2>1, <2>4 DEF EntryOK
<1> QED BY <1>0, <1>1, <1>4, <1>5, <1>6, <1>7 DEF StoreOK

\* Where Proceed leaves its thread.
Goes(t, rec, S, next) ==
    /\ rec \in Local /\ rec.closing = {} /\ S \in SUBSET Entries /\ next \in Nexts
    /\ Proceed(t, rec, S, next)
Gone(t, rec, S, next) ==
    /\ pc' \in [Threads -> Pcs] /\ th' \in [Threads -> Local]
    /\ \A u \in Threads : u # t => pc'[u] = pc[u] /\ th'[u] = th[u]
    /\ pc'[t] = IF S = {} THEN next ELSE "closing"
    /\ lock' = IF S = {} THEN {} ELSE {t}
    /\ th'[t].closing = S
    /\ th'[t].entry \in {0, rec.entry}
    /\ \A e : Holds(t, e)' <=> next = "search" /\ e = rec.entry
    /\ next # "idle" => th'[t].dir = rec.dir
    /\ th'[t].out \in {"none", rec.out}
    /\ th'[t].out # "none" => th'[t].from = rec.from /\ th'[t].dir = rec.dir

LEMMA ProceedFacts ==
  ASSUME StoreOK, NEW t \in Threads, NEW rec, NEW S, NEW next, Goes(t, rec, S, next)
  PROVE  Gone(t, rec, S, next)
<1>0. /\ rec \in Local /\ rec.closing = {} /\ S \in SUBSET Entries /\ next \in Nexts
      /\ Proceed(t, rec, S, next)
  BY DEF Goes
<1>1. CASE S = {}
  <2> DEFINE l == IF next = "idle" THEN Fresh ELSE rec
  <2>1. /\ pc' = [pc EXCEPT ![t] = next] /\ th' = [th EXCEPT ![t] = l] /\ lock' = {}
    BY <1>0, <1>1 DEF Proceed
  <2>2. l \in Local /\ l.closing = {} /\ l.entry \in {0, rec.entry}
    BY <1>0, FreshFacts
  <2>3. next # "idle" => l = rec
    OBVIOUS
  <2>4. l.out \in {"none", rec.out} /\ (l.out = "none" \/ l = rec)
    BY FreshFacts
  <2>5. next \in Pcs
    BY <1>0 DEF Nexts, Pcs
  <2> HIDE DEF l
  <2>6. /\ pc' \in [Threads -> Pcs] /\ th' \in [Threads -> Local]
        /\ pc'[t] = next /\ th'[t] = l
        /\ \A u \in Threads : u # t => pc'[u] = pc[u] /\ th'[u] = th[u]
    BY <2>1, <2>2, <2>5 DEF StoreOK
  <2>7. \A e : Holds(t, e)' <=> next = "search" /\ e = rec.entry
    BY <1>0, <2>3, <2>6 DEF Holds, Nexts
  <2> QED BY <1>1, <2>1, <2>2, <2>3, <2>4, <2>6, <2>7 DEF Gone
<1>2. CASE S # {}
  <2> DEFINE l1 == [rec EXCEPT !.closing = S]
             l == [l1 EXCEPT !.next = next]
  <2>a. S \in SUBSET Nat
    BY <1>0 DEF Entries
  <2>1. l1 \in Local /\ l1.closing = S /\ l1.entry = rec.entry /\ l1.dir = rec.dir
        /\ l1.out = rec.out /\ l1.from = rec.from
    BY <1>0, <2>a DEF Local
  <2>0. l = [rec EXCEPT !.closing = S, !.next = next]
    OBVIOUS
  <2> HIDE DEF l1
  <2>2. l \in Local /\ l.closing = S /\ l.entry = rec.entry /\ l.dir = rec.dir
        /\ l.out = rec.out /\ l.from = rec.from /\ l.next = next
    BY <1>0, <2>1 DEF Local
  <2>3. /\ pc' = [pc EXCEPT ![t] = "closing"] /\ th' = [th EXCEPT ![t] = l] /\ lock' = {t}
    BY <1>0, <1>2, <2>0 DEF Proceed
  <2> HIDE DEF l
  <2>4. /\ pc' \in [Threads -> Pcs] /\ th' \in [Threads -> Local]
        /\ pc'[t] = "closing" /\ th'[t] = l
        /\ \A u \in Threads : u # t => pc'[u] = pc[u] /\ th'[u] = th[u]
    BY <2>2, <2>3 DEF StoreOK, Pcs
  <2>5. \A e : Holds(t, e)' <=> next = "search" /\ e = rec.entry
    BY <2>2, <2>4 DEF Holds
  <2> QED BY <1>2, <2>2, <2>3, <2>4, <2>5 DEF Gone
<1> QED BY <1>1, <1>2

\* Under the lock entries change in refcount and in what becomes of them only.
Lasting ==
    /\ entries' \in Seq(Entry) /\ Len(entries') = Len(entries)
    /\ \A e \in Entries :
         /\ entries'[e].dir = entries[e].dir /\ entries'[e].h = entries[e].h
         /\ entries'[e].life = entries[e].life /\ entries'[e].open = entries[e].open
         /\ entries'[e].robbed = entries[e].robbed
         /\ entries[e].retired => entries'[e].retired
         /\ entries'[e].retired => entries[e].retired \/ Cached(e)
         /\ entries[e].lost => entries'[e].lost

\* The step of t leaves nobody's entry behind.
LeavesNothing(t, S) ==
    /\ \A e \in Entries :
         Cached(e) /\ ~Cached(e)' =>
            entries'[e].lost \/ (entries'[e].retired /\ (e \in S \/ Holders(e)' # {}))
    /\ \A e \in Entries :
         Holds(t, e) /\ entries[e].retired /\ Holders(e)' = {} => e \in S
    /\ \A e \in Entries : Inserts(t, e) => Cached(e)'

\* What t finds in the cache, reads and closes afterwards.
Tidy(t, rec, S) ==
    /\ rec.entry <= Len(entries)
    /\ cache' \in [Domains -> 0..Len(entries)]
    /\ \A d \in Domains : cache'[d] # 0 =>
         /\ ~entries'[cache'[d]].retired
         /\ \/ cache'[d] = cache[d]
            \/ pc[t] = "insert" /\ d = th[t].dir /\ cache'[d] = th[t].entry
    /\ \A e \in S : /\ entries[e].open /\ entries'[e].retired
                    /\ ~Cached(e)' /\ Holders(e)' = {}
    /\ \A e \in Entries : entries'[e].ref = Cardinality(Holders(e)')
    /\ \A e : Holds(t, e)' =>
         /\ e \in Entries /\ (Holds(t, e) \/ Cached(e))
         /\ entries[e].open /\ entries[e].dir = rec.dir

LEMMA LockStep ==
  ASSUME StoreOK, NEW t \in Threads, lock = {}, NEW rec, NEW S, NEW next,
         Goes(t, rec, S, next), Lasting, Tidy(t, rec, S), LeavesNothing(t, S)
  PROVE  StoreOK'
<1>t. /\ rec.entry <= Len(entries)
      /\ cache' \in [Domains -> 0..Len(entries)]
      /\ \A d \in Domains : cache'[d] # 0 =>
           /\ ~entries'[cache'[d]].retired
           /\ \/ cache'[d] = cache[d]
              \/ pc[t] = "insert" /\ d = th[t].dir /\ cache'[d] = th[t].entry
      /\ \A e \in S : /\ entries[e].open /\ entries'[e].retired
                      /\ ~Cached(e)' /\ Holders(e)' = {}
      /\ \A e \in Entries : entries'[e].ref = Cardinality(Holders(e)')
      /\ \A e : Holds(t, e)' =>
           /\ e \in Entries /\ (Holds(t, e) \/ Cached(e))
           /\ entries[e].open /\ entries[e].dir = rec.dir
  BY DEF Tidy
<1> USE <1>t
<1>1. /\ pc' \in [Threads -> Pcs] /\ th' \in [Threads -> Local]
      /\ \A u \in Threads : u # t => pc'[u] = pc[u] /\ th'[u] = th[u]
      /\ pc'[t] = IF S = {} THEN next ELSE "closing"
      /\ lock' = IF S = {} THEN {} ELSE {t}
      /\ th'[t].closing = S
      /\ th'[t].entry \in {0, rec.entry}
      /\ \A e : Holds(t, e)' <=> next = "search" /\ e = rec.entry
      /\ next # "idle" => th'[t].dir = rec.dir
  <2>1. Gone(t, rec, S, next)
    BY ProceedFacts
  <2> QED BY <2>1 DEF Gone
<1>a. rec \in Local /\ S \in SUBSET Entries /\ next \in Nexts
  BY DEF Goes
<1>2. Len(entries) \in Nat /\ Entries' = Entries
  BY DEF Lasting, Entries, StoreOK
<1>3. \A u \in Threads : pc[u] # "closing" /\ th[u].closing = {}
  BY DEF StoreOK, LockOK
<1>4. pc'[t] # "insert" /\ (pc'[t] = "closing" <=> S # {})
  BY <1>1, <1>a DEF Nexts
<1>5. LockOK'
  BY <1>1, <1>3, <1>4 DEF LockOK
<1>6. \A u \in Threads : u # t => \A e : Holds(u, e)' <=> Holds(u, e)
  BY <1>1 DEF Holds
<1>7. \A u \in Threads : \A e : Holds(u, e) => e \in Entries /\ entries[e].open
  <2> SUFFICES ASSUME NEW u \in Threads, NEW e, Holds(u, e)
               PROVE  e \in Entries /\ entries[e].open
    OBVIOUS
  <2>1. ThreadOK(u) /\ th[u] \in Local /\ e = th[u].entry
    BY DEF StoreOK, Holds
  <2>2. e \in Entries
    BY <1>2, <2>1 DEF ThreadOK, Local, Entries
  <2> QED BY <2>2, RefCounts
<1>8. CacheOK'
  <2> SUFFICES ASSUME NEW d \in Domains, cache'[d] # 0
               PROVE  LET e == entries'[cache'[d]] IN e.dir = d /\ e.open /\ ~e.retired
    BY <1>2 DEF CacheOK, Lasting
  <2>1. cache'[d] \in Entries /\ ~entries'[cache'[d]].retired
    BY <1>2 DEF Entries
  <2>2. CASE cache'[d] = cache[d]
    BY <2>1, <2>2 DEF StoreOK, CacheOK, Lasting
  <2>3. CASE pc[t] = "insert" /\ d = th[t].dir /\ cache'[d] = th[t].entry
    <3>1. Holds(t, cache'[d])
      BY <2>3 DEF Holds
    <3>2. entries[cache'[d]].dir = d
      BY <2>3, <3>1 DEF StoreOK, ThreadOK
    <3> QED BY <1>7, <2>1, <3>1, <3>2 DEF Lasting
  <2> QED BY <2>2, <2>3
<1>9. ASSUME NEW u \in Threads
      PROVE  ThreadOK(u)' /\ ClosingOK(u)'
  <2>1. CASE u = t
    <3>1. th'[t].entry <= Len(entries')
      BY <1>1, <1>2 DEF Lasting
    <3>2. \A e : Holds(t, e)' => e # 0 /\ entries'[e].dir = th'[t].dir
      BY <1>1, <1>2 DEF Lasting, Entries
    <3>3. ClosingOK(t)'
      BY <1>1, <1>2, <1>a DEF ClosingOK, Lasting
    <3> QED BY <1>4, <2>1, <3>1, <3>2, <3>3 DEF ThreadOK
  <2>2. CASE u # t
    <3>1. ThreadOK(u) /\ th'[u] = th[u] /\ pc'[u] = pc[u]
      BY <1>1, <2>2 DEF StoreOK
    <3>2. ClosingOK(u)'
      BY <1>3, <3>1 DEF ClosingOK
    <3>3. \A e : Holds(u, e)' => e # 0 /\ entries'[e].dir = th'[u].dir
      BY <1>6, <1>7, <2>2, <3>1 DEF ThreadOK, Lasting
    <3>4. ASSUME pc'[u] = "insert", NEW e, e = th[u].entry
          PROVE  /\ ~Cached(e)' /\ ~entries'[e].retired
                 /\ \A w \in Threads : w # u => ~Holds(w, e)'
      <4>1. Holds(u, e) /\ e \in Entries
        BY <1>7, <3>1, <3>4 DEF Holds
      <4>2. /\ ~Cached(e) /\ ~entries[e].retired
            /\ \A w \in Threads : w # u => ~Holds(w, e)
        BY <3>1, <3>4 DEF ThreadOK
      <4>3. ~(pc[t] = "insert" /\ th[t].entry = e)
        BY <2>2, <4>2 DEF Holds
      <4>4. ~Cached(e)'
        <5>1. \A d \in Domains : cache'[d] # e
          BY <4>1, <4>2, <4>3, <1>2 DEF Cached, Entries
        <5> QED BY <5>1 DEF Cached
      <4>5. ~entries'[e].retired
        BY <4>1, <4>2 DEF Lasting
      <4>6. ~Holds(t, e)'
        BY <2>2, <4>2, <4>1, <1>6, <3>1
      <4>7. \A w \in Threads : w # u => ~Holds(w, e)'
        BY <1>6, <4>2, <4>6
      <4> QED BY <4>4, <4>5, <4>7
    <3>5. th'[u].entry <= Len(entries')
      BY <3>1 DEF ThreadOK, Lasting
    <3> QED BY <3>1, <3>2, <3>3, <3>4, <3>5 DEF ThreadOK
  <2> QED BY <2>1, <2>2
<1>10. ASSUME NEW e \in Entries
       PROVE  EntryOK(e)'
  <2>1. EntryOK(e)
    BY DEF StoreOK
  <2>2. Holders(e)' # {} => entries'[e].open
    <3>1. ASSUME NEW u \in Threads, Holds(u, e)'
          PROVE  entries[e].open
      BY <1>6, <1>7, <3>1
    <3> QED BY <3>1 DEF Holders, Lasting
  <2>3. ASSUME entries'[e].open
        PROVE  Owned(e)'
    <3>1. Owned(e)
      BY <2>1, <2>3 DEF EntryOK, Lasting
    <3>2. e \in S => e \in th'[t].closing
      BY <1>1
    <3>3. CASE Cached(e)
      BY <3>2, <3>3 DEF LeavesNothing, Owned
    <3>4. CASE entries[e].lost
      BY <3>4 DEF Lasting, Owned
    <3>5. CASE Holders(e) # {} /\ entries[e].retired
      <4>1. CASE Holders(e)' # {}
        BY <3>5, <4>1 DEF Lasting, Owned
      <4>2. CASE Holders(e)' = {}
        <5>1. PICK u \in Threads : Holds(u, e)
          BY <3>5 DEF Holders
        <5>2. u = t
          BY <1>6, <4>2, <5>1 DEF Holders
        <5> QED BY <3>2, <3>5, <4>2, <5>1, <5>2 DEF LeavesNothing, Owned
      <4> QED BY <4>1, <4>2
    <3>6. CASE \E u \in Threads : Inserts(u, e)
      <4>1. PICK u \in Threads : Inserts(u, e)
        BY <3>6
      <4>2. CASE u = t
        BY <4>1, <4>2 DEF Inserts, LeavesNothing, Owned
      <4>3. CASE u # t
        BY <1>1, <4>1, <4>3 DEF Inserts, Owned
      <4> QED BY <4>2, <4>3
    <3> QED BY <1>3, <3>1, <3>3, <3>4, <3>5, <3>6 DEF Owned
  <2> QED BY <2>2, <2>3 DEF EntryOK
<1> QED BY <1>1, <1>2, <1>5, <1>8, <1>9, <1>10 DEF StoreOK, Lasting


-----------------------------------------------------------------------------
(* The steps under the lock.                                               *)

AnswersKept ==
    \A u \in Threads : th'[u].out = "answered" =>
        th[u].out = "answered" /\ th'[u].from = th[u].from /\ th'[u].dir = th[u].dir

LEMMA ProceedKeepsAnswers ==
  ASSUME StoreOK, NEW t \in Threads, NEW rec, NEW S, NEW next,
         Goes(t, rec, S, next),
         rec.out = "none" \/
           (rec.out = th[t].out /\ rec.from = th[t].from /\ rec.dir = th[t].dir)
  PROVE  AnswersKept
<1>1. /\ \A u \in Threads : u # t => th'[u] = th[u]
      /\ th'[t].out \in {"none", rec.out}
      /\ th'[t].out # "none" => th'[t].from = rec.from /\ th'[t].dir = rec.dir
  BY ProceedFacts DEF Gone
<1> QED BY <1>1 DEF AnswersKept

LEMMA CachedFacts ==
  ASSUME StoreOK, NEW d \in Domains, cache[d] # 0
  PROVE  /\ cache[d] \in Entries /\ Cached(cache[d])
         /\ entries[cache[d]].dir = d /\ entries[cache[d]].open /\ ~entries[cache[d]].retired
<1>1. Len(entries) \in Nat
  BY DEF StoreOK
<1> QED BY <1>1 DEF StoreOK, CacheOK, Cached, Entries

LEMMA HeldFacts ==
  ASSUME StoreOK, NEW t \in Threads, NEW e, Holds(t, e)
  PROVE  /\ e \in Entries /\ entries[e].open /\ entries[e].dir = th[t].dir
         /\ entries[e].ref >= 1
<1>1. ThreadOK(t) /\ th[t] \in Local /\ e = th[t].entry /\ Len(entries) \in Nat
  BY DEF StoreOK, Holds
<1>2. e \in Entries
  BY <1>1 DEF ThreadOK, Local, Entries
<1> QED BY <1>1, <1>2, RefCounts DEF ThreadOK

DroppedAs(R, c, S) ==
    /\ R \in [Domains -> 0..Len(entries)]
    /\ \A d \in Domains : R[d] # 0 => R[d] = c[d] /\ c[d] \notin S
    /\ \A d \in Domains : c[d] \notin S => R[d] = c[d]

LEMMA DroppedFacts ==
  ASSUME NEW c \in [Domains -> 0..Len(entries)], NEW S, Len(entries) \in Nat
  PROVE  DroppedAs(Dropped(c, S), c, S)
BY DEF Dropped, DroppedAs

\* An entry of another commit, or of a daemon that crashed, leaves the cache.
LEMMA Retires ==
  ASSUME StoreOK, NEW t \in Threads, lock = {}, pc[t] \in {"lookup", "evict"},
         NEW rec \in Local, rec.closing = {}, rec.entry <= Len(entries),
         NEW next \in Nexts, next # "search",
         NEW S, S = {cache[th[t].dir]} \ {0},
         entries' = Retired(entries, S), cache' = Dropped(cache, S),
         Proceed(t, rec, S \cap Idle(entries, cache), next)
  PROVE  StoreOK' /\ Lasting
<1> DEFINE C == S \cap Idle(entries, cache)
<1>1. entries \in Seq(Entry) /\ Len(entries) \in Nat /\ th[t] \in Local /\ th[t].dir \in Domains
  BY DEF StoreOK, Local
<1>2. \A e \in S : e \in Entries /\ Cached(e) /\ entries[e].open
  BY <1>1, CachedFacts
<1>3. C \in SUBSET Entries
  BY <1>2
<1>4. \A e \in C : entries[e].ref = 0
  BY DEF Idle
<1>5. /\ entries' \in Seq(Entry) /\ Len(entries') = Len(entries)
      /\ \A e \in Entries :
           /\ entries'[e].dir = entries[e].dir /\ entries'[e].h = entries[e].h
           /\ entries'[e].life = entries[e].life /\ entries'[e].open = entries[e].open
           /\ entries'[e].robbed = entries[e].robbed /\ entries'[e].lost = entries[e].lost
           /\ entries'[e].ref = entries[e].ref
           /\ entries'[e].retired <=> entries[e].retired \/ e \in S
  BY <1>1, RetiredFacts DEF Entries, RetiredAs
<1>6. Lasting
  BY <1>2, <1>5 DEF Lasting
<1>7. /\ cache' \in [Domains -> 0..Len(entries)]
      /\ \A d \in Domains : cache'[d] # 0 => cache'[d] = cache[d] /\ cache[d] \notin S
      /\ \A d \in Domains : cache[d] \notin S => cache'[d] = cache[d]
  <2>1. cache \in [Domains -> 0..Len(entries)]
    BY DEF StoreOK, CacheOK
  <2>2. DroppedAs(cache', cache, S)
    BY <1>1, <2>1, DroppedFacts
  <2> QED BY <2>2 DEF DroppedAs
<1>8. \A d \in Domains : cache'[d] # 0 =>
         ~entries'[cache'[d]].retired /\ cache'[d] = cache[d]
  <2> SUFFICES ASSUME NEW d \in Domains, cache'[d] # 0
               PROVE  ~entries'[cache'[d]].retired /\ cache'[d] = cache[d]
    OBVIOUS
  <2>1. cache'[d] = cache[d] /\ cache[d] \notin S
    BY <1>7
  <2>2. cache[d] \in Entries /\ ~entries[cache[d]].retired
    BY <2>1, CachedFacts
  <2> QED BY <1>5, <2>1, <2>2
<1>g. Goes(t, rec, C, next)
  BY <1>3 DEF Goes
<1>9. \A e : ~Holds(t, e) /\ ~Holds(t, e)'
  <2> HIDE DEF C
  <2>1. \A e : Holds(t, e)' <=> next = "search" /\ e = rec.entry
    BY <1>g, ProceedFacts DEF Gone
  <2> QED BY <2>1 DEF Holds
<1>10. \A u \in Threads : u # t => pc'[u] = pc[u] /\ th'[u] = th[u]
  <2> HIDE DEF C
  <2> QED BY <1>g, ProceedFacts DEF Gone
<1>11. \A e : Holders(e)' = Holders(e)
  BY <1>9, <1>10, HoldersOf
<1>12. \A e \in Entries : entries'[e].ref = Cardinality(Holders(e)')
  BY <1>5, <1>11, RefCounts
<1>13. \A e \in Entries : Cached(e)' => Cached(e) /\ e \notin S
  <2> SUFFICES ASSUME NEW e \in Entries, NEW d \in Domains, cache'[d] = e
               PROVE  Cached(e) /\ e \notin S
    BY DEF Cached
  <2>1. e # 0
    BY <1>1 DEF Entries
  <2>2. cache[d] = e /\ e \notin S
    BY <1>7, <2>1
  <2> QED BY <2>2 DEF Cached
<1>14. \A e \in C : /\ entries[e].open /\ entries'[e].retired
                    /\ ~Cached(e)' /\ Holders(e)' = {}
  BY <1>2, <1>4, <1>5, <1>11, <1>13, RefCounts
<1>15. ASSUME NEW e \in Entries, Cached(e), ~Cached(e)'
       PROVE  entries'[e].retired /\ (e \in C \/ Holders(e)' # {})
  <2>1. e \in S
    BY <1>7, <1>15 DEF Cached
  <2>2. e # 0 /\ entries'[e].retired
    BY <1>5, <2>1
  <2>3. entries[e].ref = 0 => e \in C
    BY <1>15, <2>1, <2>2 DEF Idle, Cached
  <2> QED BY <1>11, <2>2, <2>3, RefCounts
<1>16. LeavesNothing(t, C)
  <2> HIDE DEF C
  <2> QED BY <1>9, <1>15 DEF LeavesNothing, Inserts
<1> HIDE DEF C
<1>17. Tidy(t, rec, C)
  BY <1>7, <1>8, <1>9, <1>12, <1>14 DEF Tidy
<1> QED BY <1>g, <1>6, <1>16, <1>17, LockStep

\* A hit: one more reader, and idle entries may be dropped for their age.
LEMMA Hits ==
  ASSUME StoreOK, NEW t \in Threads, lock = {}, pc[t] = "lookup",
         NEW e, e = cache[th[t].dir], e # 0,
         NEW es, RefAs(es, entries, e, entries[e].ref + 1),
         NEW S \in SUBSET Idle(es, cache),
         entries' = Retired(es, S), cache' = Dropped(cache, S),
         Proceed(t, [th[t] EXCEPT !.entry = e], S, "search")
  PROVE  StoreOK' /\ Lasting /\ AnswersKept
<1>1. entries \in Seq(Entry) /\ Len(entries) \in Nat /\ th[t] \in Local /\ th[t].dir \in Domains
  BY DEF StoreOK, Local
<1>2. e \in Entries /\ Cached(e) /\ entries[e].dir = th[t].dir /\ entries[e].open /\ ~entries[e].retired
  BY <1>1, CachedFacts
<1>3. entries[e].ref \in Nat
  BY <1>2, RefCounts
<1>4. /\ es \in Seq(Entry) /\ Len(es) = Len(entries)
      /\ \A f \in Entries :
           /\ es[f].dir = entries[f].dir /\ es[f].h = entries[f].h /\ es[f].life = entries[f].life
           /\ es[f].open = entries[f].open /\ es[f].retired = entries[f].retired
           /\ es[f].robbed = entries[f].robbed /\ es[f].lost = entries[f].lost
           /\ es[f].ref = IF f = e THEN entries[e].ref + 1 ELSE entries[f].ref
  BY DEF RefAs, Entries
<1>5. \A f \in S : f \in Entries /\ Cached(f) /\ entries[f].open /\ es[f].ref = 0
  <2>1. \A f \in S : f # 0 /\ es[f].ref = 0 /\ \E d \in Domains : f = cache[d]
    BY DEF Idle
  <2> QED BY <2>1, CachedFacts
<1>6. \A f \in S : f # e /\ entries[f].ref = 0
  <2>1. es[e].ref # 0
    BY <1>2, <1>3, <1>4
  <2> QED BY <1>4, <1>5, <2>1
<1>7. /\ entries' \in Seq(Entry) /\ Len(entries') = Len(entries)
      /\ \A f \in Entries :
           /\ entries'[f].dir = entries[f].dir /\ entries'[f].h = entries[f].h
           /\ entries'[f].life = entries[f].life /\ entries'[f].open = entries[f].open
           /\ entries'[f].robbed = entries[f].robbed /\ entries'[f].lost = entries[f].lost
           /\ entries'[f].ref = IF f = e THEN entries[e].ref + 1 ELSE entries[f].ref
           /\ entries'[f].retired <=> entries[f].retired \/ f \in S
  <2>1. RetiredAs(entries', es, S)
    BY <1>4, RetiredFacts
  <2> QED BY <1>4, <2>1 DEF RetiredAs, Entries
<1>8. Lasting
  BY <1>5, <1>7 DEF Lasting
<1>9. /\ cache' \in [Domains -> 0..Len(entries)]
      /\ \A d \in Domains : cache'[d] # 0 => cache'[d] = cache[d] /\ cache[d] \notin S
      /\ \A d \in Domains : cache[d] \notin S => cache'[d] = cache[d]
  <2>1. cache \in [Domains -> 0..Len(entries)]
    BY DEF StoreOK, CacheOK
  <2>2. DroppedAs(cache', cache, S)
    BY <1>1, <2>1, DroppedFacts
  <2> QED BY <2>2 DEF DroppedAs
<1> DEFINE rec == [th[t] EXCEPT !.entry = e]
<1>10. /\ rec \in Local /\ rec.closing = {} /\ rec.entry = e /\ rec.dir = th[t].dir
       /\ rec.out = th[t].out /\ rec.from = th[t].from
  <2>1. th[t].closing = {}
    BY DEF StoreOK, LockOK
  <2>2. e \in Nat
    BY <1>1, <1>2 DEF Entries
  <2> QED BY <1>1, <2>1, <2>2 DEF Local
<1> HIDE DEF rec
<1>11. Goes(t, rec, S, "search")
  <2>1. S \in SUBSET Entries /\ "search" \in Nexts
    BY <1>5 DEF Nexts
  <2> QED BY <1>10, <2>1 DEF Goes, rec
<1>12. /\ \A u \in Threads : u # t => pc'[u] = pc[u] /\ th'[u] = th[u]
       /\ \A f : Holds(t, f)' <=> f = e
  BY <1>10, <1>11, ProceedFacts DEF Gone
<1>13. \A f : ~Holds(t, f)
  BY DEF Holds
<1>14. /\ Holders(e)' = Holders(e) \cup {t} /\ t \notin Holders(e)
       /\ \A f : f # e => Holders(f)' = Holders(f)
  <2>1. \A u \in Threads : u # t => pc'[u] = pc[u] /\ th'[u] = th[u]
    BY <1>12
  <2>2. /\ Holds(t, e)' => Holders(e)' = Holders(e) \cup {t}
        /\ Holds(t, e) <=> t \in Holders(e)
    BY <2>1, HoldersOf
  <2>3. \A f : (Holds(t, f)' <=> Holds(t, f)) => Holders(f)' = Holders(f)
    BY <2>1, HoldersOf
  <2> QED BY <1>12, <1>13, <2>2, <2>3
<1>15. \A f \in Entries : entries'[f].ref = Cardinality(Holders(f)')
  <2>1. Cardinality(Holders(e) \cup {t}) = Cardinality(Holders(e)) + 1
    BY <1>2, <1>14, RefCounts, FS_AddElement
  <2>2. \A f \in Entries : entries[f].ref = Cardinality(Holders(f))
    BY RefCounts
  <2>a. Cardinality(Holders(e)') = Cardinality(Holders(e)) + 1
    BY <1>14, <2>1, Zenon
  <2>3. entries'[e].ref = Cardinality(Holders(e)')
    BY <1>2, <1>7, <2>2, <2>a
  <2>4. ASSUME NEW f \in Entries, f # e
        PROVE  entries'[f].ref = Cardinality(Holders(f)')
    BY <1>7, <1>14, <2>2, <2>4
  <2> QED BY <2>3, <2>4
<1>16. Tidy(t, rec, S)
  <2>1. rec.entry <= Len(entries)
    BY <1>1, <1>2, <1>10 DEF Entries
  <2>2. ASSUME NEW d \in Domains, cache'[d] # 0
        PROVE  ~entries'[cache'[d]].retired /\ cache'[d] = cache[d]
    <3>1. cache'[d] = cache[d] /\ cache[d] \notin S
      BY <1>9, <2>2
    <3>2. cache[d] \in Entries /\ ~entries[cache[d]].retired
      BY <2>2, <3>1, CachedFacts
    <3> QED BY <1>7, <3>1, <3>2
  <2>3. ASSUME NEW f \in S
        PROVE  /\ entries[f].open /\ entries'[f].retired
               /\ ~Cached(f)' /\ Holders(f)' = {}
    <3>1. ~Cached(f)'
      <4> SUFFICES ASSUME NEW d \in Domains, cache'[d] = f  PROVE FALSE
        BY DEF Cached
      <4>1. f # 0
        BY <1>1, <1>5 DEF Entries
      <4> QED BY <1>9, <4>1
    <3>2. Holders(f) = {}
      BY <1>5, <1>6, RefCounts
    <3> QED BY <1>5, <1>6, <1>7, <1>14, <3>1, <3>2
  <2>4. \A f : Holds(t, f)' =>
          /\ f \in Entries /\ (Holds(t, f) \/ Cached(f))
          /\ entries[f].open /\ entries[f].dir = rec.dir
    BY <1>2, <1>10, <1>12
  <2> QED BY <1>9, <1>15, <2>1, <2>2, <2>3, <2>4 DEF Tidy
<1>17. LeavesNothing(t, S)
  <2>1. ASSUME NEW f \in Entries, Cached(f), ~Cached(f)'
        PROVE  f \in S /\ entries'[f].retired
    <3>1. f \in S
      BY <1>9, <2>1 DEF Cached
    <3> QED BY <1>7, <3>1
  <2> QED BY <1>13, <2>1 DEF LeavesNothing, Inserts
<1>18. AnswersKept
  BY <1>10, <1>11, ProceedKeepsAnswers
<1> QED BY <1>8, <1>11, <1>16, <1>17, <1>18, LockStep

\* The view becomes the cached one; what it overwrites is lost.
LEMMA Inserted ==
  ASSUME StoreOK, NEW t \in Threads, lock = {}, pc[t] = "insert",
         NEW c, c = [cache EXCEPT ![th[t].dir] = th[t].entry],
         NEW es, OverwrittenAs(es, entries, cache[th[t].dir]),
         NEW S \in SUBSET Idle(es, c),
         entries' = Retired(es, S), cache' = Dropped(c, S),
         Proceed(t, th[t], S, "search")
  PROVE  StoreOK' /\ Lasting /\ AnswersKept
<1>1. entries \in Seq(Entry) /\ Len(entries) \in Nat /\ th[t] \in Local /\ th[t].dir \in Domains
      /\ cache \in [Domains -> 0..Len(entries)]
  BY DEF StoreOK, Local, CacheOK
<1>0. PICK own, old : own = th[t].entry /\ old = cache[th[t].dir]
  OBVIOUS
<1>2. Holds(t, own)
  BY <1>0 DEF Holds
<1>3. own \in Entries /\ entries[own].open /\ entries[own].dir = th[t].dir /\ entries[own].ref >= 1
  BY <1>2, HeldFacts
<1>4. ~Cached(own) /\ ~entries[own].retired /\ own # 0
  BY <1>0, <1>1, <1>3 DEF StoreOK, ThreadOK, Entries
<1>5. OverwrittenAs(es, entries, old)
  BY <1>0
<1>6. /\ es \in Seq(Entry) /\ Len(es) = Len(entries)
      /\ \A f \in Entries :
           /\ es[f].dir = entries[f].dir /\ es[f].h = entries[f].h /\ es[f].life = entries[f].life
           /\ es[f].open = entries[f].open /\ es[f].retired = entries[f].retired
           /\ es[f].robbed = entries[f].robbed /\ es[f].ref = entries[f].ref
           /\ es[f].lost <=> entries[f].lost \/ f = old
  BY <1>5 DEF OverwrittenAs, Entries
<1>7. RetiredAs(entries', es, S)
  BY <1>6, RetiredFacts
<1>8. /\ entries' \in Seq(Entry) /\ Len(entries') = Len(entries)
      /\ \A f \in Entries :
           /\ entries'[f].dir = entries[f].dir /\ entries'[f].h = entries[f].h
           /\ entries'[f].life = entries[f].life /\ entries'[f].open = entries[f].open
           /\ entries'[f].robbed = entries[f].robbed /\ entries'[f].ref = entries[f].ref
           /\ entries'[f].lost <=> entries[f].lost \/ f = old
           /\ entries'[f].retired <=> entries[f].retired \/ f \in S
  BY <1>6, <1>7 DEF RetiredAs, Entries
<1>9. /\ c \in [Domains -> 0..Len(entries)] /\ c[th[t].dir] = own
      /\ \A d \in Domains : d # th[t].dir => c[d] = cache[d]
  BY <1>0, <1>1, <1>3 DEF Entries
<1>10. \A f \in S : f # 0 /\ es[f].ref = 0 /\ \E d \in Domains : c[d] = f
  BY DEF Idle
<1>11. \A f \in S : f \in Entries /\ entries[f].ref = 0 /\ f # own
  <2>1. \A f \in S : f \in Entries
    BY <1>1, <1>9, <1>10 DEF Entries
  <2> QED BY <1>3, <1>6, <1>10, <2>1
<1>12. \A f \in S : Cached(f) /\ entries[f].open
  <2> SUFFICES ASSUME NEW f \in S
               PROVE  Cached(f) /\ entries[f].open
    OBVIOUS
  <2>1. PICK d \in Domains : c[d] = f /\ f # 0
    BY <1>10
  <2>2. d # th[t].dir
    BY <1>9, <1>11, <2>1
  <2>3. cache[d] = f
    BY <1>9, <2>1, <2>2
  <2> QED BY <2>1, <2>3, CachedFacts
<1>13. Lasting
  BY <1>8, <1>12 DEF Lasting
<1>14. /\ cache' \in [Domains -> 0..Len(entries)]
       /\ \A d \in Domains : cache'[d] # 0 => cache'[d] = c[d] /\ c[d] \notin S
       /\ \A d \in Domains : c[d] \notin S => cache'[d] = c[d]
  <2>1. DroppedAs(cache', c, S)
    BY <1>1, <1>9, DroppedFacts
  <2> QED BY <2>1 DEF DroppedAs
<1>15. /\ th[t] \in Local /\ th[t].closing = {} /\ th[t].entry = own
  BY <1>0, <1>1 DEF StoreOK, LockOK
<1>16. Goes(t, th[t], S, "search")
  <2>1. S \in SUBSET Entries /\ "search" \in Nexts
    BY <1>11 DEF Nexts
  <2> QED BY <1>15, <2>1 DEF Goes
<1>17. /\ \A u \in Threads : u # t => pc'[u] = pc[u] /\ th'[u] = th[u]
       /\ \A f : Holds(t, f)' <=> f = own
  BY <1>15, <1>16, ProceedFacts DEF Gone
<1>18. \A f : Holds(t, f) <=> f = own
  BY <1>0 DEF Holds
<1>19. \A f : Holders(f)' = Holders(f)
  BY <1>17, <1>18, HoldersOf
<1>20. \A f \in Entries : entries'[f].ref = Cardinality(Holders(f)')
  BY <1>8, <1>19, RefCounts
<1>21. \A d \in Domains : cache'[d] # 0 =>
          /\ ~entries'[cache'[d]].retired
          /\ \/ cache'[d] = cache[d]
             \/ pc[t] = "insert" /\ d = th[t].dir /\ cache'[d] = th[t].entry
  <2> SUFFICES ASSUME NEW d \in Domains, cache'[d] # 0
               PROVE  /\ ~entries'[cache'[d]].retired
                      /\ \/ cache'[d] = cache[d]
                         \/ d = th[t].dir /\ cache'[d] = own
    BY <1>0
  <2>1. cache'[d] = c[d] /\ c[d] \notin S
    BY <1>14
  <2>2. CASE d = th[t].dir
    BY <1>3, <1>4, <1>8, <1>9, <2>1, <2>2
  <2>3. CASE d # th[t].dir
    <3>1. c[d] = cache[d] /\ cache[d] # 0
      BY <1>9, <2>1, <2>3
    <3>2. cache[d] \in Entries /\ ~entries[cache[d]].retired
      BY <3>1, CachedFacts
    <3> QED BY <1>8, <2>1, <3>1, <3>2
  <2> QED BY <2>2, <2>3
<1>22. ASSUME NEW f \in S
       PROVE  /\ entries[f].open /\ entries'[f].retired
              /\ ~Cached(f)' /\ Holders(f)' = {}
  <2>1. ~Cached(f)'
    <3> SUFFICES ASSUME NEW d \in Domains, cache'[d] = f  PROVE FALSE
      BY DEF Cached
    <3> QED BY <1>10, <1>14
  <2>2. Holders(f) = {}
    BY <1>11, RefCounts
  <2> QED BY <1>8, <1>11, <1>12, <1>19, <2>1, <2>2
<1>23. Tidy(t, th[t], S)
  <2>1. own <= Len(entries)
    BY <1>1, <1>3 DEF Entries
  <2>2. \A f : Holds(t, f)' =>
          /\ f \in Entries /\ (Holds(t, f) \/ Cached(f))
          /\ entries[f].open /\ entries[f].dir = th[t].dir
    BY <1>2, <1>3, <1>17
  <2> QED BY <1>0, <1>14, <1>20, <1>21, <1>22, <2>1, <2>2 DEF Tidy
<1>24. ASSUME NEW f \in Entries, Cached(f), ~Cached(f)'
       PROVE  entries'[f].lost \/ (entries'[f].retired /\ f \in S)
  <2>1. PICK d \in Domains : cache[d] = f
    BY <1>24 DEF Cached
  <2>2. cache'[d] # f
    BY <1>24 DEF Cached
  <2>3. CASE d = th[t].dir
    BY <1>0, <1>8, <2>1, <2>3
  <2>4. CASE d # th[t].dir
    <3>1. c[d] = f
      BY <1>9, <2>1, <2>4
    <3>2. f \in S
      BY <1>14, <2>2, <3>1
    <3> QED BY <1>8, <3>2
  <2> QED BY <2>3, <2>4
<1>25. Cached(own)'
  <2>1. cache'[th[t].dir] = own
    BY <1>1, <1>9, <1>11, <1>14
  <2> QED BY <1>1, <2>1 DEF Cached
<1>26. LeavesNothing(t, S)
  <2>1. \A f \in Entries : Inserts(t, f) => Cached(f)'
    BY <1>0, <1>25 DEF Inserts
  <2>2. \A f \in Entries : Holds(t, f) => Holders(f)' # {}
    BY <1>17, <1>18 DEF Holders
  <2> QED BY <1>24, <2>1, <2>2 DEF LeavesNothing
<1>27. AnswersKept
  BY <1>16, ProceedKeepsAnswers
<1> QED BY <1>13, <1>16, <1>23, <1>26, <1>27, LockStep

\* The reader of an entry leaves; the last reader of a retired one closes it.
LEMMA Releases ==
  ASSUME StoreOK, NEW t \in Threads, lock = {}, pc[t] = "release",
         NEW e, e = th[t].entry,
         RefAs(entries', entries, e, entries[e].ref - 1), cache' = cache,
         NEW S, S = IF entries[e].retired /\ entries[e].ref = 1 THEN {e} ELSE {},
         NEW next \in Nexts, next # "search", Proceed(t, th[t], S, next)
  PROVE  StoreOK' /\ Lasting /\ AnswersKept
<1>1. Len(entries) \in Nat /\ th[t] \in Local /\ cache \in [Domains -> 0..Len(entries)]
  BY DEF StoreOK, Local, CacheOK
<1>2. Holds(t, e) /\ \A f : Holds(t, f) <=> f = e
  BY DEF Holds
<1>3. e \in Entries /\ entries[e].open /\ entries[e].ref >= 1
  BY <1>2, HeldFacts
<1>4. /\ entries' \in Seq(Entry) /\ Len(entries') = Len(entries)
      /\ \A f \in Entries :
           /\ entries'[f].dir = entries[f].dir /\ entries'[f].h = entries[f].h
           /\ entries'[f].life = entries[f].life /\ entries'[f].open = entries[f].open
           /\ entries'[f].robbed = entries[f].robbed /\ entries'[f].lost = entries[f].lost
           /\ entries'[f].retired = entries[f].retired
           /\ entries'[f].ref = IF f = e THEN entries[e].ref - 1 ELSE entries[f].ref
  BY DEF RefAs, Entries
<1>5. Lasting
  BY <1>4 DEF Lasting
<1>6. th[t].closing = {}
  BY DEF StoreOK, LockOK
<1>7. Goes(t, th[t], S, next)
  <2>1. S \in SUBSET Entries
    BY <1>3
  <2> QED BY <1>1, <1>6, <2>1 DEF Goes
<1>8. /\ \A u \in Threads : u # t => pc'[u] = pc[u] /\ th'[u] = th[u]
      /\ \A f : ~Holds(t, f)'
  BY <1>7, ProceedFacts DEF Gone
<1>9. /\ Holders(e)' = Holders(e) \ {t} /\ t \in Holders(e)
      /\ \A f : f # e => Holders(f)' = Holders(f)
  <2>1. \A u \in Threads : u # t => pc'[u] = pc[u] /\ th'[u] = th[u]
    BY <1>8
  <2>2. /\ ~Holds(t, e)' => Holders(e)' = Holders(e) \ {t}
        /\ Holds(t, e) <=> t \in Holders(e)
    BY <2>1, HoldersOf
  <2>3. \A f : (Holds(t, f)' <=> Holds(t, f)) => Holders(f)' = Holders(f)
    BY <2>1, HoldersOf
  <2> QED BY <1>2, <1>8, <2>2, <2>3
<1>10. Cardinality(Holders(e)') = Cardinality(Holders(e)) - 1
  <2>1. IsFiniteSet(Holders(e))
    BY <1>3, RefCounts
  <2>2. Cardinality(Holders(e) \ {t}) = Cardinality(Holders(e)) - 1
    BY <1>9, <2>1, FS_RemoveElement
  <2> QED BY <1>9, <2>2, Zenon
<1>11. \A f \in Entries : entries'[f].ref = Cardinality(Holders(f)')
  <2>1. \A f \in Entries : entries[f].ref = Cardinality(Holders(f))
    BY RefCounts
  <2>2. entries'[e].ref = Cardinality(Holders(e)')
    BY <1>3, <1>4, <1>10, <2>1
  <2>3. ASSUME NEW f \in Entries, f # e
        PROVE  entries'[f].ref = Cardinality(Holders(f)')
    BY <1>4, <1>9, <2>1, <2>3
  <2> QED BY <2>2, <2>3
<1>12. entries[e].ref = 1 <=> Holders(e)' = {}
  <2>1. IsFiniteSet(Holders(e)')
    BY <1>3, <1>9, RefCounts, FS_RemoveElement
  <2>2. Cardinality(Holders(e)') = 0 <=> Holders(e)' = {}
    BY <2>1, FS_EmptySet
  <2>3. entries[e].ref = Cardinality(Holders(e)) /\ entries[e].ref \in Nat
    BY <1>3, RefCounts
  <2> QED BY <1>10, <2>2, <2>3
<1>13. \A f : Cached(f)' <=> Cached(f)
  BY DEF Cached
<1>14. ASSUME NEW f \in S
       PROVE  /\ entries[f].open /\ entries'[f].retired
              /\ ~Cached(f)' /\ Holders(f)' = {}
  <2>1. f = e /\ entries[e].retired /\ entries[e].ref = 1
    OBVIOUS
  <2>2. ~Cached(e)
    <3> SUFFICES ASSUME NEW d \in Domains, cache[d] = e  PROVE FALSE
      BY DEF Cached
    <3>1. e # 0
      BY <1>1, <1>3 DEF Entries
    <3> QED BY <2>1, <3>1, CachedFacts
  <2> QED BY <1>3, <1>4, <1>12, <1>13, <2>1, <2>2
<1>15. Tidy(t, th[t], S)
  <2>1. th[t].entry <= Len(entries)
    BY DEF StoreOK, ThreadOK
  <2>2. \A d \in Domains : cache'[d] # 0 => ~entries'[cache'[d]].retired /\ cache'[d] = cache[d]
    BY <1>4, CachedFacts
  <2>3. \A f : ~Holds(t, f)'
    BY <1>8
  <2>4. cache' \in [Domains -> 0..Len(entries)]
    BY <1>1
  <2> QED BY <1>11, <1>14, <2>1, <2>2, <2>3, <2>4 DEF Tidy
<1>16. LeavesNothing(t, S)
  <2>1. \A f \in Entries : Holds(t, f) /\ entries[f].retired /\ Holders(f)' = {} => f \in S
    BY <1>2, <1>12
  <2>2. \A f : ~Inserts(t, f)
    BY DEF Inserts
  <2> QED BY <1>13, <2>1, <2>2 DEF LeavesNothing
<1>17. AnswersKept
  BY <1>7, ProceedKeepsAnswers
<1> QED BY <1>5, <1>7, <1>15, <1>16, <1>17, LockStep

LEMMA LookupStore ==
  ASSUME StoreOK, NEW t \in Threads, Lookup(t)
  PROVE  StoreOK' /\ Lasting /\ AnswersKept
<1> USE DEF Lookup
<1>0. PICK e : e = cache[th[t].dir]
  OBVIOUS
<1>1. CASE e # 0 /\ entries[e].key = th[t].key
  <2>1. PICK es : es = [entries EXCEPT ![e].ref = @ + 1]
    OBVIOUS
  <2>2. PICK S \in SUBSET Idle(es, cache) :
          /\ entries' = Retired(es, S) /\ cache' = Dropped(cache, S)
          /\ Proceed(t, [th[t] EXCEPT !.entry = e], S, "search")
    BY <1>0, <1>1, <2>1
  <2>3. RefAs(es, entries, e, entries[e].ref + 1)
    <3>1. entries \in Seq(Entry) /\ th[t] \in Local /\ th[t].dir \in Domains
      BY DEF StoreOK, Local
    <3>2. e \in Entries
      BY <1>0, <1>1, <3>1, CachedFacts
    <3>3. entries[e].ref + 1 \in Nat
      BY <3>2, RefCounts
    <3>4. es = [entries EXCEPT ![e].ref = entries[e].ref + 1]
      BY <2>1
    <3> QED BY <3>1, <3>2, <3>3, <3>4, RefFacts DEF Entries
  <2>4. lock = {} /\ pc[t] = "lookup"
    OBVIOUS
  <2> QED BY <1>0, <1>1, <2>2, <2>3, <2>4, Hits
<1>2. CASE ~(e # 0 /\ entries[e].key = th[t].key)
  <2>1. PICK S : S = {cache[th[t].dir]} \ {0}
    OBVIOUS
  <2>2. /\ entries' = Retired(entries, S) /\ cache' = Dropped(cache, S)
        /\ Proceed(t, th[t], S \cap Idle(entries, cache), "open")
    BY <1>0, <1>2, <2>1
  <2>3. th[t] \in Local /\ th[t].closing = {} /\ th[t].entry <= Len(entries)
    BY DEF StoreOK, LockOK, ThreadOK
  <2>4. lock = {} /\ pc[t] \in {"lookup", "evict"} /\ "open" \in Nexts /\ "open" # "search"
    BY DEF Nexts
  <2>5. StoreOK' /\ Lasting
    BY <2>1, <2>2, <2>3, <2>4, Retires
  <2>6. AnswersKept
    <3>1. S \cap Idle(entries, cache) \in SUBSET Entries
      <4>1. th[t].dir \in Domains
        BY <2>3 DEF Local
      <4> QED BY <2>1, <4>1, CachedFacts
    <3>2. Goes(t, th[t], S \cap Idle(entries, cache), "open")
      BY <2>2, <2>3, <2>4, <3>1 DEF Goes
    <3> QED BY <3>2, ProceedKeepsAnswers
  <2> QED BY <2>5, <2>6
<1> QED BY <1>1, <1>2

LEMMA InsertStore ==
  ASSUME StoreOK, NEW t \in Threads, Insert(t)
  PROVE  StoreOK' /\ Lasting /\ AnswersKept
<1>0. lock = {} /\ pc[t] = "insert"
  BY DEF Insert
<1>1. PICK c : c = [cache EXCEPT ![th[t].dir] = th[t].entry]
  OBVIOUS
<1>2. PICK es : es = Overwritten(entries, cache[th[t].dir])
  OBVIOUS
<1>3. PICK S \in SUBSET Idle(es, c) :
        /\ entries' = Retired(es, S) /\ cache' = Dropped(c, S)
        /\ Proceed(t, th[t], S, "search")
  BY <1>1, <1>2 DEF Insert, Overwritten
<1>4. OverwrittenAs(es, entries, cache[th[t].dir])
  BY <1>2, OverwrittenFacts DEF StoreOK
<1> QED BY <1>0, <1>1, <1>3, <1>4, Inserted

LEMMA ReleaseStore ==
  ASSUME StoreOK, NEW t \in Threads, Release(t)
  PROVE  StoreOK' /\ Lasting /\ AnswersKept
<1>0. lock = {} /\ pc[t] = "release" /\ cache' = cache
  BY DEF Release
<1>1. PICK e : e = th[t].entry
  OBVIOUS
<1>2. PICK next : next = IF th[t].out = "crashed" THEN AfterCrash(t) ELSE "idle"
  OBVIOUS
<1>3. next \in Nexts /\ next # "search"
  BY <1>2 DEF AfterCrash, Nexts
<1>4. PICK S : S = IF entries[e].retired /\ entries[e].ref = 1 THEN {e} ELSE {}
  OBVIOUS
<1>5. entries' = [entries EXCEPT ![e].ref = @ - 1] /\ Proceed(t, th[t], S, next)
  BY <1>1, <1>2, <1>4 DEF Release
<1>6. RefAs(entries', entries, e, entries[e].ref - 1)
  <2>1. Holds(t, e)
    BY <1>0, <1>1 DEF Holds
  <2>2. e \in Entries /\ entries[e].ref >= 1 /\ entries[e].ref \in Nat
    BY <2>1, HeldFacts, RefCounts
  <2>3. entries' = [entries EXCEPT ![e].ref = entries[e].ref - 1] /\ entries[e].ref - 1 \in Nat
    BY <1>5, <2>2
  <2> QED BY <2>2, <2>3, RefFacts DEF StoreOK, Entries
<1> QED BY <1>0, <1>1, <1>3, <1>4, <1>5, <1>6, Releases

LEMMA EvictStore ==
  ASSUME StoreOK, NEW t \in Threads, EvictDir(t)
  PROVE  StoreOK' /\ Lasting /\ AnswersKept
<1> USE DEF EvictDir
<1>1. PICK S : S = {cache[th[t].dir]} \ {0}
  OBVIOUS
<1>2. PICK rec : rec = [Fresh EXCEPT !.dir = th[t].dir, !.attempt = 1]
  OBVIOUS
<1>3. /\ entries' = Retired(entries, S) /\ cache' = Dropped(cache, S)
      /\ Proceed(t, rec, S \cap Idle(entries, cache), "flock")
  BY <1>1, <1>2
<1>4. th[t] \in Local /\ th[t].dir \in Domains /\ Len(entries) \in Nat
  BY DEF StoreOK, Local
<1>5. rec \in Local /\ rec.closing = {} /\ rec.entry = 0 /\ rec.out = "none"
  <2>1. PICK r : r = [Fresh EXCEPT !.dir = th[t].dir]
    OBVIOUS
  <2>2. r \in Local /\ r.closing = {} /\ r.entry = 0 /\ r.out = "none"
    BY <1>4, <2>1, FreshFacts DEF Local
  <2>3. rec = [r EXCEPT !.attempt = 1]
    BY <1>2, <2>1
  <2> QED BY <2>2, <2>3 DEF Local
<1>6. lock = {} /\ pc[t] \in {"lookup", "evict"} /\ "flock" \in Nexts /\ "flock" # "search"
  BY DEF Nexts
<1>7. rec.entry <= Len(entries)
  BY <1>4, <1>5
<1>8. StoreOK' /\ Lasting
  BY <1>1, <1>3, <1>5, <1>6, <1>7, Retires
<1>9. AnswersKept
  <2>1. S \cap Idle(entries, cache) \in SUBSET Entries
    BY <1>1, <1>4, CachedFacts
  <2>2. Goes(t, rec, S \cap Idle(entries, cache), "flock")
    BY <1>3, <1>5, <1>6, <2>1 DEF Goes
  <2> QED BY <1>5, <2>2, ProceedKeepsAnswers
<1> QED BY <1>8, <1>9

\* What a thread does alone.
Alone(t, p, l) ==
    /\ UNCHANGED <<entries, cache, lock>>
    /\ pc' = [pc EXCEPT ![t] = p] /\ th' = [th EXCEPT ![t] = l]

LEMMA AloneStore ==
  ASSUME StoreOK, NEW t \in Threads, NEW p, NEW l, Alone(t, p, l),
         p \in Pcs \ {"closing", "insert", "search"}, pc[t] \notin {"closing", "insert", "search"},
         p # "release", pc[t] # "release", l \in Local, l.closing = {}, l.entry <= Len(entries)
  PROVE  StoreOK'
<1>1. pc' = [pc EXCEPT ![t] = p] /\ th' = [th EXCEPT ![t] = l] /\ UNCHANGED <<store, lock>>
  BY DEF Alone, store
<1>2. \A e : ~Holds(t, e) /\ ~Holds(t, e)'
  BY <1>1 DEF Holds, StoreOK
<1>3. {p, pc[t]} \cap {"closing", "insert"} = {} /\ p \in Pcs
  OBVIOUS
<1> QED BY <1>1, <1>2, <1>3, LocalStep

LEMMA AloneAnswers ==
  ASSUME StoreOK, NEW t \in Threads, NEW p, NEW l, Alone(t, p, l),
         l.out = "answered" => l.out = th[t].out /\ l.from = th[t].from /\ l.dir = th[t].dir
  PROVE  AnswersKept
<1>1. th'[t] = l /\ \A u \in Threads : u # t => th'[u] = th[u]
  BY DEF Alone, StoreOK
<1> QED BY <1>1 DEF AnswersKept

LEMMA BeginStore ==
  ASSUME StoreOK, NEW t \in Threads, Begin(t)
  PROVE  StoreOK' /\ AnswersKept
<1>1. PICK d \in Domains : th' = [th EXCEPT ![t] = [Fresh EXCEPT !.dir = d]]
  BY DEF Begin
<1>2. PICK l : l = [Fresh EXCEPT !.dir = d]
  OBVIOUS
<1>3. l \in Local /\ l.closing = {} /\ l.entry = 0 /\ l.out = "none" /\ l.entry <= Len(entries)
  <2>1. l \in Local /\ l.closing = {} /\ l.entry = 0 /\ l.out = "none"
    BY <1>2, FreshFacts DEF Local
  <2>2. Len(entries) \in Nat
    BY DEF StoreOK
  <2> QED BY <2>1, <2>2
<1>4. Alone(t, "flock", l) /\ pc[t] = "idle" /\ "flock" \in Pcs
  BY <1>1, <1>2 DEF Begin, store, Alone, Pcs
<1> QED BY <1>3, <1>4, AloneStore, AloneAnswers

LEMMA ReadSeqStore ==
  ASSUME StoreOK, DiskOK, NEW t \in Threads, ReadSeq(t)
  PROVE  StoreOK' /\ AnswersKept
<1>0. th[t] \in Local /\ th[t].dir \in Domains /\ th[t].closing = {} /\ th[t].entry <= Len(entries)
  BY DEF StoreOK, Local, LockOK, ThreadOK, ReadSeq
<1>1. PICK d : d = th[t].dir
  OBVIOUS
<1>2. seq[d] \in Seqs
  <2>1. seq[d] + Active(d) <= calls /\ seq[d] \in Nat /\ calls \in 0..MaxCalls /\ MaxCalls \in Nat
    BY <1>0, <1>1, DaemonBounds DEF DiskOK
  <2>2. Active(d) \in Nat
    BY DEF Active
  <2> QED BY <2>1, <2>2 DEF Seqs
<1>3. PICK l : l = [th[t] EXCEPT !.key = seq[d]]
  OBVIOUS
<1>4. /\ l \in Local /\ l.closing = {} /\ l.entry <= Len(entries)
      /\ l.out = th[t].out /\ l.from = th[t].from /\ l.dir = th[t].dir
  BY <1>0, <1>2, <1>3 DEF Local
<1>5. Alone(t, "lookup", l) /\ pc[t] = "flock" /\ "lookup" \in Pcs
  <2>1. th' = [th EXCEPT ![t] = l]
    BY <1>1, <1>3 DEF ReadSeq
  <2> QED BY <2>1 DEF ReadSeq, store, Alone, Pcs
<1> QED BY <1>4, <1>5, AloneStore, AloneAnswers

LEMMA SearchStore ==
  ASSUME StoreOK, ClientOK, NEW t \in Threads, Search(t)
  PROVE  StoreOK'
<1>0. th[t] \in Local /\ th[t].closing = {} /\ th[t].entry <= Len(entries) /\ pc[t] = "search"
  BY DEF StoreOK, LockOK, ThreadOK, Search
<1>1. PICK h : h = entries[th[t].entry].h
  OBVIOUS
<1>2. PICK l : /\ th' = [th EXCEPT ![t] = l] /\ l \in Local
               /\ l.closing = {} /\ l.entry = th[t].entry /\ l.dir = th[t].dir
  <2>1. CASE \E o \in {"failed", "crashed"} : th' = [th EXCEPT ![t].out = o]
    <3>1. PICK o \in {"failed", "crashed"} : th' = [th EXCEPT ![t].out = o]
      BY <2>1
    <3>2. PICK l : l = [th[t] EXCEPT !.out = o]
      OBVIOUS
    <3>3. th' = [th EXCEPT ![t] = l]
      BY <3>1, <3>2
    <3>4. l \in Local /\ l.closing = {} /\ l.entry = th[t].entry /\ l.dir = th[t].dir
      BY <1>0, <3>2 DEF Local, Outs
    <3> QED BY <3>3, <3>4
  <2>2. CASE /\ Knows(Serving, h)
             /\ th' = [th EXCEPT ![t].out = "answered", ![t].from = Serving.table[h].dir]
    <3>1. Serving \in Daemons
      BY ServingFacts DEF TableOK
    <3>2. Serving.table[h].dir \in Domains
      BY <2>2, <3>1, TableFacts DEF Knows, Objects
    <3>3. PICK r : r = [th[t] EXCEPT !.out = "answered"]
      OBVIOUS
    <3>4. r \in Local /\ r.closing = {} /\ r.entry = th[t].entry /\ r.dir = th[t].dir
      BY <1>0, <3>3 DEF Local, Outs
    <3>5. PICK l : l = [r EXCEPT !.from = Serving.table[h].dir]
      OBVIOUS
    <3>6. th' = [th EXCEPT ![t] = l]
      BY <2>2, <3>3, <3>5, <1>0 DEF StoreOK
    <3>7. l \in Local /\ l.closing = {} /\ l.entry = th[t].entry /\ l.dir = th[t].dir
      BY <3>2, <3>4, <3>5 DEF Local
    <3> QED BY <3>6, <3>7
  <2> QED BY <1>1, <2>1, <2>2 DEF Search
<1>3. pc' = [pc EXCEPT ![t] = "release"] /\ UNCHANGED <<store, lock>> /\ "release" \in Pcs
  BY DEF Search, Pcs
<1>4. \A e : Holds(t, e)' <=> Holds(t, e)
  BY <1>0, <1>2, <1>3 DEF Holds, StoreOK
<1>5. {"release", pc[t]} \cap {"closing", "insert"} = {}
  BY <1>0
<1> QED BY <1>0, <1>2, <1>3, <1>4, <1>5, LocalStep

\* A new entry, which only its thread knows.
LEMMA OpenedStore ==
  ASSUME StoreOK, NEW t \in Threads, pc[t] = "open",
         NEW new \in Entry, new.ref = 1, ~new.retired, new.open, new.dir = th[t].dir,
         NEW e, e = Len(entries) + 1,
         entries' = Append(entries, new), th' = [th EXCEPT ![t].entry = e],
         pc' = [pc EXCEPT ![t] = "insert"], UNCHANGED <<cache, lock>>
  PROVE  StoreOK' /\ AnswersKept
<1>1. entries \in Seq(Entry) /\ Len(entries) \in Nat /\ th[t] \in Local /\ e \in Nat \ {0}
  BY DEF StoreOK
<1>2. /\ entries' \in Seq(Entry) /\ Len(entries') = e /\ entries'[e] = new
      /\ \A f \in Entries : entries'[f] = entries[f]
  BY <1>1 DEF Entries
<1>3. Entries' = Entries \cup {e} /\ e \notin Entries
  BY <1>1, <1>2 DEF Entries
<1>4. PICK l : l = [th[t] EXCEPT !.entry = e]
  OBVIOUS
<1>5. /\ l \in Local /\ l.entry = e /\ l.dir = th[t].dir /\ l.closing = th[t].closing
      /\ l.out = th[t].out /\ l.from = th[t].from
  BY <1>1, <1>4 DEF Local
<1>6. /\ pc' \in [Threads -> Pcs] /\ th' \in [Threads -> Local]
      /\ pc'[t] = "insert" /\ th'[t] = l
      /\ \A u \in Threads : u # t => pc'[u] = pc[u] /\ th'[u] = th[u]
  <2>1. th' = [th EXCEPT ![t] = l]
    BY <1>4
  <2> QED BY <1>5, <2>1 DEF StoreOK, Pcs
<1>7. AnswersKept
  BY <1>5, <1>6 DEF AnswersKept
<1>8. LockOK'
  BY <1>5, <1>6 DEF StoreOK, LockOK
<1>9. \A f : Cached(f)' <=> Cached(f)
  BY DEF Cached
<1>10. CacheOK'
  <2>1. cache' \in [Domains -> 0..Len(entries')]
    BY <1>1, <1>2 DEF StoreOK, CacheOK
  <2>2. \A d \in Domains : cache'[d] # 0 =>
          entries'[cache'[d]].dir = d /\ entries'[cache'[d]].open /\ ~entries'[cache'[d]].retired
    BY <1>2, CachedFacts
  <2> QED BY <2>1, <2>2 DEF CacheOK
<1>11. \A u \in Threads : \A f : Holds(u, f) => f \in Entries
  BY HeldFacts
<1>12. \A f : Holds(t, f)' <=> f = e
  BY <1>5, <1>6 DEF Holds
<1>13. \A u \in Threads : u # t => \A f : Holds(u, f)' <=> Holds(u, f)
  BY <1>6 DEF Holds
<1>14. \A f : ~Holds(t, f)
  BY DEF Holds
<1>15. Holders(e)' = {t} /\ \A f \in Entries : Holders(f)' = Holders(f)
  <2>1. Holders(e)' = {t}
    BY <1>3, <1>11, <1>12, <1>13 DEF Holders
  <2>2. \A f \in Entries : \A u \in Threads : Holds(u, f)' <=> Holds(u, f)
    BY <1>3, <1>12, <1>13, <1>14
  <2> QED BY <2>1, <2>2 DEF Holders
<1>16. \A d \in Domains : cache[d] # e
  BY <1>1, <1>3, CachedFacts
<1>17. ASSUME NEW u \in Threads
       PROVE  ThreadOK(u)' /\ ClosingOK(u)'
  <2>1. CASE u = t
    <3>1. th[t].closing = {}
      BY DEF StoreOK, LockOK
    <3>2. ClosingOK(t)'
      BY <1>5, <1>6, <3>1 DEF ClosingOK
    <3>3. th'[t].entry <= Len(entries')
      BY <1>1, <1>2, <1>5, <1>6
    <3>4. \A f : Holds(t, f)' => f # 0 /\ entries'[f].dir = th'[t].dir
      BY <1>1, <1>2, <1>5, <1>6, <1>12
    <3>5. /\ ~Cached(e)' /\ ~entries'[e].retired
          /\ \A w \in Threads : w # t => ~Holds(w, e)'
      <4>1. ~Cached(e)'
        BY <1>9, <1>16 DEF Cached
      <4>2. \A w \in Threads : w # t => ~Holds(w, e)'
        BY <1>3, <1>11, <1>13
      <4> QED BY <1>2, <4>1, <4>2
    <3> QED BY <1>5, <1>6, <2>1, <3>2, <3>3, <3>4, <3>5 DEF ThreadOK
  <2>2. CASE u # t
    <3>1. ThreadOK(u) /\ ClosingOK(u) /\ th'[u] = th[u] /\ pc'[u] = pc[u] /\ th[u] \in Local
      BY <1>6, <2>2 DEF StoreOK
    <3>2. ClosingOK(u)'
      BY <1>2, <1>3, <1>9, <1>15, <3>1 DEF ClosingOK
    <3>3. th'[u].entry <= Len(entries')
      BY <1>1, <1>2, <3>1 DEF ThreadOK, Local
    <3>4. \A f : Holds(u, f)' => f # 0 /\ entries'[f].dir = th'[u].dir
      BY <1>2, <1>11, <1>13, <2>2, <3>1 DEF ThreadOK
    <3>5. ASSUME pc'[u] = "insert", NEW f, f = th[u].entry
          PROVE  /\ ~Cached(f)' /\ ~entries'[f].retired
                 /\ \A w \in Threads : w # u => ~Holds(w, f)'
      <4>1. Holds(u, f)
        BY <3>1, <3>5 DEF Holds
      <4>2. f \in Entries /\ f # e
        BY <1>3, <1>11, <4>1
      <4>3. /\ ~Cached(f) /\ ~entries[f].retired
            /\ \A w \in Threads : w # u => ~Holds(w, f)
        BY <3>1, <3>5 DEF ThreadOK
      <4>4. \A w \in Threads : w # u => ~Holds(w, f)'
        BY <1>12, <1>13, <4>2, <4>3
      <4> QED BY <1>2, <1>9, <4>2, <4>3, <4>4
    <3> QED BY <3>1, <3>2, <3>3, <3>4, <3>5 DEF ThreadOK
  <2> QED BY <2>1, <2>2
<1>18. ASSUME NEW f \in Entries'
       PROVE  EntryOK(f)'
  <2>1. CASE f = e
    <3>1. Cardinality(Holders(e)') = 1
      BY <1>15, FS_Singleton, Zenon
    <3>2. entries'[e].ref = Cardinality(Holders(e)')
      BY <1>2, <3>1
    <3>3. Owned(e)'
      BY <1>5, <1>6 DEF Owned, Inserts
    <3> QED BY <1>2, <2>1, <3>2, <3>3 DEF EntryOK
  <2>2. CASE f # e
    <3>1. f \in Entries /\ EntryOK(f) /\ entries'[f] = entries[f] /\ Holders(f)' = Holders(f)
      BY <1>2, <1>3, <1>15, <2>2 DEF StoreOK
    <3>2. ~Inserts(t, f) /\ \A u \in Threads : u # t => (Inserts(u, f)' <=> Inserts(u, f))
      BY <1>6 DEF Inserts
    <3>3. \A u \in Threads : th'[u].closing = th[u].closing
      BY <1>5, <1>6
    <3>4. Owned(f) => Owned(f)'
      BY <1>9, <3>1, <3>2, <3>3 DEF Owned
    <3> QED BY <3>1, <3>4 DEF EntryOK
  <2> QED BY <2>1, <2>2
<1> QED BY <1>2, <1>6, <1>7, <1>8, <1>10, <1>17, <1>18 DEF StoreOK

\* One entry is closed: nobody could find it and nobody read it.
ClosedOne(e) ==
    /\ entries' \in Seq(Entry) /\ Len(entries') = Len(entries)
    /\ \A f \in Entries :
         /\ entries'[f].dir = entries[f].dir /\ entries'[f].h = entries[f].h
         /\ entries'[f].life = entries[f].life /\ entries'[f].ref = entries[f].ref
         /\ entries'[f].retired = entries[f].retired /\ entries'[f].lost = entries[f].lost
         /\ entries[f].robbed => entries'[f].robbed
         /\ entries'[f].open <=> entries[f].open /\ f # e

LEMMA ClosedStore ==
  ASSUME StoreOK, NEW t \in Threads, pc[t] = "closing", NEW e \in th[t].closing,
         ClosedOne(e), cache' = cache,
         Proceed(t, [th[t] EXCEPT !.closing = {}], th[t].closing \ {e}, th[t].next)
  PROVE  StoreOK' /\ AnswersKept
<1>1. th[t] \in Local /\ ThreadOK(t) /\ ClosingOK(t) /\ t \in lock
  BY DEF StoreOK, LockOK
<1>2. PICK rec : rec = [th[t] EXCEPT !.closing = {}]
  OBVIOUS
<1>3. PICK S : S = th[t].closing \ {e}
  OBVIOUS
<1>4. PICK next : next = th[t].next
  OBVIOUS
<1>5. /\ rec \in Local /\ rec.closing = {} /\ rec.entry = th[t].entry /\ rec.dir = th[t].dir
      /\ rec.out = th[t].out /\ rec.from = th[t].from
  BY <1>1, <1>2 DEF Local
<1>6. Goes(t, rec, S, next)
  <2>1. S \in SUBSET Entries /\ next \in Nexts
    BY <1>1, <1>3, <1>4 DEF ClosingOK, Local
  <2> QED BY <1>2, <1>3, <1>4, <1>5, <2>1 DEF Goes
<1>7. Gone(t, rec, S, next)
  BY <1>6, ProceedFacts
<1>8. AnswersKept
  BY <1>5, <1>6, ProceedKeepsAnswers
<1>9. /\ pc' \in [Threads -> Pcs] /\ th' \in [Threads -> Local]
      /\ \A u \in Threads : u # t => pc'[u] = pc[u] /\ th'[u] = th[u]
      /\ pc'[t] = IF S = {} THEN next ELSE "closing"
      /\ lock' = IF S = {} THEN {} ELSE {t}
      /\ th'[t].closing = S
      /\ th'[t].entry \in {0, rec.entry}
      /\ \A f : Holds(t, f)' <=> next = "search" /\ f = rec.entry
      /\ next # "idle" => th'[t].dir = rec.dir
  BY <1>7 DEF Gone
<1>10. next \in Nexts /\ Len(entries) \in Nat /\ Entries' = Entries
  BY <1>6 DEF Goes, StoreOK, Entries, ClosedOne
<1>11. pc'[t] # "insert" /\ (pc'[t] = "closing" <=> S # {})
  BY <1>9, <1>10 DEF Nexts
<1>12. \A u \in Threads : u # t => pc[u] # "closing" /\ th[u].closing = {}
  BY <1>1 DEF StoreOK, LockOK
<1>13. LockOK'
  BY <1>9, <1>11, <1>12 DEF LockOK
<1>14. \A u \in Threads : \A f : Holds(u, f)' <=> Holds(u, f)
  <2>1. \A f : Holds(t, f)' <=> Holds(t, f)
    BY <1>4, <1>5, <1>9 DEF Holds
  <2>2. \A u \in Threads : u # t => \A f : Holds(u, f)' <=> Holds(u, f)
    BY <1>9 DEF Holds
  <2> QED BY <2>1, <2>2
<1>15. \A f : Holders(f)' = Holders(f)
  BY <1>14 DEF Holders
<1>16. \A f : Cached(f)' <=> Cached(f)
  BY DEF Cached
<1>17. e \in Entries /\ ~Cached(e) /\ Holders(e) = {}
  BY <1>1 DEF ClosingOK
<1>18. CacheOK'
  <2>1. cache' \in [Domains -> 0..Len(entries')]
    BY DEF StoreOK, CacheOK, ClosedOne
  <2>2. ASSUME NEW d \in Domains, cache'[d] # 0
        PROVE  entries'[cache'[d]].dir = d /\ entries'[cache'[d]].open /\ ~entries'[cache'[d]].retired
    <3>1. /\ cache[d] \in Entries /\ Cached(cache[d])
          /\ entries[cache[d]].dir = d /\ entries[cache[d]].open /\ ~entries[cache[d]].retired
      BY <2>2, CachedFacts
    <3>2. cache[d] # e
      BY <1>17, <3>1
    <3> QED BY <3>1, <3>2 DEF ClosedOne
  <2> QED BY <2>1, <2>2 DEF CacheOK
<1>19. \A u \in Threads : \A f : Holds(u, f) => f \in Entries /\ f # 0 /\ entries[f].dir = th[u].dir
  BY <1>10, HeldFacts DEF Entries
<1>20. ASSUME NEW u \in Threads
       PROVE  ThreadOK(u)' /\ ClosingOK(u)'
  <2>1. CASE u = t
    <3>1. th'[t].entry <= Len(entries')
      BY <1>1, <1>5, <1>9, <1>10 DEF ThreadOK, ClosedOne
    <3>2. \A f : Holds(t, f)' => f # 0 /\ entries'[f].dir = th'[t].dir
      BY <1>5, <1>9, <1>14, <1>19 DEF ClosedOne
    <3>3. ClosingOK(t)'
      BY <1>1, <1>3, <1>9, <1>10, <1>15, <1>16 DEF ClosingOK, ClosedOne
    <3> QED BY <1>11, <2>1, <3>1, <3>2, <3>3 DEF ThreadOK
  <2>2. CASE u # t
    <3>1. ThreadOK(u) /\ th'[u] = th[u] /\ pc'[u] = pc[u]
      BY <1>9, <2>2 DEF StoreOK
    <3>2. ClosingOK(u)'
      BY <1>12, <2>2, <3>1 DEF ClosingOK
    <3>3. th'[u].entry <= Len(entries')
      BY <3>1 DEF ThreadOK, ClosedOne
    <3>4. \A f : Holds(u, f)' => f # 0 /\ entries'[f].dir = th'[u].dir
      BY <1>14, <1>19, <3>1 DEF ClosedOne
    <3>5. ASSUME pc'[u] = "insert", NEW f, f = th[u].entry
          PROVE  /\ ~Cached(f)' /\ ~entries'[f].retired
                 /\ \A w \in Threads : w # u => ~Holds(w, f)'
      <4>1. Holds(u, f)
        BY <3>1, <3>5 DEF Holds
      <4>2. /\ ~Cached(f) /\ ~entries[f].retired
            /\ \A w \in Threads : w # u => ~Holds(w, f)
        BY <3>1, <3>5 DEF ThreadOK
      <4> QED BY <1>14, <1>16, <1>19, <4>1, <4>2 DEF ClosedOne
    <3> QED BY <3>1, <3>2, <3>3, <3>4, <3>5 DEF ThreadOK
  <2> QED BY <2>1, <2>2
<1>21. ASSUME NEW f \in Entries
       PROVE  EntryOK(f)'
  <2>1. EntryOK(f)
    BY DEF StoreOK
  <2>2. entries'[f].ref = Cardinality(Holders(f)')
    <3>1. entries[f].ref = Cardinality(Holders(f))
      BY <2>1 DEF EntryOK
    <3> QED BY <1>15, <3>1 DEF ClosedOne
  <2>3. Holders(f)' # {} => entries'[f].open
    BY <1>15, <1>17, <2>1 DEF EntryOK, ClosedOne
  <2>4. ASSUME entries'[f].open
        PROVE  Owned(f)'
    <3>1. f # e /\ entries[f].open /\ Owned(f)
      BY <2>1, <2>4 DEF EntryOK, ClosedOne
    <3>2. \A u \in Threads : f \in th[u].closing => f \in th'[t].closing
      BY <1>3, <1>9, <1>12, <3>1
    <3>3. \A u \in Threads : Inserts(u, f) => Inserts(u, f)'
      BY <1>9 DEF Inserts
    <3>4. CASE Cached(f) \/ entries[f].lost
      BY <1>16, <3>4 DEF Owned, ClosedOne
    <3>5. CASE Holders(f) # {} /\ entries[f].retired
      BY <1>15, <3>5 DEF Owned, ClosedOne
    <3>6. CASE \E u \in Threads : Inserts(u, f) \/ f \in th[u].closing
      BY <3>2, <3>3, <3>6 DEF Owned
    <3> QED BY <3>1, <3>4, <3>5, <3>6 DEF Owned
  <2> QED BY <2>2, <2>3, <2>4 DEF EntryOK
<1> QED BY <1>8, <1>9, <1>10, <1>13, <1>18, <1>20, <1>21 DEF StoreOK, ClosedOne

-----------------------------------------------------------------------------
(* The table under each request.                                           *)

\* TableOK of the next state, of a table that is named.
LEMMA TableIs ==
  ASSUME NEW d, TableOK(d)', daemon' = d
  PROVE  TableOK(daemon)'
BY DEF TableOK, ViewOK, JobSlotOK, HandleOK, FirstLifeOK, IsA, Knows

\* What a request may do to the views: take one away from an entry.
ViewsKept(d, n) ==
    /\ n \in Daemons /\ n.alive = d.alive /\ n.life = d.life
    /\ \A h \in DOMAIN n.table : n.table[h].kind = "view" =>
         h \in DOMAIN d.table /\ n.table[h] = d.table[h] /\ entries'[n.table[h].entry].open
    /\ \A h \in DOMAIN d.table : d.table[h].kind = "view" =>
         \/ h \in DOMAIN n.table /\ n.table[h] = d.table[h]
         \/ LET e == d.table[h].entry IN entries'[e].robbed \/ ~entries'[e].open

EntriesKept ==
    /\ Len(entries') = Len(entries)
    /\ \A e \in Entries :
         /\ entries'[e].dir = entries[e].dir /\ entries'[e].h = entries[e].h
         /\ entries'[e].life = entries[e].life
         /\ entries'[e].open => entries[e].open
         /\ entries[e].robbed => entries'[e].robbed

LEMMA ViewsStay ==
  ASSUME NEW d, NEW n, TableOK(d), ViewsKept(d, n), EntriesKept
  PROVE  /\ \A h \in DOMAIN n.table : ViewOK(n, h)'
         /\ \A e \in Entries : HandleOK(n, e)' /\ entries'[e].life \in 1..n.life
         /\ Entries' = Entries
<1>1. Entries' = Entries
  BY DEF EntriesKept, Entries
<1>2. ASSUME NEW h \in DOMAIN n.table
      PROVE  ViewOK(n, h)'
  <2>1. CASE n.table[h].kind = "view"
    <3>1. /\ h \in DOMAIN d.table /\ n.table[h] = d.table[h] /\ entries'[n.table[h].entry].open
          /\ n.life = d.life
      BY <2>1 DEF ViewsKept
    <3>2. ViewOK(d, h)
      BY <3>1 DEF TableOK
    <3> QED BY <1>1, <2>1, <3>1, <3>2 DEF ViewOK, EntriesKept
  <2>2. CASE n.table[h].kind # "view"
    BY <2>2 DEF ViewOK
  <2> QED BY <2>1, <2>2
<1>3. ASSUME NEW e \in Entries
      PROVE  HandleOK(n, e)' /\ entries'[e].life \in 1..n.life
  <2>1. HandleOK(d, e) /\ entries[e].life \in 1..d.life /\ n.life = d.life /\ n.alive = d.alive
    BY DEF TableOK, ViewsKept
  <2>2. /\ entries'[e].h = entries[e].h /\ entries'[e].life = entries[e].life
        /\ entries'[e].open => entries[e].open
        /\ entries[e].robbed => entries'[e].robbed
    BY DEF EntriesKept
  <2>3. ASSUME n.alive, entries'[e].open, entries'[e].life = n.life, ~entries'[e].robbed
        PROVE  IsA(n, entries'[e].h, "view") /\ n.table[entries'[e].h].entry = e
    <3>1. IsA(d, entries[e].h, "view") /\ d.table[entries[e].h].entry = e
      BY <2>1, <2>2, <2>3 DEF HandleOK
    <3>2. PICK h : h = entries[e].h
      OBVIOUS
    <3>3. h \in DOMAIN n.table /\ n.table[h] = d.table[h]
      BY <2>3, <3>1, <3>2 DEF ViewsKept, IsA, Knows
    <3> QED BY <2>2, <3>1, <3>2, <3>3 DEF IsA, Knows
  <2>4. HandleOK(n, e)'
    BY <2>3 DEF HandleOK
  <2> QED BY <2>1, <2>2, <2>4
<1> QED BY <1>1, <1>2, <1>3

\* Nothing that the table depends on has changed.
EntriesSame ==
    /\ Len(entries') = Len(entries)
    /\ \A e \in Entries :
         /\ entries'[e].dir = entries[e].dir /\ entries'[e].h = entries[e].h
         /\ entries'[e].life = entries[e].life /\ entries'[e].open = entries[e].open
         /\ entries'[e].robbed = entries[e].robbed
JobQuiet ==
    \/ job' = job
    \/ job.pc \notin Loaded /\ job'.pc \notin Loaded /\ ~job'.robbed

LEMMA SameTable ==
  ASSUME NEW d, TableOK(d), EntriesSame, JobQuiet
  PROVE  TableOK(d)'
<1>1. Entries' = Entries /\ d \in Daemons
  BY DEF EntriesSame, Entries, TableOK
<1>2. ASSUME NEW h \in DOMAIN d.table
      PROVE  ViewOK(d, h)' /\ JobSlotOK(d, h)'
  <2>1. ViewOK(d, h) /\ JobSlotOK(d, h)
    BY DEF TableOK
  <2>2. ViewOK(d, h)'
    BY <1>1, <2>1 DEF ViewOK, EntriesSame
  <2>3. JobSlotOK(d, h)'
    <3>1. CASE job' = job
      BY <2>1, <3>1 DEF JobSlotOK
    <3>2. CASE job.pc \notin Loaded
      <4>1. d.table[h].kind \notin {"dafsa", "wal"}
        BY <2>1, <3>2 DEF JobSlotOK, Loaded, WithWal
      <4> QED BY <4>1 DEF JobSlotOK
    <3> QED BY <3>1, <3>2 DEF JobQuiet
  <2> QED BY <2>2, <2>3
<1>3. ASSUME NEW e \in Entries
      PROVE  HandleOK(d, e)' /\ entries'[e].life \in 1..d.life
  <2>1. HandleOK(d, e) /\ entries[e].life \in 1..d.life
    BY DEF TableOK
  <2> QED BY <2>1 DEF HandleOK, EntriesSame
<1>4. job'.pc \in Loaded => d.life >= 1
  BY DEF JobQuiet, TableOK
<1>5. FirstLifeOK(d)'
  <2>1. FirstLifeOK(d)
    BY DEF TableOK
  <2>2. CASE job' = job
    BY <1>1, <2>1, <2>2 DEF FirstLifeOK, EntriesSame
  <2>3. CASE job'.pc \notin Loaded /\ ~job'.robbed
    BY <1>1, <2>1, <2>3 DEF FirstLifeOK, EntriesSame, Loaded, WithWal
  <2> QED BY <2>2, <2>3 DEF JobQuiet
<1> QED BY <1>1, <1>2, <1>3, <1>4, <1>5 DEF TableOK

LEMMA DeadTable ==
  ASSUME TableOK(daemon), NEW d \in Daemons, ~d.alive, DOMAIN d.table = {}, d.life >= daemon.life,
         EntriesKept, \A e \in Entries : entries'[e].robbed = entries[e].robbed,
         job'.robbed => job.robbed, job'.pc \in Loaded => job.pc \in Loaded
  PROVE  TableOK(d)'
<1>1. Entries' = Entries /\ daemon.life \in Nat /\ d.life \in Nat
  BY TableFacts DEF EntriesKept, Entries, TableOK
<1>2. ASSUME NEW e \in Entries
      PROVE  HandleOK(d, e)' /\ entries'[e].life \in 1..d.life
  <2>1. entries[e].life \in 1..daemon.life /\ entries'[e].life = entries[e].life
    BY DEF TableOK, EntriesKept
  <2> QED BY <1>1, <2>1 DEF HandleOK
<1>3. job'.pc \in Loaded => d.life >= 1
  BY <1>1 DEF TableOK
<1>4. FirstLifeOK(d)'
  BY <1>1 DEF TableOK, FirstLifeOK
<1> QED BY <1>1, <1>2, <1>3, <1>4 DEF TableOK

LEMMA AnswersFrame ==
  ASSUME AnswersOK, AnswersKept, daemon.life \in Nat, daemon'.life \in Nat,
         daemon'.life >= daemon.life
  PROVE  AnswersOK'
BY DEF AnswersOK, AnswersKept

\* The request is answered.
LEMMA Answered ==
  ASSUME ClientOK, NEW d, Replies(d), d.alive, d.life = Serving.life, TableOK(d)',
         AnswersOK' \/ AnswersKept
  PROVE  ClientOK'
<1>1. daemon' = d /\ attached' = TRUE /\ faults' = faults
  BY DEF Replies
<1>2. d.life \in Nat /\ d.life >= 1 /\ d.life <= faults + 1 /\ d.life >= daemon.life
  BY ServingFacts
<1>3. daemon.life \in Nat /\ faults \in 0..MaxFaults /\ faults \in Nat
  BY TableFacts, DaemonBounds DEF ClientOK, TableOK
<1>4. TableOK(daemon)'
  BY <1>1, TableIs
<1>5. AnswersOK'
  BY <1>1, <1>2, <1>3, AnswersFrame DEF ClientOK
<1>6. daemon'.life + (IF attached' /\ daemon'.alive THEN 0 ELSE 1) <= faults' + 1
  BY <1>1, <1>2, <1>3
<1> QED BY <1>1, <1>2, <1>3, <1>4, <1>5, <1>6 DEF ClientOK

\* The request, or the handshake before it, fails.
LEMMA GivenUp ==
  ASSUME ClientOK, Crashes \/ Refused, AnswersKept,
         EntriesKept, \A e \in Entries : entries'[e].robbed = entries[e].robbed,
         job'.robbed => job.robbed, job'.pc \in Loaded => job.pc \in Loaded
  PROVE  ClientOK'
<1>1. daemon \in Daemons /\ daemon.life \in Nat /\ faults \in Nat /\ attached \in BOOLEAN
      /\ daemon.alive \in BOOLEAN
  BY TableFacts, DaemonBounds DEF ClientOK, TableOK
<1>2. PICK d : d = daemon'
  OBVIOUS
<1>3. /\ d \in Daemons /\ ~d.alive /\ DOMAIN d.table = {} /\ d.life >= daemon.life
      /\ d.life <= faults + 1 /\ d.life \in Nat
  <2>1. CASE Crashes
    <3>1. PICK s : s = Serving
      OBVIOUS
    <3>2. s \in Daemons /\ s.life >= daemon.life /\ s.life <= faults + 1 /\ s.life \in Nat
      BY <3>1, ServingFacts DEF TableOK
    <3>3. d = [s EXCEPT !.alive = FALSE, !.table = Empty]
      BY <1>2, <2>1, <3>1 DEF Crashes
    <3>4. d \in Daemons /\ ~d.alive /\ d.table = Empty /\ d.life = s.life
      BY <3>2, <3>3, EmptyFacts DEF Daemons
    <3> QED BY <3>2, <3>4, EmptyFacts
  <2>2. CASE Refused
    <3>1. d = [alive |-> FALSE, life |-> daemon.life, table |-> Empty]
      BY <1>2, <2>2 DEF Refused
    <3>2. d \in Daemons /\ ~d.alive /\ d.table = Empty /\ d.life = daemon.life
      BY <1>1, <3>1, EmptyFacts DEF Daemons
    <3>3. daemon.life + 1 <= faults + 1
      BY <1>1, <2>2 DEF ClientOK, Refused
    <3> QED BY <1>1, <3>2, <3>3, EmptyFacts
  <2> QED BY <2>1, <2>2
<1>4. faults' = faults + 1 /\ faults < MaxFaults /\ attached' = FALSE
  BY DEF Crashes, Refused
<1>5. TableOK(d)'
  BY <1>3, DeadTable DEF ClientOK
<1>6. TableOK(daemon)'
  BY <1>2, <1>5, TableIs
<1>7. AnswersOK'
  BY <1>1, <1>2, <1>3, AnswersFrame DEF ClientOK
<1>8. daemon'.life + 1 <= faults' + 1
  BY <1>1, <1>2, <1>3, <1>4
<1>9. faults' \in 0..MaxFaults
  BY <1>1, <1>4, DaemonBounds
<1> QED BY <1>2, <1>3, <1>4, <1>6, <1>7, <1>8, <1>9 DEF ClientOK

LEMMA DiesClient ==
  ASSUME ClientOK, Dies
  PROVE  ClientOK'
<1>1. daemon \in Daemons /\ daemon.life \in Nat /\ faults \in Nat /\ attached \in BOOLEAN
  BY TableFacts, DaemonBounds DEF ClientOK, TableOK
<1>2. PICK d : d = daemon'
  OBVIOUS
<1>3. d \in Daemons /\ ~d.alive /\ d.table = Empty /\ d.life = daemon.life
  BY <1>1, <1>2, EmptyFacts DEF Dies, Daemons
<1>4. /\ faults' = faults + 1 /\ faults < MaxFaults
      /\ UNCHANGED <<attached, entries, th, job>> /\ daemon.alive
  BY DEF Dies, store
<1>5. EntriesKept /\ Entries' = Entries /\ AnswersKept
  BY <1>4 DEF EntriesKept, AnswersKept, Entries
<1>6. TableOK(d)'
  <2>1. d.life >= daemon.life /\ DOMAIN d.table = {}
    BY <1>1, <1>3, EmptyFacts
  <2> QED BY <1>3, <1>4, <1>5, <2>1, DeadTable DEF ClientOK
<1>7. TableOK(daemon)'
  BY <1>2, <1>6, TableIs
<1>8. AnswersOK'
  BY <1>1, <1>2, <1>3, <1>5, AnswersFrame DEF ClientOK
<1>9. daemon.life <= faults + 1 + 0
  <2>1. daemon.life + (IF attached /\ daemon.alive THEN 0 ELSE 1) <= faults + 1
    BY DEF ClientOK
  <2> QED BY <1>1, <2>1
<1>10. daemon'.life + (IF attached' /\ daemon'.alive THEN 0 ELSE 1) <= faults' + 1
  BY <1>1, <1>2, <1>3, <1>4, <1>9
<1>11. faults' \in 0..MaxFaults
  BY <1>1, <1>4, DaemonBounds
<1> QED BY <1>1, <1>2, <1>3, <1>4, <1>7, <1>8, <1>10, <1>11 DEF ClientOK

\* No request is made.
LEMMA QuietClient ==
  ASSUME ClientOK, UNCHANGED client, AnswersKept, EntriesSame, JobQuiet
  PROVE  ClientOK'
<1>1. PICK d : d = daemon
  OBVIOUS
<1>2. daemon' = d /\ UNCHANGED <<daemon, attached, faults>>
  BY <1>1 DEF client
<1>3. TableOK(d)
  BY <1>1 DEF ClientOK
<1>4. TableOK(d)'
  BY <1>3, SameTable
<1>5. TableOK(daemon)'
  BY <1>2, <1>4, TableIs
<1>6. AnswersOK'
  BY <1>2 DEF AnswersOK, AnswersKept, ClientOK
<1> QED BY <1>2, <1>5, <1>6 DEF ClientOK

-----------------------------------------------------------------------------
(* The searches and the table.                                             *)

LEMMA ServingIs ==
  ASSUME ClientOK, NEW d, d = Serving
  PROVE  /\ TableOK(d) /\ d \in Daemons /\ d.alive /\ d.life \in Nat /\ d.life >= 1
         /\ d.life >= daemon.life
         /\ DOMAIN d.table \subseteq Handles
         /\ \A h \in DOMAIN d.table : d.table[h] \in Objects
<1>1. TableOK(d) /\ d.alive /\ d.life \in Nat /\ d.life >= 1 /\ d.life >= daemon.life
  BY ServingFacts
<1>2. d \in Daemons
  BY <1>1 DEF TableOK
<1> QED BY <1>1, <1>2, TableFacts

LEMMA UnchangedEntries ==
  ASSUME entries' = entries
  PROVE  EntriesSame /\ EntriesKept /\ Entries' = Entries
         /\ \A e \in Entries : entries'[e].robbed = entries[e].robbed
BY DEF EntriesSame, EntriesKept, Entries

LEMMA SearchClient ==
  ASSUME StoreOK, ClientOK, NEW t \in Threads, Search(t)
  PROVE  ClientOK'
<1>0. pc[t] = "search" /\ th[t] \in Local /\ th \in [Threads -> Local] /\ entries' = entries /\ job' = job
  BY DEF StoreOK, Search, store
<1>1. PICK d : d = Serving
  OBVIOUS
<1>2. PICK h : h = entries[th[t].entry].h
  OBVIOUS
<1>3. TableOK(d) /\ d.alive /\ d.life = Serving.life
  BY <1>1, ServingIs
<1>4. EntriesSame /\ EntriesKept /\ JobQuiet /\ \A e \in Entries : entries'[e].robbed = entries[e].robbed
  BY <1>0, UnchangedEntries DEF JobQuiet
<1>5. TableOK(d)'
  BY <1>3, <1>4, SameTable
<1>6. \A o \in {"failed", "crashed"} : th' = [th EXCEPT ![t].out = o] => AnswersKept
  <2> SUFFICES ASSUME NEW o \in {"failed", "crashed"}, th' = [th EXCEPT ![t].out = o]
               PROVE  AnswersKept
    OBVIOUS
  <2>1. th'[t].out = o /\ \A u \in Threads : u # t => th'[u] = th[u]
    BY <1>0 DEF Local
  <2> QED BY <2>1 DEF AnswersKept
<1>7. CASE Knows(d, h) /\ Replies(d)
           /\ th' = [th EXCEPT ![t].out = "answered", ![t].from = d.table[h].dir]
  <2>1. /\ th'[t].from = d.table[h].dir /\ th'[t].dir = th[t].dir
        /\ \A u \in Threads : u # t => th'[u] = th[u]
    <3>1. PICK r : r = [th[t] EXCEPT !.out = "answered"]
      OBVIOUS
    <3>2. r \in Local /\ r.dir = th[t].dir
      BY <1>0, <3>1 DEF Local, Outs
    <3>3. PICK l : l = [r EXCEPT !.from = d.table[h].dir]
      OBVIOUS
    <3>4. th' = [th EXCEPT ![t] = l]
      BY <1>0, <1>7, <3>1, <3>3
    <3>5. l.from = d.table[h].dir /\ l.dir = th[t].dir
      BY <3>2, <3>3 DEF Local
    <3> QED BY <1>0, <3>4, <3>5
  <2>2. daemon' = d
    BY <1>7 DEF Replies
  <2>3. ASSUME d.life <= 1
        PROVE  d.table[h].dir = th[t].dir
    <3>1. PICK e : e = th[t].entry
      OBVIOUS
    <3>2. Holds(t, e)
      BY <1>0, <3>1 DEF Holds
    <3>3. e \in Entries /\ entries[e].open /\ entries[e].dir = th[t].dir
      BY <3>2, HeldFacts
    <3>4. entries[e].life = d.life /\ ~entries[e].robbed /\ HandleOK(d, e)
      <4>1. entries[e].life \in 1..d.life /\ d.life \in Nat
        BY <1>1, <1>3, <3>3, ServingIs DEF TableOK
      <4>2. FirstLifeOK(d)
        BY <1>3 DEF TableOK
      <4> QED BY <1>3, <2>3, <3>3, <4>1, <4>2 DEF TableOK, FirstLifeOK
    <3>5. IsA(d, h, "view") /\ d.table[h].entry = e
      BY <1>2, <1>3, <3>1, <3>3, <3>4 DEF HandleOK
    <3>6. ViewOK(d, h)
      BY <1>3, <3>5 DEF TableOK, IsA, Knows
    <3> QED BY <3>3, <3>5, <3>6 DEF ViewOK, IsA
  <2>4. AnswersOK'
    <3>1. d.life \in Nat /\ daemon.life \in Nat /\ d.life >= daemon.life
      BY <1>1, ServingIs, TableFacts DEF ClientOK, TableOK
    <3>2. ASSUME d.life <= 1, NEW u \in Threads, th'[u].out = "answered"
          PROVE  th'[u].from = th'[u].dir
      <4>1. CASE u = t
        BY <2>1, <2>3, <3>2, <4>1
      <4>2. CASE u # t
        BY <2>1, <3>1, <3>2, <4>2 DEF ClientOK, AnswersOK
      <4> QED BY <4>1, <4>2
    <3> QED BY <2>2, <3>2 DEF AnswersOK
  <2> QED BY <1>3, <1>5, <1>7, <2>4, Answered
<1>8. CASE Replies(d) /\ th' = [th EXCEPT ![t].out = "failed"]
  BY <1>3, <1>5, <1>6, <1>8, Answered
<1>9. CASE (Crashes \/ Refused) /\ \E o \in {"failed", "crashed"} : th' = [th EXCEPT ![t].out = o]
  BY <1>0, <1>4, <1>6, <1>9, GivenUp
<1> QED BY <1>1, <1>2, <1>7, <1>8, <1>9 DEF Search

\* A view in the first free slot.
LEMMA OpenTable ==
  ASSUME StoreOK, NEW d, TableOK(d), d.alive, d.life \in Nat, d.life >= 1,
         NEW h \in Handles \ DOMAIN d.table, NEW obj \in Objects, NEW new \in Entry,
         NEW e, e = Len(entries) + 1, entries' = Append(entries, new), job' = job,
         obj.kind = "view", obj.entry = e, obj.dir = new.dir,
         new.h = h, new.life = d.life, new.open, ~new.robbed
  PROVE  TableOK(With(d, h, obj))'
<1>1. PICK n : n = With(d, h, obj)
  OBVIOUS
<1>2. /\ n \in Daemons /\ n.alive = d.alive /\ n.life = d.life
      /\ DOMAIN n.table = DOMAIN d.table \cup {h} /\ n.table[h] = obj
      /\ \A g \in DOMAIN d.table : g # h /\ n.table[g] = d.table[g]
  <2>1. WithAs(n, d, h, obj)
    BY <1>1, WithFacts DEF TableOK
  <2> QED BY <2>1 DEF WithAs
<1>3. /\ Entries' = Entries \cup {e} /\ entries'[e] = new /\ e \notin Entries
      /\ \A f \in Entries : entries'[f] = entries[f]
  <2>1. entries \in Seq(Entry) /\ Len(entries) \in Nat
    BY DEF StoreOK
  <2> QED BY <2>1 DEF Entries
<1>4. \A g, k : IsA(d, g, k) => IsA(n, g, k)
  BY <1>2 DEF IsA, Knows
<1>5. ASSUME NEW g \in DOMAIN n.table
      PROVE  ViewOK(n, g)' /\ JobSlotOK(n, g)'
  <2>1. CASE g = h
    <3>1. ViewOK(n, h)'
      BY <1>2, <1>3 DEF ViewOK
    <3>2. JobSlotOK(n, h)'
      BY <1>2 DEF JobSlotOK
    <3> QED BY <2>1, <3>1, <3>2
  <2>2. CASE g # h
    <3>1. ViewOK(d, g) /\ JobSlotOK(d, g) /\ n.table[g] = d.table[g]
      BY <1>2, <2>2 DEF TableOK
    <3>2. ViewOK(n, g)'
      BY <1>2, <1>3, <3>1 DEF ViewOK
    <3>3. JobSlotOK(n, g)'
      BY <1>4, <3>1 DEF JobSlotOK
    <3> QED BY <3>2, <3>3
  <2> QED BY <2>1, <2>2
<1>6. ASSUME NEW f \in Entries'
      PROVE  HandleOK(n, f)' /\ entries'[f].life \in 1..n.life
  <2>1. CASE f = e
    BY <1>2, <1>3, <2>1 DEF HandleOK, IsA, Knows
  <2>2. CASE f # e
    <3>1. f \in Entries /\ HandleOK(d, f) /\ entries[f].life \in 1..d.life /\ entries'[f] = entries[f]
      BY <1>3, <2>2 DEF TableOK
    <3>2. HandleOK(n, f)'
      BY <1>2, <1>4, <3>1 DEF HandleOK, IsA, Knows
    <3> QED BY <1>2, <3>1, <3>2
  <2> QED BY <2>1, <2>2
<1>7. FirstLifeOK(n)'
  BY <1>2, <1>3, <1>4 DEF FirstLifeOK, TableOK
<1>8. TableOK(n)'
  BY <1>2, <1>5, <1>6, <1>7 DEF TableOK
<1> QED BY <1>1, <1>8

LEMMA OpenStep ==
  ASSUME StoreOK, ClientOK, NEW t \in Threads, Open(t)
  PROVE  StoreOK' /\ ClientOK'
<1>0. /\ pc[t] = "open" /\ cache' = cache /\ lock' = lock /\ job' = job
      /\ th[t] \in Local /\ th[t].closing = {} /\ th[t].entry <= Len(entries)
      /\ entries \in Seq(Entry) /\ Len(entries) \in Nat
  BY DEF StoreOK, Open, LockOK, ThreadOK
<1>1. PICK d : d = Serving
  OBVIOUS
<1>2. PICK h : h = NewHandle(d)
  OBVIOUS
<1>3. TableOK(d) /\ d.alive /\ d.life = Serving.life /\ d.life \in Nat /\ d.life >= 1
  BY <1>1, ServingIs
<1>4. h = 0 \/ h \in Handles \ DOMAIN d.table
  BY <1>2, NewHandleIsFree
<1>5. ASSUME NEW next \in {"idle", "evict"}, Leave(t, next), entries' = entries,
             Replies(d) \/ Crashes \/ Refused
      PROVE  StoreOK' /\ ClientOK'
  <2>1. PICK l : l = IF next = "idle" THEN Fresh ELSE th[t]
    OBVIOUS
  <2>2. Alone(t, next, l)
    BY <1>0, <1>5, <2>1 DEF Alone, Leave
  <2>3. /\ l \in Local /\ l.closing = {} /\ l.entry <= Len(entries)
        /\ l = th[t] \/ l.out = "none"
    BY <1>0, <2>1, FreshFacts
  <2>4. StoreOK'
    BY <1>0, <2>2, <2>3, AloneStore DEF Pcs
  <2>5. AnswersKept
    BY <2>2, <2>3, AloneAnswers
  <2>6. /\ EntriesSame /\ EntriesKept /\ JobQuiet
        /\ \A e \in Entries : entries'[e].robbed = entries[e].robbed
    BY <1>0, <1>5, UnchangedEntries DEF JobQuiet
  <2>7. CASE Replies(d)
    <3>1. TableOK(d)'
      BY <1>3, <2>6, SameTable
    <3> QED BY <1>3, <2>4, <2>5, <2>7, <3>1, Answered
  <2>8. CASE Crashes \/ Refused
    BY <1>0, <2>4, <2>5, <2>6, <2>8, GivenUp
  <2> QED BY <1>5, <2>7, <2>8
<1> DEFINE made == [dir |-> th[t].dir, key |-> th[t].key, h |-> h, life |-> d.life,
                    ref |-> 1, retired |-> FALSE, open |-> TRUE, robbed |-> FALSE, lost |-> FALSE]
           named(e) == [kind |-> "view", dir |-> th[t].dir, entry |-> e, folded |-> FALSE]
<1>6. ASSUME h # 0, NEW e, e = Len(entries) + 1,
             Replies(With(d, h, named(e))), entries' = Append(entries, made),
             th' = [th EXCEPT ![t].entry = e], pc' = [pc EXCEPT ![t] = "insert"]
      PROVE  StoreOK' /\ ClientOK'
  <2>1. PICK new : new = made
    OBVIOUS
  <2>2. PICK obj : obj = named(e)
    OBVIOUS
  <2>3. h \in Handles \ DOMAIN d.table
    BY <1>4, <1>6
  <2>4. /\ new \in Entry /\ new.ref = 1 /\ ~new.retired /\ new.open /\ new.dir = th[t].dir
        /\ new.h = h /\ new.life = d.life /\ ~new.robbed
    BY <1>0, <1>3, <2>1, <2>3 DEF Entry, Local
  <2>5. obj \in Objects /\ obj.kind = "view" /\ obj.entry = e /\ obj.dir = new.dir
    BY <1>0, <1>6, <2>2, <2>4 DEF Objects, Local
  <2>6. entries' = Append(entries, new) /\ Replies(With(d, h, obj))
    BY <1>6, <2>1, <2>2
  <2>7. StoreOK' /\ AnswersKept
    BY <1>0, <1>6, <2>4, <2>6, OpenedStore
  <2>8. PICK n : n = With(d, h, obj)
    OBVIOUS
  <2>9. TableOK(n)'
    <3>1. TableOK(With(d, h, obj))'
      BY <1>0, <1>3, <1>6, <2>3, <2>4, <2>5, <2>6, OpenTable
    <3> QED BY <2>8, <3>1
  <2>10. n.alive /\ n.life = Serving.life
    <3>1. WithAs(n, d, h, obj)
      BY <1>3, <2>3, <2>5, <2>8, WithFacts DEF TableOK
    <3> QED BY <1>3, <3>1 DEF WithAs
  <2>11. Replies(n)
    BY <2>6, <2>8
  <2> QED BY <2>7, <2>9, <2>10, <2>11, Answered
<1>7. AfterCrash(t) \in {"idle", "evict"}
  BY DEF AfterCrash
<1> HIDE DEF made, named
<1>8. \/ /\ h # 0 /\ Replies(With(d, h, named(Len(entries) + 1))) /\ entries' = Append(entries, made)
         /\ th' = [th EXCEPT ![t].entry = Len(entries) + 1] /\ pc' = [pc EXCEPT ![t] = "insert"]
      \/ Replies(d) /\ Leave(t, "idle") /\ entries' = entries
      \/ Crashes /\ Leave(t, AfterCrash(t)) /\ entries' = entries
      \/ Refused /\ Leave(t, "idle") /\ entries' = entries
  BY <1>1, <1>2 DEF Open, made, named
<1> QED BY <1>5, <1>6, <1>7, <1>8

\* A free request takes a view from the entry that is closed, or from another.
LEMMA CloseTable ==
  ASSUME StoreOK, NEW d, TableOK(d), NEW e \in Entries, entries[e].open, NEW h, h = entries[e].h,
         d.alive, ClosedOne(e), NEW R,
         \A f : f \in R <=> /\ f \in Entries /\ f # e /\ Knows(d, h)
                            /\ d.table[h].kind = "view" /\ d.table[h].entry = f,
         \A f \in Entries : entries'[f].robbed <=> entries[f].robbed \/ f \in R,
         job' = [job EXCEPT !.robbed = @ \/ (Knows(d, h) /\ d.table[h].kind # "view")],
         job \in Jobs
  PROVE  TableOK(Without(d, h))'
<1>1. PICK n : n = Without(d, h)
  OBVIOUS
<1>2. /\ n \in Daemons /\ n.alive = d.alive /\ n.life = d.life
      /\ DOMAIN n.table = DOMAIN d.table \ {h}
      /\ \A g \in DOMAIN n.table : n.table[g] = d.table[g]
  <2>1. WithoutAs(n, d, h)
    BY <1>1, WithoutFacts DEF TableOK
  <2> QED BY <2>1 DEF WithoutAs
<1>3. /\ job'.pc = job.pc /\ job'.dir = job.dir /\ job'.h = job.h /\ job'.walh = job.walh
      /\ job'.replay = job.replay
      /\ job'.robbed <=> job.robbed \/ (Knows(d, h) /\ d.table[h].kind # "view")
  BY DEF Jobs
<1>4. \A g \in DOMAIN d.table : d.table[g].kind = "view" =>
        /\ d.table[g].entry \in Entries /\ entries[d.table[g].entry].open
        /\ entries[d.table[g].entry].h = g
  BY DEF TableOK, ViewOK
<1>5. ViewsKept(d, n)
  <2>1. ASSUME NEW g \in DOMAIN n.table, n.table[g].kind = "view"
        PROVE  g \in DOMAIN d.table /\ n.table[g] = d.table[g] /\ entries'[n.table[g].entry].open
    <3>1. g \in DOMAIN d.table /\ n.table[g] = d.table[g] /\ g # h
      BY <1>2
    <3>2. d.table[g].entry \in Entries /\ entries[d.table[g].entry].open /\ d.table[g].entry # e
      BY <1>4, <2>1, <3>1
    <3> QED BY <3>1, <3>2 DEF ClosedOne
  <2>2. ASSUME NEW g \in DOMAIN d.table, d.table[g].kind = "view"
        PROVE  \/ g \in DOMAIN n.table /\ n.table[g] = d.table[g]
               \/ LET f == d.table[g].entry IN entries'[f].robbed \/ ~entries'[f].open
    <3>1. CASE g # h
      BY <1>2, <3>1
    <3>2. CASE g = h
      <4>1. PICK f \in Entries : f = d.table[g].entry
        BY <1>4, <2>2
      <4>2. CASE f = e
        BY <4>1, <4>2 DEF ClosedOne
      <4>3. CASE f # e
        <5>1. f \in R
          BY <2>2, <3>2, <4>1, <4>3 DEF Knows
        <5> QED BY <4>1, <5>1
      <4> QED BY <4>2, <4>3
    <3> QED BY <3>1, <3>2
  <2> QED BY <1>2, <2>1, <2>2 DEF ViewsKept
<1>6. EntriesKept
  BY DEF EntriesKept, ClosedOne
<1>7. /\ \A g \in DOMAIN n.table : ViewOK(n, g)'
      /\ \A f \in Entries : HandleOK(n, f)' /\ entries'[f].life \in 1..n.life
      /\ Entries' = Entries
  BY <1>5, <1>6, ViewsStay
<1>8. \A k : IsA(d, job.walh, "wal") => IsA(n, job.walh, "wal") \/ job'.robbed
  BY <1>2, <1>3 DEF IsA, Knows
<1>9. ASSUME NEW g \in DOMAIN n.table
      PROVE  JobSlotOK(n, g)'
  <2>1. JobSlotOK(d, g) /\ n.table[g] = d.table[g]
    BY <1>2 DEF TableOK
  <2> QED BY <1>3, <1>8, <2>1 DEF JobSlotOK
<1>10. FirstLifeOK(n)'
  <2>1. CASE n.life <= 1
    <3>1. entries[e].life \in 1..d.life /\ d.life = n.life /\ HandleOK(d, e) /\ FirstLifeOK(d)
      BY <1>2 DEF TableOK
    <3>2. d.life \in Nat
      BY TableFacts DEF TableOK
    <3>3. entries[e].life = d.life /\ ~entries[e].robbed
      BY <2>1, <3>1, <3>2 DEF FirstLifeOK
    <3>4. IsA(d, h, "view") /\ d.table[h].entry = e
      BY <3>1, <3>3 DEF HandleOK
    <3>5. R = {} /\ ~job'.robbed
      BY <1>3, <2>1, <3>1, <3>4 DEF IsA, FirstLifeOK
    <3>6. \A g, k : IsA(d, g, k) /\ k # "view" => IsA(n, g, k)
      BY <1>2, <3>4 DEF IsA, Knows
    <3>7. \A f \in Entries : ~entries'[f].robbed
      BY <2>1, <3>1, <3>5 DEF FirstLifeOK
    <3> QED BY <1>2, <1>3, <1>7, <2>1, <3>1, <3>5, <3>6, <3>7 DEF FirstLifeOK
  <2>2. CASE ~(n.life <= 1)
    BY <2>2 DEF FirstLifeOK
  <2> QED BY <2>1, <2>2
<1>11. job'.pc \in Loaded => n.life >= 1
  BY <1>2, <1>3 DEF TableOK
<1>12. TableOK(n)'
  BY <1>2, <1>7, <1>9, <1>10, <1>11 DEF TableOK
<1> QED BY <1>1, <1>12

LEMMA CloseStep ==
  ASSUME StoreOK, ClientOK, DiskOK, NEW t \in Threads, Close(t)
  PROVE  StoreOK' /\ ClientOK'
<1>0. pc[t] = "closing" /\ cache' = cache /\ entries \in Seq(Entry) /\ ClosingOK(t) /\ job \in Jobs
  BY DEF StoreOK, DiskOK, Close
<1>1. PICK d : d = Serving
  OBVIOUS
<1>2. TableOK(d) /\ d.alive /\ d.life = Serving.life
  BY <1>1, ServingIs
<1>3. PICK e \in th[t].closing :
        /\ \/ /\ Replies(Without(Serving, entries[e].h))
              /\ entries' = MarkRobbed([entries EXCEPT ![e].open = FALSE], Robs(e, entries[e].h))
              /\ job' = [job EXCEPT !.robbed = @ \/ RobsJob(entries[e].h)]
           \/ /\ Crashes \/ Refused
              /\ entries' = [entries EXCEPT ![e].open = FALSE]
              /\ UNCHANGED job
        /\ Proceed(t, [th[t] EXCEPT !.closing = {}], th[t].closing \ {e}, th[t].next)
  BY DEF Close
<1>4. e \in Entries /\ entries[e].open
  BY <1>0 DEF ClosingOK
<1>5. PICK es : es = [entries EXCEPT ![e].open = FALSE]
  OBVIOUS
<1>6. ClosedAs(es, entries, e)
  BY <1>0, <1>4, <1>5, ClosedFacts DEF Entries
<1>7. PICK h : h = entries[e].h
  OBVIOUS
<1>8. CASE /\ Replies(Without(d, h)) /\ entries' = MarkRobbed(es, Robs(e, h))
           /\ job' = [job EXCEPT !.robbed = @ \/ RobsJob(h)]
  <2>1. PICK R : R = Robs(e, h)
    OBVIOUS
  <2>2. RobbedAs(entries', es, R)
    BY <1>6, <1>8, <2>1, MarkRobbedFacts DEF ClosedAs
  <2>3. /\ ClosedOne(e)
        /\ \A f \in Entries : entries'[f].robbed <=> entries[f].robbed \/ f \in R
    <3>1. /\ es \in Seq(Entry) /\ Len(es) = Len(entries)
          /\ \A f \in Entries :
               /\ es[f].dir = entries[f].dir /\ es[f].h = entries[f].h /\ es[f].life = entries[f].life
               /\ es[f].ref = entries[f].ref /\ es[f].retired = entries[f].retired
               /\ es[f].robbed = entries[f].robbed /\ es[f].lost = entries[f].lost
               /\ es[f].open <=> entries[f].open /\ f # e
      BY <1>6 DEF ClosedAs, Entries
    <3>2. /\ entries' \in Seq(Entry) /\ Len(entries') = Len(es)
          /\ \A f \in Entries :
               /\ entries'[f].dir = es[f].dir /\ entries'[f].h = es[f].h
               /\ entries'[f].life = es[f].life /\ entries'[f].open = es[f].open
               /\ entries'[f].retired = es[f].retired /\ entries'[f].lost = es[f].lost
               /\ entries'[f].ref = es[f].ref
               /\ entries'[f].robbed <=> es[f].robbed \/ f \in R
      BY <2>2, <3>1 DEF RobbedAs, Entries
    <3> HIDE <1>8
    <3> QED BY <3>1, <3>2 DEF ClosedOne
  <2>4. \A f : f \in R <=> /\ f \in Entries /\ f # e /\ Knows(d, h)
                           /\ d.table[h].kind = "view" /\ d.table[h].entry = f
    BY <1>0, <1>1, <2>1 DEF Robs, Entries
  <2>5. job' = [job EXCEPT !.robbed = @ \/ (Knows(d, h) /\ d.table[h].kind # "view")]
    BY <1>1, <1>8 DEF RobsJob
  <2>6. StoreOK' /\ AnswersKept
    BY <1>0, <1>3, <2>3, ClosedStore
  <2>7. PICK n : n = Without(d, h)
    OBVIOUS
  <2>8. TableOK(n)'
    <3>1. TableOK(Without(d, h))'
      BY <1>0, <1>2, <1>4, <1>7, <2>3, <2>4, <2>5, CloseTable
    <3> QED BY <2>7, <3>1
  <2>9. n.alive /\ n.life = Serving.life
    <3>1. WithoutAs(n, d, h)
      BY <1>2, <2>7, WithoutFacts DEF TableOK
    <3> QED BY <1>2, <3>1 DEF WithoutAs
  <2>10. Replies(n)
    BY <1>8, <2>7
  <2> QED BY <2>6, <2>8, <2>9, <2>10, Answered
<1>9. CASE (Crashes \/ Refused) /\ entries' = es /\ UNCHANGED job
  <2>1. /\ ClosedOne(e)
        /\ \A f \in Entries : entries'[f].robbed = entries[f].robbed
    BY <1>6, <1>9 DEF ClosedAs, ClosedOne, Entries
  <2>2. StoreOK' /\ AnswersKept
    BY <1>0, <1>3, <2>1, ClosedStore
  <2>3. EntriesKept
    BY <2>1 DEF ClosedOne, EntriesKept
  <2> QED BY <1>9, <2>1, <2>2, <2>3, GivenUp
<1> QED BY <1>1, <1>3, <1>5, <1>7, <1>8, <1>9

-----------------------------------------------------------------------------
(* The compaction and the table.                                           *)

LEMMA JobStore ==
  ASSUME StoreOK, UNCHANGED <<cache, lock, pc, th>>,
         NEW S, entries' = entries \/ entries' = MarkRobbed(entries, S)
  PROVE  StoreOK' /\ EntriesKept /\ AnswersKept
<1>1. entries \in Seq(Entry)
  BY DEF StoreOK
<1>2. /\ entries' \in Seq(Entry) /\ Len(entries') = Len(entries)
      /\ \A e \in Entries :
           /\ entries'[e].dir = entries[e].dir /\ entries'[e].open = entries[e].open
           /\ entries'[e].retired = entries[e].retired /\ entries'[e].lost = entries[e].lost
           /\ entries'[e].ref = entries[e].ref /\ entries'[e].h = entries[e].h
           /\ entries'[e].life = entries[e].life
           /\ entries[e].robbed => entries'[e].robbed
  <2>1. CASE entries' = entries
    BY <1>1, <2>1
  <2>2. CASE entries' = MarkRobbed(entries, S)
    <3>1. RobbedAs(entries', entries, S)
      BY <1>1, <2>2, MarkRobbedFacts
    <3> QED BY <3>1 DEF RobbedAs, Entries
  <2> QED BY <2>1, <2>2
<1>3. StoreOK'
  BY <1>2, StoreFrame
<1>4. EntriesKept
  BY <1>2 DEF EntriesKept
<1>5. AnswersKept
  BY DEF AnswersKept
<1> QED BY <1>3, <1>4, <1>5

LEMMA JobTable ==
  ASSUME NEW d, NEW n, TableOK(d), ViewsKept(d, n), EntriesKept,
         \A h \in DOMAIN n.table : JobSlotOK(n, h)',
         job'.pc \in Loaded => n.life >= 1, FirstLifeOK(n)'
  PROVE  TableOK(n)'
<1>1. /\ \A h \in DOMAIN n.table : ViewOK(n, h)'
      /\ \A e \in Entries : HandleOK(n, e)' /\ entries'[e].life \in 1..n.life
      /\ Entries' = Entries
  BY ViewsStay
<1>2. n \in Daemons
  BY DEF ViewsKept
<1> QED BY <1>1, <1>2 DEF TableOK

\* The compaction lets go of what it had, or keeps it.
JobShrinks ==
    /\ job'.pc \in Loaded => job.pc \in Loaded /\ job'.h = job.h
    /\ job'.pc \in WithWal => job.pc \in WithWal /\ job'.walh = job.walh
    /\ job'.robbed => job.robbed

LEMMA SameViews ==
  ASSUME NEW d, TableOK(d), entries' = entries
  PROVE  ViewsKept(d, d)
BY DEF TableOK, ViewsKept, ViewOK

LEMMA JobOnlyTable ==
  ASSUME NEW d, TableOK(d), entries' = entries, JobShrinks,
         \A h \in DOMAIN d.table : JobSlotOK(d, h)'
  PROVE  TableOK(d)'
<1>1. ViewsKept(d, d) /\ EntriesKept /\ Entries' = Entries
  BY SameViews, UnchangedEntries
<1>2. job'.pc \in Loaded => d.life >= 1
  BY DEF TableOK, JobShrinks
<1>3. FirstLifeOK(d)'
  BY <1>1 DEF TableOK, FirstLifeOK, JobShrinks
<1> QED BY <1>1, <1>2, <1>3, JobTable

\* An object that is not a view goes into a free slot, or changes in its own.
LEMMA WithViews ==
  ASSUME NEW d, TableOK(d), entries' = entries, NEW h \in Handles, NEW obj \in Objects,
         obj.kind # "view", h \in DOMAIN d.table => d.table[h].kind # "view",
         NEW n, n = With(d, h, obj)
  PROVE  ViewsKept(d, n) /\ WithAs(n, d, h, obj)
<1>1. WithAs(n, d, h, obj)
  BY WithFacts DEF TableOK
<1>2. ViewsKept(d, d)
  BY SameViews
<1> QED BY <1>1, <1>2 DEF WithAs, ViewsKept

\* A free request of the compaction itself.
LEMMA WithoutViews ==
  ASSUME StoreOK, NEW d, TableOK(d), NEW h, NEW R,
         \A f : f \in R <=> /\ f \in Entries /\ Knows(d, h)
                            /\ d.table[h].kind = "view" /\ d.table[h].entry = f,
         entries' = MarkRobbed(entries, R), NEW n, n = Without(d, h)
  PROVE  /\ ViewsKept(d, n) /\ WithoutAs(n, d, h)
         /\ Knows(d, h) /\ d.table[h].kind # "view" =>
              \A e \in Entries : entries'[e].robbed = entries[e].robbed
<1>1. WithoutAs(n, d, h)
  BY WithoutFacts DEF TableOK
<1>2. entries \in Seq(Entry)
  BY DEF StoreOK
<1>3. RobbedAs(entries', entries, R)
  BY <1>2, MarkRobbedFacts
<1>4. \A e \in Entries : /\ entries'[e].open = entries[e].open
                         /\ entries'[e].robbed <=> entries[e].robbed \/ e \in R
  BY <1>3 DEF RobbedAs, Entries
<1>5. \A g \in DOMAIN d.table : d.table[g].kind = "view" =>
        d.table[g].entry \in Entries /\ entries[d.table[g].entry].open
  BY DEF TableOK, ViewOK
<1>6. \A g \in DOMAIN n.table : g \in DOMAIN d.table /\ g # h /\ n.table[g] = d.table[g]
  BY <1>1 DEF WithoutAs
<1>7. ASSUME NEW g \in DOMAIN d.table, d.table[g].kind = "view"
      PROVE  \/ g \in DOMAIN n.table /\ n.table[g] = d.table[g]
             \/ LET f == d.table[g].entry IN entries'[f].robbed \/ ~entries'[f].open
  <2>1. CASE g # h
    BY <1>1, <2>1 DEF WithoutAs
  <2>2. CASE g = h
    BY <1>4, <1>5, <1>7, <2>2 DEF Knows
  <2> QED BY <2>1, <2>2
<1>8. n \in Daemons /\ n.alive = d.alive /\ n.life = d.life
  BY <1>1 DEF WithoutAs
<1>9. \A g \in DOMAIN n.table : n.table[g].kind = "view" => entries'[n.table[g].entry].open
  BY <1>4, <1>5, <1>6
<1>10. ViewsKept(d, n)
  BY <1>6, <1>7, <1>8, <1>9 DEF ViewsKept
<1>11. ASSUME Knows(d, h), d.table[h].kind # "view", NEW e \in Entries
       PROVE  entries'[e].robbed = entries[e].robbed
  <2>1. entries[e] \in Entry /\ entries'[e] \in Entry
    BY <1>2, <1>3 DEF RobbedAs, Entries
  <2>2. entries'[e].robbed <=> entries[e].robbed
    BY <1>4, <1>11
  <2> QED BY <2>1, <2>2 DEF Entry
<1> QED BY <1>1, <1>10, <1>11

LEMMA NoJobFacts ==
  /\ NoJob \in Jobs /\ NoJob.pc = "idle" /\ ~NoJob.robbed /\ ~NoJob.failed
  /\ "idle" \notin Loaded /\ "idle" \notin WithWal /\ WithWal \subseteq Loaded
BY FreshFacts DEF NoJob, Jobs, JobPcs, Replays, Loaded, WithWal

LEMMA JobOnlyFacts ==
  ASSUME StoreOK, JobOnly
  PROVE  /\ StoreOK' /\ AnswersKept /\ EntriesKept /\ entries' = entries /\ Entries' = Entries
         /\ \A e \in Entries : entries'[e].robbed = entries[e].robbed
<1>1. UNCHANGED <<entries, cache, lock, pc, th>>
  BY DEF JobOnly, store
<1>2. StoreOK' /\ AnswersKept
  BY <1>1, JobStore
<1> QED BY <1>1, <1>2, UnchangedEntries

LEMMA JobCrash ==
  ASSUME StoreOK, ClientOK, Crashes \/ Refused, JobOnly, JobShrinks
  PROVE  StoreOK' /\ ClientOK'
<1>1. /\ StoreOK' /\ AnswersKept /\ EntriesKept
      /\ \A e \in Entries : entries'[e].robbed = entries[e].robbed
  BY JobOnlyFacts
<1>2. (job'.robbed => job.robbed) /\ (job'.pc \in Loaded => job.pc \in Loaded)
  BY DEF JobShrinks
<1> QED BY <1>1, <1>2, GivenUp

LEMMA JobSame ==
  ASSUME StoreOK, ClientOK, NEW d, d = Serving, Replies(d), JobOnly, JobShrinks,
         \A h \in DOMAIN d.table : JobSlotOK(d, h)'
  PROVE  StoreOK' /\ ClientOK'
<1>1. StoreOK' /\ AnswersKept /\ entries' = entries
  BY JobOnlyFacts
<1>2. TableOK(d) /\ d.alive
  BY ServingIs
<1>3. TableOK(d)'
  BY <1>1, <1>2, JobOnlyTable
<1> QED BY <1>1, <1>2, <1>3, Answered

\* An object of the compaction is put into the table.
LEMMA JobPuts ==
  ASSUME StoreOK, ClientOK, NEW d, d = Serving, NEW h \in Handles, NEW obj \in Objects,
         obj.kind # "view", h \in DOMAIN d.table => d.table[h].kind # "view",
         Replies(With(d, h, obj)), JobOnly,
         NEW n, n = With(d, h, obj),
         \A g \in DOMAIN n.table : JobSlotOK(n, g)', FirstLifeOK(n)'
  PROVE  StoreOK' /\ ClientOK'
<1>1. StoreOK' /\ AnswersKept /\ EntriesKept /\ entries' = entries
  BY JobOnlyFacts
<1>2. TableOK(d) /\ d.alive /\ d.life >= 1
  BY ServingIs
<1>3. ViewsKept(d, n) /\ WithAs(n, d, h, obj)
  BY <1>1, <1>2, WithViews
<1>4. n.alive /\ n.life = d.life
  BY <1>2, <1>3 DEF WithAs
<1>5. TableOK(n)'
  BY <1>1, <1>2, <1>3, <1>4, JobTable
<1> QED BY <1>1, <1>4, <1>5, Answered

\* An object of the compaction, or what has taken its place, is freed.
LEMMA JobFrees ==
  ASSUME StoreOK, ClientOK, NEW h, JobFree(h), NEW d, d = Serving,
         NEW n, n = Without(d, h), Knows(d, h),
         \A g \in DOMAIN n.table : JobSlotOK(n, g)', JobShrinks,
         job'.pc \in Loaded => IsA(d, h, "wal") \/ d.life > 1,
         job'.pc \notin WithWal,
         d.life <= 1 => d.table[h].kind # "view"
  PROVE  StoreOK' /\ ClientOK'
<1>1. /\ Replies(n) /\ entries' = MarkRobbed(entries, Robs(0, h))
      /\ UNCHANGED <<cache, lock, pc, th>>
  BY DEF JobFree
<1>2. PICK R : R = Robs(0, h)
  OBVIOUS
<1>3. \A f : f \in R <=> /\ f \in Entries /\ Knows(d, h)
                         /\ d.table[h].kind = "view" /\ d.table[h].entry = f
  BY <1>2 DEF Robs, StoreOK, Entries
<1>4. entries' = MarkRobbed(entries, R)
  BY <1>1, <1>2
<1>5. StoreOK' /\ AnswersKept /\ EntriesKept /\ Entries' = Entries
  BY <1>1, <1>4, JobStore DEF EntriesKept, Entries
<1>6. TableOK(d) /\ d.alive /\ d.life \in Nat
  BY ServingIs
<1>7. /\ ViewsKept(d, n) /\ WithoutAs(n, d, h)
      /\ Knows(d, h) /\ d.table[h].kind # "view" =>
           \A e \in Entries : entries'[e].robbed = entries[e].robbed
  BY <1>3, <1>4, <1>6, WithoutViews
<1>8. /\ n.alive /\ n.life = d.life
      /\ \A g \in DOMAIN d.table : g # h => g \in DOMAIN n.table /\ n.table[g] = d.table[g]
  BY <1>6, <1>7 DEF WithoutAs
<1>9. job'.pc \in Loaded => n.life >= 1
  BY <1>6, <1>8 DEF TableOK, JobShrinks
<1>10. FirstLifeOK(n)'
  <2>1. CASE n.life <= 1
    <3>1. FirstLifeOK(d) /\ \A e \in Entries : entries'[e].robbed = entries[e].robbed
      BY <1>6, <1>7, <1>8, <2>1 DEF TableOK
    <3>2. /\ ~job'.robbed /\ \A e \in Entries : ~entries'[e].robbed
      BY <1>8, <2>1, <3>1 DEF FirstLifeOK, JobShrinks
    <3>3. ASSUME job'.pc \in Loaded
          PROVE  IsA(n, job'.h, "dafsa")
      <4>1. IsA(d, job.h, "dafsa") /\ job'.h = job.h
        BY <1>6, <1>8, <2>1, <3>1, <3>3 DEF FirstLifeOK, JobShrinks
      <4>2. IsA(d, h, "wal")
        BY <1>6, <1>8, <2>1, <3>3
      <4> QED BY <1>8, <4>1, <4>2 DEF IsA, Knows
    <3> QED BY <1>5, <3>2, <3>3 DEF FirstLifeOK
  <2>2. CASE ~(n.life <= 1)
    BY <2>2 DEF FirstLifeOK
  <2> QED BY <2>1, <2>2
<1>11. TableOK(n)'
  BY <1>5, <1>6, <1>7, <1>9, <1>10, JobTable
<1> QED BY <1>1, <1>5, <1>8, <1>11, Answered

\* Outside these states the compaction has nothing in the table.
LEMMA NothingLoaded ==
  ASSUME NEW d, TableOK(d), NEW h \in DOMAIN d.table
  PROVE  /\ job.pc \notin Loaded => d.table[h].kind \notin {"dafsa", "wal"}
         /\ job.pc \notin WithWal => d.table[h].kind # "wal"
BY DEF TableOK, JobSlotOK, Loaded, WithWal

LEMMA LoadsStep ==
  ASSUME StoreOK, ClientOK, DiskOK, CompactLoads
  PROVE  StoreOK' /\ ClientOK'
<1>0. /\ job.pc = "load" /\ job \in Jobs /\ JobOnly /\ job.dir \in Domains
      /\ base[job.dir] \in Bases /\ base[job.dir].dir = job.dir
      /\ job.pc \notin Loaded
  BY DEF CompactLoads, DiskOK, Jobs, Loaded
<1>1. PICK d : d = Serving
  OBVIOUS
<1>2. PICK h : h = NewHandle(d)
  OBVIOUS
<1>3. PICK obj : obj = [kind |-> "dafsa", dir |-> base[job.dir].dir,
                        entry |-> 0, folded |-> base[job.dir].folded]
  OBVIOUS
<1>4. TableOK(d) /\ d.life >= 1
  BY <1>1, ServingIs
<1>5. CASE h # 0 /\ Replies(With(d, h, obj)) /\ job' = [job EXCEPT !.pc = "wal", !.h = h]
  <2>1. h \in Handles \ DOMAIN d.table
    BY <1>2, <1>5, NewHandleIsFree
  <2>2. obj \in Objects /\ obj.kind = "dafsa" /\ obj.dir = job.dir
    BY <1>0, <1>3 DEF Objects, Bases
  <2>3. job'.pc = "wal" /\ job'.h = h /\ job'.dir = job.dir /\ job'.robbed = job.robbed
    BY <1>0, <1>5 DEF Jobs
  <2>4. PICK n : n = With(d, h, obj)
    OBVIOUS
  <2>5. WithAs(n, d, h, obj)
    BY <1>4, <2>1, <2>2, <2>4, WithFacts DEF TableOK
  <2>6. ASSUME NEW g \in DOMAIN n.table
        PROVE  JobSlotOK(n, g)'
    <3>1. CASE g = h
      BY <2>2, <2>3, <2>5, <3>1 DEF JobSlotOK, WithAs, Loaded
    <3>2. CASE g # h
      BY <1>0, <1>4, <2>5, <3>2, NothingLoaded DEF JobSlotOK, WithAs
    <3> QED BY <3>1, <3>2
  <2>7. FirstLifeOK(n)'
    <3>1. IsA(n, h, "dafsa") /\ n.life = d.life
      BY <2>2, <2>5 DEF WithAs, IsA, Knows
    <3>2. Entries' = Entries /\ \A e \in Entries : entries'[e].robbed = entries[e].robbed
      BY <1>0, JobOnlyFacts
    <3> QED BY <1>4, <2>3, <3>1, <3>2 DEF TableOK, FirstLifeOK, WithWal
  <2>8. h \in Handles /\ (h \in DOMAIN d.table => d.table[h].kind # "view") /\ obj.kind # "view"
    BY <2>1, <2>2
  <2>9. Replies(With(d, h, obj))
    BY <1>5
  <2> QED BY <1>0, <1>1, <2>2, <2>4, <2>6, <2>7, <2>8, <2>9, JobPuts
<1>6. CASE job' = NoJob
  <2>1. JobShrinks
    BY <1>6, NoJobFacts DEF JobShrinks
  <2>2. \A g \in DOMAIN d.table : JobSlotOK(d, g)'
    BY <1>0, <1>4, NothingLoaded DEF JobSlotOK
  <2>3. CASE Replies(d)
    BY <1>0, <1>1, <2>1, <2>2, <2>3, JobSame
  <2>4. CASE Crashes \/ Refused
    BY <1>0, <2>1, <2>4, JobCrash
  <2> QED BY <1>1, <1>2, <1>3, <1>5, <2>3, <2>4 DEF CompactLoads
<1> QED BY <1>1, <1>2, <1>3, <1>5, <1>6 DEF CompactLoads

LEMMA OpensWalStep ==
  ASSUME StoreOK, ClientOK, DiskOK, CompactOpensWal
  PROVE  StoreOK' /\ ClientOK'
<1>0. /\ job.pc = "wal" /\ job \in Jobs /\ JobOnly /\ job.dir \in Domains
      /\ job.pc \in Loaded /\ job.pc \notin WithWal
  BY DEF CompactOpensWal, DiskOK, Jobs, Loaded, WithWal
<1>1. PICK d : d = Serving
  OBVIOUS
<1>2. PICK h : h = NewHandle(d)
  OBVIOUS
<1>3. PICK obj : obj = [kind |-> "wal", dir |-> job.dir, entry |-> 0, folded |-> FALSE]
  OBVIOUS
<1>4. TableOK(d)
  BY <1>1, ServingIs
<1>5. CASE h # 0 /\ Replies(With(d, h, obj)) /\ job' = [job EXCEPT !.pc = "replay", !.walh = h]
  <2>1. h \in Handles \ DOMAIN d.table
    BY <1>2, <1>5, NewHandleIsFree
  <2>2. obj \in Objects /\ obj.kind = "wal"
    BY <1>0, <1>3 DEF Objects
  <2>3. job'.pc = "replay" /\ job'.h = job.h /\ job'.walh = h /\ job'.dir = job.dir
        /\ job'.robbed = job.robbed
    BY <1>0, <1>5 DEF Jobs
  <2>4. PICK n : n = With(d, h, obj)
    OBVIOUS
  <2>5. WithAs(n, d, h, obj)
    BY <1>4, <2>1, <2>2, <2>4, WithFacts DEF TableOK
  <2>6. IsA(n, h, "wal") /\ n.life = d.life /\ n.alive = d.alive
        /\ \A g \in DOMAIN d.table : g \in DOMAIN n.table /\ n.table[g] = d.table[g]
    BY <2>1, <2>2, <2>5 DEF WithAs, IsA, Knows
  <2>7. ASSUME NEW g \in DOMAIN n.table
        PROVE  JobSlotOK(n, g)'
    <3>1. CASE g = h
      BY <2>2, <2>3, <2>5, <3>1 DEF JobSlotOK, WithAs, WithWal
    <3>2. CASE g # h
      <4>1. g \in DOMAIN d.table /\ n.table[g] = d.table[g] /\ d.table[g].kind # "wal"
        BY <1>0, <1>4, <2>5, <3>2, NothingLoaded DEF WithAs
      <4>2. JobSlotOK(d, g)
        BY <1>4, <4>1 DEF TableOK
      <4> QED BY <2>3, <2>6, <4>1, <4>2 DEF JobSlotOK, Loaded
    <3> QED BY <3>1, <3>2
  <2>8. FirstLifeOK(n)'
    <3>1. Entries' = Entries /\ \A e \in Entries : entries'[e].robbed = entries[e].robbed
      BY <1>0, JobOnlyFacts
    <3>2. IsA(d, job.h, "dafsa") => IsA(n, job.h, "dafsa")
      BY <2>6 DEF IsA, Knows
    <3> QED BY <1>0, <1>4, <2>3, <2>6, <3>1, <3>2 DEF TableOK, FirstLifeOK
  <2>9. h \in Handles /\ (h \in DOMAIN d.table => d.table[h].kind # "view") /\ obj.kind # "view"
    BY <2>1, <2>2
  <2> QED BY <1>0, <1>1, <1>5, <2>2, <2>4, <2>7, <2>8, <2>9, JobPuts
<1>6. CASE JobFails("free")
  <2>1. job'.pc = "free" /\ job'.h = job.h /\ job'.dir = job.dir /\ job'.robbed = job.robbed
    BY <1>0, <1>6 DEF Jobs, JobFails
  <2>2. JobShrinks
    BY <1>0, <2>1 DEF JobShrinks, WithWal
  <2>3. \A g \in DOMAIN d.table : JobSlotOK(d, g)'
    BY <1>0, <1>4, <2>1, NothingLoaded DEF JobSlotOK, TableOK, Loaded
  <2>4. CASE Replies(d)
    BY <1>0, <1>1, <2>2, <2>3, <2>4, JobSame
  <2>5. CASE Crashes \/ Refused
    BY <1>0, <2>2, <2>5, JobCrash
  <2> QED BY <1>1, <1>2, <1>3, <1>5, <2>4, <2>5 DEF CompactOpensWal
<1> QED BY <1>1, <1>2, <1>3, <1>5, <1>6 DEF CompactOpensWal

LEMMA ReplaysStep ==
  ASSUME StoreOK, ClientOK, DiskOK, CompactReplays
  PROVE  StoreOK' /\ ClientOK'
<1>0. /\ job.pc = "replay" /\ job \in Jobs /\ JobOnly
      /\ job.pc \in Loaded /\ job.pc \in WithWal
  BY DEF CompactReplays, DiskOK, Loaded, WithWal
<1>1. PICK d : d = Serving
  OBVIOUS
<1>2. PICK h : h = job.h
  OBVIOUS
<1>3. TableOK(d)
  BY <1>1, ServingIs
<1>4. PICK both \in BOOLEAN : both <=> IsA(d, h, "dafsa") /\ IsA(d, job.walh, "wal")
  OBVIOUS
<1>5. PICK r : job' = [job EXCEPT !.pc = "close", !.replay = r]
  BY DEF CompactReplays
<1>6. /\ job'.pc = "close" /\ job'.h = job.h /\ job'.walh = job.walh /\ job'.dir = job.dir
      /\ job'.robbed = job.robbed /\ job'.replay = r
  BY <1>0, <1>5 DEF Jobs
<1>7. JobShrinks
  BY <1>0, <1>6 DEF JobShrinks
<1>8. CASE both /\ Replies(With(d, h, [d.table[h] EXCEPT !.folded = TRUE])) /\ job'.replay = "done"
  <2>1. h \in DOMAIN d.table /\ h \in Handles /\ d.table[h] \in Objects /\ d.table[h].kind = "dafsa"
    BY <1>1, <1>4, <1>8, ServingIs DEF IsA, Knows
  <2>2. PICK obj : obj = [d.table[h] EXCEPT !.folded = TRUE]
    OBVIOUS
  <2>3. obj \in Objects /\ obj.kind = "dafsa" /\ obj.dir = d.table[h].dir /\ obj.folded
    BY <2>1, <2>2 DEF Objects
  <2>4. PICK n : n = With(d, h, obj)
    OBVIOUS
  <2>5. WithAs(n, d, h, obj)
    BY <1>3, <2>1, <2>3, <2>4, WithFacts DEF TableOK
  <2>6. ASSUME NEW g \in DOMAIN n.table
        PROVE  JobSlotOK(n, g)'
    <3>1. g \in DOMAIN d.table /\ JobSlotOK(d, g) /\ n.table[g].kind = d.table[g].kind
          /\ n.table[g].dir = d.table[g].dir
      BY <1>3, <2>1, <2>3, <2>5 DEF WithAs, TableOK
    <3>2. d.table[g].kind = "dafsa" => g = h /\ n.table[g].folded
      BY <1>2, <2>3, <2>5, <3>1 DEF JobSlotOK, WithAs
    <3> QED BY <1>0, <1>6, <1>8, <3>1, <3>2 DEF JobSlotOK, Loaded, WithWal
  <2>7. FirstLifeOK(n)'
    <3>1. Entries' = Entries /\ \A e \in Entries : entries'[e].robbed = entries[e].robbed
      BY <1>0, JobOnlyFacts
    <3>2. \A g, k : IsA(d, g, k) => IsA(n, g, k)
      BY <2>1, <2>3, <2>5 DEF IsA, Knows, WithAs
    <3>3. n.life = d.life /\ n.alive = d.alive
      BY <2>5 DEF WithAs
    <3> QED BY <1>0, <1>3, <1>6, <3>1, <3>2, <3>3 DEF TableOK, FirstLifeOK
  <2>8. obj.kind # "view" /\ (h \in DOMAIN d.table => d.table[h].kind # "view")
    BY <2>1, <2>3
  <2>9. Replies(With(d, h, obj))
    BY <1>8, <2>2
  <2> QED BY <1>0, <1>1, <2>1, <2>3, <2>4, <2>6, <2>7, <2>8, <2>9, JobPuts
<1>9. CASE Replies(d) /\ (r = "error" \/ (r = "stale" /\ ~both))
  <2>1. ASSUME NEW g \in DOMAIN d.table
        PROVE  JobSlotOK(d, g)'
    <3>1. JobSlotOK(d, g)
      BY <1>3 DEF TableOK
    <3>2. d.table[g].kind = "dafsa" /\ ~both => job.robbed
      BY <1>0, <1>2, <1>4, <3>1 DEF JobSlotOK, IsA, Knows
    <3> QED BY <1>0, <1>6, <1>9, <3>1, <3>2 DEF JobSlotOK, Loaded, WithWal
  <2> QED BY <1>0, <1>1, <1>7, <1>9, <2>1, JobSame
<1>10. CASE Crashes \/ Refused
  BY <1>0, <1>7, <1>10, JobCrash
<1>11. \/ both /\ Replies(With(d, h, [d.table[h] EXCEPT !.folded = TRUE]))
            /\ job' = [job EXCEPT !.pc = "close", !.replay = "done"]
       \/ Replies(d) /\ job' = [job EXCEPT !.pc = "close", !.replay = "error"]
       \/ ~both /\ Replies(d) /\ job' = [job EXCEPT !.pc = "close", !.replay = "stale"]
       \/ Crashes \/ Refused
  BY <1>1, <1>2, <1>4 DEF CompactReplays
<1>12. \A q : job' = [job EXCEPT !.pc = "close", !.replay = q] => job'.replay = q
  BY <1>0 DEF Jobs
<1> QED BY <1>6, <1>8, <1>9, <1>10, <1>11, <1>12

LEMMA ClosesWalStep ==
  ASSUME StoreOK, ClientOK, DiskOK, CompactClosesWal
  PROVE  StoreOK' /\ ClientOK'
<1>0. /\ job.pc = "close" /\ job \in Jobs /\ job.pc \in Loaded /\ job.pc \in WithWal
      /\ {"save", "free"} \subseteq Loaded /\ "save" \notin WithWal /\ "free" \notin WithWal
  BY DEF CompactClosesWal, DiskOK, Loaded, WithWal
<1>1. PICK d : d = Serving
  OBVIOUS
<1>2. PICK h : h = job.walh
  OBVIOUS
<1>3. TableOK(d) /\ d.alive /\ d.life \in Nat
  BY <1>1, ServingIs
<1>4. CASE Knows(d, h) /\ JobFree(h) /\ Job("save")
  <2>1. /\ job'.pc = "save" /\ job'.h = job.h /\ job'.walh = job.walh /\ job'.dir = job.dir
        /\ job'.robbed = job.robbed /\ job'.replay = job.replay
    BY <1>0, <1>4 DEF Jobs, Job
  <2>2. JobShrinks
    BY <1>0, <2>1 DEF JobShrinks
  <2>3. PICK n : n = Without(d, h)
    OBVIOUS
  <2>4. WithoutAs(n, d, h)
    BY <1>3, <2>3, WithoutFacts DEF TableOK
  <2>5. ASSUME NEW g \in DOMAIN n.table
        PROVE  JobSlotOK(n, g)'
    <3>1. g \in DOMAIN d.table /\ g # h /\ n.table[g] = d.table[g] /\ JobSlotOK(d, g)
      BY <1>3, <2>4 DEF WithoutAs, TableOK
    <3> QED BY <1>0, <1>2, <2>1, <3>1 DEF JobSlotOK
  <2>6. d.life <= 1 => IsA(d, h, "wal")
    BY <1>0, <1>2, <1>3 DEF TableOK, FirstLifeOK
  <2>7. (job'.pc \in Loaded => IsA(d, h, "wal") \/ d.life > 1) /\ job'.pc \notin WithWal
        /\ (d.life <= 1 => d.table[h].kind # "view")
    BY <1>0, <1>3, <2>1, <2>6 DEF IsA
  <2> QED BY <1>1, <1>4, <2>2, <2>3, <2>5, <2>7, JobFrees
<1>5. CASE JobFails("free") /\ JobOnly
  <2>1. /\ job'.pc = "free" /\ job'.h = job.h /\ job'.dir = job.dir /\ job'.robbed = job.robbed
    BY <1>0, <1>5 DEF Jobs, JobFails
  <2>2. JobShrinks
    BY <1>0, <2>1 DEF JobShrinks
  <2>3. CASE ~Knows(d, h) /\ Replies(d)
    <3>1. \A g \in DOMAIN d.table : JobSlotOK(d, g)'
      BY <1>0, <1>2, <1>3, <2>1, <2>3 DEF JobSlotOK, TableOK, Knows
    <3> QED BY <1>1, <1>5, <2>2, <2>3, <3>1, JobSame
  <2>4. CASE Crashes \/ Refused
    BY <1>5, <2>2, <2>4, JobCrash
  <2> QED BY <1>1, <1>2, <1>4, <2>3, <2>4 DEF CompactClosesWal
<1> QED BY <1>1, <1>2, <1>4, <1>5 DEF CompactClosesWal

LEMMA SavesStep ==
  ASSUME StoreOK, ClientOK, DiskOK, CompactSaves
  PROVE  StoreOK' /\ ClientOK'
<1>0. /\ job.pc = "save" /\ job \in Jobs /\ JobOnly /\ job.pc \in Loaded /\ job.pc \notin WithWal
      /\ "free" \in Loaded /\ "free" \notin WithWal
  BY DEF CompactSaves, DiskOK, Loaded, WithWal
<1>1. PICK d : d = Serving
  OBVIOUS
<1>2. TableOK(d)
  BY <1>1, ServingIs
<1>3. /\ job'.pc = "free" /\ job'.h = job.h /\ job'.dir = job.dir /\ job'.robbed = job.robbed
  BY <1>0 DEF CompactSaves, Jobs, Job, JobFails
<1>4. JobShrinks
  BY <1>0, <1>3 DEF JobShrinks
<1>5. \A g \in DOMAIN d.table : JobSlotOK(d, g)'
  BY <1>0, <1>2, <1>3, NothingLoaded DEF JobSlotOK, TableOK
<1>6. Replies(d) \/ Crashes \/ Refused
  BY <1>1 DEF CompactSaves
<1> QED BY <1>0, <1>1, <1>4, <1>5, <1>6, JobSame, JobCrash

LEMMA FreesStep ==
  ASSUME StoreOK, ClientOK, DiskOK, CompactFrees
  PROVE  StoreOK' /\ ClientOK'
<1>0. /\ job.pc = "free" /\ job \in Jobs /\ job.pc \in Loaded /\ job.pc \notin WithWal
      /\ "unlink" \notin Loaded /\ "unlink" \notin WithWal
  BY DEF CompactFrees, DiskOK, Loaded, WithWal
<1>1. PICK d : d = Serving
  OBVIOUS
<1>2. PICK h : h = job.h
  OBVIOUS
<1>3. TableOK(d) /\ d.alive
  BY <1>1, ServingIs
<1>4. job'.pc \notin Loaded /\ job'.pc \notin WithWal /\ (job'.robbed => job.robbed)
  BY <1>0, NoJobFacts DEF CompactFrees, Jobs
<1>5. JobShrinks
  BY <1>4 DEF JobShrinks
<1>6. \A g \in DOMAIN d.table : d.table[g].kind # "wal" /\ (d.table[g].kind = "dafsa" => g = h)
  BY <1>0, <1>2, <1>3, NothingLoaded DEF TableOK, JobSlotOK
<1>7. CASE Knows(d, h) /\ JobFree(h)
  <2>1. PICK n : n = Without(d, h)
    OBVIOUS
  <2>2. WithoutAs(n, d, h)
    BY <1>3, <2>1, WithoutFacts DEF TableOK
  <2>3. \A g \in DOMAIN n.table : JobSlotOK(n, g)'
    BY <1>6, <2>2 DEF WithoutAs, JobSlotOK
  <2>4. d.life <= 1 => d.table[h].kind # "view"
    BY <1>0, <1>2, <1>3 DEF TableOK, FirstLifeOK, IsA
  <2> QED BY <1>1, <1>4, <1>5, <1>7, <2>1, <2>3, <2>4, JobFrees
<1>8. CASE ~Knows(d, h) /\ Replies(d) /\ JobOnly
  <2>1. \A g \in DOMAIN d.table : JobSlotOK(d, g)'
    BY <1>6, <1>8 DEF JobSlotOK, Knows
  <2> QED BY <1>1, <1>5, <1>8, <2>1, JobSame
<1>9. CASE (Crashes \/ Refused) /\ JobOnly
  BY <1>5, <1>9, JobCrash
<1> QED BY <1>1, <1>2, <1>7, <1>8, <1>9 DEF CompactFrees

LEMMA OtherJobSteps ==
  ASSUME StoreOK, ClientOK, DiskOK,
         CompactCommits \/ \E d \in Domains : CompactBegins(d) \/ Commit(d)
  PROVE  StoreOK' /\ ClientOK'
<1>1. UNCHANGED client /\ UNCHANGED <<entries, cache, lock, pc, th>>
  BY DEF CompactCommits, CompactBegins, Commit, JobOnly, store
<1>2. JobQuiet
  <2>1. CASE CompactCommits
    BY <2>1, NoJobFacts DEF CompactCommits, JobQuiet, Loaded
  <2>2. CASE \E d \in Domains : CompactBegins(d)
    <3>1. job.pc = "idle" /\ job'.pc = "load" /\ ~job'.robbed
      BY <2>2 DEF CompactBegins, NoJob
    <3> QED BY <3>1 DEF JobQuiet, Loaded
  <2>3. CASE \E d \in Domains : Commit(d)
    BY <2>3 DEF Commit, JobQuiet
  <2> QED BY <2>1, <2>2, <2>3
<1>3. EntriesSame
  BY <1>1, UnchangedEntries
<1>4. StoreOK' /\ AnswersKept
  BY <1>1, JobStore
<1> QED BY <1>1, <1>2, <1>3, <1>4, QuietClient

-----------------------------------------------------------------------------
(* The files.                                                              *)

LEMMA DiskFrame ==
  ASSUME DiskOK, UNCHANGED <<disk, calls>>, job' = job
  PROVE  DiskOK'
BY DEF DiskOK, Active, disk

\* A step of the compaction that leaves the files as they are.
LEMMA DiskJob ==
  ASSUME DiskOK, UNCHANGED <<disk, calls>>, job' \in Jobs,
         job'.pc # "idle" => job.pc # "idle" /\ job'.dir = job.dir,
         job'.failed => job'.pc = "free",
         (job'.pc = "free" /\ ~job'.failed) \/ job'.pc = "unlink" =>
            base[job'.dir].folded \/ job'.replay = "error" \/ job'.robbed
  PROVE  DiskOK'
<1>1. wal' = wal /\ base' = base /\ seq' = seq /\ calls' = calls
  BY DEF disk
<1>2. ASSUME NEW d \in Domains
      PROVE  base'[d].dir = d /\ seq'[d] + Active(d)' <= calls'
  <2>1. base[d].dir = d /\ seq[d] + Active(d) <= calls /\ seq[d] \in Nat /\ calls \in Nat
    BY DaemonBounds DEF DiskOK
  <2>2. Active(d) \in {0, 1} /\ Active(d)' \in {0, Active(d)}
    BY DEF Active
  <2> QED BY <1>1, <2>1, <2>2
<1> QED BY <1>1, <1>2 DEF DiskOK

LEMMA DiskSteps ==
  ASSUME StoreOK, ClientOK, DiskOK,
         Compacting \/ \E d \in Domains : CompactBegins(d) \/ Commit(d)
  PROVE  DiskOK'
<1>0. /\ job \in Jobs /\ job.dir \in Domains /\ wal \in [Domains -> BOOLEAN]
      /\ base \in [Domains -> Bases] /\ seq \in [Domains -> Nat]
      /\ calls \in 0..MaxCalls /\ calls \in Nat /\ MaxCalls \in Nat
      /\ \A d \in Domains : base[d].dir = d /\ seq[d] + Active(d) <= calls
  BY DaemonBounds DEF DiskOK, Jobs
<1>1. CASE CompactLoads \/ CompactOpensWal \/ CompactReplays \/ CompactClosesWal
  <2>1. UNCHANGED <<disk, calls>>
    BY <1>1 DEF CompactLoads, CompactOpensWal, CompactReplays, CompactClosesWal, JobOnly, JobFree
  <2>2. job.pc \in {"load", "wal", "replay", "close"} /\ ~job.failed
    BY <1>1 DEF DiskOK, CompactLoads, CompactOpensWal, CompactReplays, CompactClosesWal
  <2>3. \/ job' = NoJob
        \/ \E h \in Handles : job' = [job EXCEPT !.pc = "wal", !.h = h]
        \/ \E h \in Handles : job' = [job EXCEPT !.pc = "replay", !.walh = h]
        \/ \E r \in Replays : job' = [job EXCEPT !.pc = "close", !.replay = r]
        \/ Job("save") \/ JobFails("free")
    BY <1>1, NewHandleIsFree DEF CompactLoads, CompactOpensWal, CompactReplays, CompactClosesWal, Replays
  <2>4. /\ job' \in Jobs
        /\ job'.pc # "idle" => job'.dir = job.dir
        /\ job'.failed => job'.pc = "free"
        /\ job'.pc # "unlink" /\ (job'.pc = "free" => job'.failed)
    <3>1. CASE job' = NoJob
      BY <3>1, NoJobFacts DEF NoJob
    <3>2. CASE \E h \in Handles : job' = [job EXCEPT !.pc = "wal", !.h = h]
      <4>1. PICK h \in Handles : job' = [job EXCEPT !.pc = "wal", !.h = h]
        BY <3>2
      <4>2. h \in Nat
        BY DaemonBounds DEF Handles
      <4>3. PICK j : j = [job EXCEPT !.pc = "wal", !.h = h]
        OBVIOUS
      <4>4. /\ j \in Jobs /\ j.pc = "wal" /\ j.dir = job.dir /\ j.failed = job.failed
        BY <1>0, <4>2, <4>3 DEF Jobs, JobPcs
      <4> QED BY <2>2, <4>1, <4>3, <4>4
    <3>3. CASE \E h \in Handles : job' = [job EXCEPT !.pc = "replay", !.walh = h]
      <4>1. PICK h \in Handles : job' = [job EXCEPT !.pc = "replay", !.walh = h]
        BY <3>3
      <4>2. h \in Nat
        BY DaemonBounds DEF Handles
      <4>3. PICK j : j = [job EXCEPT !.pc = "replay", !.walh = h]
        OBVIOUS
      <4>4. /\ j \in Jobs /\ j.pc = "replay" /\ j.dir = job.dir /\ j.failed = job.failed
        BY <1>0, <4>2, <4>3 DEF Jobs, JobPcs
      <4> QED BY <2>2, <4>1, <4>3, <4>4
    <3>4. CASE \E r \in Replays : job' = [job EXCEPT !.pc = "close", !.replay = r]
      BY <1>0, <2>2, <3>4 DEF Jobs, JobPcs
    <3>5. CASE Job("save") \/ JobFails("free")
      BY <1>0, <2>2, <3>5 DEF Job, JobFails, Jobs, JobPcs
    <3> QED BY <2>3, <3>1, <3>2, <3>3, <3>4, <3>5
  <2> QED BY <2>1, <2>2, <2>4, DiskJob
<1>2. CASE CompactSaves
  <2>1. PICK d : d = Serving
    OBVIOUS
  <2>2. TableOK(d)
    BY <2>1, ServingIs
  <2>3. PICK obj : obj = d.table[job.h]
    OBVIOUS
  <2>4. job.pc = "save" /\ ~job.failed /\ wal' = wal /\ seq' = seq /\ calls' = calls
    BY <1>2 DEF CompactSaves, DiskOK, JobOnly
  <2>5. IsA(d, job.h, "dafsa") =>
          /\ obj.dir = job.dir /\ obj \in Objects
          /\ obj.folded \/ job.replay = "error" \/ job.robbed
    <3>1. CASE IsA(d, job.h, "dafsa")
      <4>1. job.h \in DOMAIN d.table /\ JobSlotOK(d, job.h) /\ obj \in Objects
        BY <2>1, <2>2, <2>3, <3>1, ServingIs DEF IsA, Knows, TableOK
      <4> QED BY <2>3, <2>4, <3>1, <4>1 DEF JobSlotOK, IsA
    <3> QED BY <3>1
  <2>6. \/ IsA(d, job.h, "dafsa") /\ Saved(obj) /\ (Job("free") \/ JobFails("free"))
        \/ JobFails("free") /\ base' = base
    BY <1>2, <2>1, <2>3 DEF CompactSaves
  <2>7. /\ job' \in Jobs /\ job'.pc = "free" /\ job'.dir = job.dir
        /\ job'.robbed = job.robbed /\ job'.replay = job.replay
        /\ JobFails("free") => job'.failed
    BY <1>0, <2>6 DEF Job, JobFails, Jobs, JobPcs
  <2>8. \A c \in Domains : Active(c)' = Active(c)
    BY <2>4, <2>7 DEF Active
  <2>9. /\ base' \in [Domains -> Bases]
        /\ \A c \in Domains : base'[c].dir = c
        /\ ~job'.failed => base'[job.dir].folded \/ job.replay = "error" \/ job.robbed
    <3>1. CASE IsA(d, job.h, "dafsa") /\ Saved(obj)
      <4>1. PICK b : b = [dir |-> obj.dir, folded |-> obj.folded]
        OBVIOUS
      <4>2. b \in Bases /\ b.dir = job.dir /\ b.folded = obj.folded
        BY <1>0, <2>5, <3>1, <4>1 DEF Bases, Objects
      <4>3. base' = [base EXCEPT ![job.dir] = b]
        BY <3>1, <4>1 DEF Saved
      <4> QED BY <1>0, <2>5, <3>1, <4>2, <4>3
    <3>2. CASE JobFails("free") /\ base' = base
      BY <1>0, <2>7, <3>2
    <3> QED BY <2>6, <3>1, <3>2
  <2> QED BY <1>0, <2>4, <2>7, <2>8, <2>9 DEF DiskOK
<1>3. CASE CompactFrees
  <2>1. UNCHANGED <<disk, calls>> /\ job.pc = "free"
    BY <1>3 DEF CompactFrees, JobOnly, JobFree
  <2>2. \/ job' = NoJob
        \/ ~job.failed /\ job' = [job EXCEPT !.pc = "unlink"]
    BY <1>3 DEF CompactFrees
  <2>3. CASE job' = NoJob
    BY <2>1, <2>3, NoJobFacts, DiskJob
  <2>4. CASE ~job.failed /\ job' = [job EXCEPT !.pc = "unlink"]
    <3>1. /\ job' \in Jobs /\ job'.pc = "unlink" /\ job'.dir = job.dir
          /\ job'.robbed = job.robbed /\ job'.replay = job.replay /\ ~job'.failed
      BY <1>0, <2>4 DEF Jobs, JobPcs
    <3>2. base[job.dir].folded \/ job.replay = "error" \/ job.robbed
      BY <2>1, <2>4 DEF DiskOK
    <3> QED BY <2>1, <3>1, <3>2, DiskJob
  <2> QED BY <2>2, <2>3, <2>4
<1>4. CASE CompactCommits
  <2>1. /\ job.pc = "unlink" /\ job' = NoJob /\ base' = base /\ calls' = calls
        /\ wal' = [wal EXCEPT ![job.dir] = FALSE] /\ seq' = [seq EXCEPT ![job.dir] = @ + 1]
    BY <1>4 DEF CompactCommits, JobOnly
  <2>2. wal' \in [Domains -> BOOLEAN] /\ seq' \in [Domains -> Nat]
    BY <1>0, <2>1
  <2>3. ASSUME NEW c \in Domains
        PROVE  seq'[c] + Active(c)' <= calls'
    <3>1. Active(c)' = 0 /\ seq[c] + Active(c) <= calls
      BY <1>0, <2>1, NoJobFacts DEF Active
    <3>2. CASE c = job.dir
      BY <1>0, <2>1, <3>1, <3>2 DEF Active
    <3>3. CASE c # job.dir
      BY <1>0, <2>1, <3>1, <3>3 DEF Active
    <3> QED BY <3>2, <3>3
  <2> QED BY <1>0, <2>1, <2>2, <2>3, NoJobFacts DEF DiskOK
<1>5. ASSUME NEW d \in Domains, CompactBegins(d)
      PROVE  DiskOK'
  <2>1. /\ job' = [NoJob EXCEPT !.pc = "load", !.dir = d] /\ job.pc = "idle"
        /\ calls' = calls + 1 /\ calls < MaxCalls /\ UNCHANGED <<wal, base, seq>>
    BY <1>5 DEF CompactBegins, CountCall, disk
  <2>2. job' \in Jobs /\ job'.pc = "load" /\ ~job'.failed
    BY <2>1, NoJobFacts DEF Jobs, JobPcs
  <2>3. ASSUME NEW c \in Domains
        PROVE  seq'[c] + Active(c)' <= calls'
    <3>1. Active(c) = 0 /\ Active(c)' \in {0, 1} /\ seq[c] + Active(c) <= calls
      BY <1>0, <2>1 DEF Active
    <3> QED BY <1>0, <2>1, <3>1
  <2> QED BY <1>0, <2>1, <2>2, <2>3 DEF DiskOK
<1>6. ASSUME NEW d \in Domains, Commit(d)
      PROVE  DiskOK'
  <2>1. /\ job.pc = "idle" \/ job.dir # d
        /\ wal' = [wal EXCEPT ![d] = TRUE] /\ base' = [base EXCEPT ![d].folded = FALSE]
        /\ seq' = [seq EXCEPT ![d] = @ + 1] /\ job' = job
        /\ calls' = calls + 1 /\ calls < MaxCalls
    BY <1>6 DEF Commit, CountCall
  <2>2. PICK b : b = [base[d] EXCEPT !.folded = FALSE]
    OBVIOUS
  <2>3. b \in Bases /\ b.dir = d /\ base' = [base EXCEPT ![d] = b]
    <3>1. base[d] \in Bases /\ base[d].dir = d
      BY <1>0
    <3>2. b \in Bases /\ b.dir = d
      BY <2>2, <3>1 DEF Bases
    <3>3. base' = [base EXCEPT ![d] = [base[d] EXCEPT !.folded = FALSE]]
      BY <2>1
    <3> QED BY <2>2, <3>2, <3>3
  <2>4. /\ base' \in [Domains -> Bases] /\ \A c \in Domains : base'[c].dir = c
        /\ \A c \in Domains : c # d => base'[c] = base[c]
    BY <1>0, <2>3
  <2>5. wal' \in [Domains -> BOOLEAN] /\ seq' \in [Domains -> Nat] /\ calls' \in 0..MaxCalls
    BY <1>0, <2>1
  <2>6. \A c \in Domains : seq'[c] + Active(c)' <= calls'
    <3>1. \A c \in Domains : Active(c)' = Active(c) /\ Active(c) \in Nat
      BY <2>1 DEF Active
    <3> QED BY <1>0, <2>1, <3>1
  <2>7. (job.pc = "free" /\ ~job.failed) \/ job.pc = "unlink" =>
           base'[job.dir].folded \/ job.replay = "error" \/ job.robbed
    BY <1>0, <2>1, <2>4 DEF DiskOK
  <2>8. job.failed => job.pc = "free"
    BY DEF DiskOK
  <2> QED BY <1>0, <2>1, <2>4, <2>5, <2>6, <2>7, <2>8 DEF DiskOK
<1> QED BY <1>1, <1>2, <1>3, <1>4, <1>5, <1>6 DEF Compacting

-----------------------------------------------------------------------------
(* The steps of the threads, and the end of the daemon.                    *)

LEMMA LastingSame ==
  ASSUME Lasting
  PROVE  EntriesSame
BY DEF Lasting, EntriesSame

LEMMA BeginStep ==
  ASSUME IInv, NEW t \in Threads, Begin(t)
  PROVE  IInv'
<1>1. StoreOK' /\ AnswersKept
  BY BeginStore DEF IInv
<1>2. UNCHANGED client /\ entries' = entries /\ job' = job /\ UNCHANGED disk
  BY DEF Begin, store
<1>3. ClientOK'
  BY <1>1, <1>2, UnchangedEntries, QuietClient DEF IInv, JobQuiet
<1>4. DiskOK'
  <2>1. calls \in 0..MaxCalls /\ MaxCalls \in Nat /\ calls < MaxCalls /\ calls' = calls + 1
    BY DaemonBounds DEF IInv, DiskOK, Begin, CountCall
  <2>2. \A d \in Domains : Active(d)' = Active(d) /\ Active(d) \in Nat
    BY <1>2 DEF Active
  <2>3. \A d \in Domains : seq[d] \in Nat /\ seq[d] + Active(d) <= calls
    BY DEF IInv, DiskOK
  <2>4. calls' \in 0..MaxCalls /\ \A d \in Domains : seq[d] + Active(d) <= calls'
    BY <2>1, <2>2, <2>3
  <2> QED BY <1>2, <2>2, <2>4 DEF IInv, DiskOK, disk
<1> QED BY <1>1, <1>3, <1>4 DEF IInv

LEMMA CacheStep ==
  ASSUME IInv, NEW t \in Threads,
         ReadSeq(t) \/ Lookup(t) \/ Insert(t) \/ Release(t) \/ EvictDir(t)
  PROVE  IInv'
<1>1. UNCHANGED <<client, disk, calls>> /\ job' = job
  BY DEF ReadSeq, Lookup, Insert, Release, EvictDir
<1>2. StoreOK' /\ AnswersKept /\ EntriesSame
  <2>1. CASE ReadSeq(t)
    <3>1. entries' = entries
      BY <2>1 DEF ReadSeq, store
    <3> QED BY <2>1, <3>1, ReadSeqStore, UnchangedEntries DEF IInv
  <2>2. CASE Lookup(t)
    BY <2>2, LookupStore, LastingSame DEF IInv
  <2>3. CASE Insert(t)
    BY <2>3, InsertStore, LastingSame DEF IInv
  <2>4. CASE Release(t)
    BY <2>4, ReleaseStore, LastingSame DEF IInv
  <2>5. CASE EvictDir(t)
    BY <2>5, EvictStore, LastingSame DEF IInv
  <2> QED BY <2>1, <2>2, <2>3, <2>4, <2>5
<1>3. ClientOK'
  BY <1>1, <1>2, QuietClient DEF IInv, JobQuiet
<1> QED BY <1>1, <1>2, <1>3, DiskFrame DEF IInv

\* A free request may take a slot from the compaction, which then is marked.
LEMMA CloseDisk ==
  ASSUME IInv, NEW t \in Threads, Close(t)
  PROVE  DiskOK'
<1>1. UNCHANGED <<disk, calls>>
  BY DEF Close
<1>2. \/ job' = job
      \/ \E h : job' = [job EXCEPT !.robbed = @ \/ RobsJob(h)]
  BY DEF Close
<1>3. CASE job' = job
  BY <1>1, <1>3, DiskFrame DEF IInv
<1>4. ASSUME NEW h, job' = [job EXCEPT !.robbed = @ \/ RobsJob(h)]
      PROVE  DiskOK'
  <2>1. PICK r \in BOOLEAN : r = (job.robbed \/ RobsJob(h))
    OBVIOUS
  <2>2. job \in Jobs
    BY DEF IInv, DiskOK
  <2>3. job' = [job EXCEPT !.robbed = r] /\ (job.robbed => r)
    BY <1>4, <2>1
  <2>4. /\ job' \in Jobs /\ job'.pc = job.pc /\ job'.dir = job.dir
        /\ job'.failed = job.failed /\ job'.replay = job.replay
        /\ job.robbed => job'.robbed
    BY <2>2, <2>3 DEF Jobs
  <2>5. /\ job.failed => job.pc = "free"
        /\ (job.pc = "free" /\ ~job.failed) \/ job.pc = "unlink" =>
              base[job.dir].folded \/ job.replay = "error" \/ job.robbed
    BY DEF IInv, DiskOK
  <2> QED BY <1>1, <2>4, <2>5, DiskJob DEF IInv
<1> QED BY <1>2, <1>3, <1>4

LEMMA SearchingStep ==
  ASSUME IInv, NEW t \in Threads, Searching(t)
  PROVE  IInv'
<1>1. CASE ReadSeq(t) \/ Lookup(t) \/ Insert(t) \/ Release(t) \/ EvictDir(t)
  BY <1>1, CacheStep
<1>2. CASE Open(t)
  <2>1. UNCHANGED <<disk, calls>> /\ job' = job
    BY <1>2 DEF Open
  <2> QED BY <1>2, <2>1, OpenStep, DiskFrame DEF IInv
<1>3. CASE Search(t)
  <2>1. UNCHANGED <<disk, calls>> /\ job' = job
    BY <1>3 DEF Search
  <2> QED BY <1>3, <2>1, SearchStore, SearchClient, DiskFrame DEF IInv
<1>4. CASE Close(t)
  BY <1>4, CloseStep, CloseDisk DEF IInv
<1> QED BY <1>1, <1>2, <1>3, <1>4 DEF Searching

LEMMA JobStep ==
  ASSUME IInv, Compacting \/ \E d \in Domains : CompactBegins(d) \/ Commit(d)
  PROVE  IInv'
<1>1. StoreOK' /\ ClientOK'
  BY LoadsStep, OpensWalStep, ReplaysStep, ClosesWalStep, SavesStep, FreesStep, OtherJobSteps
     DEF IInv, Compacting
<1>2. DiskOK'
  BY DiskSteps DEF IInv
<1> QED BY <1>1, <1>2 DEF IInv

LEMMA DiesStep ==
  ASSUME IInv, Dies
  PROVE  IInv'
<1>1. UNCHANGED <<entries, cache, lock, pc, th, disk, calls, job>>
  BY DEF Dies, store
<1> QED BY <1>1, JobStore, DiesClient, DiskFrame DEF IInv

LEMMA StutterStep ==
  ASSUME IInv, UNCHANGED vars
  PROVE  IInv'
<1>1. UNCHANGED <<entries, cache, lock, pc, th, disk, calls, job, client>>
  BY DEF vars, store
<1>2. StoreOK' /\ AnswersKept
  BY <1>1, JobStore DEF IInv
<1>3. ClientOK'
  BY <1>1, <1>2, UnchangedEntries, QuietClient DEF IInv, JobQuiet
<1> QED BY <1>1, <1>2, <1>3, DiskFrame DEF IInv

-----------------------------------------------------------------------------
(* The invariant.                                                          *)

LEMMA InitIInv ==
  ASSUME Init
  PROVE  IInv
<1>1. /\ entries = <<>> /\ cache = [d \in Domains |-> 0] /\ lock = {}
      /\ pc = [t \in Threads |-> "idle"] /\ th = [t \in Threads |-> Fresh]
      /\ daemon = [alive |-> FALSE, life |-> 0, table |-> Empty]
      /\ attached = FALSE /\ faults = 0 /\ calls = 0 /\ job = NoJob
      /\ wal = [d \in Domains |-> TRUE] /\ seq = [d \in Domains |-> 0]
      /\ base = [d \in Domains |-> [dir |-> d, folded |-> FALSE]]
  BY DEF Init
<1>2. entries \in Seq(Entry) /\ Len(entries) = 0 /\ Entries = {}
  BY <1>1 DEF Entries
<1>3. /\ Fresh \in Local /\ Fresh.closing = {} /\ Fresh.entry = 0 /\ Fresh.out = "none"
  BY FreshFacts
<1>4. \A t \in Threads : pc[t] = "idle" /\ th[t] = Fresh
  BY <1>1
<1>5. \A t \in Threads : \A e : ~Holds(t, e)
  BY <1>4 DEF Holds
<1>6. StoreOK
  <2>1. pc \in [Threads -> Pcs] /\ th \in [Threads -> Local]
    BY <1>1, <1>3 DEF Pcs
  <2>2. LockOK
    BY <1>1, <1>3, <1>4 DEF LockOK
  <2>3. CacheOK
    BY <1>1, <1>2 DEF CacheOK
  <2>4. \A t \in Threads : ThreadOK(t) /\ ClosingOK(t)
    BY <1>2, <1>3, <1>4, <1>5 DEF ThreadOK, ClosingOK
  <2> QED BY <1>2, <2>1, <2>2, <2>3, <2>4 DEF StoreOK
<1>7. ClientOK
  <2>1. /\ daemon \in Daemons /\ ~daemon.alive /\ daemon.life = 0 /\ DOMAIN daemon.table = {}
    BY <1>1, EmptyFacts DEF Daemons
  <2>2. TableOK(daemon)
    BY <1>1, <1>2, <2>1, NoJobFacts DEF TableOK, FirstLifeOK
  <2>3. AnswersOK
    BY <1>3, <1>4 DEF AnswersOK
  <2>4. attached \in BOOLEAN /\ ~attached
    BY <1>1, Zenon
  <2>5. faults = 0 /\ 0 \in 0..MaxFaults
    BY <1>1, DaemonBounds
  <2>6. /\ daemon.life + (IF attached /\ daemon.alive THEN 0 ELSE 1) <= faults + 1
        /\ daemon.alive => daemon.life >= 1
    BY <2>1, <2>4, <2>5
  <2> QED BY <2>2, <2>3, <2>4, <2>5, <2>6 DEF ClientOK
<1>8. DiskOK
  <2>1. \A d \in Domains : base[d].dir = d /\ seq[d] = 0 /\ Active(d) = 0
    BY <1>1, NoJobFacts DEF Active
  <2>2. base \in [Domains -> Bases] /\ seq \in [Domains -> Nat]
    BY <1>1 DEF Bases
  <2> QED BY <1>1, <2>1, <2>2, NoJobFacts, DaemonBounds DEF DiskOK
<1> QED BY <1>6, <1>7, <1>8 DEF IInv

LEMMA NextIInv ==
  ASSUME IInv, [Next]_vars
  PROVE  IInv'
BY BeginStep, SearchingStep, JobStep, DiesStep, StutterStep DEF Next

LEMMA Inductive == Spec => []IInv
<1>1. Init => IInv
  BY InitIInv
<1>2. IInv /\ [Next]_vars => IInv'
  BY NextIInv
<1> QED BY <1>1, <1>2, PTL DEF Spec

-----------------------------------------------------------------------------
(* What follows from it.                                                   *)

LEMMA TypesFollow ==
  ASSUME IInv
  PROVE  TypeOK
<1>1. /\ daemon \in Daemons /\ attached \in BOOLEAN /\ faults \in 0..MaxFaults
      /\ daemon.life + (IF attached /\ daemon.alive THEN 0 ELSE 1) <= faults + 1
      /\ MaxFaults \in Nat /\ MaxCalls \in Nat
  BY DaemonBounds DEF IInv, ClientOK, TableOK
<1>2. daemon.alive \in BOOLEAN /\ daemon.life \in 0..(MaxFaults + 1)
  BY <1>1, TableFacts
<1>3. /\ DOMAIN daemon.table \subseteq Handles
      /\ \A h \in DOMAIN daemon.table : daemon.table[h] \in Objects
  BY <1>1, TableFacts
<1>4. seq \in [Domains -> Seqs]
  <2>1. \A d \in Domains : seq[d] \in Seqs
    BY <1>1 DEF IInv, DiskOK, Active, Seqs
  <2>2. seq \in [Domains -> Nat]
    BY DEF IInv, DiskOK
  <2> QED BY <2>1, <2>2
<1>5. \A e \in DOMAIN entries : entries[e] \in Entry
  BY DEF IInv, StoreOK
<1>6. lock \in SUBSET Threads /\ Cardinality(lock) <= 1
  <2>1. lock \in SUBSET Threads /\ \A t, u \in lock : t = u
    BY DEF IInv, StoreOK, LockOK
  <2>2. CASE lock = {}
    BY <2>1, <2>2, FS_EmptySet
  <2>3. CASE lock # {}
    <3>1. PICK t : t \in lock
      BY <2>3
    <3>2. lock = {t}
      BY <2>1, <3>1
    <3>3. Cardinality(lock) = 1
      BY <3>2, FS_Singleton, Zenon
    <3> QED BY <2>1, <3>3
  <2> QED BY <2>2, <2>3
<1>7. ASSUME NEW t \in Threads
      PROVE  th[t].closing \subseteq DOMAIN entries /\ th[t].out \in Outs
  <2>1. th[t] \in Local /\ ClosingOK(t) /\ DOMAIN entries = Entries
    BY DEF IInv, StoreOK, Entries
  <2> QED BY <2>1 DEF Local, ClosingOK
<1>8. pc \in [Threads -> Pcs] /\ cache \in [Domains -> 0..Len(entries)]
  BY DEF IInv, StoreOK, CacheOK
<1>9. job.pc \in JobPcs /\ wal \in [Domains -> BOOLEAN] /\ base \in [Domains -> Bases]
  BY DEF IInv, DiskOK, Jobs
<1> QED BY <1>1, <1>2, <1>3, <1>4, <1>5, <1>6, <1>7, <1>8, <1>9
       DEF TypeOK, Entry, Outs, Pcs, JobPcs, Bases

\* The types of the handle table, the cache and the compaction: entries and
\* closing sets stay in range, one thread at most is inside the lock, and the
\* number of daemons started is bounded by the faults.
THEOREM TypeCorrect == Spec => []TypeOK
<1>1. IInv => TypeOK
  BY TypesFollow
<1> QED BY <1>1, Inductive, PTL

\* A handle of the running daemon names the view it was given out for, until a
\* free through a handle of an earlier daemon takes its slot: whatever the
\* threads, crashes, refusals and the compaction do in between.
THEOREM HandlesStayExact == Spec => []HandlesAreExact
<1>1. ASSUME IInv
      PROVE  HandlesAreExact
  <2>1. DOMAIN entries = Entries /\ TableOK(daemon)
    BY <1>1 DEF IInv, StoreOK, ClientOK, Entries
  <2> QED BY <2>1 DEF HandlesAreExact, TableOK, HandleOK, IsA, Knows
<1>2. IInv => HandlesAreExact
  BY <1>1
<1> QED BY <1>2, Inductive, PTL

\* As long as the process has started one daemon, no slot is taken from
\* another entry or from the compaction, and every answer comes from the index
\* of the directory searched.
THEOREM FirstLifeIsSafe == Spec => []NoMixingInFirstLife
<1>1. ASSUME IInv
      PROVE  NoMixingInFirstLife
  <2>1. DOMAIN entries = Entries /\ TableOK(daemon) /\ AnswersOK
    BY <1>1 DEF IInv, StoreOK, ClientOK, Entries
  <2> QED BY <2>1 DEF NoMixingInFirstLife, TableOK, FirstLifeOK, AnswersOK
<1>2. IInv => NoMixingInFirstLife
  BY <1>1
<1> QED BY <1>2, Inductive, PTL

\* No view leaks: what is in the handle table is in the cache, held or being
\* closed by a thread, overwritten by a second insertion of its key, or the
\* compaction's.
THEOREM NoSlotLeaks == Spec => []SlotsAreOwned
<1>1. ASSUME IInv
      PROVE  SlotsAreOwned
  <2>1. TableOK(daemon) /\ job \in Jobs
    BY <1>1 DEF IInv, ClientOK, DiskOK
  <2>2. ASSUME NEW h \in DOMAIN daemon.table, daemon.table[h].kind = "view"
        PROVE  Reachable(daemon.table[h].entry) \/ entries[daemon.table[h].entry].lost
    <3>1. PICK e : e = daemon.table[h].entry
      OBVIOUS
    <3>2. e \in Entries /\ entries[e].open
      BY <2>1, <2>2, <3>1 DEF TableOK, ViewOK
    <3>3. Owned(e)
      BY <1>1, <3>2 DEF IInv, StoreOK, EntryOK
    <3>4. Reachable(e) \/ entries[e].lost
      BY <3>3 DEF Owned, Reachable, Cached, Holders, Holds, Inserts
    <3> QED BY <3>1, <3>4
  <2>3. ASSUME NEW h \in DOMAIN daemon.table, daemon.table[h].kind # "view"
        PROVE  job.pc # "idle"
    <3>1. daemon.table[h] \in Objects /\ JobSlotOK(daemon, h)
      BY <2>1, TableFacts DEF TableOK
    <3> QED BY <2>3, <3>1 DEF JobSlotOK, Objects, Loaded, WithWal
  <2> QED BY <2>2, <2>3 DEF SlotsAreOwned
<1>2. IInv => SlotsAreOwned
  BY <1>1
<1> QED BY <1>2, Inductive, PTL

\* The WAL is removed only when index.fst holds the index of its directory
\* with the WAL folded in, however many daemons died on the way: the crash
\* that replay_into swallows never leads there.  The exceptions are a replay
\* error that the daemon reported and a slot that a stale handle took.
THEOREM CompactionIsSafe == Spec => []CompactionKeepsItsIndex
<1>1. ASSUME IInv
      PROVE  CompactionKeepsItsIndex
  BY <1>1 DEF IInv, DiskOK, Jobs, CompactionKeepsItsIndex
<1>2. IInv => CompactionKeepsItsIndex
  BY <1>1
<1> QED BY <1>2, Inductive, PTL
=============================================================================
