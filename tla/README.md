# Verification of jing-meta

jing-meta gives a coding agent a memory (a knowledge graph in SQLite), a search
over files (an index on disk made of an automaton and a write-ahead log) and
maintenance jobs that run after the agent's turns (archiver, dreamer, index
updates). Nothing coordinates these programs but SQLite's write lock, one
`flock` per index, atomic renames and revision counters. This directory holds
TLA+ models of that coordination, TLC configurations that check them on small
instances, and proofs checked by TLAPS.

Paths below are relative to the repository's source tree.

## 1. Inventory

| Component | Source | State | Operations |
|---|---|---|---|
| Memory server | `memory/server.py`, `jing_meta/schema.py`, `jing_meta/mcp_base.py` | SQLite tables `entities` (id, name, revision), `observations`, `relations`; one connection per process | six write tools, six read tools; requests of one process are serial |
| Memory archiver | `memory/archiver.py` | archive files `memory-archive-<second>.jsonl`, a backup of the database | `archive()`: select, write file, back up, delete, rebuild the archive's index |
| Indexer | `indexer/__init__.py`, `indexer/dafsa/dafsa_build.c`, `jing_meta/fsutil.py` | per index: `index.fst`, `index.wal`, `slots/<i>.keys`, `manifest.json`, `index.lock` | `build`, `update`, `compact`, `Index.search` |
| Search index cache | `search/indexer.py` | `_index_cache`, `_retired`, a refcount per entry | acquire, release, evict, search with one retry |
| DAFSA client and daemon | `indexer/dafsa/__init__.py`, `indexer/dafsa/dafsa_cli.c` | a subprocess, its handle table, the request counter | request and reply over a pipe, restart after a crash |
| DAFSA core library | tests only; the library itself is not in the tree | automaton, WAL file | external |
| Search server | `search/server.py`, `config.py`, `renderers.py`, `transcript.py` | none of its own | formats what the cache finds |
| Semantic index | `memory/semantic_index.py`, `jing_meta/embed.py`, `dreamer/semantic_search.py` | a vector file and a names file | rebuild, search |
| Memory stats server | `memory/stats_server.py` | none | read-only queries |
| Dreamer: load, mutate, save | `dreamer/dreamer.py` | a graph in memory and a plan made minutes before | `load_graph_sqlite`, `apply_mutations`, `save_graph_sqlite` |
| Dreamer: staged runs | `dreamer/stages.py`, `runstore.py`, `contracts.py`, `__main__.py` | a directory per run: snapshot, manifest, a file per stage | discover, rank, validate, apply, replay |
| Dreamer: candidate sources | `souffle_pipeline.py`, `local_validator.py`, `llm.py` | none | external programs and models |
| Hooks | `jing_meta/hooks/` | throttle files, the maintenance digest | one run per agent turn; start detached jobs |
| Shared base | `jing_meta/config.py`, `log.py`, `cli.py`, `text.py` | none | configuration and text helpers |

How they interact. Every agent session starts its own memory server and its own
search server, so there are several of each. Memory servers, archiver, dreamer
and semantic index meet in one SQLite file in WAL mode: many readers, one
writer, `busy_timeout` 5 s. Index hook, command line and background compactor
meet at `index.lock` (exclusive for a writer, shared for a reader that opens);
search servers read what they leave. Hooks of concurrent turns meet in the
throttle files, without a lock. Each process that touches an index talks to its
own DAFSA daemon over a pipe.

What is hard, and what makes each component correct:

- **Memory server.** Handlers read, decide, then write, with statements of other
  processes in between; Python opens transactions implicitly and a handler that
  raises does not close one. Correct: an observation set never changes without
  its entity's revision (the only thing a client can compare), also when a
  handler commits what an earlier one left that raised; a lock or foreign-key
  failure leaves nothing to commit; no relation outlives an entity that was
  deleted.
- **Archiver.** Rows are selected in one connection and deleted in another after
  slow file work; two runs may overlap. Correct: no row leaves the graph that is
  not in an archive file; the deletion is visible to holders of a revision.
- **Indexer.** Four kinds of files change in a fixed order and the writer may die
  between any two; the indexed files change without a lock. Correct: after a run
  that nothing overlapped, a search finds what the files hold; a change that a
  run missed is seen by the next; compaction changes no answer.
- **Index cache.** Views are shared, retired while in use, closed by the last
  reader. Correct: no use after close, no leak, no answer older than the commit
  the search saw.
- **DAFSA client.** Handle numbers of a dead daemon may name other objects in the
  next one. Correct: a request never reaches an object it was not meant for.
- **Dreamer.** Applies a plan made minutes earlier to a graph it loads just before
  a backup and saves after it. Correct: what others wrote meanwhile is neither
  undone nor brought back; what it reports is what the database holds; a replayed run applies the plan
  it stored; two runs never share a directory.
- **Hooks.** Check-then-act on throttle files. Correct: at most one maintenance
  job per interval, and one eventually.
- **Semantic index.** Two files replaced one after the other under readers.
  Correct: a name is never paired with the vector of another entity.

`PROJECT.json` lists each hazard at its line with the properties that cover it.

## 2. Plan

Order of work, most important behaviour first. Done:

1. `GraphData`, `KnowledgeGraph`, `MemoryGraph`: the graph, its abstract promise,
   the memory servers; proofs in `MemoryGraphProofs`.
2. `IndexStore`: the durable files of an index and their writers; proofs in
   `IndexStoreProofs`.
3. `IndexCache`: the readers of the same files inside a search process; proofs in
   `IndexCacheProofs`.
4. `Archiver`: a second program that writes the graph, shown to implement the
   same `KnowledgeGraph`.
5. `DreamerSave`: a third one. `apply_mutations` as functions on small graphs, and
   the reconciliation of its result with concurrent transactions; proofs about it
   and about `Archiver` in `GraphWriterProofs`.
6. `DafsaDaemon`: the client, the daemon's handle table, crashes and silent
   restarts, under the cache of several directories and a compaction; proofs in
   `DafsaDaemonProofs`.
7. `DreamerRun`: run directories, stage files, manifest, fallback, replay, a death
   between any two writes; proofs in `DreamerRunProofs`.
8. `Cadence`: the hooks' throttles and detached passes, with liveness; proofs in
   `CadenceProofs`.
9. `Search`: a query over several domains, through an index and line by line,
   with its filters and limits; proofs in `SearchProofs`.

Left:

10. `SemanticFiles`: the two-file rebuild of the semantic index under a reader.
11. The index hook and the maintenance digest beside `Cadence`.

## 3. The modules

### GraphData and KnowledgeGraph

`GraphData` is the graph as a value and each SQL statement as an operator on it.
An entity row is `(id, rev, obs)`; id 0 stands for "no row". The observations
sit inside the row because `ON DELETE CASCADE` ties them to it. Relations are
triples of names, as in the schema, which has no foreign key there. Left out:
entity types, timestamps, the text of an observation.

`KnowledgeGraph` is the abstract specification: each step is one committed
transaction, and it may do anything that keeps the graph well formed,
moves the revision of every surviving row whose observations changed
(`RevisionTracksContent`), draws new ids from a sequence that only grows
(`IdsAreFresh`, the `AUTOINCREMENT`), and lets no relation outlive an entity it
deletes (`NoRelationOutlives`). `mixed` says that the last transaction was that of
more than one handler, which happens in the servers after one has raised: a
deletion left by one and relations created by the next are then committed
together, and the last promise is not kept. Archiver and dreamer never mix.

### MemoryGraph

Several server processes over one database. `tx[s]` and `work[s]` are the
connection: Python's `sqlite3` begins a deferred transaction before the first
writing statement and ends it only at `commit()`. Its states are `none`, `open`
(begun, no snapshot: what a lock timeout leaves), `read` (a later SELECT has
pinned a snapshot), `stale` (others have committed since) and `write` (holds the
lock). `pc`, `req` and `loc` are the handler: where it stands, the elements left,
the values it has read and will use. `seen[s]` is what `open_nodes` last showed
to the client, the only source of an `expectedRev`.

One action per statement group: `CreateEntity`, `CreateRelation`,
`DeleteRelation`, `DeleteEntityItem` run one element under the write lock, so
their statements cannot be separated by others. `add_observations` and
`delete_observations` read before they take the lock (`ReadId`, `ReadExisting`)
and write afterwards (`AddObservations`, `DeleteObservations`); `open_nodes`
reads the row and its observations in two statements (`OpenRow`, `OpenObs`).
`LockTimeout` is `busy_timeout` running out, `LockedAtOnce` the failure without a
wait, `Crash` the death of a process. A foreign-key violation after a hit-less
UPDATE is the failing branch of `AddObservations`.

The tools take lists of dicts, so an element may hold what its handler does not
expect (`flaw`): a name or a value that sqlite3 cannot bind, observations or
contents that are null. The handler then raises in the middle of the batch
(`NameUnbindable`, `ValueUnbindable`, and a branch of `CreateEntity`,
`ReadExisting` and `DeleteObservations`), after it may have written earlier
elements, or the row without its observations, or the bump with some of the
deletions. Nothing rolls back: what it wrote stays in the transaction, with the
write lock. `open_nodes` on that connection shows it, the next handler that
succeeds commits it, and the death of the process rolls it back. Three history
variables, which no guard reads, keep account of that: `leftover[s]` (the open
transaction holds such a remainder), `shown[s]` (what the client was shown is
committed, pending or lost) and `mixed` (the last commit held a remainder).

Read tools that only render
what they read are left out, except `open_nodes`, which hands out revisions.

### IndexStore

One index directory, the corpus it indexes, and the holder of the exclusive
`flock`. A key is a word in a slot; one word of the model stands for an (entry,
word) pair of a file, and a version for `(mtime_ns, size)`. `WriteFile` and
`DeleteFile` happen at any time, without the lock. `Update`, `Build` and
`Compact` start a run; `Stat` and `ReadFile` are separate steps because a file
may change, or go, between them. Then the durable writes in the order of the
code, each a step: base, WAL removal (build); WAL records, sidecars, sidecar
removals, manifest; fold, WAL removal, sequence bump (compact). `Crash` may come
before any of them. The files to come are a set of places in the listing (`todo`),
taken least first; what a run is going to append is one record per file and one
for all tombstones. The first update performs a build. Whether an update goes on
to compact depends on sizes and on `defer_compact` and is left open.

The auxiliary variables `moved`, `settled` and `gap` say whether a file changed
under the run, whether the last completed run saw the present corpus, and
whether an interrupted run left records that a later change can strand.

`DamageSidecar` is what the disk may do to a sidecar at any time: `_read_sidecar`
raises or finds no file, and `update` goes on as if the slot had no words.
`damaged` remembers it until a build.

Left out, and named as hazards: daemon calls that report failure by a return
value the indexer ignores, and a file that is present but cannot be read or
decoded, which `extract_jsonl` (`indexer/__init__.py:70-74`) turns into no words
under the current version.

### IndexCache

The threads of a search process around `_index_cache`, with the writers of
`IndexStore` seen from outside their lock: they change the data, then the
manifest. `ReadSeq` takes the shared `flock` if the lock file exists and reads
`commit_seq`; `Lookup` finds the entry or retires every other one; `Open`,
`Recheck` and `Insert` are the miss path; `Search`, `Release` and `EvictDir` are
the use, the hand-back and the retry after a daemon crash. What runs under
`_index_cache_lock` is one step. Which unread entries `_evict_lru` drops depends
on clocks and on other directories, so it may drop any.

The MCP server runs its requests one after the other today, while the module's
own comment is about a thread pool: the properties are checked with two threads
and hold with one.

### Archiver

`archive(apply=True)`: `SelectOld`, `WriteArchive` (the file of the present
second, written over an earlier one of that second), `BackupDb`, `DeleteOld` (one
transaction: rows by id, then one revision bump per selected entity), `Fail` at
any point. Server transactions are atomic here (`ServerWrites`), as
`MemoryGraph` shows how they are made. `Graph0` maps the tables to the abstract
graph of `KnowledgeGraph`. The names of its specification (`ArchiverInit`,
`ArchiverSpec`, `ArchiverTypeOK`, ...) carry the module's name so that
`GraphWriterProofs` can extend it and `DreamerSave` together.

### DreamerSave

The apply stage of dreamer runs over one database: `db` and `kind` are the tables
(`kind` the column `entity_type`, which `GraphData` leaves out), `pc`, `plan` and
`observed` a run. `LoadEntities` and `LoadRelations` are the two SELECTs of
`load_graph_sqlite`, each on the graph of its moment; `Save` is the one
`BEGIN IMMEDIATE` transaction of `save_graph_sqlite`; `GiveUp` is a failed backup,
a rollback, a death, or a dry run. `OtherWrites` is a committed transaction of a
memory server or of the archiver between any two of these.

`ApplyMutations` is `apply_mutations` as functions on the graph in memory, in the
order of the code: type renames, merges one after the other with the end points
they move (`Merges` has the graph after each), self-references they made, new
entities, new relations. A plan is
opaque: an element of the constant `Plans`, because discovery and ranking are
other programs' work. A save upserts what the run wants, deletes only what it has
loaded and no longer wants, and bumps a row once for its type and once for its
observations.

Left out: a save without the loaded snapshot (no stage calls it so), deletion of
entities by the save (the code has none), caps and chunks of plans, prompts.

### DafsaDaemon

One Python process and its `dafsa-cli`. `daemon.table` is the handle table
(`h_alloc` takes the lowest free slot, so a number is soon given out again);
`attached` is `_proc`; `daemon.life` counts the daemons. A request is one step, as
`_req_lock` makes it: `Serving` is the daemon that gets it, a new one with an
empty table if the old one has died, and `Crashes` and `Refused` are its failures
(`DafsaDaemonCrashed`, and the handshake's `RuntimeError`). `Dies` is the death
between two requests, which only the next one notices.

Above it stand the cache of `IndexCache`, for several directories and with every
`free` request a step of its own under `_index_cache_lock` (`Close`), and the
update tool's compaction in the order of its requests: load, open the WAL,
replay, close, save, free, then remove the WAL and move `commit_seq`.
`robbed` marks an entry whose slot was freed through another one's stale handle.
Left out: batching, encodings, and builds and updates, whose requests hold no
handle across those of others.

### DreamerRun

`run[i]` is a run directory: the directory itself, the copy of the store, the
manifest with its list of completed stages, a file per stage. `proc[p]` is a
dreamer process: `Mkdir`, `Snapshot`, `Manifest` are `create_run`; `DiscoverStage`,
`RankStage`, `ValidateStage`, `ApplyStage` end in `Persist` (the stage file),
`ReadManifest` and `WriteManifest` (`write_stage` reads and rewrites the manifest
without a lock). `StartReplay` is `replay_run` and `--from-stage` with any stage,
`SouffleFails` the fallback of `run_souffle_mode`, `Crash` a death anywhere. A
stage result is a number, the number of the result it was made from, and whether
it holds candidate relations: results read back from disk hold these as plain
dicts, and the stages that want objects fail on them. `applied` is the history of
plans that went to the store; what applying does is `DreamerSave`'s subject.

### Cadence

The gardener hook and the archiver hook, which share nothing but the graph: a
behaviour is about one of them, for all the agents. `file` is the throttle file
(age of its clock reading, the counts it was written with), `hook[a]` the hook at
the end of a turn of agent `a`: `Load` (throttle), `Count` (the gate), `Truncate`
and `Save` (`save_state` opens the file for writing, then writes), then `Spawn` or
`Archive`. `Count` reads both counts in one step; `graph_counts` (`common.py:183-184`)
makes two SELECTs outside a transaction, so the counts it saves may be of two
moments, and no property compares them with each other. `job[j]` is a detached pass that has its run id but not yet its
directory, `CreateRun` its first act. Time is an age capped at the interval.

### Search

One search tool call: `Ask`, then per domain `AskIndex` (the tokens' hits, cut at
the limit in key order, joined or intersected) or `AskFiles` (no index, or none
that opens), a hit or a file at a time (`TakeHit`, `ScanFile`) while files grow,
are replaced or removed, and `Finish` (sort, cut). `text[f]` holds the lines of a
file, a line its words and its role. `drift[f]` and `unsure[f]` say what has
happened to a file since it was indexed and since the search read the index.
Files are numbers in the order of their names, so that the key order of the index
is the order of pairs of numbers. A query has at least one word: an empty one is
answered at once (`server.py:564`), and one of punctuation only is left out.

### MC modules

Each module `M` that is checked has a module `MCM` with the small instance, the
symmetry sets and one view: `IndexStore.cfg` leaves
`commit_seq` out of the identity of a state, since no guard of that module reads
it and no property speaks of it (it is what `IndexCache` is about).

## 4. The runs

| Run | Checks | Shows |
|---|---|---|
| `memory_graph` | `TypeOK`, `SeenIsCurrent`, `NothingHalfWritten`, `ImplementsKnowledgeGraph` | two servers, every interleaving of statements, timeouts, failures and deaths: a revision a client was shown of the committed graph protects what it was shown, also when it was committed only later; a lock or foreign-key failure leaves nothing for another handler to commit, only a handler that raised over a flawed element does; every commit, of such a remainder too, is one `KnowledgeGraph` allows |
| `index_store` | `TypeOK`, `SettledIndexIsExact`, `NoMissedChange`, `FoldKeepsView` | an undisturbed run leaves an exact index, also after a crash as long as the files rest until then; after a damaged sidecar it still finds everything and hides what has gone; nothing is taken for unchanged that is not; folding changes no answer |
| `index_cache` | `TypeOK`, `NoUseAfterFree`, `AnswersAreCurrent`, `LostByOverwritingOnly` | two threads: no closed view is searched; an answer is of the generation the search asked for as long as `commit_seq` tells generations apart; the only way to leak a view is a second insertion over the first, after two threads have missed together |
| `archiver` | `ArchiverTypeOK`, `RemovedRowsWereArchived`, `ArchiverImplementsKnowledgeGraph` | two overlapping runs and the servers: only rows that some run had written to a file leave the graph, never a row that came back with the same text; revisions follow |
| `dreamer_save` | `TypeOK`, `PlanLosesNothing`, `OwnSelfRelationsStay`, `OthersWorkSurvives`, `ImplementsKnowledgeGraph` | two runs and the servers: a plan loses no observation and leaves no relation without its entities; a save deletes nothing it has not loaded and overwrites no type that others changed; revisions follow |
| `dafsa_daemon` | `TypeOK`, `HandlesAreExact`, `NoMixingInFirstLife`, `SlotsAreOwned`, `CompactionKeepsItsIndex` | searches of two directories and a compaction share a daemon that may die: a handle names its view until a stale one frees its slot, nothing is mixed up before the first restart, every slot in use can be found again, and no compaction removes a WAL its base does not hold |
| `dreamer_run` | `TypeOK`, `ManifestHasFiles`, `OneCreator`, `AppliedPlanIsTheRuns`, `AppliedOnce`, `ProcessEnds` | two processes with one run id, replays and deaths anywhere: the manifest lists only what is on disk, one process creates a run, an applied plan is the stored one and goes back to the stored candidates, a replay without `--from-stage` does not apply again a plan whose apply stage is on disk (it does if the process died between the commit and that file), every process ends |
| `cadence` | `TypeOK`, `NoPassIsLost`, `OnePassPerInterval`, `GrowthIsSeen` | hooks of two agents: a hook that meets no other one and no torn file keeps the interval, a pass is lost to a namesake only when two hooks ran together, growth by the threshold is looked at sooner or later |
| `search` | `TypeOK`, `ShownLinesMatch`, `NothingIsMissed`, `LimitsLeaveSomething`, `NewestAreKept` | files change between indexing, the index's answer and the reading of the line: what is shown answers the query, what has not changed is found as long as no limit bit, a limit never empties the answer of a plain query, the cut keeps the newest |

States (distinct): `memory_graph` 487,466, `index_store` 2,120,356, `index_cache`
2,556,263, `archiver` 758,462, `dreamer_save` 460,911, `dafsa_daemon` 1,072,218,
`dreamer_run` 577,344, `cadence` 491,106, `search` 610,273.

Runs that end in a counterexample. Each checks a sentence of the repository:

| Run | Sentence | What the code does |
|---|---|---|
| `archiver_loss` | `memory/archiver.py:11`: no data loss | two runs in one second write the same file name; rows only the first one held are lost |
| `daemon_stale_handle` | `search/indexer.py:255-257`, `418-419`: after a restart old handles are numbers the new daemon does not know | `_evict_dir` clears one directory; the entry of another one keeps its number, which the new daemon has meanwhile given out again: its search is answered from the other directory's index |
| `search_dates` | `search/server.py:544-545`: matches lie between `date_from` and `date_to` | in a domain of directories the date is taken from a name that has none, so the filter lets every file pass |

Other places where the code and what is said of it differ. They were seen in
counterexamples or while reading, and the properties above are worded around them:

- `memory/server.py:64`, a writer waits for a competing writer's lock: after one
  timeout the connection keeps a begun transaction; the next SELECT pins its
  snapshot and writes then fail without waiting, until some handler commits.
- `memory/server.py:264`, `388`, `509`: each tool commits its own batch, one commit
  at the end; but only `IntegrityError` is caught and nothing rolls back. A handler
  that raises over a flawed element (254 after the INSERT, 349-351 after earlier
  elements, 503 after the bump) leaves its rows, and the write lock, on the
  connection. The next handler commits them, a death drops them. `open_nodes` has
  meanwhile shown a revision that was never committed: after the death another
  server can reach the same id and revision with other observations.
  `SeenIsCurrent` and `NothingHalfWritten` except just this remainder; without the
  exception TLC finds both violated within four tool calls.
- `memory/server.py:322`, the revision is bumped only when an observation is
  added: the texts present are read before the lock is taken; when another server
  commits the same text in between, there is a bump without an addition.
- `memory/server.py:716-753`: `search_semantic` takes a `threshold` and does not
  use it.
- `indexer/dafsa/ROADMAP.md:342`, a crash of an update heals at the next update:
  that update compares with the old sidecar; if the file changed again meanwhile,
  records of the dead run stay in the WAL for good. After a first run that died
  between base and manifest every update raises on the missing manifest.
- `indexer/__init__.py:546`, after a damaged sidecar stale keys may persist until
  `compact`: compaction folds the WAL and keeps them, only a build drops them.
- `search/indexer.py:29`, `commit_seq` only grows: a build writes 0 again, so an
  entry of an earlier build under 0 answers for the new one. `AnswersAreCurrent`
  is stated per epoch, the time between two builds.
- `search/indexer.py:36`, nothing leaks under a thread pool: the exception is
  the one `LostByOverwritingOnly` names; it cannot happen while requests are
  serial.
- A stale `free` can take the WAL handle of a compaction, whose `EREPLAY` the
  caller ignores; and when the daemon died idle, the first request after it gets
  a bad-handle error that is not a crash, so nothing is evicted.
- `dreamer/dreamer.py:11`, merges concatenate observations under one name, and
  the run prints how many entities it has saved: the save deletes no entity, so
  the removed one stays, with its observations under both names.
- `dreamer/stages.py:441`, the snapshot guards against clobbering what changed
  since the load: an observation deleted between load and save is inserted
  again; the guards are about what the save overwrites and deletes.
- `dreamer/dreamer.py:722`, only self-references made by a merge are removed: the
  end points are remembered without the relation's type, so a self-relation of
  another type between the same names goes too. `OwnSelfRelationsStay` is stated
  for plans whose merges move no relation.
- `tests/test_dreamer_stages.py:713` replays from a stored stage with stubs;
  `contracts.py:252-262` gives candidates back as dicts and the stages read them
  as objects, so a replay from rank or validate with candidate relations fails.
- The fallback from Soufflé with a run id fails at `create_run`, which finds the
  directory it has just made. A replay of a complete run begins again at
  discover; rewriting a stage leaves the later stages' files; nothing locks a run
  against a second replay. `AppliedPlanIsTheRuns` names these cases.
- `jing_meta/hooks/gardener.py:10-12`, growth since the last run: the closed gate
  records the counts as well (231-239), so growth slower than the threshold per
  interval never adds up. The docstring's interval is 180, the default 60. Two turns that
  end together start two passes, with one run id if in the same second
  (72-78, 243).
- `search/server.py:1084`, `entry_idx` is a line number: `extract_jsonl` skips
  blank lines and the reader does not, so a file with blank lines shows a wrong
  line. Limits are applied before words are intersected and before filters, and
  before the newest-first sort of a domain; a regular expression goes to the index
  as tokens; the speaker filter matches a substring in one path and the whole in
  the other.

### Bounds

- `MemoryGraph`: two servers, two names, two texts, one relation, five tool calls
  (`MaxCalls`), thirteen batches of sound elements and five with a flawed one: a
  raise before, at and after the first write, and after an earlier element was
  written. A stale compare-and-swap takes four calls (create, open, a competing
  add, the swap); five leave room for a timeout or a raise before it. A
  remainder that is shown and lost, with a re-creation by the other server,
  takes three. Two texts separate "the same text" from "another
  one"; the second name is there for batches and relations. A third server adds
  no kind of interleaving: only one can hold the lock, and a conflict is between
  two. The two-server instance is symmetric in the servers.
- `IndexStore`: two files, two words, three file writes (`MaxWrites`), one death
  or damaged sidecar (`MaxFaults`), any number of runs. The run also passes with two
  faults (10.5 million states). Three writes are enough for
  index, change, change again, or for a file that replaces another;
  slots are as many as writes because only a write can need a new one.
- `IndexCache`: two threads, four opened views (`MaxOpens`), three writer runs
  (`MaxRuns`): a build, a rebuild and one more commit, each with an entry that
  may outlive the next.
- `Archiver`: two runs, one name, two texts, three rows (`MaxRows`), five server
  transactions (`MaxServerWrites`), two seconds (`MaxTime` = 1): a row can be
  selected, deleted by the server and inserted again while both runs are under
  way, in the same second or not. One name suffices as an entity can be deleted
  and created under another id.
- `DreamerSave`: two runs, two names, two texts, two types, two transactions of
  others (`MaxWrites`), two apply stages (`MaxLoads`), an empty database and one
  with a relation between its two entities, five plans: a rename, a merge, a
  merge there and back, an addition with a relation, a merge and a new entity
  under the name it has freed. Two transactions are enough
  to delete and re-create what was loaded, or to change it before and after the
  load.

- `DafsaDaemon`: two directories, two threads, four slots (`MaxHandles`: two views,
  an automaton and a WAL fill it), one fault (`MaxFaults`), three searches,
  compactions or commits (`MaxCalls`): a search in each directory before the
  death and one after it, which is what it takes to give a number out again.
- `DreamerRun`: two processes, one run id, three starts (`MaxStarts`), the first
  two of which may overlap (`MaxTogether`): create and replay together, then a
  replay of what both left. Runs with different ids share nothing.
- `Cadence`: two agents, two passes, two sorts of items with at most one each
  (`MaxItems`) and a threshold of two, one tick per interval, one fault. Both sorts
  together reach the threshold, one alone does not.
- `Search`: three files in two domains, three lines in all (`MaxLines`), one change
  after indexing (`MaxWrites`), one result, one match per file, two hits per
  result asked of the index: every limit bites with three lines. Five queries:
  one word, two words joined and intersected, an exact one, one with role and date.

The bounded counters are why the configurations do not check for deadlock: a
behaviour that has used up its calls, writes or opens rests.

### Fairness

Two modules state it; the others have safety properties only.

- `DreamerRun`: `WF(Step(p))`, a process that has been started runs. It is an
  operating-system process that waits for no other one. Nothing makes anyone
  start a process or a replay. `ProcessEnds` then says that no path through
  fallback, failed answers and unusable results loops.
- `Cadence`: `WF` of the clock, of each hook's next step and of each detached
  pass's creation of its run. A hook is a process with a time limit; a pass is
  started before its hook ends. That `Load` is part of a hook's steps means that
  turns go on ending: if all agents stopped, so would the maintenance.

## 5. The proofs

`MemoryGraphProofs` begins with one lemma per SQL statement: it keeps the graph well
formed and is a `Transaction`. It also shows that transactions compose, as a
handler is several statements and one commit. It then proves, for all sets of
servers, names, texts, types and batches, flawed ones included, and for every
bound on the calls:

- `TypeCorrect`: `Spec => []TypeOK`,
- `ShownRevisionsProtect`: `Spec => []SeenIsCurrent`,
- `NoHalfWrittenTransaction`: `Spec => []NothingHalfWritten`,
- `Refinement`: `Spec => ImplementsKnowledgeGraph`.

The assumptions are those of `MemoryGraph`: there is a name (`NamesAssumption`),
a batch is a sequence of elements of one kind (`BatchesAssumption`, each tool has
one), and the bound is a number.

None of the invariants is inductive alone. `SeenIsCurrent` speaks of the
committed graph, but whether a commit keeps it depends on what the committing
transaction did to a graph that others may have read. The strengthening `IInv`
has four parts:

- `OneWriter`: at most one connection holds the write lock. Hence the graph under
  a writing transaction is still the committed one.
- `HandlerOK`: a handler between its SELECT and its write still has the element
  it read for, and a request has one kind of element.
- `WorkOK`: a `read` snapshot is the committed graph, a `stale` one is a graph the
  committed one is `Later` than, and `work` of a writing transaction is `Later` than
  the committed graph. Unless a handler has raised over a flawed element
  (`leftover`), it is one `Transaction` from it, is equal to it when the handler
  rests, and a handler of relations has not touched the entities. A remainder is
  always held with the write lock; hence no lock or foreign-key failure meets one.
- `ReaderOK`: what `open_nodes` has read so far was true of a graph the one it reads
  is `Later` than. What it has shown is protected (`Protects`) in the committed graph
  if it was committed, in `work` while it is pending, and nowhere once it is lost.
  That the revision and the observations are read by two statements is harmless:
  the observations are the newer ones, and where they differ the revision has
  moved.

`Later` is reflexive and transitive and carries `Protects` along: that is the core
of the commit case, where what was pending becomes committed. `WrittenItem`,
`RaisedItem` and `RaisedBeforeWriting` are the three ways a handler leaves an
element; one lemma per action shows that `IInv` is kept, and `NextKeeps` puts them
together.

`GraphWriterProofs` proves of the archiver, for all names, texts, runs, seconds and
bounds, from `ArchiverBounds`:

- `ArchiverTypeCorrect` and `RemovedWereArchived` (`[]RemovedRowsWereArchived`). The
  strengthening says what a run still knows of the tables when it comes back to
  them. `SelectionOK`: a selected row that is still there is the same row, up to
  the age the file does not hold; ids are never given out twice, and that is
  why a deletion by id cannot hit a row that came back. `ArchiveOK`: once a run is
  past its write, its rows are in the archive, or in what a run of the same
  second wrote over.
- `ArchiverRefinement`: every step is a transaction of `KnowledgeGraph` that is not
  `mixed`, or a stutter. The lemma `TablesMakeTransaction` reduces this to facts about the two tables.

Of the dreamer it proves all five properties of `DreamerSave`, for every set of
runs, every plan and every database, any number of transactions between load and
save, from its assumptions: finitely many names (the save counts the rows it
inserts), plans of the shape of `Plan` that add a name once, well-formed databases,
no entity type that is empty.

- `TypeCorrect` (`[]TypeOK`) is inductive as it stands, but not cheap: the save
  must be shown to leave unique ids below the sequence, data only in rows that
  exist, and a type for exactly those. `SaveRows` and `SavedRowChanges` say what it
  does row by row, `Committed` what it and the others leave.
- `NoPlanLosesAnything` (`[]PlanLosesNothing`) and `OwnSelfRelationsKept`
  (`[]OwnSelfRelationsStay`) are about `apply_mutations` on any graph, by
  `PlanKeeps`. What all merges of a plan make of a graph is a recursive function of
  their number: `MergesLists` shows that it exists and `MergesStayIn` that what
  each merge keeps all of them keep. Both are inductions, made without the
  library's induction theorems (they take an operator): the property becomes a set
  of numbers, and `NatSetInduction` follows from the well-foundedness of `<`.
- `NothingIsUndone` (`OthersWorkSurvives`) puts the two together. An observation
  leaves a row only if the run has loaded it there, one of its merges gives up the
  name of the row, and another row has the observation afterwards. It cannot say
  that no observation ever leaves a row: a plan may merge a name into another and
  give it to a new entity, and then the row of that name is written over.
- `Refinement` (`ImplementsKnowledgeGraph`).

`DreamerRunProofs` proves for all finite sets of processes and run ids and all
bounds, from `RunBounds`: `TypeCorrect`, `ListedStagesHaveFiles`
(`[]ManifestHasFiles`) and `OneCreatorPerRun` (`[]OneCreator`). The strengthening:
the directory comes before the copy and the copy before the manifest; a process
that is about to list a stage has written its file, and what it read of the
manifest is on disk; files are never removed. That the sets are finite is needed
because a new result takes a number no other one has.

A second invariant, `PlanInv`, gives `AppliedPlanIsOnDisk`
(`[]AppliedPlanIsTheRuns`) and `AppliedOnceOnly` (`AppliedOnce`). `ChainOK`: each
stage file was made from the one before it, but for the one behind a replay that
has just rewritten a stage and is still at work. `Alone`: two processes work on
one run only if it is in `shared`, as `mkdir` fails when the directory is there.
`HeldOK`: what a process holds is the file it loaded or wrote; this is where a
replay that skips a missing stage puts its run in `patched`. `Own`: in a replay
that has come past the missing stage the plan is a new one, with a number that is
not applied and that no other process or run has.

`IndexCacheProofs` proves for every finite set of threads and all bounds, from
`CacheBounds`: `TypeCorrect`, `HeldViewsAreOpen` (`[]NoUseAfterFree`),
`SearchesAreCurrent` (`[]AnswersAreCurrent`) and `OnlyOverwritingLoses`
(`LostByOverwritingOnly`). `RefOK` is the core of the first: the
refcount of an open entry is the number of its holders, an entry is closed only
when retired and unheld, and a cached one is neither retired nor closed.
`VersionsOK` is the core of the second: within an epoch `commit_seq` tells the
generations apart. `DiskOK` and `ProcessOK` say what a writer inside the lock may
have done, and `ThreadOK` what a thread outside it still knows. The last theorem
goes through the steps one by one: whatever leaves the cache is closed when unread
and put in `_retired` when read, and what leaves `_retired` is closed, but for the
entry that an insertion finds in its place.

`CadenceProofs` proves for every finite set of passes, any agents, threshold and
interval, from `CadenceBounds`: `TypeCorrect`, `ThrottleHolds`
(`OnePassPerInterval`) and `PassesKeepTheirIds` (`[]NoPassIsLost`). The
strengthening is about what hooks that overlap cannot spoil: a hook that has met
no other is the only one in flight (`AloneOK`), the last pass is at least as old
as the clock reading of such a hook, and as the one in a file written by one
(`AgeOK`), and a pass that took its id in this second keeps the throttle shut
until the clock moves (`YoungOK`). Then two passes with one id come from hooks
that met, or that found a torn file (`NamesOK`).

`IndexStoreProofs` proves for all listings of files, words, texts and numbers of
writes and faults `TypeCorrect`, `SettledIsExact` (`[]SettledIndexIsExact`),
`NoChangeIsMissed` (`[]NoMissedChange`) and `CompactionKeepsAnswers`
(`FoldKeepsView`). The assumptions: a listing names no file twice and none is
called "" (`FilesAssumption`), a text is a set of words (`TextsAssumption`), the
bounds are numbers. Nothing short of a whole run's course is inductive, so
`IInv` (theorem `Invariance`) follows a run from the flock to the manifest by
comparing three things: `Outcome`, what a search will see once the records planned
so far are in the WAL; `cards`, the sidecars that are going to be written; and the
corpus.

- `CardsOK`, `UpdateOK`, `BuildOK`: `Outcome` shows for each planned sidecar its
  words and for every other slot what it showed before. The difference with the
  old sidecar is enough because a slot shows the words of its sidecar between
  runs (`NoneOK`).
- `ReadOK` and `CalmPlan`: an entry has the version that the file had before it was
  read, so that a version still current vouches for the words; in a run that
  nothing overlapped the files handled have their present versions.
- `OpenOK`, `Rank`, `Awaited`: after an update that died between its first record and
  its manifest, the view has keys for slots that the manifest does not know. They
  are those the next update gives out again, to the same files in the same order,
  while no file changes (`gap` = "open"); a file that changes in between is what
  `gap` = "changed" excludes.
- `FitsOK`: a slot was given to a write, so `MaxWrites` slots are enough. It is an
  argument about cardinalities: the writes that no entry has are at least as many
  as the entries still to be appended.
- `FoldedOK`: between the save of the folded base and the removal of the WAL, the
  base alone shows what both show together; folding a second time changes nothing.

`DafsaDaemonProofs` proves for all directories (at least one), every finite set of
threads and all bounds on handles, faults and calls, from `DaemonBounds`:
`TypeCorrect`, `HandlesStayExact`, `FirstLifeIsSafe`, `NoSlotLeaks` and
`CompactionIsSafe`. The invariant has three parts:

- `StoreOK`, the cache alone: a refcount is the number of the threads that hold the
  entry, only the thread inside the lock closes, what it closes is retired, open,
  uncached and unheld, and every open entry has somebody answerable for it
  (`Owned`).
- `ClientOK`, the table against it (`TableOK`): a view in the table belongs to an
  open entry with this handle and this life, an automaton or a WAL to the
  compaction; conversely an open entry of this life finds its view there unless it
  was robbed. It is proved of `Serving`, the daemon that answers the next request,
  as well as of `daemon`. A life is never used twice, and in the first life nothing
  can be robbed.
- `DiskOK`, the files: the base is folded from the moment `save` has succeeded, and
  `commit_seq` never passes the number of calls, as a compaction that is under way
  has been counted.

`SearchProofs` proves all five properties of `Search`, for every finite set of
files, any domains, lines, queries, limits and bounds: `SearchTypes` (`[]TypeOK`),
`LinesMatch` (`[]ShownLinesMatch`), `NothingMissed` (`[]NothingIsMissed`),
`SomethingIsLeft` (`[]LimitsLeaveSomething`) and `NewestKept`
(`[]NewestAreKept`). The assumptions: limits are not zero and bounds are numbers
(`SearchBounds`); files are finitely many numbers, each in one of the domains,
with a date before the mark of an undated one (`SearchFiles`); lines are roles and
words, queries have words (`SearchTexts`).

What a search gives back depends on files that its writers change at every step,
so the inductive invariant `IInv` (theorem `SearchInvariant`) says of everything
the search holds what it still knows of the file it came from: what is true while
the file is the same, and what is left of it once lines were appended.

- `IndexOK`: a key of the index names an entry that has its word, as long as the
  file has only grown; of a file that is the same every word of every entry has
  its key. Where the file has no blank lines the entries are its lines
  (`NonBlankLines`), and only there may the two be counted alike.
- `TodoOK`, `CacheOK`, `FoundOK`: the same of the hits that wait, of the lines that
  were read for an earlier hit, and of what was found. Together they are what
  `ShownLinesMatch` needs: the hit was right about a line, the line is still in its
  place, and what was read before has not lost it.
- `Turns`, `Phases`, `OneByOne`: whose hits are waiting, what an idle search holds,
  and that a line is found once, since its hit has been taken away by then.
- `Counts`: what was found in a domain and what still waits are together no more
  than the limit. Hence no hit is refused because the domain is full: only the cap
  of a file can refuse one.
- `NoneMissed`: in a file that is the same every line that answers is found, or
  waits, or the file has reached its cap. It begins with what the index gives
  when no limit bites (`SearchHits`: the words' hits are then all there, joined or
  intersected) and ends, when nothing waits, with as many matches as there are
  lines. The count is an injection from the matches to the lines, and back.
- `SomeLeft`: for a query for any of its words, a domain with an untouched line that
  answers has a match or a hit that waits. It does not need the hit to be the one of
  that line: a limit cuts a set of hits to a part that is not empty (`CutToLimit`,
  `FirstOfSpots`, `AnyWordSpots`), and the first hit taken is found
  (`FirstHitFound`).

Three facts about data are under this: the first n of a finite set of places are
n of them (`FirstNumbers`, `FirstOfSpots`), the lines that are not blank are kept in
order (`NonBlankKeeps`), and lines in all files bound those of one (`LinesOfOne`).
The inductions among them are made on sets of numbers (`NumberInduction`).

What stays with TLC: liveness (`ProcessEnds`, `GrowthIsSeen`), which needs
fairness and `ENABLED`. Every other property of a passing run is also a theorem.
Where an induction over data was needed (merges of a plan, lines of a file) it was
made on a set of numbers, as the library's induction theorems take an operator as a
parameter, which the provers used cannot instantiate.

## 6. What is not modelled, and why

- Text: escaping, budgets, rendering, HTML, prompts, transcripts. No property is
  about it.
- External programs: the DAFSA library, Soufflé, the embedding and language
  models. Only their results matter to the callers.
- `search`, `read_graph`, `traverse`, `recent`, `search_nodes`,
  `search_similar`, the stats server, `list_domain`, `read`: they read and format.
- Regular expressions and their time limit.
- The semantic index: two files replaced one after the other without a lock or a
  check; the code has nothing that rules the mismatch out, so a model would only
  restate it. It is a hazard without a property.
- The index hook and the maintenance digest: the hook runs an update, which
  `IndexStore` has, and the digest is text.
- Dreamer runs without a run id: they keep nothing on disk.
- Two writers of one temporary manifest file: `DreamerRun` takes the exception of
  the one whose file is gone as a death. In a Soufflé run it is a
  `FileNotFoundError`, which `run_souffle_mode` (`dreamer.py:985-989`) answers by
  falling back to `run`. It takes two processes on one run, which the properties
  about applied plans except.
- Appends that report failure without the daemon's death, and files that are
  present but cannot be read: hazards of the indexer without a property.
- SQLite itself: `MemoryGraph` takes from it that writers are serial, that a
  transaction is atomic and survives or vanishes as a whole, and the lock rules
  for deferred transactions.
- `fsync` and power loss: a crash is the death of a process; what was written
  stays written.
- The archiver's backup: it copies the main database file of a database in WAL
  mode and is read by no code.
