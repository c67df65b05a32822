----------------------------- MODULE IndexStore ------------------------------
(***************************************************************************)
(* The on-disk index of one search domain (src/indexer/__init__.py) and    *)
(* its writers: update(), build() and compact(), each under the exclusive  *)
(* flock on index.lock, while users write and delete the indexed files     *)
(* without any lock, and a writer may die between any two durable writes.  *)
(*                                                                         *)
(* A key of the index is a word in a slot; a word of this model stands for *)
(* an (entry, word) pair of a file, a version for (mtime_ns, size).  Slots *)
(* count from 1, file_idx from 0.  The holder of the flock is the only     *)
(* writer, so its local variables are variables of the module.             *)
(***************************************************************************)
EXTENDS Naturals, SequencesExt

CONSTANTS
    Files,      \* the paths of the domain, in the order collect_files sorts
    Words,      \* (entry, word) pairs
    Texts,      \* the sets of words a file may hold
    MaxWrites,  \* bound: file writes in a behaviour
    MaxFaults   \* bound: deaths of a writer and damaged sidecars in a behaviour

ASSUME FilesAssumption ==
    Files \in Seq(Range(Files)) /\ IsInjective(Files) /\ "" \notin Range(Files)
ASSUME TextsAssumption == Texts \subseteq SUBSET Words
ASSUME BoundsAssumption == MaxWrites \in Nat /\ MaxFaults \in Nat

VARIABLES
    corpus,     \* the files: version (0: absent) and words
    clock,      \* version of the latest write
    fst,        \* index.fst: the keys of the base
    wal,        \* index.wal: the last operation on each key it mentions
    sidecars,   \* slots/<i>.keys: the words last indexed, {} when missing or damaged
    manifest,   \* manifest.json
    pc,         \* where the holder of the flock stands; idle: the lock is free
    op,         \* what it executes: update (first run included: build), ...
    todo,       \* collected files it has not dealt with, by their places in Files
    disk,       \* the files it collected
    ver,        \* the version it got from stat, before it reads the file
    files,      \* the manifest entries it will write
    log,        \* the WAL records it will append, per file
    cards,      \* the sidecars it will write
    gone,       \* the slots whose sidecar it will unlink
    faults,     \* deaths and damages so far
    moved,      \* history: a file changed under the run
    settled,    \* history: the last completed run saw the present corpus
    gap,        \* history: what an interrupted run left behind
    damaged     \* history: a sidecar has been damaged since the last build

store == <<fst, wal, sidecars, manifest>>
plan == <<op, todo, disk, ver, files, log, cards, gone>>
history == <<faults, moved, settled, gap, damaged>>
world == <<corpus, clock>>
vars == <<world, store, pc, plan, history>>

Paths == Range(Files)
Slots == 1..MaxWrites
Keys == Words \X Slots
KeysOf(i, ws) == ws \X {i}
NoFst == [exists |-> FALSE, keys |-> {}]
Fst(ks) == [exists |-> TRUE, keys |-> ks]
NoWal == [exists |-> FALSE, add |-> {}, del |-> {}]

FileEntry(f, v) == [name |-> f, ver |-> v, tombstoned |-> FALSE]
Tombstone == [name |-> "", ver |-> 0, tombstoned |-> TRUE]

Live(es) == {i \in DOMAIN es : ~es[i].tombstoned}
IsLive(es, f) == \E i \in Live(es) : es[i].name = f
SlotOf(es, f) == CHOOSE i \in Live(es) : es[i].name = f

\* The layered view a search opens: the WAL overlay on top of the base.
View == (fst.keys \ wal.del) \cup wal.add

FoldPcs == {"fold", "unlinkWal", "bump"}
Pcs == {"idle", "stat", "read", "rebase", "dropWal", "commit"} \cup FoldPcs

TypeOK ==
    /\ corpus \in [Paths -> [ver : 0..MaxWrites, words : SUBSET Words]]
    /\ clock \in 0..MaxWrites
    /\ fst \in [exists : BOOLEAN, keys : SUBSET Keys]
    /\ wal \in [exists : BOOLEAN, add : SUBSET Keys, del : SUBSET Keys]
    /\ wal.add \cap wal.del = {}
    /\ sidecars \in [Slots -> SUBSET Words]
    /\ manifest.exists \in BOOLEAN /\ manifest.seq \in Nat
    /\ \A es \in {manifest.files, files} :
         /\ DOMAIN es \subseteq Slots
         /\ \A i, j \in Live(es) : es[i].name = es[j].name => i = j
    /\ pc \in Pcs
    /\ op \in {"none", "update", "build", "compact"}
    /\ gap \in {"none", "open", "changed", "rebuild"} /\ damaged \in BOOLEAN

Init ==
    /\ corpus = [f \in Paths |-> [ver |-> 0, words |-> {}]]
    /\ clock = 0
    /\ fst = NoFst /\ wal = NoWal
    /\ sidecars = [i \in Slots |-> {}]
    /\ manifest = [exists |-> FALSE, files |-> <<>>, seq |-> 0]
    /\ pc = "idle" /\ op = "none"
    /\ todo = {} /\ disk = {} /\ ver = 0 /\ files = <<>>
    /\ log = <<>> /\ cards = <<>> /\ gone = {}
    /\ faults = 0 /\ moved = FALSE /\ settled = FALSE /\ gap = "none" /\ damaged = FALSE

-----------------------------------------------------------------------------
(* The users of the files.                                                 *)

CorpusMoves ==
    /\ moved' = (pc # "idle")
    /\ settled' = FALSE
    /\ gap' = IF gap = "open" THEN "changed" ELSE gap
    /\ UNCHANGED <<store, pc, plan, faults, damaged>>

WriteFile(f, ws) ==
    /\ clock < MaxWrites
    /\ clock' = clock + 1
    /\ corpus' = [corpus EXCEPT ![f] = [ver |-> clock', words |-> ws]]
    /\ CorpusMoves

DeleteFile(f) ==
    /\ corpus[f].ver # 0
    /\ corpus' = [corpus EXCEPT ![f] = [ver |-> 0, words |-> {}]]
    /\ UNCHANGED clock
    /\ CorpusMoves

-----------------------------------------------------------------------------
(* The writers.                                                            *)

Present(f) == corpus[f].ver # 0

\* The flock is taken and the run starts with an empty plan over es.
Start(o, next, es) ==
    /\ pc = "idle"
    /\ pc' = next /\ op' = o
    /\ todo' = IF o = "compact" THEN {} ELSE {p \in DOMAIN Files : Present(Files[p])}
    /\ disk' = {Files[p] : p \in todo'}
    /\ files' = es /\ ver' = 0
    /\ log' = <<>> /\ cards' = <<>> /\ gone' = {}
    /\ UNCHANGED <<world, store, history>>

\* update() when there is an index.fst.  It raises without a manifest.
Update ==
    /\ fst.exists /\ manifest.exists
    /\ Start("update", "stat", manifest.files)

\* build(), and update() on the first run.
Build == Start("build", "stat", <<>>)

Compact == wal.exists /\ Start("compact", "fold", <<>>)

\* The flock is released and nothing is remembered.
Release ==
    /\ pc' = "idle" /\ op' = "none" /\ moved' = FALSE
    /\ todo' = {} /\ disk' = {} /\ ver' = 0 /\ files' = <<>>
    /\ log' = <<>> /\ cards' = <<>> /\ gone' = {}

\* The file whose turn it is.
turn == Min(todo)
file == Files[turn]
Go(next) == pc' = next

\* stat() comes before the file is read; it raises if the file has gone.  A
\* live slot of the same version is left alone.
Stat ==
    /\ pc = "stat" /\ todo # {}
    /\ UNCHANGED <<world, store, faults, settled, gap, damaged>>
    /\ \/ ~Present(file) /\ Release
       \/ /\ Present(file)
          /\ IF IsLive(files, file) /\ files[SlotOf(files, file)].ver = corpus[file].ver
             THEN todo' = todo \ {turn} /\ UNCHANGED <<pc, ver>>
             ELSE ver' = corpus[file].ver /\ Go("read") /\ UNCHANGED todo
          /\ UNCHANGED <<op, disk, files, log, cards, gone, moved>>

\* The file is read and compared with the sidecar of its slot, or appended in
\* a slot of its own.  A file that has gone by now is read as empty.
ReadFile ==
    /\ pc = "read"
    /\ LET i == IF IsLive(files, file) THEN SlotOf(files, file) ELSE Len(files) + 1
           old == IF IsLive(files, file) THEN sidecars[i] ELSE {}
           new == corpus[file].words
           entry == FileEntry(file, ver)
       IN /\ files' = IF IsLive(files, file) THEN [files EXCEPT ![i] = entry]
                      ELSE Append(files, entry)
          /\ log' = IF old = new THEN log
                    ELSE Append(log, [del |-> KeysOf(i, old \ new), add |-> KeysOf(i, new \ old)])
          /\ cards' = Append(cards, [slot |-> i, words |-> new])
    /\ todo' = todo \ {turn} /\ ver' = 0
    /\ Go("stat")
    /\ UNCHANGED <<world, store, history, op, disk, gone>>

\* dafsa-cli build gives up when it cannot open a file.
ReadFails ==
    /\ pc = "read" /\ op = "build" /\ ~Present(file)
    /\ Release
    /\ UNCHANGED <<world, store, faults, settled, gap, damaged>>

\* Live slots whose file was not collected are tombstoned; their sidecars say
\* which keys to delete, here in any order.  An update that found nothing to do
\* ends here.
TombstonePass ==
    /\ pc = "stat" /\ todo = {}
    /\ LET dead == {i \in Live(files) : files[i].name \notin disk}
           lost == UNION {KeysOf(i, sidecars[i]) : i \in dead}
       IN IF op = "update" /\ cards = <<>> /\ dead = {}
          THEN /\ Release
               /\ settled' = ~moved
               /\ UNCHANGED <<faults, gap, damaged>>
          ELSE /\ Go(IF op = "build" THEN "rebase" ELSE "commit")
               /\ gone' = dead
               /\ files' = [i \in DOMAIN files |-> IF i \in dead THEN Tombstone ELSE files[i]]
               /\ log' = IF op = "build" THEN <<>>
                         ELSE IF lost = {} THEN log
                         ELSE Append(log, [del |-> lost, add |-> {}])
               /\ UNCHANGED <<op, todo, disk, ver, cards, history>>
    /\ UNCHANGED <<world, store>>

-----------------------------------------------------------------------------
(* The durable writes, in the order of the code: WAL, sidecars, manifest.  *)

\* A build first replaces the base and removes the WAL.
SaveFst ==
    /\ pc = "rebase"
    /\ fst' = Fst(UNION {KeysOf(cards[j].slot, cards[j].words) : j \in DOMAIN cards})
    /\ Go("dropWal")
    /\ UNCHANGED <<world, wal, sidecars, manifest, plan, history>>

DropWal ==
    /\ pc = "dropWal"
    /\ wal' = NoWal
    /\ damaged' = FALSE
    /\ Go("commit")
    /\ UNCHANGED <<world, fst, sidecars, manifest, plan, faults, moved, settled, gap>>

\* Mutant: the overlay keeps a deletion that a later record takes back.
AfterAddKeepingDel(k) == [exists |-> TRUE, add |-> wal.add \cup {k}, del |-> wal.del]

\* The WAL after one more record: the last record of a key decides.
AfterAdd(k) == [exists |-> TRUE, add |-> wal.add \cup {k}, del |-> wal.del \ {k}]
AfterDel(k) == [exists |-> TRUE, add |-> wal.add \ {k}, del |-> wal.del \cup {k}]

\* The records of one file: deletions before additions, in any order else.
AppendRecord ==
    /\ pc = "commit" /\ log # <<>>
    /\ LET r == Head(log)
           Left(rest) == IF rest.del \cup rest.add = {} THEN Tail(log)
                         ELSE <<rest>> \o Tail(log)
       IN \/ \E k \in r.del :
               /\ wal' = AfterDel(k)
               /\ log' = Left([r EXCEPT !.del = @ \ {k}])
          \/ \E k \in r.add :
               /\ r.del = {}
               /\ wal' = AfterAdd(k)
               /\ log' = Left([r EXCEPT !.add = @ \ {k}])
    /\ UNCHANGED <<world, fst, sidecars, manifest, history>>
    /\ UNCHANGED <<pc, op, todo, disk, ver, files, cards, gone>>

\* Mutant: the sidecars do not wait for the WAL.
WriteSidecarBeforeWal ==
    /\ pc = "commit" /\ cards # <<>>
    /\ sidecars' = [sidecars EXCEPT ![Head(cards).slot] = Head(cards).words]
    /\ cards' = Tail(cards)
    /\ UNCHANGED <<world, fst, wal, manifest, history>>
    /\ UNCHANGED <<pc, op, todo, disk, ver, files, log, gone>>

WriteSidecar ==
    /\ pc = "commit" /\ log = <<>> /\ cards # <<>>
    /\ sidecars' = [sidecars EXCEPT ![Head(cards).slot] = Head(cards).words]
    /\ cards' = Tail(cards)
    /\ UNCHANGED <<world, fst, wal, manifest, history>>
    /\ UNCHANGED <<pc, op, todo, disk, ver, files, log, gone>>

UnlinkSidecar ==
    /\ pc = "commit" /\ log = <<>> /\ cards = <<>>
    /\ \E i \in gone :
         /\ sidecars' = [sidecars EXCEPT ![i] = {}]
         /\ gone' = gone \ {i}
    /\ UNCHANGED <<world, fst, wal, manifest, history>>
    /\ UNCHANGED <<pc, op, todo, disk, ver, files, log, cards>>

Written == pc = "commit" /\ log = <<>> /\ cards = <<>> /\ gone = {}

\* Whether update() goes on to compact depends on the sizes of the WAL and the
\* base and on defer_compact: either may happen when there is a WAL.
AfterCommit ==
    \/ Release
    \/ op = "update" /\ wal.exists /\ Go("fold")
       /\ UNCHANGED <<op, todo, disk, ver, files, log, cards, gone, moved>>

\* Mutant: the versions are taken when the manifest is written.
CommitManifestWithLateStat ==
    /\ Written
    /\ manifest' = [exists |-> TRUE,
                    files |-> [i \in DOMAIN files |->
                                 IF files[i].tombstoned THEN files[i]
                                 ELSE FileEntry(files[i].name, corpus[files[i].name].ver)],
                    seq |-> IF op = "build" THEN 0 ELSE manifest.seq + 1]
    /\ settled' = ~moved
    /\ gap' = IF op = "build" \/ gap = "open" THEN "none" ELSE gap
    /\ AfterCommit
    /\ UNCHANGED <<world, fst, wal, sidecars, faults, damaged>>

\* A build restarts commit_seq, an update moves it on.
CommitManifest ==
    /\ Written
    /\ manifest' = [exists |-> TRUE, files |-> files,
                    seq |-> IF op = "build" THEN 0 ELSE manifest.seq + 1]
    /\ settled' = ~moved
    /\ gap' = IF op = "build" \/ gap = "open" THEN "none" ELSE gap
    /\ AfterCommit
    /\ UNCHANGED <<world, fst, wal, sidecars, faults, damaged>>

\* Mutant: the base is folded from the additions of the WAL alone.
FoldAdditions ==
    /\ pc = "fold"
    /\ fst' = Fst(fst.keys \cup wal.add)
    /\ Go("unlinkWal")
    /\ UNCHANGED <<world, wal, sidecars, manifest, plan, history>>

\* Compaction: replay the WAL into the base and save it, remove the WAL, bump
\* commit_seq.
Fold ==
    /\ pc = "fold"
    /\ fst' = Fst(View)
    /\ Go("unlinkWal")
    /\ UNCHANGED <<world, wal, sidecars, manifest, plan, history>>

UnlinkWal ==
    /\ pc = "unlinkWal"
    /\ wal' = NoWal
    /\ Go("bump")
    /\ UNCHANGED <<world, fst, sidecars, manifest, plan, history>>

BumpSeq ==
    /\ pc = "bump"
    /\ manifest' = IF manifest.exists THEN [manifest EXCEPT !.seq = @ + 1] ELSE manifest
    /\ Release
    /\ UNCHANGED <<world, fst, wal, sidecars, faults, settled, gap, damaged>>

\* The writer dies, and the kernel releases its flock.
Crash ==
    /\ pc # "idle" /\ faults < MaxFaults
    /\ faults' = faults + 1
    /\ gap' = IF pc = "dropWal" \/ (pc = "commit" /\ op = "build") THEN "rebuild"
              ELSE IF pc = "commit" /\ gap = "none"
              THEN IF moved THEN "changed" ELSE "open"
              ELSE gap
    /\ Release
    /\ UNCHANGED <<world, store, settled, damaged>>

\* A sidecar is cut short or altered on the disk, or lost: _read_sidecar raises
\* or finds none, and either way update() goes on with no old words.
DamageSidecar(i) ==
    /\ sidecars[i] # {} /\ faults < MaxFaults
    /\ faults' = faults + 1
    /\ sidecars' = [sidecars EXCEPT ![i] = {}]
    /\ damaged' = TRUE
    /\ UNCHANGED <<world, fst, wal, manifest, pc, plan, moved, settled, gap>>

Next ==
    \/ \E f \in Paths, ws \in Texts : WriteFile(f, ws)
    \/ \E f \in Paths : DeleteFile(f)
    \/ Update \/ Build \/ Compact
    \/ Stat \/ ReadFile \/ ReadFails \/ TombstonePass
    \/ SaveFst \/ DropWal \/ AppendRecord \/ WriteSidecar \/ UnlinkSidecar
    \/ CommitManifest \/ Fold \/ UnlinkWal \/ BumpSeq \/ Crash
    \/ \E i \in Slots : DamageSidecar(i)

Spec == Init /\ [][Next]_vars

-----------------------------------------------------------------------------
(* What the index promises to a search.                                    *)

\* The keys of the slot i, and those the corpus says it should have.
Shown(i) == {w \in Words : <<w, i>> \in View}
Wanted(i) == corpus[manifest.files[i].name].words

\* A search meets the files that are there and no other.
NamesExact == \A f \in Paths : Present(f) <=> IsLive(manifest.files, f)

\* No search can see a difference between the index and the files.
FindsAll == NamesExact /\ \A i \in Live(manifest.files) : Wanted(i) \subseteq Shown(i)
FindsNoMore ==
    /\ View \subseteq Words \X Live(manifest.files)
    /\ \A i \in Live(manifest.files) : Shown(i) \subseteq Wanted(i)

\* Between two runs, and during a compaction, nothing is half written.
AtRest == pc \in {"idle"} \cup FoldPcs
NothingStranded == AtRest /\ gap \in {"none", "open"}

\* After a run that no file change overlapped the index is exact: whatever
\* updates, builds and compactions came before, even when an update died
\* half-way, as long as the files did not change again before the next one.
\* A build makes up for anything.  After damage to a sidecar a file "is fully
\* searchable again" and one that has gone is hidden, but words that a file no
\* longer has may still lead to it.
SettledIndexIsExact ==
    NothingStranded /\ settled => FindsAll /\ (damaged \/ FindsNoMore)

\* A file changed while it was being indexed is never taken for unchanged by
\* the next update: the version in the manifest is of what the index shows.
NoMissedChange ==
    NothingStranded =>
        \A i \in Live(manifest.files) :
            manifest.files[i].ver = corpus[manifest.files[i].name].ver
                => /\ Wanted(i) \subseteq Shown(i)
                   /\ damaged \/ Shown(i) \subseteq Wanted(i)

\* compact(): folding the WAL changes no answer, and dying between the save
\* and the unlink leaves "a redundant-but-correct WAL file".
FoldKeepsView == [][(pc \in FoldPcs) => View' = View]_vars
=============================================================================
