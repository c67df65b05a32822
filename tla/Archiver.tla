------------------------------ MODULE Archiver -------------------------------
(***************************************************************************)
(* The memory archiver (src/memory/archiver.py): runs started by the       *)
(* post-agent hook and from the command line select the old observations,  *)
(* write them to a JSONL file named after the present second, back up the  *)
(* database and delete the rows by id in a transaction of their own.       *)
(* Between these steps the memory servers write, other runs make progress, *)
(* time passes, and the run may fail or die.                               *)
(*                                                                         *)
(* Each server transaction is one step here; MemoryGraph shows how it is   *)
(* made.  Relations are never touched by an archiver and left out.         *)
(***************************************************************************)
EXTENDS GraphData, FiniteSets

CONSTANTS
    Runs,       \* archiver runs that may overlap
    MaxRows,    \* bound: observation rows ever inserted
    MaxServerWrites,    \* bound: server transactions
    MaxTime     \* bound: seconds

ASSUME ArchiverBounds == {MaxRows, MaxServerWrites, MaxTime} \subseteq Nat

VARIABLES
    ent,        \* table entities: id (0 for none) and revision by name
    nextEnt,    \* next id of entities (AUTOINCREMENT)
    rows,       \* table observations
    nextRow,    \* next id of observations (AUTOINCREMENT)
    serverWrites,   \* server transactions so far
    now,        \* the second of the clock
    file,       \* the archive file of each second
    stage, old, \* where each run stands, and the rows it has selected
    removed,    \* history: the rows archivers have deleted
    replaced    \* history: the rows of files that were written over

tables == <<ent, nextEnt, rows, nextRow>>
archiverVars == <<tables, serverWrites, now, file, stage, old, removed, replaced>>

\* An observation; it is old once its created_at is before the cutoff.
Observation == [id : 1..MaxRows, entity : Nat, content : Contents, old : BOOLEAN]

\* What the archive keeps of a row.
Line(o) == [id |-> o.id, entity |-> o.entity, content |-> o.content]
Lines(S) == {Line(o) : o \in S}
ALine == [id : 1..MaxRows, entity : Nat, content : Contents]

ArchiverTypeOK ==
    /\ ent \in [Names -> [id : Nat, rev : Nat]]
    /\ \A m, n \in Names : ent[m].id # 0 /\ ent[m].id = ent[n].id => m = n
    /\ \A n \in Names : ent[n].id < nextEnt
    /\ rows \subseteq Observation
    /\ \A o, p \in rows :
         /\ o.id = p.id => o = p
         /\ o.entity = p.entity /\ o.content = p.content => o = p
    /\ \A o \in rows : o.id < nextRow /\ \E n \in Names : ent[n].id = o.entity
    /\ serverWrites \in 0..MaxServerWrites /\ now \in 0..MaxTime
    /\ file \in [0..MaxTime -> SUBSET ALine]
    /\ stage \in [Runs -> {"idle", "write", "backup", "delete"}]
    /\ old \in [Runs -> SUBSET Observation]
    /\ removed \subseteq ALine /\ replaced \subseteq ALine

ArchiverInit ==
    /\ ent = [n \in Names |-> [id |-> 0, rev |-> 0]] /\ nextEnt = 1
    /\ rows = {} /\ nextRow = 1
    /\ serverWrites = 0 /\ now = 0
    /\ file = [t \in 0..MaxTime |-> {}]
    /\ stage = [r \in Runs |-> "idle"] /\ old = [r \in Runs |-> {}]
    /\ removed = {} /\ replaced = {}

-----------------------------------------------------------------------------
(* Time and the memory servers.                                            *)

Tick ==
    /\ now < MaxTime
    /\ now' = now + 1
    /\ UNCHANGED <<tables, serverWrites, file, stage, old, removed, replaced>>

\* The cutoff passes the created_at of a row.
Ages(o) ==
    /\ o \in rows /\ ~o.old
    /\ rows' = (rows \ {o}) \cup {[o EXCEPT !.old = TRUE]}
    /\ UNCHANGED <<ent, nextEnt, nextRow, serverWrites, now, file, stage, old, removed, replaced>>

\* Mutant: a content the entity already has is inserted once more.
NewContentAny(n) == Contents

RowsOf(n) == {o \in rows : o.entity = ent[n].id}

\* INSERT OR IGNORE under the unique index on (entity_id, content).
NewContent(n) == Contents \ {o.content : o \in RowsOf(n)}
Bumped(n) == [ent EXCEPT ![n].rev = @ + 1]

\* A transaction of a memory server: create an entity, add or delete an
\* observation (with the bump), delete an entity with its observations.
ServerWrites(n) ==
    /\ serverWrites < MaxServerWrites /\ serverWrites' = serverWrites + 1
    /\ \/ /\ ent[n].id = 0
          /\ ent' = [ent EXCEPT ![n] = [id |-> nextEnt, rev |-> 0]]
          /\ nextEnt' = nextEnt + 1
          /\ UNCHANGED <<rows, nextRow>>
       \/ \E c \in NewContent(n) :
          /\ ent[n].id # 0 /\ nextRow <= MaxRows
          /\ rows' = rows \cup {[id |-> nextRow, entity |-> ent[n].id,
                                 content |-> c, old |-> FALSE]}
          /\ nextRow' = nextRow + 1
          /\ ent' = Bumped(n)
          /\ UNCHANGED nextEnt
       \/ \E o \in RowsOf(n) :
          /\ rows' = rows \ {o}
          /\ ent' = Bumped(n)
          /\ UNCHANGED <<nextEnt, nextRow>>
       \/ /\ ent[n].id # 0
          /\ rows' = rows \ RowsOf(n)
          /\ ent' = [ent EXCEPT ![n] = [id |-> 0, rev |-> 0]]
          /\ UNCHANGED <<nextEnt, nextRow>>
    /\ UNCHANGED <<now, file, stage, old, removed, replaced>>

-----------------------------------------------------------------------------
(* archive(apply=True).                                                    *)

Goto(r, next) == stage' = [stage EXCEPT ![r] = next]

\* Nothing old: the run ends where it begins.
SelectOld(r) ==
    /\ stage[r] = "idle"
    /\ \E o \in rows : o.old
    /\ old' = [old EXCEPT ![r] = {o \in rows : o.old}]
    /\ Goto(r, "write")
    /\ UNCHANGED <<tables, serverWrites, now, file, removed, replaced>>

\* The file of this second, written atomically, over an earlier one if any.
WriteArchive(r) ==
    /\ stage[r] = "write"
    /\ file' = [file EXCEPT ![now] = Lines(old[r])]
    /\ replaced' = replaced \cup (file[now] \ Lines(old[r]))
    /\ Goto(r, "backup")
    /\ UNCHANGED <<tables, serverWrites, now, old, removed>>

\* The copy of the database changes neither the graph nor the archive.
BackupDb(r) ==
    /\ stage[r] = "backup"
    /\ Goto(r, "delete")
    /\ UNCHANGED <<tables, serverWrites, now, file, old, removed, replaced>>

\* Mutant: the rows are found again by entity and content.
SelectedByContent(r) ==
    {o \in rows : \E p \in old[r] : p.entity = o.entity /\ p.content = o.content}

Selected(r) == {o \in rows : \E p \in old[r] : p.id = o.id}

Entities(r) == {o.entity : o \in old[r]}

EndRun(r) ==
    /\ Goto(r, "idle")
    /\ old' = [old EXCEPT ![r] = {}]

\* Mutant: the rows go and the revisions stay.
DeleteOldWithoutBump(r) ==
    /\ stage[r] = "delete"
    /\ rows' = rows \ Selected(r)
    /\ removed' = removed \cup Lines(Selected(r))
    /\ EndRun(r)
    /\ UNCHANGED <<ent, nextEnt, nextRow, serverWrites, now, file, replaced>>

\* One transaction: the rows go by id, and the revision of every entity that
\* had a selected row is bumped, whether or not the row was still there.
DeleteOld(r) ==
    /\ stage[r] = "delete"
    /\ rows' = rows \ Selected(r)
    /\ removed' = removed \cup Lines(Selected(r))
    /\ ent' = [n \in Names |-> [id |-> ent[n].id,
                                rev |-> IF ent[n].id \in Entities(r)
                                        THEN ent[n].rev + 1 ELSE ent[n].rev]]
    /\ EndRun(r)
    /\ UNCHANGED <<nextEnt, nextRow, serverWrites, now, file, replaced>>

\* A step raises (no space, lock timeout: the transaction is rolled back), or
\* the process dies.
Fail(r) ==
    /\ stage[r] # "idle"
    /\ EndRun(r)
    /\ UNCHANGED <<tables, serverWrites, now, file, removed, replaced>>

ArchiverNext ==
    \/ Tick \/ (\E o \in rows : Ages(o)) \/ (\E n \in Names : ServerWrites(n))
    \/ \E r \in Runs : \/ SelectOld(r) \/ WriteArchive(r) \/ BackupDb(r)
                       \/ DeleteOld(r) \/ Fail(r)

ArchiverSpec == ArchiverInit /\ [][ArchiverNext]_archiverVars

-----------------------------------------------------------------------------
(* What the archiver promises.                                             *)

Archived == UNION {file[t] : t \in 0..MaxTime}

\* "we only ever remove exactly the rows that were selected and archived": a
\* row that is gone is in the archive, unless its file was written over; a row
\* that came back under the same content is another row and stays.
RemovedRowsWereArchived == removed \subseteq Archived \cup replaced

\* The archiver is one more writer of the knowledge graph: readers that hold
\* the revision of an entity notice that observations have left it.
Graph0 == [ent |-> [n \in Names |->
                      Row(ent[n].id, ent[n].rev, {o.content : o \in RowsOf(n)})],
           rel |-> {}, nextId |-> nextEnt]
ArchiverKG == INSTANCE KnowledgeGraph WITH graph <- Graph0, mixed <- FALSE
ArchiverImplementsKnowledgeGraph == ArchiverKG!Spec

\* The module docstring: "Archive first, delete second. [...] No data loss."
NoDataLoss == removed \subseteq Archived
=============================================================================
