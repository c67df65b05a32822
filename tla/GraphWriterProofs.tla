-------------------------- MODULE GraphWriterProofs --------------------------
(***************************************************************************)
(* What the two programs promise that write the knowledge graph besides    *)
(* its servers: the archiver, for every set of overlapping runs, names and *)
(* contents and every bound, and the apply stage of the dreamer, for every *)
(* set of runs, plans, names and texts and every bound.  Both implement    *)
(* the same KnowledgeGraph, so that either may be one of the transactions  *)
(* of others that the other one's specification has.                       *)
(***************************************************************************)
EXTENDS Archiver, DreamerSave, FiniteSetTheorems, WellFoundedInduction, TLAPS

-----------------------------------------------------------------------------
(* The archiver: the inductive invariant.                                  *)

EntitiesOK ==
    /\ ent \in [Names -> [id : Nat, rev : Nat]] /\ nextEnt \in Nat \ {0}
    /\ \A m, n \in Names : ent[m].id # 0 /\ ent[m].id = ent[n].id => m = n
    /\ \A n \in Names : ent[n].id < nextEnt
    /\ \A n \in Names : ent[n].id = 0 => ent[n].rev = 0

RowsOK ==
    /\ rows \subseteq Observation /\ nextRow \in Nat \ {0}
    /\ \A o \in rows : o.id < nextRow /\ o.entity # 0 /\ \E n \in Names : ent[n].id = o.entity
    /\ \A o, p \in rows :
         /\ o.id = p.id => o = p
         /\ o.entity = p.entity /\ o.content = p.content => o = p

\* A selected row that is still there is what it was, up to its age, and its
\* id is never given to another.
SelectionOK ==
    /\ old \in [Runs -> SUBSET Observation]
    /\ \A r \in Runs : \A p \in old[r] :
         /\ p.id < nextRow /\ p.entity # 0
         /\ \A o \in rows : o.id = p.id => Line(o) = Line(p)

Kept == Archived \cup replaced

\* Past its write, a run finds its rows in the archive.
ArchiveOK ==
    /\ file \in [0..MaxTime -> SUBSET ALine]
    /\ removed \subseteq ALine /\ replaced \subseteq ALine
    /\ stage \in [Runs -> {"idle", "write", "backup", "delete"}]
    /\ \A r \in Runs : stage[r] \in {"backup", "delete"} => Lines(old[r]) \subseteq Kept
    /\ removed \subseteq Kept

ArchiverInv ==
    /\ serverWrites \in 0..MaxServerWrites /\ now \in 0..MaxTime
    /\ EntitiesOK /\ RowsOK /\ SelectionOK /\ ArchiveOK

LEMMA ArchiverInitInvariant == ArchiverInit => ArchiverInv
<1> SUFFICES ASSUME ArchiverInit PROVE ArchiverInv
  OBVIOUS
<1>1. EntitiesOK /\ RowsOK
  BY DEF ArchiverInit, EntitiesOK, RowsOK
<1>2. SelectionOK /\ ArchiveOK
  BY DEF ArchiverInit, SelectionOK, ArchiveOK
<1>3. serverWrites \in 0..MaxServerWrites /\ now \in 0..MaxTime
  BY ArchiverBounds DEF ArchiverInit
<1> QED BY <1>1, <1>2, <1>3 DEF ArchiverInv

LEMMA LineIsLine ==
  ASSUME NEW o \in Observation
  PROVE  Line(o) \in ALine
BY DEF Line, ALine, Observation

-----------------------------------------------------------------------------
(* Time and the memory servers.                                            *)

LEMMA TickKeeps == ArchiverInv /\ Tick => ArchiverInv'
BY ArchiverBounds DEF ArchiverInv, Tick, tables, EntitiesOK, RowsOK, SelectionOK, ArchiveOK, Kept, Archived

LEMMA AgesKeeps ==
  ASSUME ArchiverInv, NEW o \in rows, Ages(o)
  PROVE  ArchiverInv'
<1> DEFINE a == [o EXCEPT !.old = TRUE]
<1>1. rows' = (rows \ {o}) \cup {a}
  BY DEF Ages
<1>2. /\ o \in Observation /\ a \in Observation
      /\ a.id = o.id /\ a.entity = o.entity /\ a.content = o.content
  BY DEF ArchiverInv, RowsOK, Observation
<1>3. UNCHANGED <<ent, nextEnt, nextRow, serverWrites, now, file, stage, old, removed, replaced>>
  BY DEF Ages
<1> HIDE DEF a
<1>4. EntitiesOK'
  BY <1>3 DEF ArchiverInv, EntitiesOK
<1>5. RowsOK'
  BY <1>1, <1>2, <1>3 DEF ArchiverInv, RowsOK
<1>6. SelectionOK'
  BY <1>1, <1>2, <1>3 DEF ArchiverInv, SelectionOK, Line
<1>7. ArchiveOK'
  BY <1>3 DEF ArchiverInv, ArchiveOK, Kept, Archived
<1> QED BY <1>3, <1>4, <1>5, <1>6, <1>7 DEF ArchiverInv

\* Fewer rows: every invariant on the rows is kept if their entities are.
LEMMA FewerRows ==
  ASSUME ArchiverInv, rows' \subseteq rows, UNCHANGED <<nextRow, old>>,
         \A o \in rows' : \E n \in Names : ent'[n].id = o.entity
  PROVE  RowsOK' /\ SelectionOK'
<1>1. RowsOK'
  BY DEF ArchiverInv, RowsOK
<1>2. SelectionOK'
  BY DEF ArchiverInv, SelectionOK
<1> QED BY <1>1, <1>2

LEMMA BumpedKeeps ==
  ASSUME ArchiverInv, NEW n \in Names, ent[n].id # 0, ent' = Bumped(n), UNCHANGED nextEnt
  PROVE  /\ EntitiesOK'
         /\ \A m \in Names : ent'[m].id = ent[m].id
<1>1. \A m \in Names : ent'[m] = IF m = n THEN [id |-> ent[m].id, rev |-> ent[m].rev + 1] ELSE ent[m]
  BY DEF ArchiverInv, EntitiesOK, Bumped
<1>2. ent' \in [Names -> [id : Nat, rev : Nat]]
  BY DEF ArchiverInv, EntitiesOK, Bumped
<1> QED BY <1>1, <1>2 DEF ArchiverInv, EntitiesOK

LEMMA ServerKeeps ==
  ASSUME ArchiverInv, NEW n \in Names, ServerWrites(n)
  PROVE  ArchiverInv'
<1>1. serverWrites' \in 0..MaxServerWrites
  BY ArchiverBounds DEF ServerWrites, ArchiverInv
<1>2. UNCHANGED <<now, file, stage, old, removed, replaced>>
  BY DEF ServerWrites
<1>3. ArchiveOK'
  BY <1>2 DEF ArchiverInv, ArchiveOK, Kept, Archived
<1> SUFFICES EntitiesOK' /\ RowsOK' /\ SelectionOK'
  BY <1>1, <1>2, <1>3 DEF ArchiverInv
<1>4. ASSUME ent[n].id = 0,
             ent' = [ent EXCEPT ![n] = [id |-> nextEnt, rev |-> 0]],
             nextEnt' = nextEnt + 1,
             UNCHANGED <<rows, nextRow>>
      PROVE  EntitiesOK' /\ RowsOK' /\ SelectionOK'
  <2>1. EntitiesOK'
    BY <1>4 DEF ArchiverInv, EntitiesOK
  <2>2. \A o \in rows : \E m \in Names : ent'[m].id = o.entity
    BY <1>4 DEF ArchiverInv, EntitiesOK, RowsOK
  <2> QED BY <1>2, <1>4, <2>1, <2>2, FewerRows
<1>5. ASSUME NEW c \in NewContent(n), ent[n].id # 0, nextRow <= MaxRows,
             rows' = rows \cup {[id |-> nextRow, entity |-> ent[n].id,
                                 content |-> c, old |-> FALSE]},
             nextRow' = nextRow + 1, ent' = Bumped(n), UNCHANGED nextEnt
      PROVE  EntitiesOK' /\ RowsOK' /\ SelectionOK'
  <2> DEFINE o == [id |-> nextRow, entity |-> ent[n].id, content |-> c, old |-> FALSE]
  <2>1. EntitiesOK' /\ \A m \in Names : ent'[m].id = ent[m].id
    BY <1>5, BumpedKeeps
  <2>2. /\ o.id = nextRow /\ o.entity = ent[n].id /\ o.content = c
        /\ o \in Observation
    BY <1>5, ArchiverBounds DEF ArchiverInv, EntitiesOK, RowsOK, NewContent, Observation
  <2>3. \A p \in rows : p.entity = ent[n].id => p.content # c
    BY <1>5 DEF NewContent, RowsOf
  <2>4. rows' = rows \cup {o}
    BY <1>5
  <2> HIDE DEF o
  <2>5. RowsOK'
    <3>1. \A p \in rows' : p.id < nextRow' /\ p.entity # 0 /\ \E m \in Names : ent'[m].id = p.entity
      BY <1>5, <2>1, <2>2, <2>4 DEF ArchiverInv, RowsOK, Observation
    <3>2. \A p, q \in rows' :
            /\ p.id = q.id => p = q
            /\ p.entity = q.entity /\ p.content = q.content => p = q
      BY <1>5, <2>2, <2>3, <2>4 DEF ArchiverInv, RowsOK, Observation
    <3> QED BY <1>5, <2>2, <2>4, <3>1, <3>2 DEF ArchiverInv, RowsOK
  <2>6. SelectionOK'
    BY <1>2, <1>5, <2>2, <2>4 DEF ArchiverInv, RowsOK, SelectionOK, Observation
  <2> QED BY <2>1, <2>5, <2>6
<1>6. ASSUME NEW o \in RowsOf(n), rows' = rows \ {o}, ent' = Bumped(n),
             UNCHANGED <<nextEnt, nextRow>>
      PROVE  EntitiesOK' /\ RowsOK' /\ SelectionOK'
  <2>1. ent[n].id # 0
    BY DEF RowsOf, ArchiverInv, RowsOK
  <2>2. EntitiesOK' /\ \A m \in Names : ent'[m].id = ent[m].id
    BY <1>6, <2>1, BumpedKeeps
  <2>3. \A p \in rows : \E m \in Names : ent'[m].id = p.entity
    BY <2>2 DEF ArchiverInv, RowsOK
  <2> QED BY <1>2, <1>6, <2>2, <2>3, FewerRows
<1>7. ASSUME ent[n].id # 0, rows' = rows \ RowsOf(n),
             ent' = [ent EXCEPT ![n] = [id |-> 0, rev |-> 0]],
             UNCHANGED <<nextEnt, nextRow>>
      PROVE  EntitiesOK' /\ RowsOK' /\ SelectionOK'
  <2>1. EntitiesOK'
    BY <1>7 DEF ArchiverInv, EntitiesOK
  <2>2. \A p \in rows' : p \in rows /\ p.entity # ent[n].id
    BY <1>7 DEF RowsOf
  <2>3. \A p \in rows' : \E m \in Names : ent'[m].id = p.entity
    BY <1>7, <2>2 DEF ArchiverInv, EntitiesOK, RowsOK
  <2> QED BY <1>2, <1>7, <2>1, <2>3, FewerRows
<1> QED BY <1>4, <1>5, <1>6, <1>7 DEF ServerWrites

-----------------------------------------------------------------------------
(* The runs.                                                               *)

LEMMA SelectKeeps ==
  ASSUME ArchiverInv, NEW r \in Runs, SelectOld(r)
  PROVE  ArchiverInv'
<1>1. /\ old' = [old EXCEPT ![r] = {o \in rows : o.old}]
      /\ stage' = [stage EXCEPT ![r] = "write"]
      /\ UNCHANGED <<tables, serverWrites, now, file, removed, replaced>>
  BY DEF SelectOld, Goto
<1>2. EntitiesOK' /\ RowsOK'
  BY <1>1 DEF ArchiverInv, tables, EntitiesOK, RowsOK
<1>3. SelectionOK'
  <2>1. old' \in [Runs -> SUBSET Observation]
    BY <1>1 DEF ArchiverInv, RowsOK, SelectionOK
  <2>2. ASSUME NEW q \in Runs, NEW p \in old'[q]
        PROVE  p.id < nextRow /\ p.entity # 0 /\ \A o \in rows : o.id = p.id => Line(o) = Line(p)
    <3>1. CASE q = r
      BY <1>1, <3>1 DEF ArchiverInv, RowsOK, SelectionOK
    <3>2. CASE q # r
      BY <1>1, <3>2 DEF ArchiverInv, SelectionOK
    <3> QED BY <3>1, <3>2
  <2> QED BY <1>1, <2>1, <2>2 DEF SelectionOK, tables
<1>4. ArchiveOK'
  BY <1>1 DEF ArchiverInv, ArchiveOK, SelectionOK, Kept, Archived
<1> QED BY <1>1, <1>2, <1>3, <1>4 DEF ArchiverInv

\* What the overwritten file had is either in the new one or remembered as lost.
LEMMA WriteArchiveKeeps ==
  ASSUME ArchiverInv, NEW r \in Runs, WriteArchive(r)
  PROVE  ArchiverInv'
<1>1. /\ file' = [file EXCEPT ![now] = Lines(old[r])]
      /\ replaced' = replaced \cup (file[now] \ Lines(old[r]))
      /\ stage' = [stage EXCEPT ![r] = "backup"]
      /\ UNCHANGED <<tables, serverWrites, now, old, removed>>
  BY DEF WriteArchive, Goto
<1>2. EntitiesOK' /\ RowsOK' /\ SelectionOK'
  BY <1>1 DEF ArchiverInv, tables, EntitiesOK, RowsOK, SelectionOK
<1>3. Lines(old[r]) \subseteq ALine
  BY LineIsLine DEF Lines, ArchiverInv, SelectionOK
<1>4. file' \in [0..MaxTime -> SUBSET ALine] /\ replaced' \subseteq ALine
  BY <1>1, <1>3 DEF ArchiverInv, ArchiveOK
<1>5. file'[now] = Lines(old[r]) /\ \A t \in 0..MaxTime : t # now => file'[t] = file[t]
  BY <1>1 DEF ArchiverInv, ArchiveOK
<1>6. Kept \subseteq Kept' /\ Lines(old[r]) \subseteq Kept'
  <2>1. Lines(old[r]) \subseteq Archived'
    BY <1>5 DEF Archived, ArchiverInv
  <2>2. ASSUME NEW t \in 0..MaxTime, NEW x \in file[t]
        PROVE  x \in Kept'
    <3>1. CASE t = now
      BY <1>1, <2>1, <2>2, <3>1 DEF Kept
    <3>2. CASE t # now
      BY <1>5, <2>2, <3>2 DEF Kept, Archived
    <3> QED BY <3>1, <3>2
  <2> QED BY <1>1, <2>1, <2>2 DEF Kept, Archived
<1>7. ArchiveOK'
  <2>1. \A q \in Runs : stage'[q] \in {"backup", "delete"} => Lines(old[q]) \subseteq Kept'
    BY <1>1, <1>6 DEF ArchiverInv, ArchiveOK
  <2> HIDE DEF Kept
  <2>2. removed' \subseteq Kept' /\ removed' \subseteq ALine
    BY <1>1, <1>6 DEF ArchiverInv, ArchiveOK
  <2>3. stage' \in [Runs -> {"idle", "write", "backup", "delete"}]
    BY <1>1 DEF ArchiverInv, ArchiveOK
  <2> QED BY <1>1, <1>4, <2>1, <2>2, <2>3 DEF ArchiveOK, Lines
<1> QED BY <1>1, <1>2, <1>7 DEF ArchiverInv

LEMMA BackupKeeps ==
  ASSUME ArchiverInv, NEW r \in Runs, BackupDb(r)
  PROVE  ArchiverInv'
BY DEF ArchiverInv, BackupDb, Goto, tables, EntitiesOK, RowsOK, SelectionOK, ArchiveOK, Kept, Archived

\* A run that ends forgets its selection.
LEMMA EndRunKeeps ==
  ASSUME ArchiverInv, NEW r \in Runs, EndRun(r), UNCHANGED <<nextRow, file, replaced>>,
         rows' \subseteq rows, removed' \subseteq Kept, removed' \subseteq ALine
  PROVE  SelectionOK' /\ ArchiveOK'
<1>1. /\ stage' = [stage EXCEPT ![r] = "idle"]
      /\ old' = [old EXCEPT ![r] = {}]
  BY DEF EndRun, Goto
<1>2. \A q \in Runs : old'[q] \subseteq old[q]
  BY <1>1 DEF ArchiverInv, SelectionOK
<1>3. old' \in [Runs -> SUBSET Observation]
  BY <1>1 DEF ArchiverInv, SelectionOK
<1>4. SelectionOK'
  BY <1>2, <1>3 DEF ArchiverInv, SelectionOK
<1>5. Kept' = Kept
  BY DEF Kept, Archived
<1>6. ArchiveOK'
  BY <1>1, <1>5 DEF ArchiverInv, ArchiveOK, SelectionOK
<1> QED BY <1>4, <1>6

LEMMA FailKeeps ==
  ASSUME ArchiverInv, NEW r \in Runs, Fail(r)
  PROVE  ArchiverInv'
<1>1. EndRun(r) /\ UNCHANGED <<tables, serverWrites, now, file, removed, replaced>>
  BY DEF Fail
<1>2. SelectionOK' /\ ArchiveOK'
  BY <1>1, EndRunKeeps DEF ArchiverInv, ArchiveOK, tables
<1>3. EntitiesOK' /\ RowsOK'
  BY <1>1 DEF ArchiverInv, tables, EntitiesOK, RowsOK
<1> QED BY <1>1, <1>2, <1>3 DEF ArchiverInv

LEMMA DeleteOldKeeps ==
  ASSUME ArchiverInv, NEW r \in Runs, DeleteOld(r)
  PROVE  ArchiverInv'
<1>1. /\ stage[r] = "delete"
      /\ rows' = rows \ Selected(r)
      /\ removed' = removed \cup Lines(Selected(r))
      /\ ent' = [n \in Names |-> [id |-> ent[n].id,
                                  rev |-> IF ent[n].id \in Entities(r)
                                          THEN ent[n].rev + 1 ELSE ent[n].rev]]
      /\ EndRun(r)
      /\ UNCHANGED <<nextEnt, nextRow, serverWrites, now, file, replaced>>
  BY DEF DeleteOld
<1>2. Lines(Selected(r)) \subseteq Lines(old[r])
  BY DEF Lines, Selected, ArchiverInv, SelectionOK
<1>3. Lines(old[r]) \subseteq Kept /\ Lines(old[r]) \subseteq ALine
  BY <1>1, LineIsLine DEF ArchiverInv, ArchiveOK, SelectionOK, Lines
<1>4. removed' \subseteq Kept /\ removed' \subseteq ALine
  BY <1>1, <1>2, <1>3 DEF ArchiverInv, ArchiveOK
<1>5. SelectionOK' /\ ArchiveOK'
  BY <1>1, <1>4, EndRunKeeps
<1>6. \A n \in Names : ent'[n].id = ent[n].id
  BY <1>1
<1>7. \A n \in Names : ent[n].id = 0 => ent[n].id \notin Entities(r)
  BY DEF Entities, ArchiverInv, SelectionOK
<1>8. EntitiesOK'
  BY <1>1, <1>6, <1>7 DEF ArchiverInv, EntitiesOK
<1>9. RowsOK'
  BY <1>1, <1>6 DEF ArchiverInv, RowsOK
<1> QED BY <1>1, <1>5, <1>8, <1>9 DEF ArchiverInv

-----------------------------------------------------------------------------
(* The theorems on the archive.                                            *)

LEMMA ArchiverNextInvariant == ArchiverInv /\ [ArchiverNext]_archiverVars => ArchiverInv'
<1> SUFFICES ASSUME ArchiverInv, [ArchiverNext]_archiverVars PROVE ArchiverInv'
  OBVIOUS
<1>1. ASSUME UNCHANGED archiverVars PROVE ArchiverInv'
  BY <1>1 DEF archiverVars, tables, ArchiverInv, EntitiesOK, RowsOK, SelectionOK, ArchiveOK, Kept, Archived
<1>2. ASSUME NEW r \in Runs,
             SelectOld(r) \/ WriteArchive(r) \/ BackupDb(r) \/ DeleteOld(r) \/ Fail(r)
      PROVE  ArchiverInv'
  BY <1>2, SelectKeeps, WriteArchiveKeeps, BackupKeeps, DeleteOldKeeps, FailKeeps
<1> QED BY <1>1, <1>2, TickKeeps, AgesKeeps, ServerKeeps DEF ArchiverNext

LEMMA ArchiverSpecInvariant == ArchiverSpec => []ArchiverInv
<1> QED BY ArchiverInitInvariant, ArchiverNextInvariant, PTL DEF ArchiverSpec

\* The tables keep their keys and their foreign key, and what an archiver has
\* selected, written and removed are rows.
THEOREM ArchiverTypeCorrect == ArchiverSpec => []ArchiverTypeOK
<1>1. ArchiverInv => ArchiverTypeOK
  BY DEF ArchiverInv, EntitiesOK, RowsOK, SelectionOK, ArchiveOK, ArchiverTypeOK
<1> QED BY <1>1, ArchiverSpecInvariant, PTL

\* archive(apply=True): whatever the servers and the other runs do between the
\* steps of a run, and wherever it dies, a row it deletes is a row it has
\* written to a file; it is missing from the archive only if another run of the
\* same second wrote over that file.
THEOREM RemovedWereArchived == ArchiverSpec => []RemovedRowsWereArchived
<1>1. ArchiverInv => RemovedRowsWereArchived
  BY DEF ArchiverInv, ArchiveOK, Kept, RemovedRowsWereArchived
<1> QED BY <1>1, ArchiverSpecInvariant, PTL

-----------------------------------------------------------------------------
(* The archiver as a writer of the knowledge graph.                        *)

Obs(n) == {o.content : o \in RowsOf(n)}

LEMMA GraphIsWellFormed == ArchiverInv => WellFormed(Graph0)
<1> SUFFICES ASSUME ArchiverInv PROVE WellFormed(Graph0)
  OBVIOUS
<1>1. \A n \in Names : Obs(n) \in SUBSET Contents
  BY DEF Obs, RowsOf, ArchiverInv, RowsOK, Observation
<1>2. \A n \in Names : ent[n].id = 0 => Obs(n) = {} /\ ent[n].rev = 0
  BY DEF Obs, RowsOf, ArchiverInv, RowsOK, EntitiesOK
<1>3. Graph0 = [ent |-> [n \in Names |-> Row(ent[n].id, ent[n].rev, Obs(n))],
                rel |-> {}, nextId |-> nextEnt]
  BY DEF Graph0, Obs
<1>4. \A n \in Names : ent[n].id \in Nat /\ ent[n].rev \in Nat
  BY DEF ArchiverInv, EntitiesOK
<1> HIDE DEF Obs
<1>5. Graph0 \in Graph
  BY <1>1, <1>3, <1>4 DEF ArchiverInv, EntitiesOK, Graph, Entity, Row
<1>6. \A n \in Names : Graph0.ent[n] = Row(ent[n].id, ent[n].rev, Obs(n))
  BY <1>3
<1>7. Graph0.nextId = nextEnt
  BY <1>3
<1>8. \A n \in Names : Graph0.ent[n].id = ent[n].id
  BY <1>3 DEF Row
<1>9. \A n \in Names : Exists(Graph0, n) \/ Graph0.ent[n] = NoEntity
  BY <1>2, <1>6, <1>8 DEF Exists, NoEntity
<1>10. /\ nextEnt # 0 /\ \A n \in Names : ent[n].id < nextEnt
       /\ \A m, n \in Names : ent[m].id # 0 /\ ent[m].id = ent[n].id => m = n
  BY DEF ArchiverInv, EntitiesOK
<1> QED BY <1>5, <1>7, <1>8, <1>9, <1>10 DEF WellFormed, Exists

\* Two states of the tables make a transaction if the rows of an entity only
\* change with its revision, and new entities take new ids.
LEMMA TablesMakeTransaction ==
  ASSUME ArchiverInv,
         \A n \in Names : ent[n].id # 0 /\ ent'[n].id = ent[n].id =>
           /\ ent'[n].rev >= ent[n].rev
           /\ Obs(n)' # Obs(n) => ent'[n].rev > ent[n].rev,
         nextEnt' >= nextEnt,
         \A n \in Names : ent'[n].id # 0 /\ ent'[n].id # ent[n].id => ent'[n].id >= nextEnt
  PROVE  Transaction(Graph0, Graph0')
<1>1. /\ \A n \in Names : /\ Graph0.ent[n].id = ent[n].id
                          /\ Graph0.ent[n].rev = ent[n].rev
                          /\ Graph0.ent[n].obs = Obs(n)
      /\ Graph0.nextId = nextEnt
  BY DEF Graph0, Obs, Row
<1>2. /\ \A n \in Names : /\ Graph0'.ent[n].id = ent'[n].id
                          /\ Graph0'.ent[n].rev = ent'[n].rev
                          /\ Graph0'.ent[n].obs = Obs(n)'
      /\ Graph0'.nextId = nextEnt' /\ Graph0'.rel = {}
  BY DEF Graph0, Obs, Row
<1>3. RevisionTracksContent(Graph0, Graph0')
  BY <1>1, <1>2 DEF RevisionTracksContent, SameRow, Exists
<1>4. IdsAreFresh(Graph0, Graph0')
  BY <1>1, <1>2 DEF IdsAreFresh, Exists
<1>5. NoRelationOutlives(Graph0, Graph0')
  BY <1>2 DEF NoRelationOutlives
<1> QED BY <1>3, <1>4, <1>5 DEF Transaction

\* The same rows give the same observations.
LEMMA QuietSteps ==
  ASSUME ArchiverInv, Tick \/ (\E o \in rows : Ages(o))
               \/ (\E r \in Runs : SelectOld(r) \/ WriteArchive(r) \/ BackupDb(r) \/ Fail(r))
               \/ UNCHANGED archiverVars
  PROVE  Graph0' = Graph0
<1>1. ASSUME UNCHANGED tables
      PROVE  Graph0' = Graph0
  BY <1>1 DEF tables, Graph0, RowsOf
<1>2. ASSUME NEW o \in rows, Ages(o)
      PROVE  Graph0' = Graph0
  <2> DEFINE a == [o EXCEPT !.old = TRUE]
  <2>1. rows' = (rows \ {o}) \cup {a} /\ UNCHANGED <<ent, nextEnt>>
    BY <1>2 DEF Ages
  <2>2. a.entity = o.entity /\ a.content = o.content
    BY DEF ArchiverInv, RowsOK, Observation
  <2> HIDE DEF a
  <2>3. \A n \in Names : Obs(n)' = Obs(n)
    BY <2>1, <2>2 DEF Obs, RowsOf
  <2> QED BY <2>1, <2>3 DEF Graph0, Obs
<1> QED BY <1>1, <1>2 DEF Tick, SelectOld, WriteArchive, BackupDb, Fail, archiverVars, tables

LEMMA ServerMakesTransaction ==
  ASSUME ArchiverInv, NEW n \in Names, ServerWrites(n)
  PROVE  Transaction(Graph0, Graph0')
<1>1. ASSUME ent' = Bumped(n), UNCHANGED nextEnt,
             \A o \in (rows \cup rows') : (o \in rows /\ o \in rows') \/ o.entity = ent[n].id
      PROVE  Transaction(Graph0, Graph0')
  <2>1. \A m \in Names : /\ ent'[m].id = ent[m].id
                         /\ ent'[m].rev = IF m = n THEN ent[m].rev + 1 ELSE ent[m].rev
    BY <1>1 DEF ArchiverInv, EntitiesOK, Bumped
  <2>2. ASSUME NEW m \in Names, m # n, ent[m].id # 0
        PROVE  Obs(m)' = Obs(m)
    BY <1>1, <2>1, <2>2 DEF Obs, RowsOf, ArchiverInv, EntitiesOK
  <2>3. \A m \in Names : ent[m].rev \in Nat
    BY DEF ArchiverInv, EntitiesOK
  <2> QED BY <1>1, <2>1, <2>2, <2>3, TablesMakeTransaction DEF ArchiverInv, EntitiesOK
<1>2. ASSUME ent[n].id = 0,
             ent' = [ent EXCEPT ![n] = [id |-> nextEnt, rev |-> 0]],
             nextEnt' = nextEnt + 1, UNCHANGED rows
      PROVE  Transaction(Graph0, Graph0')
  <2>1. \A m \in Names : ent'[m] = IF m = n THEN [id |-> nextEnt, rev |-> 0] ELSE ent[m]
    BY <1>2 DEF ArchiverInv, EntitiesOK
  <2>2. \A m \in Names : m # n => Obs(m)' = Obs(m)
    BY <1>2, <2>1 DEF Obs, RowsOf
  <2> QED BY <1>2, <2>1, <2>2, TablesMakeTransaction DEF ArchiverInv, EntitiesOK
<1>3. ASSUME ent[n].id # 0, rows' = rows \ RowsOf(n),
             ent' = [ent EXCEPT ![n] = [id |-> 0, rev |-> 0]], UNCHANGED nextEnt
      PROVE  Transaction(Graph0, Graph0')
  <2>1. \A m \in Names : ent'[m] = IF m = n THEN [id |-> 0, rev |-> 0] ELSE ent[m]
    BY <1>3 DEF ArchiverInv, EntitiesOK
  <2>2. \A m \in Names : m # n /\ ent[m].id # 0 => Obs(m)' = Obs(m)
    BY <1>3, <2>1 DEF Obs, RowsOf, ArchiverInv, EntitiesOK
  <2> QED BY <1>3, <2>1, <2>2, TablesMakeTransaction DEF ArchiverInv, EntitiesOK
<1>4. CASE \E c \in NewContent(n) :
             /\ rows' = rows \cup {[id |-> nextRow, entity |-> ent[n].id,
                                    content |-> c, old |-> FALSE]}
             /\ ent' = Bumped(n) /\ UNCHANGED nextEnt
  BY <1>1, <1>4
<1>5. CASE \E o \in RowsOf(n) :
             rows' = rows \ {o} /\ ent' = Bumped(n) /\ UNCHANGED nextEnt
  BY <1>1, <1>5 DEF RowsOf
<1> QED BY <1>2, <1>3, <1>4, <1>5 DEF ServerWrites

LEMMA DeleteOldMakesTransaction ==
  ASSUME ArchiverInv, NEW r \in Runs, DeleteOld(r)
  PROVE  Transaction(Graph0, Graph0')
<1>1. /\ rows' = rows \ Selected(r)
      /\ ent' = [n \in Names |-> [id |-> ent[n].id,
                                  rev |-> IF ent[n].id \in Entities(r)
                                          THEN ent[n].rev + 1 ELSE ent[n].rev]]
      /\ UNCHANGED nextEnt
  BY DEF DeleteOld
<1>2. \A o \in Selected(r) : o.entity \in Entities(r)
  BY DEF Selected, Entities, ArchiverInv, SelectionOK, Line
<1>3. \A n \in Names : /\ ent'[n].id = ent[n].id
                       /\ ent'[n].rev = IF ent[n].id \in Entities(r)
                                        THEN ent[n].rev + 1 ELSE ent[n].rev
  BY <1>1
<1>4. \A n \in Names : ent[n].id \notin Entities(r) => Obs(n)' = Obs(n)
  BY <1>1, <1>2, <1>3 DEF Obs, RowsOf
<1>5. \A n \in Names : ent[n].rev \in Nat
  BY DEF ArchiverInv, EntitiesOK
<1> QED BY <1>1, <1>3, <1>4, <1>5, TablesMakeTransaction DEF ArchiverInv, EntitiesOK

\* Every step of the servers and of the archivers is a transaction that a
\* reader who holds revisions notices, or changes nothing in the graph:
\* DELETE by id and the bump of every touched entity in one transaction.
THEOREM ArchiverRefinement == ArchiverSpec => ArchiverImplementsKnowledgeGraph
<1> USE DEF ArchiverKG!WellFormed, WellFormed, ArchiverKG!Graph, Graph, ArchiverKG!Entity, Entity,
            ArchiverKG!NoEntity, NoEntity, ArchiverKG!Row, Row, ArchiverKG!Relations, Relations,
            ArchiverKG!Exists, Exists, ArchiverKG!SameRow, SameRow, ArchiverKG!Touches, Touches
<1>1. ArchiverInv => ArchiverKG!Init
  BY GraphIsWellFormed DEF ArchiverKG!Init
<1>2. ArchiverInv' => WellFormed(Graph0)'
  BY GraphIsWellFormed, PTL
<1>3. ArchiverInv /\ ArchiverInv' /\ [ArchiverNext]_archiverVars => [ArchiverKG!Next]_<<Graph0, FALSE>>
  <2> SUFFICES ASSUME ArchiverInv, ArchiverInv', [ArchiverNext]_archiverVars, Graph0' # Graph0 PROVE ArchiverKG!Next
    BY DEF ArchiverKG!Next
  <2>1. Transaction(Graph0, Graph0')
    BY QuietSteps, ServerMakesTransaction, DeleteOldMakesTransaction DEF ArchiverNext
  <2>2. /\ ArchiverKG!RevisionTracksContent(Graph0, Graph0')
        /\ ArchiverKG!IdsAreFresh(Graph0, Graph0')
        /\ ArchiverKG!NoRelationOutlives(Graph0, Graph0')
    BY <2>1 DEF Transaction, RevisionTracksContent,
       ArchiverKG!RevisionTracksContent, IdsAreFresh, ArchiverKG!IdsAreFresh,
       NoRelationOutlives, ArchiverKG!NoRelationOutlives
  <2>3. ArchiverKG!WellFormed(Graph0)'
    BY <1>2
  <2> QED BY <2>2, <2>3 DEF ArchiverKG!Next
<1> QED BY <1>1, <1>3, ArchiverInitInvariant, ArchiverSpecInvariant, PTL
        DEF ArchiverSpec, ArchiverImplementsKnowledgeGraph, ArchiverKG!Spec

-----------------------------------------------------------------------------
(* Induction over the merges of a plan.                                    *)

Less == {ab \in Nat \X Nat : ab[1] < ab[2]}

\* A set of numbers with 0 and every successor holds them all.
LEMMA NatSetInduction ==
  ASSUME NEW S \in SUBSET Nat, 0 \in S, \A n \in S : n + 1 \in S
  PROVE  S = Nat
<1> SUFFICES ASSUME Nat \ S # {} PROVE FALSE
  OBVIOUS
<1>1. IsWellFoundedOn(Less, Nat)
  BY NatLessThanWellFounded DEF OpToRel, Less
<1>2. PICK n \in Nat \ S : \A k \in Nat \ S : ~(<<k, n>> \in Less)
  BY <1>1, WFMin
<1>3. n # 0 /\ n - 1 \in Nat
  BY <1>2
<1>4. n - 1 \in S
  <2>1. <<n - 1, n>> \in Less
    BY <1>3 DEF Less
  <2> QED BY <1>2, <1>3, <2>1
<1> QED BY <1>3, <1>4

\* f lists what the first merges up to k make of the graph g.
Lists(f, g, merges, k) ==
    f = [i \in 0..k |-> IF i = 0 THEN [g |-> g, pairs |-> {}] ELSE Merge(f[i - 1], merges[i])]

\* There is such a list, and Merges is one.
LEMMA MergesLists ==
  ASSUME NEW g, NEW merges, Len(merges) \in Nat
  PROVE  Lists(Merges(g, merges), g, merges, Len(merges))
<1> DEFINE S == {k \in Nat : \E f : Lists(f, g, merges, k)}
<1>1. 0 \in S
  <2> DEFINE f == [i \in 0..0 |-> [g |-> g, pairs |-> {}]]
  <2>1. Lists(f, g, merges, 0)
    <3>1. \A i \in 0..0 : i = 0
      OBVIOUS
    <3> QED BY <3>1, Zenon DEF Lists
  <2> QED BY <2>1
<1>2. ASSUME NEW k \in S PROVE k + 1 \in S
  <2>1. PICK f : Lists(f, g, merges, k)
    OBVIOUS
  <2> DEFINE h == [i \in 0..(k + 1) |-> IF i = k + 1 THEN Merge(f[k], merges[k + 1]) ELSE f[i]]
             e == [i \in 0..(k + 1) |-> IF i = 0 THEN [g |-> g, pairs |-> {}] ELSE Merge(h[i - 1], merges[i])]
  <2>2. ASSUME NEW i \in 0..(k + 1) PROVE h[i] = e[i]
    <3>1. CASE i = k + 1
      <4>1. i # 0 /\ i - 1 = k /\ k \in 0..(k + 1) /\ k # k + 1
        BY <3>1
      <4>2. h[i - 1] = f[k] /\ h[i] = Merge(f[k], merges[k + 1])
        BY <3>1, <4>1
      <4>3. e[i] = Merge(h[i - 1], merges[i])
        BY <4>1
      <4> QED BY <3>1, <4>2, <4>3
    <3>2. CASE i # k + 1
      <4>1. i \in 0..k
        BY <3>2
      <4>2. f[i] = IF i = 0 THEN [g |-> g, pairs |-> {}] ELSE Merge(f[i - 1], merges[i])
        BY <2>1, <4>1, Zenon DEF Lists
      <4>3. i # 0 => i - 1 \in 0..(k + 1) /\ i - 1 # k + 1
        BY <4>1
      <4>4. i # 0 => h[i - 1] = f[i - 1]
        BY <4>3
      <4>5. h[i] = f[i]
        BY <3>2
      <4>6. e[i] = IF i = 0 THEN [g |-> g, pairs |-> {}] ELSE Merge(h[i - 1], merges[i])
        OBVIOUS
      <4> HIDE DEF h, e
      <4>7. CASE i = 0
        BY <4>2, <4>5, <4>6, <4>7
      <4>8. CASE i # 0
        <5>1. Merge(h[i - 1], merges[i]) = Merge(f[i - 1], merges[i])
          BY <4>4, <4>8
        <5> QED BY <4>2, <4>5, <4>6, <4>8, <5>1
      <4> QED BY <4>7, <4>8
    <3> QED BY <3>1, <3>2
  <2>3. h = e
    BY <2>2
  <2>4. Lists(h, g, merges, k + 1)
    BY <2>3, Zenon DEF Lists
  <2> QED BY <2>4
<1>3. S = Nat
  <2> HIDE DEF S
  <2>1. S \subseteq Nat
    BY DEF S
  <2> QED BY <1>1, <1>2, <2>1, NatSetInduction
<1>4. \E f : Lists(f, g, merges, Len(merges))
  BY <1>3
<1>5. \E f : f = [i \in 0..Len(merges) |->
                    IF i = 0 THEN [g |-> g, pairs |-> {}] ELSE Merge(f[i - 1], merges[i])]
  BY <1>4 DEF Lists
<1> QED BY <1>5, Zenon DEF Merges, Lists

\* What the graph is before the merges and what every merge keeps, it is
\* after them.
LEMMA MergesStayIn ==
  ASSUME NEW g, NEW merges, Len(merges) \in Nat, NEW S,
         [g |-> g, pairs |-> {}] \in S,
         \A m \in S : \A i \in 1..Len(merges) : Merge(m, merges[i]) \in S
  PROVE  Merges(g, merges)[Len(merges)] \in S
<1> DEFINE f == Merges(g, merges)
           T == {k \in Nat : k \in 0..Len(merges) => f[k] \in S}
<1>0. Lists(f, g, merges, Len(merges))
  BY MergesLists
<1> HIDE DEF f
<1>1. ASSUME NEW i \in 0..Len(merges)
      PROVE  f[i] = IF i = 0 THEN [g |-> g, pairs |-> {}] ELSE Merge(f[i - 1], merges[i])
  BY <1>0, Zenon DEF Lists
<1>2. 0 \in T
  BY <1>1
<1>3. ASSUME NEW k \in T PROVE k + 1 \in T
  <2>1. CASE k + 1 \in 0..Len(merges)
    <3>1. f[k + 1] = Merge(f[k], merges[k + 1])
      BY <1>1, <2>1
    <3>2. k \in 0..Len(merges) /\ k + 1 \in 1..Len(merges)
      BY <2>1
    <3> QED BY <3>1, <3>2
  <2> QED BY <2>1
<1>4. T = Nat
  <2>1. T \subseteq Nat
    OBVIOUS
  <2> HIDE DEF T
  <2> QED BY <1>2, <1>3, <2>1, NatSetInduction
<1> QED BY <1>4 DEF f

-----------------------------------------------------------------------------
(* Graphs in memory.                                                       *)

Info == [kind : Kinds, obs : SUBSET Contents]
Merging == [g : Loaded, pairs : SUBSET (Names \X Names)]

LEMMA LoadedGraph ==
  ASSUME NEW S \in SUBSET Names, NEW entries \in [S -> Info], NEW rel \in SUBSET Relations
  PROVE  [ent |-> entries, rel |-> rel] \in Loaded
<1>1. entries \in UNION {[T -> Info] : T \in SUBSET Names}
  OBVIOUS
<1> QED BY <1>1 DEF Loaded, Info

LEMMA LoadedParts ==
  ASSUME NEW g \in Loaded
  PROVE  /\ DOMAIN g.ent \in SUBSET Names
         /\ g.ent \in [DOMAIN g.ent -> Info]
         /\ g.rel \in SUBSET Relations
         /\ g = [ent |-> g.ent, rel |-> g.rel]
<1>1. PICK S \in SUBSET Names : g.ent \in [S -> Info]
  BY DEF Loaded, Info
<1> QED BY <1>1 DEF Loaded

\* Renaming types changes neither names nor observations nor relations.
LEMMA RenameKeeps ==
  ASSUME NEW g \in Loaded, NEW p \in Plan
  PROVE  LET h == RenameTypes(g, p.rename)
         IN  /\ h \in Loaded /\ h.rel = g.rel /\ DOMAIN h.ent = DOMAIN g.ent
             /\ \A n \in DOMAIN g.ent : h.ent[n].obs = g.ent[n].obs
<1> DEFINE E == [n \in DOMAIN g.ent |->
                   IF n \in DOMAIN p.rename THEN [g.ent[n] EXCEPT !.kind = p.rename[n]] ELSE g.ent[n]]
<1>1. RenameTypes(g, p.rename) = [ent |-> E, rel |-> g.rel]
  BY LoadedParts DEF RenameTypes
<1>2. ASSUME NEW n \in DOMAIN g.ent PROVE E[n] \in Info /\ E[n].obs = g.ent[n].obs
  <2>1. g.ent[n] \in Info
    BY LoadedParts
  <2>2. n \in DOMAIN p.rename => p.rename[n] \in Kinds
    <3>1. PICK S \in SUBSET Names : p.rename \in [S -> Kinds]
      BY DEF Plan
    <3> QED BY <3>1
  <2> QED BY <2>1, <2>2 DEF Info
<1>3. E \in [DOMAIN g.ent -> Info]
  BY <1>2
<1>4. [ent |-> E, rel |-> g.rel] \in Loaded
  BY <1>3, LoadedParts, LoadedGraph
<1> QED BY <1>1, <1>2, <1>4

\* What a merge does, when it does anything.
LEMMA MergeMoves ==
  ASSUME NEW m \in Merging, NEW names \in Names \X Names,
         names[1] # names[2], {names[1], names[2]} \subseteq DOMAIN m.g.ent
  PROVE  LET h == Merge(m, names)
             keep == names[1]
             remove == names[2]
         IN  /\ h \in Merging
             /\ DOMAIN h.g.ent = DOMAIN m.g.ent \ {remove}
             /\ h.g.ent[keep].obs = m.g.ent[keep].obs \cup m.g.ent[remove].obs
             /\ \A n \in DOMAIN m.g.ent \ {keep, remove} : h.g.ent[n] = m.g.ent[n]
             /\ h.g.rel = {Rewired(r, keep, remove) : r \in m.g.rel}
             /\ h.pairs = m.pairs \cup RewiredPairs(m.g.rel, keep, remove)
<1> DEFINE h == Merge(m, names)
           keep == names[1]
           remove == names[2]
           entries == m.g.ent
           E == [n \in DOMAIN entries \ {remove} |->
                   IF n = keep THEN [entries[n] EXCEPT !.obs = @ \cup entries[remove].obs] ELSE entries[n]]
           R == {Rewired(r, keep, remove) : r \in m.g.rel}
<1>0. m.g \in Loaded /\ m.pairs \in SUBSET (Names \X Names) /\ keep \in Names /\ remove \in Names
  BY DEF Merging
<1>1. h = [g |-> [ent |-> E, rel |-> R], pairs |-> m.pairs \cup RewiredPairs(m.g.rel, keep, remove)]
  BY DEF Merge
<1>2. ASSUME NEW n \in DOMAIN entries PROVE entries[n] \in Info
  BY <1>0, LoadedParts
<1>3. E \in [DOMAIN entries \ {remove} -> Info]
  <2>1. ASSUME NEW n \in DOMAIN entries \ {remove} PROVE E[n] \in Info
    BY <1>2 DEF Info
  <2> QED BY <2>1
<1>4. R \in SUBSET Relations
  <2>1. m.g.rel \in SUBSET Relations
    BY <1>0, LoadedParts
  <2> QED BY <1>0, <2>1 DEF Relations, Rewired, Moved
<1>5. RewiredPairs(m.g.rel, keep, remove) \in SUBSET (Names \X Names)
  <2>1. m.g.rel \in SUBSET Relations
    BY <1>0, LoadedParts
  <2> QED BY <1>0, <2>1 DEF Relations, RewiredPairs, Moved
<1>6. [ent |-> E, rel |-> R] \in Loaded
  <2>1. DOMAIN entries \ {remove} \in SUBSET Names
    BY <1>0, LoadedParts
  <2> QED BY <1>3, <1>4, <2>1, LoadedGraph
<1>7. h \in Merging
  BY <1>0, <1>1, <1>5, <1>6 DEF Merging
<1>8. E[keep].obs = entries[keep].obs \cup entries[remove].obs
  BY <1>2 DEF Info
<1>9. \A n \in DOMAIN entries \ {keep, remove} : E[n] = entries[n]
  OBVIOUS
<1> HIDE DEF E, R
<1>10. DOMAIN E = DOMAIN entries \ {remove}
  BY <1>3
<1> QED BY <1>1, <1>7, <1>8, <1>9, <1>10 DEF R

\* A merge of a name with itself, or of a name that is not there, is skipped.
LEMMA MergeSkips ==
  ASSUME NEW m, NEW names, names[1] = names[2] \/ ~({names[1], names[2]} \subseteq DOMAIN m.g.ent)
  PROVE  Merge(m, names) = m
BY DEF Merge

LEMMA MergeType ==
  ASSUME NEW m \in Merging, NEW names \in Names \X Names
  PROVE  Merge(m, names) \in Merging
BY MergeMoves, MergeSkips

LEMMA MergesType ==
  ASSUME NEW g \in Loaded, NEW merges \in Seq(Names \X Names)
  PROVE  /\ [g |-> g, pairs |-> {}] \in Merging
         /\ Merges(g, merges)[Len(merges)] \in Merging
<1>1. [g |-> g, pairs |-> {}] \in Merging
  BY DEF Merging
<1>2. \A m \in Merging : \A i \in 1..Len(merges) : Merge(m, merges[i]) \in Merging
  BY MergeType
<1> QED BY <1>1, <1>2, MergesStayIn

-----------------------------------------------------------------------------
(* What the merges of a plan keep.                                         *)

\* The observations of every entity of o are those of one entity of h.
Holds(o, h) == \A n \in DOMAIN o.ent : \E k \in DOMAIN h.ent : o.ent[n].obs \subseteq h.ent[k].obs

\* The end points of every relation exist.
Closed(h) == \A r \in h.rel : {r[1], r[2]} \subseteq DOMAIN h.ent

LEMMA MergeHolds ==
  ASSUME NEW o, NEW m \in Merging, NEW names \in Names \X Names, Holds(o, m.g)
  PROVE  Holds(o, Merge(m, names).g)
<1>1. CASE names[1] # names[2] /\ {names[1], names[2]} \subseteq DOMAIN m.g.ent
  <2> DEFINE h == Merge(m, names).g
  <2> SUFFICES ASSUME NEW n \in DOMAIN o.ent
               PROVE  \E k \in DOMAIN h.ent : o.ent[n].obs \subseteq h.ent[k].obs
    BY DEF Holds
  <2>1. PICK k \in DOMAIN m.g.ent : o.ent[n].obs \subseteq m.g.ent[k].obs
    BY DEF Holds
  <2>2. /\ DOMAIN h.ent = DOMAIN m.g.ent \ {names[2]}
        /\ h.ent[names[1]].obs = m.g.ent[names[1]].obs \cup m.g.ent[names[2]].obs
        /\ \A e \in DOMAIN m.g.ent \ {names[1], names[2]} : h.ent[e] = m.g.ent[e]
    BY <1>1, MergeMoves
  <2> HIDE DEF h
  <2>3. CASE k \in {names[1], names[2]}
    <3>1. names[1] \in DOMAIN h.ent /\ o.ent[n].obs \subseteq h.ent[names[1]].obs
      BY <1>1, <2>1, <2>2, <2>3
    <3> QED BY <3>1
  <2>4. CASE k \notin {names[1], names[2]}
    BY <2>1, <2>2, <2>4
  <2> QED BY <2>3, <2>4
<1>2. CASE ~(names[1] # names[2] /\ {names[1], names[2]} \subseteq DOMAIN m.g.ent)
  BY <1>2, MergeSkips
<1> QED BY <1>1, <1>2

LEMMA MergeCloses ==
  ASSUME NEW m \in Merging, NEW names \in Names \X Names, Closed(m.g)
  PROVE  Closed(Merge(m, names).g)
<1>1. CASE names[1] # names[2] /\ {names[1], names[2]} \subseteq DOMAIN m.g.ent
  <2> DEFINE h == Merge(m, names).g
  <2>1. /\ DOMAIN h.ent = DOMAIN m.g.ent \ {names[2]}
        /\ h.rel = {Rewired(r, names[1], names[2]) : r \in m.g.rel}
    BY <1>1, MergeMoves
  <2> HIDE DEF h
  <2> SUFFICES ASSUME NEW q \in h.rel PROVE {q[1], q[2]} \subseteq DOMAIN h.ent
    BY DEF Closed, h
  <2>2. PICK r \in m.g.rel : q = Rewired(r, names[1], names[2])
    BY <2>1
  <2>3. {r[1], r[2]} \subseteq DOMAIN m.g.ent
    BY DEF Closed
  <2>4. q[1] = Moved(r[1], names[1], names[2]) /\ q[2] = Moved(r[2], names[1], names[2])
    BY <2>2 DEF Rewired
  <2> QED BY <1>1, <2>1, <2>3, <2>4 DEF Moved
<1>2. CASE ~(names[1] # names[2] /\ {names[1], names[2]} \subseteq DOMAIN m.g.ent)
  BY <1>2, MergeSkips
<1> QED BY <1>1, <1>2

\* A name that is not given up keeps what it has.
LEMMA MergeKeepsName ==
  ASSUME NEW m \in Merging, NEW names \in Names \X Names, NEW n, NEW obs,
         n \in DOMAIN m.g.ent, obs \subseteq m.g.ent[n].obs, n # names[2]
  PROVE  n \in DOMAIN Merge(m, names).g.ent /\ obs \subseteq Merge(m, names).g.ent[n].obs
<1>1. CASE names[1] # names[2] /\ {names[1], names[2]} \subseteq DOMAIN m.g.ent
  <2>1. CASE n = names[1]
    BY <1>1, <2>1, MergeMoves
  <2>2. CASE n # names[1]
    BY <1>1, <2>2, MergeMoves
  <2> QED BY <2>1, <2>2
<1>2. CASE ~(names[1] # names[2] /\ {names[1], names[2]} \subseteq DOMAIN m.g.ent)
  BY <1>2, MergeSkips
<1> QED BY <1>1, <1>2

\* Giving up a name without relations moves none.
LEMMA MergeMovesNothing ==
  ASSUME NEW m \in Merging, NEW names \in Names \X Names, m.pairs = {},
         \A r \in m.g.rel : names[2] \notin {r[1], r[2]}
  PROVE  Merge(m, names).g.rel = m.g.rel /\ Merge(m, names).pairs = {}
<1>1. CASE names[1] # names[2] /\ {names[1], names[2]} \subseteq DOMAIN m.g.ent
  <2>1. m.g.rel \in SUBSET Relations
    BY LoadedParts DEF Merging
  <2>2. ASSUME NEW r \in m.g.rel PROVE Rewired(r, names[1], names[2]) = r
    <3>1. r[1] # names[2] /\ r[2] # names[2] /\ r = <<r[1], r[2], r[3]>>
      BY <2>1 DEF Relations
    <3> QED BY <3>1 DEF Rewired, Moved
  <2>3. RewiredPairs(m.g.rel, names[1], names[2]) = {}
    BY DEF RewiredPairs
  <2>4. {Rewired(r, names[1], names[2]) : r \in m.g.rel} = m.g.rel
    BY <2>2
  <2>5. /\ Merge(m, names).g.rel = {Rewired(r, names[1], names[2]) : r \in m.g.rel}
        /\ Merge(m, names).pairs = m.pairs \cup RewiredPairs(m.g.rel, names[1], names[2])
    BY <1>1, MergeMoves
  <2> QED BY <2>3, <2>4, <2>5
<1>2. CASE ~(names[1] # names[2] /\ {names[1], names[2]} \subseteq DOMAIN m.g.ent)
  BY <1>2, MergeSkips
<1> QED BY <1>1, <1>2

\* All merges of a plan, and the self-references that go with them.
LEMMA MergesKeep ==
  ASSUME NEW g \in Loaded, NEW merges \in Seq(Names \X Names)
  PROVE  LET h == MergeEntities(g, merges)
             given == {merges[i][2] : i \in DOMAIN merges}
         IN  /\ h \in Loaded
             /\ Holds(g, h)
             /\ Closed(g) => Closed(h)
             /\ \A n \in DOMAIN g.ent \ given :
                  n \in DOMAIN h.ent /\ g.ent[n].obs \subseteq h.ent[n].obs
             /\ (\A r \in g.rel : {r[1], r[2]} \cap given = {}) => h.rel = g.rel
<1> DEFINE m == Merges(g, merges)[Len(merges)]
           h == MergeEntities(g, merges)
           given == {merges[i][2] : i \in DOMAIN merges}
           init == [g |-> g, pairs |-> {}]
<1>0. /\ Len(merges) \in Nat /\ DOMAIN merges = 1..Len(merges)
      /\ \A i \in 1..Len(merges) : merges[i] \in Names \X Names
  OBVIOUS
<1>1. init \in Merging /\ m \in Merging
  BY MergesType
<1>2. Holds(g, m.g)
  <2> DEFINE S == {x \in Merging : Holds(g, x.g)}
  <2>1. init \in S
    BY <1>1 DEF Holds
  <2>2. \A x \in S : \A i \in 1..Len(merges) : Merge(x, merges[i]) \in S
    BY <1>0, MergeType, MergeHolds
  <2> HIDE DEF S
  <2>3. m \in S
    BY <1>0, <2>1, <2>2, MergesStayIn
  <2> QED BY <2>3 DEF S
<1>3. ASSUME Closed(g) PROVE Closed(m.g)
  <2> DEFINE S == {x \in Merging : Closed(x.g)}
  <2>1. init \in S
    BY <1>1, <1>3
  <2>2. \A x \in S : \A i \in 1..Len(merges) : Merge(x, merges[i]) \in S
    BY <1>0, MergeType, MergeCloses
  <2> HIDE DEF S
  <2>3. m \in S
    BY <1>0, <2>1, <2>2, MergesStayIn
  <2> QED BY <2>3 DEF S
<1>4. ASSUME NEW n \in DOMAIN g.ent \ given
      PROVE  n \in DOMAIN m.g.ent /\ g.ent[n].obs \subseteq m.g.ent[n].obs
  <2> DEFINE S == {x \in Merging : n \in DOMAIN x.g.ent /\ g.ent[n].obs \subseteq x.g.ent[n].obs}
  <2>1. init \in S
    BY <1>1
  <2>2. \A x \in S : \A i \in 1..Len(merges) : Merge(x, merges[i]) \in S
    <3>1. \A i \in 1..Len(merges) : n # merges[i][2]
      BY <1>0
    <3> QED BY <1>0, <3>1, MergeType, MergeKeepsName
  <2> HIDE DEF S
  <2>3. m \in S
    BY <1>0, <2>1, <2>2, MergesStayIn
  <2> QED BY <2>3 DEF S
<1>5. ASSUME \A r \in g.rel : {r[1], r[2]} \cap given = {}
      PROVE  m.g.rel = g.rel /\ m.pairs = {}
  <2> DEFINE S == {x \in Merging : x.g.rel = g.rel /\ x.pairs = {}}
  <2>1. init \in S
    BY <1>1
  <2>2. \A x \in S : \A i \in 1..Len(merges) : Merge(x, merges[i]) \in S
    <3>1. \A r \in g.rel : \A i \in 1..Len(merges) : merges[i][2] \notin {r[1], r[2]}
      BY <1>0, <1>5
    <3> QED BY <1>0, <3>1, MergeType, MergeMovesNothing
  <2> HIDE DEF S
  <2>3. m \in S
    BY <1>0, <2>1, <2>2, MergesStayIn
  <2> QED BY <2>3 DEF S
<1> DEFINE rel == {r \in m.g.rel : ~(r[1] = r[2] /\ <<r[1], r[2]>> \in m.pairs)}
<1>6. m.g \in Loaded
  BY <1>1 DEF Merging
<1> HIDE DEF m
<1>7. h = [ent |-> m.g.ent, rel |-> rel]
  <2>1. h = [m.g EXCEPT !.rel = rel]
    BY DEF MergeEntities, m
  <2> QED BY <1>6, <2>1, LoadedParts
<1>8. h \in Loaded
  <2>1. rel \in SUBSET Relations
    BY <1>6, LoadedParts
  <2> HIDE DEF rel
  <2>2. DOMAIN m.g.ent \in SUBSET Names /\ m.g.ent \in [DOMAIN m.g.ent -> Info]
    BY <1>6, LoadedParts
  <2>3. [ent |-> m.g.ent, rel |-> rel] \in Loaded
    BY <2>1, <2>2, LoadedGraph
  <2> QED BY <1>7, <2>3
<1>9. Holds(g, h)
  BY <1>2, <1>7 DEF Holds
<1>10. Closed(g) => Closed(h)
  BY <1>3, <1>7 DEF Closed
<1>11. ASSUME \A r \in g.rel : {r[1], r[2]} \cap given = {}
       PROVE  h.rel = g.rel
  <2>1. m.g.rel = g.rel /\ m.pairs = {}
    BY <1>5, <1>11
  <2>2. rel = g.rel
    BY <2>1
  <2> QED BY <1>7, <2>2
<1>12. \A n \in DOMAIN g.ent \ given : n \in DOMAIN h.ent /\ g.ent[n].obs \subseteq h.ent[n].obs
  BY <1>4, <1>7
<1> HIDE DEF h, given
<1>13. /\ h \in Loaded
       /\ Holds(g, h)
       /\ Closed(g) => Closed(h)
       /\ \A n \in DOMAIN g.ent \ given :
            n \in DOMAIN h.ent /\ g.ent[n].obs \subseteq h.ent[n].obs
       /\ (\A r \in g.rel : {r[1], r[2]} \cap given = {}) => h.rel = g.rel
  BY <1>8, <1>9, <1>10, <1>11, <1>12
<1> QED BY <1>13 DEF h, given

-----------------------------------------------------------------------------
(* What a whole plan keeps.                                                *)

\* New entities join those that are there.
LEMMA AdditionsKeep ==
  ASSUME NEW g \in Loaded, NEW p \in Plan
  PROVE  LET h == AddEntities(g, p.adds)
         IN  /\ h \in Loaded /\ h.rel = g.rel /\ DOMAIN g.ent \subseteq DOMAIN h.ent
             /\ \A n \in DOMAIN g.ent : h.ent[n] = g.ent[n]
<1> DEFINE new == {e \in p.adds : e.name \notin DOMAIN g.ent}
           Entry(n) == CHOOSE e \in new : e.name = n
           S == DOMAIN g.ent \cup {e.name : e \in new}
           E == [n \in S |-> IF n \in DOMAIN g.ent THEN g.ent[n]
                             ELSE [kind |-> Entry(n).kind, obs |-> Entry(n).obs]]
<1>0. p.adds \subseteq [name : Names, kind : Kinds, obs : SUBSET Contents]
  BY DEF Plan
<1>1. AddEntities(g, p.adds) = [ent |-> E, rel |-> g.rel]
  BY LoadedParts DEF AddEntities
<1>2. S \in SUBSET Names
  BY <1>0, LoadedParts
<1>3. ASSUME NEW n \in S PROVE E[n] \in Info
  <2>1. CASE n \in DOMAIN g.ent
    BY <2>1, LoadedParts
  <2>2. CASE n \notin DOMAIN g.ent
    <3>1. \E e \in new : e.name = n
      BY <2>2
    <3> HIDE DEF new
    <3>2. Entry(n) \in new
      BY <3>1
    <3>3. Entry(n) \in [name : Names, kind : Kinds, obs : SUBSET Contents]
      BY <1>0, <3>2 DEF new
    <3> HIDE DEF Entry
    <3> QED BY <2>2, <3>3 DEF Info
  <2> QED BY <2>1, <2>2
<1>4. E \in [S -> Info]
  BY <1>3
<1>5. \A n \in DOMAIN g.ent : n \in S /\ E[n] = g.ent[n]
  OBVIOUS
<1> HIDE DEF S, E
<1>6. [ent |-> E, rel |-> g.rel] \in Loaded
  BY <1>2, <1>4, LoadedParts, LoadedGraph
<1> QED BY <1>1, <1>4, <1>5, <1>6

\* The end points of a new relation exist.
LEMMA NewRelationsKeep ==
  ASSUME NEW g \in Loaded, NEW p \in Plan
  PROVE  LET h == AddRelations(g, p.rels)
         IN  /\ h \in Loaded /\ h.ent = g.ent /\ g.rel \subseteq h.rel
             /\ Closed(g) => Closed(h)
<1> DEFINE R == g.rel \cup {r \in p.rels : {r[1], r[2]} \subseteq DOMAIN g.ent}
<1>1. AddRelations(g, p.rels) = [ent |-> g.ent, rel |-> R]
  <2>1. AddRelations(g, p.rels) = [g EXCEPT !.rel = R]
    BY DEF AddRelations
  <2> HIDE DEF R
  <2> QED BY <2>1, LoadedParts
<1>2. R \in SUBSET Relations
  BY LoadedParts DEF Plan
<1>3. [ent |-> g.ent, rel |-> R] \in Loaded
  <2> HIDE DEF R
  <2>1. DOMAIN g.ent \in SUBSET Names /\ g.ent \in [DOMAIN g.ent -> Info]
    BY LoadedParts
  <2> QED BY <1>2, <2>1, LoadedGraph
<1> QED BY <1>1, <1>3 DEF Closed

LEMMA PlanKeeps ==
  ASSUME NEW g \in Loaded, NEW p \in Plan
  PROVE  LET h == ApplyMutations(g, p)
         IN  /\ h \in Loaded
             /\ Holds(g, h)
             /\ Closed(g) => Closed(h)
             /\ \A n \in DOMAIN g.ent \ Removed(p) :
                  n \in DOMAIN h.ent /\ g.ent[n].obs \subseteq h.ent[n].obs
             /\ (\A r \in g.rel : {r[1], r[2]} \cap Removed(p) = {}) => g.rel \subseteq h.rel
<1>1. PICK a : a = RenameTypes(g, p.rename)
  OBVIOUS
<1>2. PICK b : b = MergeEntities(a, p.merges)
  OBVIOUS
<1>3. PICK c : c = AddEntities(b, p.adds)
  OBVIOUS
<1>4. PICK h : h = AddRelations(c, p.rels)
  OBVIOUS
<1>5. ApplyMutations(g, p) = h
  BY <1>1, <1>2, <1>3, <1>4 DEF ApplyMutations
<1>6. /\ a \in Loaded /\ a.rel = g.rel /\ DOMAIN a.ent = DOMAIN g.ent
      /\ \A n \in DOMAIN g.ent : a.ent[n].obs = g.ent[n].obs
  BY <1>1, RenameKeeps
<1>7. p.merges \in Seq(Names \X Names) /\ Removed(p) = {p.merges[i][2] : i \in DOMAIN p.merges}
  BY DEF Plan, Removed
<1>8. /\ b \in Loaded
      /\ Holds(a, b)
      /\ Closed(a) => Closed(b)
      /\ \A n \in DOMAIN a.ent \ Removed(p) :
           n \in DOMAIN b.ent /\ a.ent[n].obs \subseteq b.ent[n].obs
      /\ (\A r \in a.rel : {r[1], r[2]} \cap Removed(p) = {}) => b.rel = a.rel
  BY <1>2, <1>6, <1>7, MergesKeep
<1>9. /\ c \in Loaded /\ c.rel = b.rel /\ DOMAIN b.ent \subseteq DOMAIN c.ent
      /\ \A n \in DOMAIN b.ent : c.ent[n] = b.ent[n]
  BY <1>3, <1>8, AdditionsKeep
<1>10. /\ h \in Loaded /\ h.ent = c.ent /\ c.rel \subseteq h.rel
       /\ Closed(c) => Closed(h)
  BY <1>4, <1>9, NewRelationsKeep
<1>11. Holds(g, h)
  BY <1>6, <1>8, <1>9, <1>10 DEF Holds
<1>12. Closed(g) => Closed(h)
  <2>1. Closed(g) => Closed(a)
    BY <1>6 DEF Closed
  <2>2. Closed(b) => Closed(c)
    BY <1>9 DEF Closed
  <2> QED BY <1>8, <1>10, <2>1, <2>2
<1>13. ASSUME NEW n \in DOMAIN g.ent \ Removed(p)
       PROVE  n \in DOMAIN h.ent /\ g.ent[n].obs \subseteq h.ent[n].obs
  BY <1>6, <1>8, <1>9, <1>10
<1>14. ASSUME \A r \in g.rel : {r[1], r[2]} \cap Removed(p) = {}
       PROVE  g.rel \subseteq h.rel
  BY <1>6, <1>8, <1>9, <1>10, <1>14
<1> QED BY <1>5, <1>10, <1>11, <1>12, <1>13, <1>14

-----------------------------------------------------------------------------
(* The transactions.                                                       *)

\* What the transaction of another writer, or of a save, leaves in the database.
Committed ==
    /\ WellFormed(db') /\ Transaction(db, db')
    /\ kind' \in [Names -> Kinds \cup {NoKind}]
    /\ \A n \in Names : kind'[n] = NoKind <=> ~Exists(db', n)

LEMMA CreateEntityCommits ==
  ASSUME TypeOK, NEW n \in Names, NEW cs \in SUBSET Contents, NEW k \in Kinds,
         CreateEntity(n, cs, k)
  PROVE  Committed
<1> USE DEF WellFormed, Graph, Entity, NoEntity, Row, Exists
<1>1. /\ db' = [ent |-> [db.ent EXCEPT ![n] = Row(db.nextId, 0, cs)],
                rel |-> db.rel, nextId |-> db.nextId + 1]
      /\ kind' = [kind EXCEPT ![n] = k] /\ ~Exists(db, n)
  BY DEF CreateEntity, InsertEntity
<1>2. WellFormed(db) /\ kind \in [Names -> Kinds \cup {NoKind}]
      /\ \A m \in Names : kind[m] = NoKind <=> ~Exists(db, m)
  BY DEF TypeOK
<1>3. WellFormed(db')
  BY <1>1, <1>2
<1>4. Transaction(db, db')
  BY <1>1, <1>2 DEF Transaction, RevisionTracksContent, IdsAreFresh, NoRelationOutlives, SameRow
<1>5. kind' \in [Names -> Kinds \cup {NoKind}]
  BY <1>1, <1>2
<1>6. \A m \in Names : kind'[m] = NoKind <=> ~Exists(db', m)
  BY <1>1, <1>2, KindsAssumption DEF NoKind
<1> QED BY <1>3, <1>4, <1>5, <1>6 DEF Committed

LEMMA DropEntityCommits ==
  ASSUME TypeOK, NEW n \in Names, DropEntity(n)
  PROVE  Committed
<1> USE DEF WellFormed, Graph, Entity, NoEntity, Row, Exists
<1>1. /\ db' = [ent |-> [db.ent EXCEPT ![n] = NoEntity],
                rel |-> {r \in db.rel : ~Touches(r, n)}, nextId |-> db.nextId]
      /\ kind' = [kind EXCEPT ![n] = NoKind]
  BY DEF DropEntity, DeleteEntity, DeleteRelationsOf, WithRow, WithRelations
<1>2. WellFormed(db) /\ kind \in [Names -> Kinds \cup {NoKind}]
      /\ \A m \in Names : kind[m] = NoKind <=> ~Exists(db, m)
  BY DEF TypeOK
<1>3. WellFormed(db')
  BY <1>1, <1>2
<1>4. Transaction(db, db')
  BY <1>1, <1>2 DEF Transaction, RevisionTracksContent, IdsAreFresh, NoRelationOutlives, SameRow
<1>5. /\ kind' \in [Names -> Kinds \cup {NoKind}]
      /\ \A m \in Names : kind'[m] = NoKind <=> ~Exists(db', m)
  BY <1>1, <1>2
<1> QED BY <1>3, <1>4, <1>5 DEF Committed

\* Observations change under a bump.
LEMMA ObservationsCommit ==
  ASSUME TypeOK, NEW n \in Names, NEW c \in Contents, AddObs(n, c) \/ DropObs(n, c)
  PROVE  Committed
<1> USE DEF WellFormed, Graph, Entity, NoEntity, Row, Exists
<1>1. WellFormed(db) /\ kind \in [Names -> Kinds \cup {NoKind}]
      /\ \A m \in Names : kind[m] = NoKind <=> ~Exists(db, m)
  BY DEF TypeOK
<1>2. PICK obs \in SUBSET Contents :
        /\ db' = [ent |-> [db.ent EXCEPT ![n] = Row(db.ent[n].id, db.ent[n].rev + 1, obs)],
                  rel |-> db.rel, nextId |-> db.nextId]
        /\ Exists(db, n) /\ kind' = kind
  <2>1. CASE AddObs(n, c)
    <3>1. db.ent[n].obs \cup {c} \in SUBSET Contents
      BY <1>1
    <3>2. db' = InsertObs(Bump(db, n), n, {c}) /\ Exists(db, n) /\ kind' = kind
      BY <2>1 DEF AddObs
    <3> QED BY <1>1, <3>1, <3>2 DEF InsertObs, Bump, WithRow
  <2>2. CASE DropObs(n, c)
    <3>1. db.ent[n].obs \ {c} \in SUBSET Contents
      BY <1>1
    <3>2. db' = DeleteObs(Bump(db, n), n, {c}) /\ Exists(db, n) /\ kind' = kind
      BY <2>2 DEF DropObs
    <3> QED BY <1>1, <3>1, <3>2 DEF DeleteObs, Bump, WithRow
  <2> QED BY <2>1, <2>2
<1>3. WellFormed(db')
  BY <1>1, <1>2
<1>4. Transaction(db, db')
  BY <1>1, <1>2 DEF Transaction, RevisionTracksContent, IdsAreFresh, NoRelationOutlives, SameRow
<1>5. /\ kind' \in [Names -> Kinds \cup {NoKind}]
      /\ \A m \in Names : kind'[m] = NoKind <=> ~Exists(db', m)
  BY <1>1, <1>2
<1> QED BY <1>3, <1>4, <1>5 DEF Committed

LEMMA ChangeRelationCommits ==
  ASSUME TypeOK, NEW r \in Relations, ChangeRelation(r)
  PROVE  Committed
<1> USE DEF WellFormed, Graph, Entity, Exists
<1>1. WellFormed(db) /\ kind \in [Names -> Kinds \cup {NoKind}]
      /\ \A m \in Names : kind[m] = NoKind <=> ~Exists(db, m)
  BY DEF TypeOK
<1>2. PICK rel \in SUBSET Relations :
        db' = [ent |-> db.ent, rel |-> rel, nextId |-> db.nextId] /\ kind' = kind
  BY <1>1 DEF ChangeRelation, InsertRelations, DeleteRelations, WithRelations
<1>3. WellFormed(db')
  BY <1>1, <1>2
<1>4. Transaction(db, db')
  BY <1>1, <1>2 DEF Transaction, RevisionTracksContent, IdsAreFresh, NoRelationOutlives, SameRow
<1> QED BY <1>1, <1>2, <1>3, <1>4 DEF Committed

LEMMA OthersCommit ==
  ASSUME TypeOK, OtherWrites
  PROVE  Committed
BY CreateEntityCommits, DropEntityCommits, ObservationsCommit, ChangeRelationCommits DEF OtherWrites

-----------------------------------------------------------------------------
(* The save.                                                               *)

\* The names it inserts.
Fresh(d) == {n \in DOMAIN Desired(d).ent : ~Exists(db, n)}

LEMMA DesiredIsLoaded ==
  ASSUME TypeOK, NEW d \in Dreamers
  PROVE  /\ observed[d] \in Loaded /\ plan[d] \in Plan
         /\ Desired(d) \in Loaded
         /\ DOMAIN Desired(d).ent \in SUBSET Names
         /\ \A n \in DOMAIN Desired(d).ent : Desired(d).ent[n] \in Info
         /\ Desired(d).rel \in SUBSET Relations
<1>1. observed[d] \in Loaded /\ plan[d] \in Plan
  BY DEF TypeOK
<1>2. Desired(d) \in Loaded
  BY <1>1, PlanKeeps DEF Desired
<1> QED BY <1>1, <1>2, LoadedParts

\* What it makes of a row: the same id, and a new revision for a change.
LEMMA SavedRowChanges ==
  ASSUME TypeOK, NEW d \in Dreamers, NEW n \in DOMAIN Desired(d).ent
  PROVE  LET row == SavedRow(d, n)
         IN  /\ row \in Entity
             /\ row.id = db.ent[n].id
             /\ row.rev >= db.ent[n].rev
             /\ row.obs # db.ent[n].obs => row.rev > db.ent[n].rev
             /\ Desired(d).ent[n].obs \subseteq row.obs
             /\ db.ent[n].obs \ row.obs \subseteq Deletable(d, n) \ Desired(d).ent[n].obs
<1> DEFINE wanted == Desired(d).ent[n].obs
           obs == (db.ent[n].obs \cup wanted) \ (Deletable(d, n) \ wanted)
<1>1. db.ent[n] \in Entity /\ wanted \in SUBSET Contents
  BY DesiredIsLoaded DEF TypeOK, WellFormed, Graph, Info
<1>2. PICK k \in {0, 1}, o \in {0, 1} :
        /\ SavedRow(d, n) = Row(db.ent[n].id, db.ent[n].rev + k + o, obs)
        /\ o = IF obs # db.ent[n].obs THEN 1 ELSE 0
  BY DEF SavedRow
<1>3. obs \in SUBSET Contents
  BY <1>1 DEF Entity
<1>4. wanted \subseteq obs /\ db.ent[n].obs \ obs \subseteq Deletable(d, n) \ wanted
  OBVIOUS
<1> HIDE DEF obs, wanted
<1>5. Row(db.ent[n].id, db.ent[n].rev + k + o, obs) \in Entity
  BY <1>1, <1>3 DEF Row, Entity
<1>6. db.ent[n].rev \in Nat
  BY <1>1 DEF Entity
<1> QED BY <1>2, <1>4, <1>5, <1>6 DEF Row, wanted

LEMMA NewRowIsRow ==
  ASSUME TypeOK, NEW d \in Dreamers, NEW n \in DOMAIN Desired(d).ent, NEW id \in Nat
  PROVE  /\ NewRow(d, n, id) \in Entity /\ NewRow(d, n, id).id = id
         /\ NewRow(d, n, id).obs = Desired(d).ent[n].obs
BY DesiredIsLoaded DEF NewRow, Row, Entity, Info

\* The save, row by row.
LEMMA SaveRows ==
  ASSUME TypeOK, NEW d \in Dreamers, Save(d)
  PROVE  /\ db' = [ent |-> db'.ent, rel |-> db'.rel, nextId |-> db'.nextId]
         /\ db'.nextId \in Nat /\ db'.nextId >= db.nextId
         /\ db'.rel = (db.rel \cup Desired(d).rel) \ (observed[d].rel \ Desired(d).rel)
         /\ db'.ent \in [Names -> Entity]
         /\ \A n \in Fresh(d) :
              /\ db'.ent[n].id \in db.nextId..(db'.nextId - 1)
              /\ db'.ent[n].obs = Desired(d).ent[n].obs
         /\ \A m, n \in Fresh(d) : db'.ent[m].id = db'.ent[n].id => m = n
         /\ \A n \in DOMAIN Desired(d).ent \ Fresh(d) : db'.ent[n] = SavedRow(d, n)
         /\ \A n \in Names \ DOMAIN Desired(d).ent : db'.ent[n] = db.ent[n]
<1> DEFINE g == Desired(d)
           new == Fresh(d)
           next == db.nextId + Cardinality(new)
<1>1. PICK id \in [new -> db.nextId..(next - 1)] :
        /\ \A m, n \in new : id[m] = id[n] => m = n
        /\ db' = [ent |-> [n \in Names |->
                             IF n \in new THEN NewRow(d, n, id[n])
                             ELSE IF n \in DOMAIN g.ent THEN SavedRow(d, n)
                             ELSE db.ent[n]],
                  rel |-> (db.rel \cup g.rel) \ (observed[d].rel \ g.rel),
                  nextId |-> next]
  BY DEF Save, Fresh
<1>2. new \subseteq DOMAIN g.ent /\ DOMAIN g.ent \subseteq Names
  BY DesiredIsLoaded DEF Fresh
<1>3. Cardinality(new) \in Nat
  <2>1. IsFiniteSet(new)
    BY <1>2, NamesAssumption, FS_Subset
  <2> QED BY <2>1, FS_CardinalityType
<1>4. db.nextId \in Nat /\ db.nextId # 0 /\ \A n \in Names : db.ent[n] \in Entity
  BY DEF TypeOK, WellFormed, Graph
<1> HIDE DEF g, new
<1>5. next \in Nat /\ next >= db.nextId
  BY <1>3, <1>4
<1> HIDE DEF next
<1>6. /\ db'.nextId = next /\ db'.rel = (db.rel \cup g.rel) \ (observed[d].rel \ g.rel)
      /\ db' = [ent |-> db'.ent, rel |-> db'.rel, nextId |-> db'.nextId]
      /\ db'.ent = [n \in Names |-> IF n \in new THEN NewRow(d, n, id[n])
                                    ELSE IF n \in DOMAIN g.ent THEN SavedRow(d, n)
                                    ELSE db.ent[n]]
  BY <1>1
<1>7. ASSUME NEW n \in new
      PROVE  /\ id[n] \in Nat /\ id[n] \in db.nextId..(next - 1)
             /\ db'.ent[n] = NewRow(d, n, id[n])
             /\ db'.ent[n] \in Entity /\ db'.ent[n].id = id[n]
             /\ db'.ent[n].obs = g.ent[n].obs
  <2>1. id[n] \in db.nextId..(next - 1)
    BY <1>1
  <2>2. id[n] \in Nat
    BY <1>4, <1>5, <2>1
  <2>3. db'.ent[n] = NewRow(d, n, id[n])
    BY <1>2, <1>6
  <2> QED BY <1>2, <2>1, <2>2, <2>3, NewRowIsRow DEF g
<1>8. ASSUME NEW n \in DOMAIN g.ent \ new
      PROVE  db'.ent[n] = SavedRow(d, n) /\ db'.ent[n] \in Entity
  BY <1>2, <1>6, SavedRowChanges DEF g
<1>9. ASSUME NEW n \in Names \ DOMAIN g.ent
      PROVE  db'.ent[n] = db.ent[n] /\ db'.ent[n] \in Entity
  BY <1>2, <1>4, <1>6
<1>10. db'.ent \in [Names -> Entity]
  <2>1. \A n \in Names : db'.ent[n] \in Entity
    BY <1>7, <1>8, <1>9
  <2> QED BY <1>6, <2>1
<1>11. ASSUME NEW m \in new, NEW n \in new, db'.ent[m].id = db'.ent[n].id PROVE m = n
  BY <1>1, <1>7, <1>11
<1> QED BY <1>5, <1>6, <1>7, <1>8, <1>9, <1>10, <1>11 DEF g, new

LEMMA SaveCommits ==
  ASSUME TypeOK, NEW d \in Dreamers, Save(d)
  PROVE  Committed
<1> USE DEF Exists
<1>1. /\ WellFormed(db) /\ kind \in [Names -> Kinds \cup {NoKind}]
      /\ \A n \in Names : kind[n] = NoKind <=> ~Exists(db, n)
  BY DEF TypeOK
<1>2. Fresh(d) \subseteq DOMAIN Desired(d).ent /\ DOMAIN Desired(d).ent \subseteq Names
  BY DesiredIsLoaded DEF Fresh
<1>3. ASSUME NEW n \in Names
      PROVE  \/ n \in Fresh(d)
             \/ n \in DOMAIN Desired(d).ent \ Fresh(d)
             \/ n \in Names \ DOMAIN Desired(d).ent
  BY <1>2
<1>4. ASSUME NEW n \in Fresh(d)
      PROVE  ~Exists(db, n) /\ db'.ent[n].id >= db.nextId /\ db'.ent[n].id < db'.nextId /\ db'.ent[n].id # 0
  BY <1>1, <1>2, SaveRows DEF Fresh, WellFormed, Graph
<1>5. ASSUME NEW n \in Names \ Fresh(d)
      PROVE  /\ db'.ent[n].id = db.ent[n].id
             /\ db'.ent[n].rev >= db.ent[n].rev
             /\ db'.ent[n].obs # db.ent[n].obs => db'.ent[n].rev > db.ent[n].rev
             /\ Exists(db, n) \/ db'.ent[n] = db.ent[n]
  <2>1. CASE n \in DOMAIN Desired(d).ent
    <3>1. db'.ent[n] = SavedRow(d, n) /\ Exists(db, n)
      BY <2>1, SaveRows DEF Fresh
    <3> QED BY <2>1, <3>1, SavedRowChanges
  <2>2. CASE n \notin DOMAIN Desired(d).ent
    <3>1. db'.ent[n] = db.ent[n] /\ db.ent[n].rev \in Nat
      BY <1>1, <2>2, SaveRows DEF WellFormed, Graph, Entity
    <3> QED BY <3>1
  <2> QED BY <2>1, <2>2
<1>6. WellFormed(db')
  <2>1. db' \in Graph
    <3>1. db'.rel \in SUBSET Relations
      BY <1>1, SaveRows, DesiredIsLoaded DEF WellFormed, Graph
    <3> QED BY <3>1, SaveRows DEF Graph
  <2>2. db'.nextId # 0
    BY <1>1, SaveRows DEF WellFormed, Graph
  <2>3. ASSUME NEW n \in Names
        PROVE  db'.ent[n].id < db'.nextId /\ (Exists(db', n) \/ db'.ent[n] = NoEntity)
    <3>1. CASE n \in Fresh(d)
      BY <1>4, <3>1
    <3>2. CASE n \notin Fresh(d)
      BY <1>1, <1>5, <3>2, SaveRows DEF WellFormed, Graph, Entity
    <3> QED BY <3>1, <3>2
  <2>4. ASSUME NEW m \in Names, NEW n \in Names, Exists(db', m), db'.ent[m].id = db'.ent[n].id
        PROVE  m = n
    <3>1. CASE m \in Fresh(d) /\ n \in Fresh(d)
      BY <2>4, <3>1, SaveRows
    <3>2. CASE m \notin Fresh(d) /\ n \notin Fresh(d)
      BY <1>1, <1>5, <2>4, <3>2 DEF WellFormed
    <3>3. ASSUME NEW f \in Fresh(d), NEW o \in Names \ Fresh(d), db'.ent[f].id = db'.ent[o].id
          PROVE  FALSE
      <4>1. db.ent[o].id \in Nat /\ db.nextId \in Nat /\ db.ent[o].id < db.nextId
        BY <1>1 DEF WellFormed, Graph, Entity
      <4> QED BY <1>4, <1>5, <3>3, <4>1
    <3> QED BY <2>4, <3>1, <3>2, <3>3
  <2> QED BY <2>1, <2>2, <2>3, <2>4 DEF WellFormed
<1>7. Transaction(db, db')
  <2>1. RevisionTracksContent(db, db')
    BY <1>4, <1>5 DEF RevisionTracksContent, SameRow
  <2>2. IdsAreFresh(db, db')
    BY <1>4, <1>5, SaveRows DEF IdsAreFresh
  <2>3. NoRelationOutlives(db, db')
    BY <1>4, <1>5 DEF NoRelationOutlives
  <2> QED BY <2>1, <2>2, <2>3 DEF Transaction
<1>8. kind' = [n \in Names |->
                 IF n \in Fresh(d) \/ (n \in DOMAIN Desired(d).ent /\ OverwritesType(d, n))
                 THEN Desired(d).ent[n].kind ELSE kind[n]]
  BY DEF Save, Fresh
<1>9. ASSUME NEW n \in Names
      PROVE  kind'[n] \in Kinds \cup {NoKind} /\ (kind'[n] = NoKind <=> ~Exists(db', n))
  <2>1. CASE n \in Fresh(d)
    <3>1. kind'[n] \in Kinds
      BY <1>2, <1>8, <2>1, DesiredIsLoaded DEF Info
    <3> QED BY <1>4, <2>1, <3>1, KindsAssumption DEF NoKind
  <2>2. CASE n \notin Fresh(d) /\ n \in DOMAIN Desired(d).ent /\ OverwritesType(d, n)
    <3>1. kind'[n] \in Kinds
      BY <1>8, <2>2, DesiredIsLoaded DEF Info
    <3>2. Exists(db, n)
      BY <2>2 DEF Fresh
    <3> QED BY <1>5, <2>2, <3>1, <3>2, KindsAssumption DEF NoKind
  <2>3. CASE n \notin Fresh(d) /\ ~(n \in DOMAIN Desired(d).ent /\ OverwritesType(d, n))
    <3>1. kind'[n] = kind[n]
      BY <1>8, <2>3
    <3> QED BY <1>1, <1>5, <2>3, <3>1
  <2> QED BY <2>1, <2>2, <2>3
<1> QED BY <1>6, <1>7, <1>8, <1>9 DEF Committed

-----------------------------------------------------------------------------
(* Types, and with them the schema's constraints.                          *)

LEMMA NothingIsTyped == NoPlan \in Plan /\ NothingLoaded \in Loaded
<1>1. <<>> \in [{} -> Kinds] /\ <<>> \in [{} -> Info]
  OBVIOUS
<1>2. <<>> \in UNION {[S -> Kinds] : S \in SUBSET Names}
  BY <1>1
<1>3. <<>> \in Seq(Names \X Names)
  OBVIOUS
<1>4. NoPlan \in Plan
  BY <1>2, <1>3 DEF NoPlan, Plan
<1> QED BY <1>1, <1>4, LoadedGraph DEF NothingLoaded

LEMMA InitTyped == Init => TypeOK
<1> SUFFICES ASSUME Init PROVE TypeOK
  OBVIOUS
<1>1. /\ WellFormed(db)
      /\ kind \in [Names -> Kinds \cup {NoKind}]
      /\ \A n \in Names : kind[n] = NoKind <=> ~Exists(db, n)
      /\ pc \in [Dreamers -> {"idle", "relations", "save"}]
  BY DatabasesAssumption DEF Init
<1>2. writes \in 0..MaxWrites /\ loads \in 0..MaxLoads
  BY DreamerBounds DEF Init
<1>3. plan \in [Dreamers -> Plan] /\ observed \in [Dreamers -> Loaded]
  BY NothingIsTyped DEF Init
<1> QED BY <1>1, <1>2, <1>3 DEF TypeOK

LEMMA LoadEntitiesTyped ==
  ASSUME TypeOK, NEW d \in Dreamers, LoadEntities(d)
  PROVE  TypeOK'
<1> DEFINE S == {m \in Names : Exists(db, m)}
           E == [n \in S |-> [kind |-> kind[n], obs |-> db.ent[n].obs]]
<1>1. E \in [S -> Info]
  <2>1. ASSUME NEW n \in S PROVE E[n] \in Info
    <3>1. kind[n] \in Kinds
      BY DEF TypeOK
    <3>2. db.ent[n].obs \in SUBSET Contents
      BY DEF TypeOK, WellFormed, Graph, Entity
    <3> QED BY <3>1, <3>2 DEF Info
  <2> QED BY <2>1
<1>2. observed[d] \in Loaded /\ observed[d].rel \in SUBSET Relations
      /\ observed[d] = [ent |-> observed[d].ent, rel |-> observed[d].rel]
  BY LoadedParts DEF TypeOK
<1>3. observed' = [observed EXCEPT ![d].ent = E]
  BY DEF LoadEntities
<1> HIDE DEF E
<1>4. [ent |-> E, rel |-> observed[d].rel] \in Loaded
  BY <1>1, <1>2, LoadedGraph
<1>5. observed' = [observed EXCEPT ![d] = [ent |-> E, rel |-> observed[d].rel]]
  <2>1. [observed[d] EXCEPT !.ent = E] = [ent |-> E, rel |-> observed[d].rel]
    BY <1>2
  <2> QED BY <1>3, <2>1 DEF TypeOK
<1>6. observed' \in [Dreamers -> Loaded]
  BY <1>4, <1>5 DEF TypeOK
<1>7. plan' \in [Dreamers -> Plan]
  BY PlansAssumption DEF TypeOK, LoadEntities
<1>8. loads' \in 0..MaxLoads /\ pc' \in [Dreamers -> {"idle", "relations", "save"}]
  BY DreamerBounds DEF TypeOK, LoadEntities
<1> QED BY <1>6, <1>7, <1>8 DEF TypeOK, LoadEntities

LEMMA LoadRelationsTyped ==
  ASSUME TypeOK, NEW d \in Dreamers, LoadRelations(d)
  PROVE  TypeOK'
<1>1. /\ DOMAIN observed[d].ent \in SUBSET Names
      /\ observed[d].ent \in [DOMAIN observed[d].ent -> Info]
      /\ observed[d] = [ent |-> observed[d].ent, rel |-> observed[d].rel]
  BY LoadedParts DEF TypeOK
<1>2. db.rel \in SUBSET Relations
  BY DEF TypeOK, WellFormed, Graph
<1>3. [ent |-> observed[d].ent, rel |-> db.rel] \in Loaded
  BY <1>1, <1>2, LoadedGraph
<1>4. observed' = [observed EXCEPT ![d] = [ent |-> observed[d].ent, rel |-> db.rel]]
  <2>1. [observed[d] EXCEPT !.rel = db.rel] = [ent |-> observed[d].ent, rel |-> db.rel]
    BY <1>1
  <2> QED BY <2>1 DEF TypeOK, LoadRelations
<1>5. observed' \in [Dreamers -> Loaded]
  BY <1>3, <1>4 DEF TypeOK
<1>6. pc' \in [Dreamers -> {"idle", "relations", "save"}]
  BY DEF TypeOK, LoadRelations
<1> QED BY <1>5, <1>6 DEF TypeOK, LoadRelations

LEMMA FinishTyped ==
  ASSUME TypeOK, NEW d \in Dreamers, Finish(d), Committed \/ UNCHANGED <<db, kind>>
  PROVE  TypeOK'
<1>1. /\ WellFormed(db')
      /\ kind' \in [Names -> Kinds \cup {NoKind}]
      /\ \A n \in Names : kind'[n] = NoKind <=> ~Exists(db', n)
  BY DEF TypeOK, Committed
<1>2. plan' \in [Dreamers -> Plan] /\ observed' \in [Dreamers -> Loaded]
  BY NothingIsTyped DEF TypeOK, Finish
<1>3. /\ pc' \in [Dreamers -> {"idle", "relations", "save"}]
      /\ writes' \in 0..MaxWrites /\ loads' \in 0..MaxLoads
  BY DEF TypeOK, Finish
<1> QED BY <1>1, <1>2, <1>3 DEF TypeOK

LEMMA NextTyped == TypeOK /\ [Next]_vars => TypeOK'
<1> SUFFICES ASSUME TypeOK, [Next]_vars PROVE TypeOK'
  OBVIOUS
<1>1. CASE OtherWrites
  <2>1. Committed
    BY <1>1, OthersCommit
  <2>2. writes' \in 0..MaxWrites
    BY <1>1, DreamerBounds DEF TypeOK, OtherWrites
  <2> QED BY <1>1, <2>1, <2>2 DEF TypeOK, OtherWrites, Committed
<1>2. ASSUME NEW d \in Dreamers, LoadEntities(d) PROVE TypeOK'
  BY <1>2, LoadEntitiesTyped
<1>3. ASSUME NEW d \in Dreamers, LoadRelations(d) PROVE TypeOK'
  BY <1>3, LoadRelationsTyped
<1>4. ASSUME NEW d \in Dreamers, Save(d) PROVE TypeOK'
  <2>1. Finish(d)
    BY <1>4 DEF Save
  <2> QED BY <1>4, <2>1, SaveCommits, FinishTyped
<1>5. ASSUME NEW d \in Dreamers, GiveUp(d) PROVE TypeOK'
  BY <1>5, FinishTyped DEF GiveUp
<1>6. CASE UNCHANGED vars
  BY <1>6 DEF TypeOK, vars
<1> QED BY <1>1, <1>2, <1>3, <1>4, <1>5, <1>6 DEF Next

\* Types, and what the schema's constraints and the two tables owe each other,
\* whatever runs and others commit.
THEOREM TypeCorrect == Spec => []TypeOK
  BY InitTyped, NextTyped, PTL DEF Spec

-----------------------------------------------------------------------------
(* The plan and the save.                                                  *)

\* apply_mutations loses no observation and leaves no relation dangling, for
\* every plan and every graph it may meet.
THEOREM NoPlanLosesAnything == Spec => []PlanLosesNothing
<1>1. TypeOK => PlanLosesNothing
  <2> SUFFICES ASSUME TypeOK, NEW d \in Dreamers
               PROVE  LET o == observed[d]
                          g == Desired(d)
                      IN Holds(o, g) /\ (Closed(o) => Closed(g))
    BY DEF PlanLosesNothing, Holds, Closed
  <2> QED BY DesiredIsLoaded, PlanKeeps DEF Desired
<1> QED BY <1>1, TypeCorrect, PTL

\* A self-reference that a user wrote stays when no merge moves a relation.
THEOREM OwnSelfRelationsKept == Spec => []OwnSelfRelationsStay
<1>1. TypeOK => OwnSelfRelationsStay
  <2> SUFFICES ASSUME TypeOK, NEW d \in Dreamers,
                      {r \in observed[d].rel : {r[1], r[2]} \cap Removed(plan[d]) # {}} = {}
               PROVE  observed[d].rel \subseteq Desired(d).rel
    BY DEF OwnSelfRelationsStay
  <2>1. \A r \in observed[d].rel : {r[1], r[2]} \cap Removed(plan[d]) = {}
    OBVIOUS
  <2> QED BY <2>1, DesiredIsLoaded, PlanKeeps DEF Desired
<1> QED BY <1>1, TypeCorrect, PTL

LEMMA SaveSpares ==
  ASSUME TypeOK, NEW d \in Dreamers, Save(d), NEW n \in Names, Exists(db, n)
  PROVE  /\ db'.ent[n].id = db.ent[n].id
         /\ \A c \in db.ent[n].obs \ db'.ent[n].obs :
              /\ n \in DOMAIN observed[d].ent /\ c \in observed[d].ent[n].obs
              /\ n \in Removed(plan[d])
              /\ \E m \in Names : c \in db'.ent[m].obs
         /\ kind'[n] # kind[n] =>
              n \in DOMAIN observed[d].ent /\ observed[d].ent[n].kind = kind[n]
<1> DEFINE o == observed[d]
           g == Desired(d)
<1>1. /\ DOMAIN g.ent \subseteq Names /\ n \notin Fresh(d)
      /\ n \in DOMAIN g.ent => db'.ent[n] = SavedRow(d, n)
      /\ n \notin DOMAIN g.ent => db'.ent[n] = db.ent[n]
  BY SaveRows, DesiredIsLoaded DEF Fresh
<1>2. db'.ent[n].id = db.ent[n].id
  BY <1>1, SavedRowChanges
<1>3. /\ Holds(o, g)
      /\ \A m \in DOMAIN o.ent \ Removed(plan[d]) :
           m \in DOMAIN g.ent /\ o.ent[m].obs \subseteq g.ent[m].obs
  BY DesiredIsLoaded, PlanKeeps DEF Desired
<1>4. ASSUME NEW m \in DOMAIN g.ent PROVE g.ent[m].obs \subseteq db'.ent[m].obs
  <2>1. CASE m \in Fresh(d)
    BY <2>1, SaveRows
  <2>2. CASE m \notin Fresh(d)
    <3>1. db'.ent[m] = SavedRow(d, m)
      BY <2>2, SaveRows
    <3> QED BY <3>1, SavedRowChanges
  <2> QED BY <2>1, <2>2
<1>5. ASSUME NEW c \in db.ent[n].obs \ db'.ent[n].obs
      PROVE  /\ n \in DOMAIN o.ent /\ c \in o.ent[n].obs
             /\ n \in Removed(plan[d])
             /\ \E m \in Names : c \in db'.ent[m].obs
  <2>1. n \in DOMAIN g.ent /\ c \in Deletable(d, n) \ g.ent[n].obs
    BY <1>1, <1>5, SavedRowChanges
  <2>2. n \in DOMAIN o.ent /\ c \in o.ent[n].obs
    BY <2>1 DEF Deletable
  <2>3. n \in Removed(plan[d])
    BY <1>3, <2>1, <2>2
  <2>4. PICK m \in DOMAIN g.ent : o.ent[n].obs \subseteq g.ent[m].obs
    BY <1>3, <2>2 DEF Holds
  <2>5. c \in db'.ent[m].obs /\ m \in Names
    BY <1>1, <1>4, <2>2, <2>4
  <2> QED BY <2>2, <2>3, <2>5
<1>6. ASSUME kind'[n] # kind[n]
      PROVE  n \in DOMAIN o.ent /\ o.ent[n].kind = kind[n]
  <2>1. OverwritesType(d, n)
    BY <1>1, <1>6 DEF Save, Fresh
  <2> QED BY <2>1 DEF OverwritesType
<1> QED BY <1>2, <1>5, <1>6

\* A save deletes and overwrites nothing that others committed after the load,
\* and no observation it moves goes missing.
THEOREM NothingIsUndone == Spec => OthersWorkSurvives
<1>1. TypeOK /\ [Next]_vars =>
        [\A d \in Dreamers : Save(d) =>
           /\ \A n \in Names : Exists(db, n) =>
                /\ db'.ent[n].id = db.ent[n].id
                /\ \A c \in db.ent[n].obs \ db'.ent[n].obs :
                     /\ n \in DOMAIN observed[d].ent /\ c \in observed[d].ent[n].obs
                     /\ n \in Removed(plan[d])
                     /\ \E m \in Names : c \in db'.ent[m].obs
                /\ kind'[n] # kind[n] =>
                     n \in DOMAIN observed[d].ent /\ observed[d].ent[n].kind = kind[n]
           /\ db.rel \ db'.rel \subseteq observed[d].rel]_vars
  <2> SUFFICES ASSUME TypeOK, NEW d \in Dreamers, Save(d)
               PROVE  db.rel \ db'.rel \subseteq observed[d].rel
    BY SaveSpares
  <2> QED BY SaveRows
<1> QED BY <1>1, TypeCorrect, PTL DEF Spec, OthersWorkSurvives

\* Every transaction, the save's too, is one that KnowledgeGraph allows.
THEOREM Refinement == Spec => ImplementsKnowledgeGraph
<1> USE DEF KG!WellFormed, WellFormed, KG!Graph, Graph, KG!Entity, Entity,
            KG!NoEntity, NoEntity, KG!Row, Row, KG!Relations, Relations,
            KG!Exists, Exists, KG!SameRow, SameRow, KG!Touches, Touches
<1>1. Init => KG!Init
  BY DatabasesAssumption DEF Init, KG!Init
<1>2. TypeOK /\ [Next]_vars => [KG!Next]_<<db, FALSE>>
  <2> SUFFICES ASSUME TypeOK, [Next]_vars, db' # db PROVE KG!Next
    BY DEF KG!Next
  <2>1. OtherWrites \/ \E d \in Dreamers : Save(d)
    BY DEF Next, vars, LoadEntities, LoadRelations, GiveUp
  <2>2. Committed
    BY <2>1, OthersCommit, SaveCommits
  <2>3. WellFormed(db') /\ Transaction(db, db')
    BY <2>2 DEF Committed
  <2>4. /\ KG!RevisionTracksContent(db, db') /\ KG!IdsAreFresh(db, db')
        /\ KG!NoRelationOutlives(db, db')
    BY <2>3 DEF Transaction, RevisionTracksContent,
       KG!RevisionTracksContent, IdsAreFresh, KG!IdsAreFresh,
       NoRelationOutlives, KG!NoRelationOutlives
  <2> QED BY <2>3, <2>4 DEF KG!Next
<1> QED BY <1>1, <1>2, TypeCorrect, PTL DEF Spec, ImplementsKnowledgeGraph, KG!Spec
=============================================================================
