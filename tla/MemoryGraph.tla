----------------------------- MODULE MemoryGraph -----------------------------
(***************************************************************************)
(* The memory MCP servers (src/memory/server.py): several processes, each  *)
(* serving one client over stdio, share one SQLite database in WAL mode.   *)
(* Handlers of one process are serial; statements of different processes   *)
(* interleave.                                                             *)
(*                                                                         *)
(* Python's sqlite3 opens a deferred transaction before the first INSERT,  *)
(* UPDATE or DELETE and ends it only at conn.commit(): a SELECT outside a  *)
(* transaction reads the committed graph of that moment, the first writing *)
(* statement takes the single write lock, and a handler that raises leaves *)
(* the transaction as it is on the connection the next handler will use.   *)
(*                                                                         *)
(* The tools take lists of dicts, so an element may hold what its handler  *)
(* does not expect: it raises in the middle of the batch, and what it had  *)
(* written stays in the transaction, uncommitted.                          *)
(***************************************************************************)
EXTENDS GraphData, Sequences

CONSTANTS
    Servers,    \* server processes
    Batches,    \* the argument lists a client may pass to a write tool
    MaxCalls    \* bound: tool calls in a behaviour

Ops == {"create", "add", "delEntity", "delObs", "createRel", "delRel"}

\* What makes the handler of an element raise, if it gets so far:
\*   name   an entityName that sqlite3 cannot bind (a list, a dict);
\*   value  such an entityType, end of a relation or relationType, or an
\*          expectedRev that does not fit in 64 bits;
\*   texts  observations or contents that are null or a number, or texts to
\*          delete of which one cannot be bound.
Flaws == {"none", "name", "value", "texts"}

\* One element of a tool's argument list that the handler does not skip as
\* incomplete.  cas says whether the element carries the revision its client
\* last read (expectedRev).
Item == [op : Ops, name : Names, contents : SUBSET Contents,
         cas : BOOLEAN, rels : SUBSET Relations, flaw : Flaws]

\* A tool has one kind of element.
ASSUME BatchesAssumption ==
    /\ Batches \subseteq Seq(Item)
    /\ \A b \in Batches : \A i, j \in DOMAIN b : b[i].op = b[j].op
ASSUME NamesAssumption == Names # {}
ASSUME MaxCallsAssumption == MaxCalls \in Nat

VARIABLES
    db,      \* the committed graph
    tx,      \* transaction of each server's connection
    work,    \* what that transaction reads and writes
    pc,      \* where each server's handler stands
    req,     \* the elements the handler has not dealt with
    loc,     \* what the handler has read and will use
    seen,    \* what each client was last shown by open_nodes
    calls,   \* tool calls so far
    (* History variables, which no guard reads. *)
    leftover,   \* does the open transaction hold what a raising handler left?
    shown,      \* what became of the graph that a client was shown
    mixed       \* did the last commit hold such a remainder?

vars == <<db, tx, work, pc, req, loc, seen, calls, leftover, shown, mixed>>

\* none: autocommit.  open: BEGIN was executed, no snapshot yet.  read: the
\* transaction reads a snapshot.  stale: others have committed since.
\* write: it holds the write lock.
TxStates == {"none", "open", "read", "stale", "write"}

\* What a client was shown is committed, is a remainder that may still be
\* committed, or was one and has been rolled back.
Fates == {"committed", "pending", "lost"}

PcStates == {"idle", "item", "existing", "write", "openObs"}

Reading == [name : Names, id : Nat, rev : Nat, new : SUBSET Contents]
Read(n, id, rev, new) == [name |-> n, id |-> id, rev |-> rev, new |-> new]
NoReading == Read(CHOOSE n \in Names : TRUE, 0, 0, {})

TypeOK ==
    /\ WellFormed(db)
    /\ tx \in [Servers -> TxStates]
    /\ work \in [Servers -> Graph]
    /\ \A s \in Servers : WellFormed(work[s])
    /\ pc \in [Servers -> PcStates]
    /\ req \in [Servers -> Seq(Item)]
    /\ loc \in [Servers -> Reading]
    /\ seen \in [Servers -> [Names -> Entity]]
    /\ calls \in 0..MaxCalls
    /\ leftover \in [Servers -> BOOLEAN]
    /\ shown \in [Servers -> [Names -> Fates]]
    /\ mixed \in BOOLEAN

Init ==
    /\ db = EmptyGraph
    /\ tx = [s \in Servers |-> "none"]
    /\ work = [s \in Servers |-> EmptyGraph]
    /\ pc = [s \in Servers |-> "idle"]
    /\ req = [s \in Servers |-> <<>>]
    /\ loc = [s \in Servers |-> NoReading]
    /\ seen = [s \in Servers |-> [n \in Names |-> NoEntity]]
    /\ calls = 0
    /\ leftover = [s \in Servers |-> FALSE]
    /\ shown = [s \in Servers |-> [n \in Names |-> "committed"]]
    /\ mixed = FALSE

-----------------------------------------------------------------------------
(* The connection.                                                         *)

\* The graph a statement of s sees.
View(s) == IF tx[s] \in {"none", "open"} THEN db ELSE work[s]

\* A SELECT in a transaction that was begun but never got the lock pins the
\* snapshot the transaction will read from then on.
Select(s) ==
    /\ tx' = [tx EXCEPT ![s] = IF @ = "open" THEN "read" ELSE @]
    /\ work' = IF tx[s] = "open" THEN [work EXCEPT ![s] = db] ELSE work
    /\ UNCHANGED <<db, mixed>>

LockedByOther(s) == \E t \in Servers \ {s} : tx[t] = "write"

MayWrite(s) == tx[s] = "write" \/ (tx[s] # "stale" /\ ~LockedByOther(s))

\* A writing statement of s that leaves its transaction with the graph g.
Write(s, g) ==
    /\ MayWrite(s)
    /\ tx' = [tx EXCEPT ![s] = "write"]
    /\ work' = [work EXCEPT ![s] = g]
    /\ UNCHANGED <<db, mixed>>

\* A snapshot cannot be upgraded once others have committed, and while one
\* is held SQLite does not wait for a competing writer either.
FailsAtOnce(s) == tx[s] = "stale" \/ (tx[s] = "read" /\ LockedByOther(s))

-----------------------------------------------------------------------------
(* The handlers.                                                           *)

element(s) == Head(req[s])
HasItem(s, ops) == pc[s] = "item" /\ req[s] # <<>> /\ element(s).op \in ops
Flaw(s) == element(s).flaw

\* The handler is at the first statement that writes the element.
AtWrite(s) ==
    \/ pc[s] = "write"
    \/ HasItem(s, {"create", "createRel", "delRel", "delEntity"})

\* It is in the handler of op, and the values of the statement can be bound.
Executes(s, op) == AtWrite(s) /\ element(s).op = op /\ Flaw(s) # "value"

\* The revision the client passes with an element: the one it was shown.
expectedRev(s) == seen[s][element(s).name].rev

NextItem(s) ==
    /\ pc' = [pc EXCEPT ![s] = "item"]
    /\ req' = [req EXCEPT ![s] = Tail(@)]
    /\ loc' = [loc EXCEPT ![s] = NoReading]
    /\ UNCHANGED <<seen, calls, leftover, shown>>

\* The handler ends; the connection keeps its transaction.
Leave(s) ==
    /\ pc' = [pc EXCEPT ![s] = "idle"]
    /\ req' = [req EXCEPT ![s] = <<>>]
    /\ loc' = [loc EXCEPT ![s] = NoReading]
    /\ UNCHANGED <<seen, calls>>

\* SQLite refuses a statement, for a lock or for the foreign key.
Fails(s) == Leave(s) /\ UNCHANGED <<leftover, shown>>

\* The element is flawed: nothing is rolled back, whatever was written.
Raises(s) ==
    /\ Leave(s)
    /\ leftover' = [leftover EXCEPT ![s] = (tx'[s] = "write")]
    /\ UNCHANGED shown

\* A client calls a write tool.  It can pass a revision only for a name it
\* has been shown.
Call(s) ==
    /\ pc[s] = "idle"
    /\ calls < MaxCalls
    /\ \E b \in Batches :
         /\ \A i \in DOMAIN b : b[i].cas => seen[s][b[i].name].id # 0
         /\ req' = [req EXCEPT ![s] = b]
    /\ pc' = [pc EXCEPT ![s] = "item"]
    /\ calls' = calls + 1
    /\ UNCHANGED <<db, tx, work, loc, seen, leftover, shown, mixed>>

\* An entityName of add_observations or delete_observations that cannot be
\* bound: their first SELECT raises.
NameUnbindable(s) ==
    /\ HasItem(s, {"add", "delObs"})
    /\ Flaw(s) = "name"
    /\ UNCHANGED <<db, tx, work, mixed>>
    /\ Raises(s)

\* Values of a writing statement that cannot be bound: BEGIN has been
\* executed by then, the statement has not.
ValueUnbindable(s) ==
    /\ AtWrite(s)
    /\ Flaw(s) = "value"
    /\ tx' = [tx EXCEPT ![s] = IF @ = "none" THEN "open" ELSE @]
    /\ Raises(s)
    /\ UNCHANGED <<db, work, mixed>>

\* create_entities: a name that has a row is reported, not written; the
\* failed INSERT has taken the write lock all the same.  The observations
\* are only looked at when the row is there.
CreateEntity(s) ==
    /\ Executes(s, "create")
    /\ LET n == element(s).name IN
         \/ /\ Exists(View(s), n)
            /\ Write(s, View(s))
            /\ NextItem(s)
         \/ /\ ~Exists(View(s), n) /\ Flaw(s) # "texts"
            /\ Write(s, InsertEntity(View(s), n, element(s).contents))
            /\ NextItem(s)
         \/ /\ ~Exists(View(s), n) /\ Flaw(s) = "texts"
            /\ Write(s, InsertEntity(View(s), n, {}))
            /\ Raises(s)

\* create_relations does not look at the entities it names.
CreateRelation(s) ==
    /\ Executes(s, "createRel")
    /\ Write(s, InsertRelations(View(s), element(s).rels))
    /\ NextItem(s)

DeleteRelation(s) ==
    /\ Executes(s, "delRel")
    /\ Write(s, DeleteRelations(View(s), element(s).rels))
    /\ NextItem(s)

\* Mutant: the compare-and-swap branch forgets the relations.
DeleteEntityItemKeepingRelations(s) ==
    /\ Executes(s, "delEntity")
    /\ LET n == element(s).name
           matches == Exists(View(s), n) /\ View(s).ent[n].rev = expectedRev(s)
       IN Write(s, IF ~element(s).cas
                   THEN DeleteEntity(DeleteRelationsOf(View(s), n), n)
                   ELSE IF matches THEN DeleteEntity(View(s), n) ELSE View(s))
    /\ NextItem(s)

\* delete_entities: with an expected revision the row goes first and only if
\* it matches; without one the relations go first, row or no row.
DeleteEntityItem(s) ==
    /\ Executes(s, "delEntity")
    /\ LET n == element(s).name
           matches == Exists(View(s), n) /\ View(s).ent[n].rev = expectedRev(s)
           gone == DeleteEntity(DeleteRelationsOf(View(s), n), n)
       IN Write(s, IF element(s).cas /\ ~matches THEN View(s) ELSE gone)
    /\ NextItem(s)

\* add_observations and delete_observations first SELECT the id by name.
ReadId(s) ==
    /\ HasItem(s, {"add", "delObs"})
    /\ Flaw(s) # "name"
    /\ Select(s)
    /\ LET n == element(s).name IN
         IF Exists(View(s), n)
         THEN /\ loc' = [loc EXCEPT ![s] = Read(n, View(s).ent[n].id, 0, {})]
              /\ pc' = [pc EXCEPT ![s] = IF element(s).op = "add"
                                         THEN "existing" ELSE "write"]
              /\ UNCHANGED <<req, seen, calls, leftover, shown>>
         ELSE NextItem(s)

\* add_observations then SELECTs the observations of that id, walks over
\* its contents, and drops the element when none of them is new.
ReadExisting(s) ==
    /\ pc[s] = "existing"
    /\ Select(s)
    /\ LET n == element(s).name
           existing == IF IsRow(View(s), n, loc[s].id)
                       THEN View(s).ent[n].obs ELSE {}
           new == element(s).contents \ existing
       IN \/ Flaw(s) = "texts" /\ Raises(s)
          \/ Flaw(s) # "texts" /\ new = {} /\ NextItem(s)
          \/ /\ Flaw(s) # "texts" /\ new # {}
             /\ loc' = [loc EXCEPT ![s] = Read(n, loc[s].id, 0, new)]
             /\ pc' = [pc EXCEPT ![s] = "write"]
             /\ UNCHANGED <<req, seen, calls, leftover, shown>>

\* Does UPDATE ... WHERE id = ? [AND revision = ?] find its row?
UpdateHits(s) ==
    /\ IsRow(View(s), element(s).name, loc[s].id)
    /\ element(s).cas => View(s).ent[element(s).name].rev = expectedRev(s)

\* Mutant: UPDATE ... WHERE name = ? bumps a row created under a new id.
AddObservationsByName(s) ==
    /\ Executes(s, "add")
    /\ LET n == element(s).name IN
         \/ /\ UpdateHits(s)
            /\ Write(s, InsertObs(Bump(View(s), n), n, loc[s].new))
            /\ NextItem(s)
         \/ /\ ~UpdateHits(s)
            /\ Write(s, IF Exists(View(s), n) /\ ~element(s).cas
                        THEN Bump(View(s), n) ELSE View(s))
            /\ IF element(s).cas THEN NextItem(s) ELSE Fails(s)

\* add_observations: bump, then insert.  Without an expected revision the
\* row count is not looked at, and the INSERT for a missing row violates the
\* foreign key: the handler raises with the write lock taken.
AddObservations(s) ==
    /\ Executes(s, "add")
    /\ LET n == element(s).name IN
         \/ /\ UpdateHits(s)
            /\ Write(s, InsertObs(Bump(View(s), n), n, loc[s].new))
            /\ NextItem(s)
         \/ /\ ~UpdateHits(s)
            /\ Write(s, View(s))
            /\ IF element(s).cas THEN NextItem(s) ELSE Fails(s)

\* Mutant: only additions move the revision.
DeleteObservationsWithoutBump(s) ==
    /\ Executes(s, "delObs") /\ Flaw(s) # "texts"
    /\ LET n == element(s).name IN
         Write(s, IF UpdateHits(s)
                  THEN DeleteObs(View(s), n, element(s).contents) ELSE View(s))
    /\ NextItem(s)

\* delete_observations: bump, then delete, whether or not the texts are
\* there.  A text that cannot be bound comes after the bump and after some
\* of the others; after a conflict no text is looked at.
DeleteObservations(s) ==
    /\ Executes(s, "delObs")
    /\ LET n == element(s).name IN
         \/ /\ UpdateHits(s) /\ Flaw(s) # "texts"
            /\ Write(s, DeleteObs(Bump(View(s), n), n, element(s).contents))
            /\ NextItem(s)
         \/ /\ UpdateHits(s) /\ Flaw(s) = "texts"
            /\ \E cs \in SUBSET element(s).contents :
                 Write(s, DeleteObs(Bump(View(s), n), n, cs))
            /\ Raises(s)
         \/ /\ ~UpdateHits(s)
            /\ Write(s, View(s))
            /\ IF Flaw(s) = "texts" /\ ~element(s).cas
               THEN Raises(s) ELSE NextItem(s)

\* The end of the transaction that a client was shown before it was committed.
Settled(s, fate) ==
    [shown EXCEPT ![s] = [n \in Names |-> IF @[n] = "pending" THEN fate ELSE @[n]]]

\* conn.commit() after the last element: what the transaction holds becomes
\* the graph, and the snapshots others hold fall behind.  That includes what
\* an earlier handler of the connection left when it raised.
Commit(s) ==
    /\ pc[s] = "item" /\ req[s] = <<>>
    /\ db' = IF tx[s] = "write" THEN work[s] ELSE db
    /\ tx' = [t \in Servers |->
                IF t = s THEN "none"
                ELSE IF tx[t] = "read" /\ db' # db THEN "stale" ELSE tx[t]]
    /\ work' = [work EXCEPT ![s] = EmptyGraph]
    /\ pc' = [pc EXCEPT ![s] = "idle"]
    /\ mixed' = leftover[s]
    /\ leftover' = [leftover EXCEPT ![s] = FALSE]
    /\ shown' = Settled(s, "committed")
    /\ UNCHANGED <<req, loc, seen, calls>>

\* busy_timeout runs out while another connection holds the lock.
LockTimeout(s) ==
    /\ AtWrite(s) /\ Flaw(s) # "value"
    /\ tx[s] \in {"none", "open"} /\ LockedByOther(s)
    /\ tx' = [tx EXCEPT ![s] = "open"]
    /\ Fails(s)
    /\ UNCHANGED <<db, work, mixed>>

\* "database is locked" without waiting.
LockedAtOnce(s) ==
    /\ AtWrite(s) /\ Flaw(s) # "value"
    /\ FailsAtOnce(s)
    /\ Fails(s)
    /\ UNCHANGED <<db, tx, work, mixed>>

\* open_nodes: the row with its revision, then the observations of its id.
OpenRow(s) ==
    /\ pc[s] = "idle"
    /\ calls < MaxCalls
    /\ calls' = calls + 1
    /\ Select(s)
    /\ \E n \in Names :
         IF Exists(View(s), n)
         THEN /\ loc' = [loc EXCEPT ![s] = Read(n, View(s).ent[n].id, View(s).ent[n].rev, {})]
              /\ pc' = [pc EXCEPT ![s] = "openObs"]
         ELSE UNCHANGED <<loc, pc>>
    /\ UNCHANGED <<req, seen, leftover, shown>>

OpenObs(s) ==
    /\ pc[s] = "openObs"
    /\ Select(s)
    /\ LET n == loc[s].name
           obs == IF IsRow(View(s), n, loc[s].id) THEN View(s).ent[n].obs ELSE {}
           fate == IF leftover[s] THEN "pending" ELSE "committed"
       IN /\ seen' = [seen EXCEPT ![s] = [@ EXCEPT ![n] = Row(loc[s].id, loc[s].rev, obs)]]
          /\ shown' = [shown EXCEPT ![s] = [@ EXCEPT ![n] = fate]]
    /\ pc' = [pc EXCEPT ![s] = "idle"]
    /\ loc' = [loc EXCEPT ![s] = NoReading]
    /\ UNCHANGED <<req, calls, leftover>>

\* The process dies: SQLite rolls back, the next process starts afresh.
Crash(s) ==
    /\ pc[s] # "idle" \/ tx[s] # "none"
    /\ tx' = [tx EXCEPT ![s] = "none"]
    /\ work' = [work EXCEPT ![s] = EmptyGraph]
    /\ Leave(s)
    /\ leftover' = [leftover EXCEPT ![s] = FALSE]
    /\ shown' = Settled(s, "lost")
    /\ UNCHANGED <<db, mixed>>

Next == \E s \in Servers :
    \/ Call(s) \/ CreateEntity(s) \/ CreateRelation(s) \/ DeleteRelation(s)
    \/ DeleteEntityItem(s) \/ ReadId(s) \/ ReadExisting(s)
    \/ AddObservations(s) \/ DeleteObservations(s) \/ Commit(s)
    \/ LockTimeout(s) \/ LockedAtOnce(s) \/ NameUnbindable(s) \/ ValueUnbindable(s)
    \/ OpenRow(s) \/ OpenObs(s) \/ Crash(s)

Spec == Init /\ [][Next]_vars

-----------------------------------------------------------------------------
(* What the servers promise together.                                      *)

\* Whatever a client was shown by open_nodes is still what the entity holds
\* as long as the row is at the revision shown: the compare-and-swap on that
\* revision protects the observations the client based its request on.  That
\* holds of what is committed, then or later.  A remainder that a raising
\* handler left on the connection is shown as well, and dies with the
\* process: another server can then reach the same id and revision with
\* other observations.
SeenIsCurrent ==
    \A s \in Servers, n \in Names :
        /\ seen[s][n].id # 0 /\ shown[s][n] = "committed"
        /\ db.ent[n].id = seen[s][n].id
        /\ db.ent[n].rev = seen[s][n].rev
        => db.ent[n].obs = seen[s][n].obs

\* A handler that a lock or the foreign key stopped leaves nothing half
\* written in the transaction that the next handler of that connection will
\* commit.  One that raised over a flawed element does.
NothingHalfWritten ==
    \A s \in Servers :
        pc[s] = "idle" /\ tx[s] = "write" /\ ~leftover[s] => work[s] = db

\* Every committed transaction keeps the promise of KnowledgeGraph.
KG == INSTANCE KnowledgeGraph WITH graph <- db
ImplementsKnowledgeGraph == KG!Spec
=============================================================================
