------------------------------ MODULE GraphData ------------------------------
(***************************************************************************)
(* The knowledge graph of jing-meta as a value, and the SQL statements the *)
(* writers issue on it (src/jing_meta/schema.py, src/memory/server.py).    *)
(*                                                                         *)
(* An entity row carries its AUTOINCREMENT id, its revision and, through   *)
(* the foreign key with ON DELETE CASCADE, its observations; id 0 stands   *)
(* for a name without a row.  Relations name their end points, they do not *)
(* reference them: a relation may exist without its entities.              *)
(***************************************************************************)
EXTENDS Naturals

CONSTANTS
    Names,      \* entity names
    Contents,   \* observation texts
    Types       \* relation types

Entity == [id : Nat, rev : Nat, obs : SUBSET Contents]
Row(id, rev, obs) == [id |-> id, rev |-> rev, obs |-> obs]
NoEntity == Row(0, 0, {})

Relations == Names \X Names \X Types

Graph == [ent : [Names -> Entity], rel : SUBSET Relations, nextId : Nat]

EmptyGraph == [ent |-> [n \in Names |-> NoEntity], rel |-> {}, nextId |-> 1]

Exists(g, n) == g.ent[n].id # 0

\* The row with this id, looked up by name: the name may have been deleted,
\* or deleted and created again under another id.
IsRow(g, n, id) == Exists(g, n) /\ g.ent[n].id = id

Touches(r, n) == r[1] = n \/ r[2] = n

-----------------------------------------------------------------------------
\* The graph with another row for the name n, and with other relations.
WithRow(g, n, row) ==
    [ent |-> [g.ent EXCEPT ![n] = row], rel |-> g.rel, nextId |-> g.nextId]
WithRelations(g, rs) == [ent |-> g.ent, rel |-> rs, nextId |-> g.nextId]

\* Mutant: ids are not drawn from a sequence that only grows.
InsertEntityReusingIds(g, n, cs) ==
    WithRow(g, n, Row(g.nextId, 0, cs))

\* INSERT INTO entities, then INSERT OR IGNORE INTO observations for each text.
InsertEntity(g, n, cs) ==
    [ent |-> [g.ent EXCEPT ![n] = Row(g.nextId, 0, cs)],
     rel |-> g.rel, nextId |-> g.nextId + 1]

\* UPDATE entities SET revision = revision + 1 WHERE id = ...
Bump(g, n) == WithRow(g, n, Row(g.ent[n].id, g.ent[n].rev + 1, g.ent[n].obs))

\* INSERT OR IGNORE INTO observations, for each text.
InsertObs(g, n, cs) ==
    WithRow(g, n, Row(g.ent[n].id, g.ent[n].rev, g.ent[n].obs \cup cs))

\* DELETE FROM observations WHERE entity_id = ... AND content = ..., each text.
DeleteObs(g, n, cs) ==
    WithRow(g, n, Row(g.ent[n].id, g.ent[n].rev, g.ent[n].obs \ cs))

\* DELETE FROM entities WHERE name = ... (the observations cascade).
DeleteEntity(g, n) == WithRow(g, n, NoEntity)

\* DELETE FROM relations WHERE from_entity = ... OR to_entity = ...
DeleteRelationsOf(g, n) == WithRelations(g, {r \in g.rel : ~Touches(r, n)})

InsertRelations(g, rs) == WithRelations(g, g.rel \cup rs)
DeleteRelations(g, rs) == WithRelations(g, g.rel \ rs)

-----------------------------------------------------------------------------
\* What the schema's constraints keep true of every stored graph: ids are
\* below the sequence and belong to one name, and a missing row has no data.
WellFormed(g) ==
    /\ g \in Graph
    /\ g.nextId # 0
    /\ \A n \in Names :
         /\ g.ent[n].id < g.nextId
         /\ Exists(g, n) \/ g.ent[n] = NoEntity
    /\ \A m, n \in Names :
         Exists(g, m) /\ g.ent[m].id = g.ent[n].id => m = n
-----------------------------------------------------------------------------
(* What one committed transaction may do to the graph g, leaving h.       *)

\* The same entity row before and after a transaction.
SameRow(g, h, n) == Exists(g, n) /\ h.ent[n].id = g.ent[n].id

\* A revision never goes back, and every change of content moves it.
RevisionTracksContent(g, h) ==
    \A n \in Names : SameRow(g, h, n) =>
        /\ h.ent[n].rev >= g.ent[n].rev
        /\ h.ent[n].obs # g.ent[n].obs => h.ent[n].rev > g.ent[n].rev

\* A new row takes an id that no row had before.
IdsAreFresh(g, h) ==
    /\ h.nextId >= g.nextId
    /\ \A n \in Names :
         Exists(h, n) /\ h.ent[n].id # g.ent[n].id => h.ent[n].id >= g.nextId

\* The transaction that removes an entity removes the relations at it.
NoRelationOutlives(g, h) ==
    \A n \in Names : Exists(g, n) /\ ~Exists(h, n) =>
        \A r \in h.rel : ~Touches(r, n)

Transaction(g, h) ==
    /\ RevisionTracksContent(g, h)
    /\ IdsAreFresh(g, h)
    /\ NoRelationOutlives(g, h)
=============================================================================
