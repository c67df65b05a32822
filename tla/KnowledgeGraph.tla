--------------------------- MODULE KnowledgeGraph ---------------------------
(***************************************************************************)
(* What the knowledge graph promises to its readers, whoever writes it: a  *)
(* reader that remembers (id, revision) of an entity can tell whether the  *)
(* entity still holds what was read.  One step is one committed SQLite     *)
(* transaction.  A server commits with it what a handler that raised had   *)
(* left in it; mixed says so.  A deletion left by one handler and relations *)
(* created by the next are then one transaction.  MemoryGraph, Archiver    *)
(* and DreamerSave implement this specification.                           *)
(***************************************************************************)
EXTENDS GraphData

VARIABLES
    graph,      \* the committed graph
    mixed       \* was the last transaction that of more than one handler?

Init == WellFormed(graph) /\ mixed \in BOOLEAN

Next ==
    /\ WellFormed(graph')
    /\ mixed' \in BOOLEAN
    /\ RevisionTracksContent(graph, graph')
    /\ IdsAreFresh(graph, graph')
    /\ mixed' \/ NoRelationOutlives(graph, graph')

Spec == Init /\ [][Next]_<<graph, mixed>>
=============================================================================
