---------------------------- MODULE MCDreamerSave ----------------------------
(* Small instances of DreamerSave for TLC.                                 *)
EXTENDS DreamerSave, TLC

CONSTANTS n1, n2, a, b, k1, k2, t1

MCPlan(rename, merges, adds, rels) ==
    [rename |-> rename, merges |-> merges, adds |-> adds, rels |-> rels]

\* A rename; a merge; a merge there and back with a rename of the kept one;
\* an addition with a relation to it; a merge and a new entity of the name it
\* has freed.
MCPlans ==
    { MCPlan(n1 :> k1, <<>>, {}, {}),
      MCPlan(<<>>, <<<<n1, n2>>>>, {}, {}),
      MCPlan(n1 :> k2, <<<<n1, n2>>, <<n2, n1>>>>, {}, {}),
      MCPlan(<<>>, <<>>, {[name |-> n2, kind |-> k1, obs |-> {a}]}, {<<n1, n2, t1>>}),
      MCPlan(<<>>, <<<<n1, n2>>>>, {[name |-> n2, kind |-> k1, obs |-> {a}]}, {}) }

\* An empty database, and one with a row for each name and a relation
\* between them.
MCDatabases ==
    { EmptyGraph,
      [ent |-> n1 :> Row(1, 0, {a}) @@ n2 :> Row(2, 0, {b}),
       rel |-> {<<n1, n2, t1>>}, nextId |-> 3] }

Symmetry == Permutations(Dreamers)
=============================================================================
