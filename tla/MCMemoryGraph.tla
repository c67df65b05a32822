---------------------------- MODULE MCMemoryGraph ----------------------------
(* Small instances of MemoryGraph for TLC.                                 *)
EXTENDS MemoryGraph, TLC

CONSTANTS n1, n2, a, b, knows

MCNames == {n1, n2}
MCContents == {a, b}
MCTypes == {knows}

flawed(op, n, cs, cas, rs, flaw) ==
    [op |-> op, name |-> n, contents |-> cs, cas |-> cas, rels |-> rs, flaw |-> flaw]
item(op, n, cs, cas, rs) == flawed(op, n, cs, cas, rs, "none")

edge == <<n1, n2, knows>>

\* Single-element calls of every tool, and the two-element batches whose
\* elements meet: an add to each entity, a delete and a re-creation.
SoundBatches ==
    { <<item("create", n1, {a}, FALSE, {})>> }
    \cup { <<item("add", n1, cs, cas, {})>> : cs \in {{a}, {b}}, cas \in BOOLEAN }
    \cup { <<item("delObs", n1, {a}, cas, {})>> : cas \in BOOLEAN }
    \cup { <<item("delEntity", n1, {}, cas, {})>> : cas \in BOOLEAN }
    \cup { <<item("create", n1, {}, FALSE, {}), item("create", n2, {b}, FALSE, {})>>,
           <<item("add", n2, {a}, FALSE, {}), item("add", n1, {a}, FALSE, {})>>,
           <<item("createRel", n1, {}, FALSE, {edge})>>,
           <<item("delRel", n1, {}, FALSE, {edge})>> }

\* Batches that raise: before, at and after the first write, and after an
\* earlier element was written.
FlawedBatches ==
    { <<flawed("create", n1, {a}, FALSE, {}, "texts")>>,
      <<item("add", n1, {a}, FALSE, {}), flawed("add", n1, {b}, FALSE, {}, "texts")>>,
      <<flawed("delObs", n1, {a}, FALSE, {}, "texts")>>,
      <<item("delEntity", n1, {}, FALSE, {}), flawed("delEntity", n2, {}, FALSE, {}, "value")>>,
      <<flawed("add", n1, {a}, FALSE, {}, "name")>> }

MCBatches == SoundBatches \cup FlawedBatches

Symmetry == Permutations(Servers)
=============================================================================
