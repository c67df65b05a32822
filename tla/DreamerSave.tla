----------------------------- MODULE DreamerSave -----------------------------
(***************************************************************************)
(* The apply stage of the dreamer (src/dreamer/stages.py, dreamer.py): a   *)
(* run holds a mutation plan made earlier from a snapshot, loads the live  *)
(* graph, applies the plan to the copy in memory and reconciles the result *)
(* with the database in one BEGIN IMMEDIATE transaction.  Between load and *)
(* save the memory servers, the archiver and other dreamer runs commit     *)
(* transactions of their own.                                              *)
(*                                                                         *)
(* A server or archiver transaction is one step; MemoryGraph and Archiver  *)
(* show how they are made.  The order of entities, timestamps and fields   *)
(* of a plan that apply_mutations skips are left out.                      *)
(***************************************************************************)
EXTENDS GraphData, Sequences, FiniteSets

CONSTANTS
    Dreamers,   \* dreamer runs in their apply stage
    Kinds,      \* entity types
    Plans,      \* the plans their validate stage may have stored
    Databases,  \* what the database may hold when the story begins
    MaxWrites,  \* bound: transactions of others
    MaxLoads    \* bound: apply stages

\* A plan of certain mutations and of what a language model proposed.
Plan == [rename : UNION {[S -> Kinds] : S \in SUBSET Names},
         merges : Seq(Names \X Names),
         adds : SUBSET [name : Names, kind : Kinds, obs : SUBSET Contents],
         rels : SUBSET Relations]

ASSUME PlansAssumption ==
    /\ Plans \subseteq Plan
    /\ \A p \in Plans : \A e, f \in p.adds : e.name = f.name => e = f
ASSUME DatabasesAssumption == \A g \in Databases : WellFormed(g)
ASSUME NamesAssumption == IsFiniteSet(Names)
ASSUME KindsAssumption == "" \notin Kinds
ASSUME DreamerBounds == MaxWrites \in Nat /\ MaxLoads \in Nat

VARIABLES
    db,         \* the graph in the database
    kind,       \* column entity_type of the rows of db, NoKind without one
    writes,     \* transactions of others so far
    loads,      \* apply stages so far
    pc,         \* where each run stands
    plan,       \* the plan it applies
    observed    \* the graph it has loaded

NoKind == ""

vars == <<db, kind, writes, loads, pc, plan, observed>>

\* A graph in memory: an entity for each name that it has.
Loaded == [ent : UNION {[S -> [kind : Kinds, obs : SUBSET Contents]] : S \in SUBSET Names},
           rel : SUBSET Relations]
NothingLoaded == [ent |-> <<>>, rel |-> {}]
NoPlan == [rename |-> <<>>, merges |-> <<>>, adds |-> {}, rels |-> {}]

TypeOK ==
    /\ WellFormed(db)
    /\ kind \in [Names -> Kinds \cup {NoKind}]
    /\ \A n \in Names : kind[n] = NoKind <=> ~Exists(db, n)
    /\ writes \in 0..MaxWrites /\ loads \in 0..MaxLoads
    /\ pc \in [Dreamers -> {"idle", "relations", "save"}]
    /\ plan \in [Dreamers -> Plan]
    /\ observed \in [Dreamers -> Loaded]

Init ==
    /\ db \in Databases
    /\ kind \in [Names -> Kinds \cup {NoKind}]
    /\ \A n \in Names : kind[n] = NoKind <=> ~Exists(db, n)
    /\ writes = 0 /\ loads = 0
    /\ pc = [d \in Dreamers |-> "idle"]
    /\ plan = [d \in Dreamers |-> NoPlan]
    /\ observed = [d \in Dreamers |-> NothingLoaded]

-----------------------------------------------------------------------------
(* The other writers.                                                      *)

\* The tools of the memory servers on an entity, an observation, a relation.
\* The archiver's transaction is DropObs.
CreateEntity(n, cs, k) ==
    /\ ~Exists(db, n)
    /\ db' = InsertEntity(db, n, cs)
    /\ kind' = [kind EXCEPT ![n] = k]

DropEntity(n) ==
    /\ Exists(db, n)
    /\ db' = DeleteEntity(DeleteRelationsOf(db, n), n)
    /\ kind' = [kind EXCEPT ![n] = NoKind]

\* Mutant: foreign keys are not enforced.
AddObsToAnyName(n, c) ==
    /\ c \notin db.ent[n].obs
    /\ db' = InsertObs(Bump(db, n), n, {c})
    /\ UNCHANGED kind

AddObs(n, c) ==
    /\ Exists(db, n) /\ c \notin db.ent[n].obs
    /\ db' = InsertObs(Bump(db, n), n, {c})
    /\ UNCHANGED kind

DropObs(n, c) ==
    /\ Exists(db, n)
    /\ db' = DeleteObs(Bump(db, n), n, {c})
    /\ UNCHANGED kind

ChangeRelation(r) ==
    /\ db' \in {InsertRelations(db, {r}), DeleteRelations(db, {r})}
    /\ UNCHANGED kind

OtherWrites ==
    /\ writes < MaxWrites /\ writes' = writes + 1
    /\ \/ \E n \in Names, cs \in SUBSET Contents, k \in Kinds : CreateEntity(n, cs, k)
       \/ \E n \in Names : DropEntity(n)
       \/ \E n \in Names, c \in Contents : AddObs(n, c) \/ DropObs(n, c)
       \/ \E r \in Relations : ChangeRelation(r)
    /\ UNCHANGED <<loads, pc, plan, observed>>

-----------------------------------------------------------------------------
(* apply_mutations: the plan applied to the graph in memory.               *)

RenameTypes(g, rename) ==
    [g EXCEPT !.ent = [n \in DOMAIN @ |->
        IF n \in DOMAIN rename THEN [@[n] EXCEPT !.kind = rename[n]] ELSE @[n]]]

Moved(n, keep, remove) == IF n = remove THEN keep ELSE n
Rewired(r, keep, remove) == <<Moved(r[1], keep, remove), Moved(r[2], keep, remove), r[3]>>

\* The end points that a merge has moved, as the code remembers them.
RewiredPairs(rel, keep, remove) ==
    {<<keep, r[2]>> : r \in {q \in rel : q[1] = remove}} \cup
    {<<Moved(r[1], keep, remove), keep>> : r \in {q \in rel : q[2] = remove}}

\* One merge; m.g is the graph so far, m.pairs what earlier merges moved.
Merge(m, names) ==
    LET keep == names[1]
        remove == names[2]
        ent == m.g.ent
    IN IF keep = remove \/ ~({keep, remove} \subseteq DOMAIN ent) THEN m
       ELSE [g |-> [ent |-> [n \in DOMAIN ent \ {remove} |->
                               IF n = keep THEN [ent[n] EXCEPT !.obs = @ \cup ent[remove].obs]
                               ELSE ent[n]],
                    rel |-> {Rewired(r, keep, remove) : r \in m.g.rel}],
             pairs |-> m.pairs \cup RewiredPairs(m.g.rel, keep, remove)]

\* What the first i merges have made of the graph, for every i.
Merges(g, merges) ==
    LET m[i \in 0..Len(merges)] ==
          IF i = 0 THEN [g |-> g, pairs |-> {}] ELSE Merge(m[i - 1], merges[i])
    IN m

\* Mutant: the end points of the relations stay where they were.
MergeEntitiesWithoutRewiring(g, merges) ==
    LET m == Merges(g, merges)[Len(merges)] IN [m.g EXCEPT !.rel = g.rel]

\* Mutant: every self-reference goes.
MergeEntitiesDroppingSelfReferences(g, merges) ==
    LET m == Merges(g, merges)[Len(merges)]
    IN [m.g EXCEPT !.rel = {r \in @ : r[1] # r[2]}]

\* The merges in order, then the self-references they have made go.
MergeEntities(g, merges) ==
    LET m == Merges(g, merges)[Len(merges)]
    IN [m.g EXCEPT !.rel = {r \in @ : ~(r[1] = r[2] /\ <<r[1], r[2]>> \in m.pairs)}]

AddEntities(g, adds) ==
    LET new == {e \in adds : e.name \notin DOMAIN g.ent}
        Entry(n) == CHOOSE e \in new : e.name = n
    IN [g EXCEPT !.ent = [n \in DOMAIN @ \cup {e.name : e \in new} |->
            IF n \in DOMAIN @ THEN @[n] ELSE [kind |-> Entry(n).kind, obs |-> Entry(n).obs]]]

AddRelations(g, rels) ==
    [g EXCEPT !.rel = @ \cup {r \in rels : {r[1], r[2]} \subseteq DOMAIN g.ent}]

ApplyMutations(g, p) ==
    AddRelations(AddEntities(MergeEntities(RenameTypes(g, p.rename), p.merges), p.adds), p.rels)

-----------------------------------------------------------------------------
(* The apply stage.                                                        *)

\* load_graph_sqlite: one SELECT for the entities with their observations and
\* one for the relations, each on the graph of its moment.
LoadEntities(d) ==
    /\ pc[d] = "idle"
    /\ loads < MaxLoads /\ loads' = loads + 1
    /\ \E p \in Plans : plan' = [plan EXCEPT ![d] = p]
    /\ observed' = [observed EXCEPT ![d].ent =
          [n \in {m \in Names : Exists(db, m)} |-> [kind |-> kind[n], obs |-> db.ent[n].obs]]]
    /\ pc' = [pc EXCEPT ![d] = "relations"]
    /\ UNCHANGED <<db, kind, writes>>

LoadRelations(d) ==
    /\ pc[d] = "relations"
    /\ observed' = [observed EXCEPT ![d].rel = db.rel]
    /\ pc' = [pc EXCEPT ![d] = "save"]
    /\ UNCHANGED <<db, kind, writes, loads, plan>>

\* The graph the run wants to see in the database.
Desired(d) == ApplyMutations(observed[d], plan[d])

\* Mutant: the type is overwritten whatever others have made of it.
OverwritesTypeBlindly(d, n) == kind[n] # Desired(d).ent[n].kind

\* A type is written over only as it was loaded.
OverwritesType(d, n) ==
    /\ kind[n] # Desired(d).ent[n].kind
    /\ n \in DOMAIN observed[d].ent
    /\ kind[n] = observed[d].ent[n].kind

\* The observations the run may delete: those it has loaded.
Deletable(d, n) ==
    IF n \in DOMAIN observed[d].ent THEN observed[d].ent[n].obs \cap db.ent[n].obs ELSE {}

\* Mutant: observations are written under the old revision.
SavedRowWithoutBump(d, n) ==
    LET row == db.ent[n]
        wanted == Desired(d).ent[n].obs
    IN Row(row.id, row.rev + (IF OverwritesType(d, n) THEN 1 ELSE 0),
           (row.obs \cup wanted) \ (Deletable(d, n) \ wanted))

\* An existing row: a bump for the type and another one for the observations.
SavedRow(d, n) ==
    LET row == db.ent[n]
        wanted == Desired(d).ent[n].obs
        obs == (row.obs \cup wanted) \ (Deletable(d, n) \ wanted)
    IN Row(row.id, row.rev + (IF OverwritesType(d, n) THEN 1 ELSE 0)
                           + (IF obs # row.obs THEN 1 ELSE 0), obs)

\* A row that is inserted starts at revision 0; its observations bump it.
NewRow(d, n, id) ==
    LET wanted == Desired(d).ent[n].obs
    IN Row(id, IF wanted = {} THEN 0 ELSE 1, wanted)

Finish(d) ==
    /\ pc' = [pc EXCEPT ![d] = "idle"]
    /\ plan' = [plan EXCEPT ![d] = NoPlan]
    /\ observed' = [observed EXCEPT ![d] = NothingLoaded]
    /\ UNCHANGED <<writes, loads>>

\* save_graph_sqlite: upsert the entities with their observations, insert the
\* relations, delete the relations that were loaded and are not wanted.  New
\* rows draw their ids in the order of the entity list.
Save(d) ==
    /\ pc[d] = "save"
    /\ LET g == Desired(d)
           new == {n \in DOMAIN g.ent : ~Exists(db, n)}
           next == db.nextId + Cardinality(new)
       IN /\ \E id \in [new -> db.nextId..(next - 1)] :
               /\ \A m, n \in new : id[m] = id[n] => m = n
               /\ db' = [ent |-> [n \in Names |->
                                    IF n \in new THEN NewRow(d, n, id[n])
                                    ELSE IF n \in DOMAIN g.ent THEN SavedRow(d, n)
                                    ELSE db.ent[n]],
                         rel |-> (db.rel \cup g.rel) \ (observed[d].rel \ g.rel),
                         nextId |-> next]
          /\ kind' = [n \in Names |->
                        IF n \in new \/ (n \in DOMAIN g.ent /\ OverwritesType(d, n))
                        THEN g.ent[n].kind ELSE kind[n]]
    /\ Finish(d)

\* The copy of the database, the transaction (rolled back) or the process
\* fails; so does a dry run as far as the database is concerned.
GiveUp(d) ==
    /\ pc[d] # "idle"
    /\ Finish(d)
    /\ UNCHANGED <<db, kind>>

Next ==
    \/ OtherWrites
    \/ \E d \in Dreamers : LoadEntities(d) \/ LoadRelations(d) \/ Save(d) \/ GiveUp(d)

Spec == Init /\ [][Next]_vars

-----------------------------------------------------------------------------
(* What the dreamer promises.                                              *)

\* No fact is lost in memory: the observations of every entity end up under
\* one name, and a relation between entities still is one.
PlanLosesNothing ==
    \A d \in Dreamers : pc[d] = "save" =>
        LET o == observed[d]
            g == Desired(d)
        IN /\ \A n \in DOMAIN o.ent : \E m \in DOMAIN g.ent : o.ent[n].obs \subseteq g.ent[m].obs
           /\ (\A r \in o.rel : {r[1], r[2]} \subseteq DOMAIN o.ent) =>
                 \A r \in g.rel : {r[1], r[2]} \subseteq DOMAIN g.ent

\* Names that the merges of a plan give up.
Removed(p) == {p.merges[i][2] : i \in DOMAIN p.merges}

\* Whatever others committed after the load survives the save: rows, types that
\* changed, relations and observations the run has not loaded.  Of a row whose
\* name it has merged into another and then given to a new entity, it takes
\* the observations it has moved, and they are found under another name.
OthersWorkSurvives ==
    [][\A d \in Dreamers : Save(d) =>
         /\ \A n \in Names : Exists(db, n) =>
              /\ db'.ent[n].id = db.ent[n].id
              /\ \A c \in db.ent[n].obs \ db'.ent[n].obs :
                   /\ n \in DOMAIN observed[d].ent /\ c \in observed[d].ent[n].obs
                   /\ n \in Removed(plan[d])
                   /\ \E m \in Names : c \in db'.ent[m].obs
              /\ kind'[n] # kind[n] =>
                   n \in DOMAIN observed[d].ent /\ observed[d].ent[n].kind = kind[n]
         /\ db.rel \ db'.rel \subseteq observed[d].rel]_vars

\* The dreamer is one more writer of the knowledge graph.
KG == INSTANCE KnowledgeGraph WITH graph <- db, mixed <- FALSE
ImplementsKnowledgeGraph == KG!Spec

\* "Remove self-referencing relations produced by merges only": one that was
\* there before stays, unless a merge has moved relations.  The code remembers
\* end points without the relation's type, so a moved relation of another type
\* between the same names is enough to lose it.
OwnSelfRelationsStay ==
    \A d \in Dreamers : pc[d] = "save" =>
        LET moved == {r \in observed[d].rel : {r[1], r[2]} \cap Removed(plan[d]) # {}}
        IN moved = {} => \A r \in observed[d].rel : r[1] = r[2] => r \in Desired(d).rel
=============================================================================
