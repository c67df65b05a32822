-------------------------- MODULE MemoryGraphProofs --------------------------
(***************************************************************************)
(* The invariants of MemoryGraph for every set of servers, names, texts    *)
(* and batches, and the proof that it implements KnowledgeGraph.           *)
(***************************************************************************)
EXTENDS MemoryGraph, TLAPS

-----------------------------------------------------------------------------
(* What each SQL statement of the writers does to a well-formed graph.     *)

\* The empty database is well formed.
LEMMA EmptyIsWellFormed == WellFormed(EmptyGraph)
  BY DEF WellFormed, EmptyGraph, Graph, Entity, NoEntity, Row, Relations, Exists

\* Changing nothing is a transaction.
LEMMA NoChange ==
  ASSUME NEW g, WellFormed(g)
  PROVE  Transaction(g, g)
  BY DEF WellFormed, Graph, Entity, Transaction, RevisionTracksContent,
         IdsAreFresh, NoRelationOutlives, SameRow, Exists

\* Two consecutive changes are one transaction, unless the second adds
\* relations to an entity that the first deleted.
LEMMA ChangesCompose ==
  ASSUME NEW g, NEW w, NEW h,
         WellFormed(g), WellFormed(w), WellFormed(h),
         Transaction(g, w), Transaction(w, h),
         h.rel \subseteq w.rel \/ w.ent = g.ent
  PROVE  Transaction(g, h)
<1> USE DEF WellFormed, Graph, Entity
<1>1. IdsAreFresh(g, h)
  BY DEF Transaction, IdsAreFresh, Exists
<1>2. ASSUME NEW n \in Names, SameRow(g, h, n)
      PROVE  SameRow(g, w, n) /\ SameRow(w, h, n)
  BY <1>2 DEF Transaction, IdsAreFresh, SameRow, Exists
<1>3. RevisionTracksContent(g, h)
  BY <1>2 DEF Transaction, RevisionTracksContent
<1>4. NoRelationOutlives(g, h)
  BY DEF Transaction, NoRelationOutlives, Exists
<1> QED BY <1>1, <1>3, <1>4 DEF Transaction

\* A new entity gets a fresh id.
LEMMA InsertEntityChanges ==
  ASSUME NEW g, WellFormed(g), NEW n \in Names, ~Exists(g, n),
         NEW cs \in SUBSET Contents
  PROVE  /\ WellFormed(InsertEntity(g, n, cs))
         /\ Transaction(g, InsertEntity(g, n, cs))
         /\ InsertEntity(g, n, cs).rel = g.rel
<1> USE DEF WellFormed, Graph, Entity, InsertEntity, NoEntity, Row, Exists
<1>1. WellFormed(InsertEntity(g, n, cs))
  OBVIOUS
<1>2. Transaction(g, InsertEntity(g, n, cs))
  BY DEF Transaction, RevisionTracksContent, IdsAreFresh, NoRelationOutlives, SameRow
<1> QED BY <1>1, <1>2

\* A bump followed by a change of the observations is a transaction, and it
\* touches neither the ids nor the relations.
LEMMA BumpedChangeChanges ==
  ASSUME NEW g, WellFormed(g), NEW n \in Names, Exists(g, n),
         NEW cs \in SUBSET Contents,
         NEW h \in {InsertObs(Bump(g, n), n, cs), DeleteObs(Bump(g, n), n, cs)}
  PROVE  WellFormed(h) /\ Transaction(g, h) /\ h.rel = g.rel
<1> USE DEF WellFormed, Graph, Entity, NoEntity, Row, Exists
<1>0. PICK o \in SUBSET Contents :
        h = WithRow(g, n, Row(g.ent[n].id, g.ent[n].rev + 1, o))
  <2>1. CASE h = InsertObs(Bump(g, n), n, cs)
    <3> WITNESS g.ent[n].obs \cup cs \in SUBSET Contents
    <3> QED BY <2>1 DEF InsertObs, Bump, WithRow, Row
  <2>2. CASE h = DeleteObs(Bump(g, n), n, cs)
    <3> WITNESS g.ent[n].obs \ cs \in SUBSET Contents
    <3> QED BY <2>2 DEF DeleteObs, Bump, WithRow, Row
  <2> QED BY <2>1, <2>2
<1>1. WellFormed(h)
  BY <1>0 DEF WithRow
<1>2. Transaction(g, h)
  BY <1>0 DEF WithRow, Transaction, RevisionTracksContent, IdsAreFresh, NoRelationOutlives, SameRow
<1> QED BY <1>0, <1>1, <1>2 DEF WithRow

\* An entity goes together with its relations.
LEMMA DeleteEntityChanges ==
  ASSUME NEW g, WellFormed(g), NEW n \in Names
  PROVE  LET h == DeleteEntity(DeleteRelationsOf(g, n), n)
         IN  WellFormed(h) /\ Transaction(g, h) /\ h.rel \subseteq g.rel
<1> DEFINE h == DeleteEntity(DeleteRelationsOf(g, n), n)
<1> USE DEF WellFormed, Graph, Entity, DeleteEntity, DeleteRelationsOf,
           WithRow, WithRelations, NoEntity, Row, Exists
<1>1. WellFormed(h) /\ h.rel \subseteq g.rel
  OBVIOUS
<1>2. Transaction(g, h)
  BY DEF Transaction, RevisionTracksContent, IdsAreFresh, NoRelationOutlives, SameRow
<1> QED BY <1>1, <1>2

\* Statements on relations leave the entities alone.
LEMMA RelationsChange ==
  ASSUME NEW g, WellFormed(g), NEW rs \in SUBSET Relations,
         NEW h \in {InsertRelations(g, rs), DeleteRelations(g, rs)}
  PROVE  WellFormed(h) /\ Transaction(g, h) /\ h.ent = g.ent
<1> USE DEF WellFormed, Graph, Entity, InsertRelations, DeleteRelations,
           WithRelations, Exists
<1>1. WellFormed(h) /\ h.ent = g.ent /\ h.nextId = g.nextId
  OBVIOUS
<1>2. Transaction(g, h)
  BY <1>1 DEF Transaction, RevisionTracksContent, IdsAreFresh, NoRelationOutlives, SameRow
<1> QED BY <1>1, <1>2

-----------------------------------------------------------------------------
(* The inductive invariant.                                                *)

OneWriter ==
    \A s, t \in Servers : tx[s] = "write" /\ tx[t] = "write" => s = t

\* A handler between its SELECTs and its writing statement has an element.
HandlerOK(s) ==
    /\ pc[s] \in {"existing", "write"} => req[s] # <<>>
    /\ pc[s] = "existing" => element(s).op = "add"
    /\ pc[s] = "write" => element(s).op \in {"add", "delObs"}
    /\ \A i, j \in DOMAIN req[s] : req[s][i].op = req[s][j].op

\* h is what a later state of the database can hold after g.
Later(g, h) == RevisionTracksContent(g, h) /\ IdsAreFresh(g, h)

\* What a connection holds, compared with the committed graph.  A remainder
\* of a handler that raised is still later than the committed graph, but it
\* need not be that graph when the connection is idle.
WorkOK(s) ==
    /\ tx[s] = "read" => work[s] = db
    /\ tx[s] = "stale" => Later(work[s], db)
    /\ leftover[s] => tx[s] = "write"
    /\ tx[s] = "write" =>
         /\ Later(db, work[s])
         /\ pc[s] \in {"existing", "write"} => IsRow(work[s], element(s).name, loc[s].id)
    /\ tx[s] = "write" /\ ~leftover[s] =>
         /\ NoRelationOutlives(db, work[s])
         /\ pc[s] \in {"idle", "openObs"} => work[s] = db
         /\ req[s] # <<>> /\ element(s).op = "createRel" => work[s].ent = db.ent

\* (id, rev, obs) was read from a state that g can be a later state of.
ReadBefore(g, n, id, rev) ==
    /\ id # 0 /\ id < g.nextId
    /\ g.ent[n].id = id => g.ent[n].rev >= rev

\* The row was read before g, and g holds its observations if it holds its
\* revision.
Protects(g, n, row) ==
    /\ ReadBefore(g, n, row.id, row.rev)
    /\ g.ent[n].id = row.id /\ g.ent[n].rev = row.rev => g.ent[n].obs = row.obs

\* What was shown of the committed graph is protected there; what was shown
\* of a remainder is protected in the transaction that still holds it.
ReaderOK(s) ==
    /\ pc[s] = "openObs" => ReadBefore(View(s), loc[s].name, loc[s].id, loc[s].rev)
    /\ \A n \in Names : seen[s][n].id # 0 =>
         /\ shown[s][n] = "committed" => Protects(db, n, seen[s][n])
         /\ shown[s][n] = "pending" => leftover[s] /\ Protects(work[s], n, seen[s][n])

ServerOK(s) == HandlerOK(s) /\ WorkOK(s) /\ ReaderOK(s)

IInv == TypeOK /\ OneWriter /\ \A s \in Servers : ServerOK(s)

-----------------------------------------------------------------------------
(* Lemmas on the connection.                                               *)

\* What holds of a server is untouched by a step that changes neither its
\* variables nor the committed graph.
LEMMA ServerUntouched ==
  ASSUME NEW t \in Servers, ServerOK(t), db' = db,
         tx'[t] = tx[t], work'[t] = work[t], pc'[t] = pc[t],
         req'[t] = req[t], loc'[t] = loc[t], seen'[t] = seen[t],
         leftover'[t] = leftover[t], shown'[t] = shown[t]
  PROVE  ServerOK(t)'
<1>1. HandlerOK(t)' /\ WorkOK(t)'
  BY DEF ServerOK, HandlerOK, WorkOK, element
<1>2. ReaderOK(t)'
  BY DEF ServerOK, ReaderOK, ReadBefore, Protects, View
<1> QED BY <1>1, <1>2 DEF ServerOK

\* A well-formed graph is seen by every statement, and a graph about to be
\* written is later than the committed one: one transaction away from it
\* unless a handler left a remainder.
LEMMA ViewIsSound ==
  ASSUME IInv, NEW s \in Servers
  PROVE  /\ WellFormed(View(s))
         /\ MayWrite(s) => Later(db, View(s))
         /\ MayWrite(s) /\ ~leftover[s] => Transaction(db, View(s))
         /\ MayWrite(s) /\ tx[s] # "write" => View(s) = db
<1>1. MayWrite(s) /\ tx[s] # "write" => View(s) = db
  BY DEF IInv, TypeOK, TxStates, ServerOK, WorkOK, View, MayWrite
<1>2. tx[s] = "write" =>
        /\ Later(db, View(s))
        /\ ~leftover[s] => NoRelationOutlives(db, View(s))
  BY DEF IInv, ServerOK, WorkOK, View
<1>3. WellFormed(View(s)) /\ WellFormed(db)
  BY DEF IInv, TypeOK, View
<1>4. MayWrite(s) => Later(db, View(s))
  BY <1>1, <1>2, <1>3, NoChange DEF Transaction, Later
<1>5. MayWrite(s) /\ ~leftover[s] => Transaction(db, View(s))
  BY <1>1, <1>2, <1>3, NoChange DEF Transaction, Later
<1> QED BY <1>1, <1>3, <1>4, <1>5

\* A SELECT changes no graph anybody sees.
LEMMA SelectSound ==
  ASSUME IInv, NEW s \in Servers, Select(s)
  PROVE  /\ db' = db /\ mixed' = mixed /\ View(s)' = View(s)
         /\ tx' \in [Servers -> TxStates] /\ work' \in [Servers -> Graph]
         /\ \A t \in Servers : WellFormed(work'[t])
         /\ OneWriter'
         /\ \A t \in Servers \ {s} : tx'[t] = tx[t] /\ work'[t] = work[t]
         /\ tx'[s] # "write" => tx[s] # "write"
         /\ tx'[s] = "read" => work'[s] = db
         /\ tx'[s] = "stale" => Later(work'[s], db)
         /\ tx'[s] = "write" => tx[s] = "write" /\ work'[s] = work[s]
<1> USE DEF IInv, TypeOK, Select
<1>1. tx' \in [Servers -> TxStates] /\ work' \in [Servers -> Graph]
  BY DEF TxStates, WellFormed
<1>2. \A t \in Servers \ {s} : tx'[t] = tx[t] /\ work'[t] = work[t]
  OBVIOUS
<1>3. CASE tx[s] = "open"
  <2>1. tx'[s] = "read" /\ work'[s] = db
    BY <1>3
  <2> QED BY <1>1, <1>2, <1>3, <2>1 DEF View, OneWriter
<1>4. CASE tx[s] # "open"
  <2>1. tx'[s] = tx[s] /\ work' = work
    BY <1>4
  <2> QED BY <1>1, <1>2, <1>4, <2>1 DEF View, OneWriter, ServerOK, WorkOK
<1> QED BY <1>3, <1>4

\* A writing statement leaves its transaction with the graph it wrote.
LEMMA WriteSound ==
  ASSUME IInv, NEW s \in Servers, NEW g, WellFormed(g), Write(s, g)
  PROVE  /\ tx'[s] = "write" /\ work'[s] = g /\ db' = db /\ mixed' = mixed
         /\ tx' \in [Servers -> TxStates] /\ work' \in [Servers -> Graph]
         /\ \A t \in Servers : WellFormed(work'[t])
         /\ OneWriter'
         /\ \A t \in Servers \ {s} : tx'[t] = tx[t] /\ work'[t] = work[t]
<1> USE DEF IInv, TypeOK, Write
<1>1. tx'[s] = "write" /\ work'[s] = g /\ db' = db /\ mixed' = mixed
  OBVIOUS
<1>2. \A t \in Servers \ {s} : tx'[t] = tx[t] /\ work'[t] = work[t]
  OBVIOUS
<1>3. tx' \in [Servers -> TxStates] /\ work' \in [Servers -> Graph]
  BY DEF TxStates, WellFormed
<1>4. OneWriter'
  BY <1>1, <1>2 DEF OneWriter, MayWrite, LockedByOther
<1> QED BY <1>1, <1>2, <1>3, <1>4

\* The loop goes on to the next element.
LEMMA NextItemSound ==
  ASSUME IInv, NEW s \in Servers, NextItem(s), req[s] # <<>>
  PROVE  /\ pc' \in [Servers -> PcStates] /\ req' \in [Servers -> Seq(Item)]
         /\ loc' \in [Servers -> Reading] /\ seen' = seen /\ calls' = calls
         /\ leftover' = leftover /\ shown' = shown
         /\ pc'[s] = "item" /\ req'[s] = Tail(req[s])
         /\ \A i \in DOMAIN req'[s] : req'[s][i].op = element(s).op
         /\ HandlerOK(s)'
         /\ \A t \in Servers \ {s} :
              pc'[t] = pc[t] /\ req'[t] = req[t] /\ loc'[t] = loc[t] /\ seen'[t] = seen[t]
<1> USE DEF IInv, TypeOK, NextItem
<1>1. pc'[s] = "item" /\ req'[s] = Tail(req[s])
  OBVIOUS
<1>2. NoReading \in Reading
  BY NamesAssumption DEF NoReading, Read, Reading
<1>3. /\ pc' \in [Servers -> PcStates] /\ req' \in [Servers -> Seq(Item)]
      /\ loc' \in [Servers -> Reading]
  BY <1>2 DEF PcStates
<1>4. \A i \in DOMAIN req'[s] : req'[s][i].op = element(s).op
  <2>1. req[s] \in Seq(Item) /\ 1 \in DOMAIN req[s] /\ element(s) = req[s][1]
    BY DEF element
  <2>2. \A i \in DOMAIN req'[s] : i + 1 \in DOMAIN req[s] /\ req'[s][i] = req[s][i + 1]
    BY <1>1, <2>1
  <2> QED BY <2>1, <2>2 DEF ServerOK, HandlerOK
<1>5. HandlerOK(s)'
  BY <1>1, <1>4 DEF HandlerOK
<1> QED BY <1>1, <1>3, <1>4, <1>5

\* A handler that ends early drops its element list.
LEMMA LeaveSound ==
  ASSUME IInv, NEW s \in Servers, Leave(s)
  PROVE  /\ pc' \in [Servers -> PcStates] /\ req' \in [Servers -> Seq(Item)]
         /\ loc' \in [Servers -> Reading] /\ seen' = seen /\ calls' = calls
         /\ pc'[s] = "idle" /\ req'[s] = <<>>
         /\ HandlerOK(s)'
         /\ \A t \in Servers \ {s} :
              pc'[t] = pc[t] /\ req'[t] = req[t] /\ loc'[t] = loc[t] /\ seen'[t] = seen[t]
<1> USE DEF IInv, TypeOK, Leave
<1>1. NoReading \in Reading
  BY NamesAssumption DEF NoReading, Read, Reading
<1>2. pc'[s] = "idle" /\ req'[s] = <<>>
  OBVIOUS
<1> QED BY <1>1, <1>2 DEF PcStates, HandlerOK

\* A handler that raises leaves a remainder if it holds the write lock.
LEMMA RaisesSound ==
  ASSUME IInv, NEW s \in Servers, Raises(s)
  PROVE  /\ Leave(s) /\ shown' = shown
         /\ leftover' \in [Servers -> BOOLEAN]
         /\ leftover'[s] <=> tx'[s] = "write"
         /\ \A t \in Servers \ {s} : leftover'[t] = leftover[t]
  BY DEF IInv, TypeOK, Raises

\* Reading the clients' records again after the database moved on.
LEMMA ReadBeforeLater ==
  ASSUME NEW g, NEW h, WellFormed(g), WellFormed(h), Later(g, h),
         NEW n \in Names, NEW id \in Nat, NEW rev \in Nat, ReadBefore(g, n, id, rev)
  PROVE  /\ ReadBefore(h, n, id, rev)
         /\ h.ent[n].id = id => g.ent[n].id = id
         /\ h.ent[n].id = id /\ h.ent[n].rev = rev =>
              g.ent[n].rev = rev /\ h.ent[n].obs = g.ent[n].obs
<1> USE DEF ReadBefore, WellFormed, Graph, Entity
<1>1. id < h.nextId /\ id # 0
  BY DEF Later, IdsAreFresh
<1>2. h.ent[n].id = id => g.ent[n].id = id
  BY DEF Later, IdsAreFresh, Exists
<1>3. h.ent[n].id = id =>
        /\ h.ent[n].rev >= g.ent[n].rev
        /\ h.ent[n].obs # g.ent[n].obs => h.ent[n].rev > g.ent[n].rev
  BY <1>2 DEF Later, RevisionTracksContent, SameRow, Exists
<1>4. g.ent[n].rev \in Nat /\ h.ent[n].rev \in Nat
  OBVIOUS
<1>5. ASSUME h.ent[n].id = id
      PROVE  /\ h.ent[n].rev >= rev
             /\ h.ent[n].rev = rev => g.ent[n].rev = rev /\ h.ent[n].obs = g.ent[n].obs
  <2>1. g.ent[n].rev >= rev
    BY <1>2, <1>5
  <2>2. h.ent[n].rev >= g.ent[n].rev
    BY <1>3, <1>5
  <2>3. h.ent[n].rev >= rev /\ (h.ent[n].rev = rev => g.ent[n].rev = rev)
    BY <1>4, <2>1, <2>2
  <2>4. h.ent[n].rev = rev => h.ent[n].obs = g.ent[n].obs
    BY <1>3, <1>4, <1>5, <2>3
  <2> QED BY <2>3, <2>4
<1> QED BY <1>1, <1>2, <1>5

\* A row that a graph protects is protected by every later graph.
LEMMA ProtectsLater ==
  ASSUME NEW g, NEW h, WellFormed(g), WellFormed(h), Later(g, h),
         NEW n \in Names, NEW row \in Entity, Protects(g, n, row)
  PROVE  Protects(h, n, row)
  BY ReadBeforeLater DEF Protects, Entity

\* "Later" composes: what one step preserves, two steps preserve.
LEMMA LaterTransitive ==
  ASSUME NEW g, NEW w, NEW h, WellFormed(g), WellFormed(w), WellFormed(h),
         Later(g, w), Later(w, h)
  PROVE  Later(g, h)
<1> USE DEF WellFormed, Graph, Entity
<1>1. IdsAreFresh(g, h)
  BY DEF Later, IdsAreFresh, Exists
<1>2. ASSUME NEW n \in Names, SameRow(g, h, n)
      PROVE  SameRow(g, w, n) /\ SameRow(w, h, n)
  BY <1>2 DEF Later, IdsAreFresh, SameRow, Exists
<1>3. RevisionTracksContent(g, h)
  BY <1>2 DEF Later, RevisionTracksContent
<1> QED BY <1>1, <1>3 DEF Later

\* A step of s that keeps the committed graph keeps the invariant, if it
\* keeps it for s and leaves the variables of the other servers alone.
LEMMA OneServerSteps ==
  ASSUME IInv, NEW s \in Servers, db' = db, TypeOK', OneWriter', ServerOK(s)',
         \A t \in Servers \ {s} :
            /\ tx'[t] = tx[t] /\ work'[t] = work[t] /\ pc'[t] = pc[t]
            /\ req'[t] = req[t] /\ loc'[t] = loc[t] /\ seen'[t] = seen[t]
            /\ leftover'[t] = leftover[t] /\ shown'[t] = shown[t]
  PROVE  IInv'
<1>1. ASSUME NEW t \in Servers \ {s} PROVE ServerOK(t)'
  BY <1>1, ServerUntouched DEF IInv
<1> QED BY <1>1 DEF IInv

\* A step that keeps the committed graph and the remainder keeps what the
\* client was shown, if it is not to read the observations next.
LEMMA ReaderKept ==
  ASSUME IInv, NEW s \in Servers, db' = db, seen' = seen, shown' = shown,
         leftover[s] => leftover'[s] /\ work'[s] = work[s],
         pc'[s] = "openObs" => ReadBefore(View(s)', loc'[s].name, loc'[s].id, loc'[s].rev)
  PROVE  ReaderOK(s)'
<1>1. \A n \in Names : seen'[s][n].id # 0 =>
         /\ shown'[s][n] = "committed" => Protects(db', n, seen'[s][n])
         /\ shown'[s][n] = "pending" => leftover'[s] /\ Protects(work'[s], n, seen'[s][n])
  BY DEF IInv, ServerOK, ReaderOK
<1> QED BY <1>1 DEF ReaderOK, Protects, ReadBefore, View

\* What was shown of a remainder is protected by what is written on top.
LEMMA WrittenReader ==
  ASSUME IInv, NEW s \in Servers, NEW g, WellFormed(g), Write(s, g),
         Later(View(s), g), pc'[s] # "openObs", seen' = seen, shown' = shown,
         leftover[s] => leftover'[s]
  PROVE  ReaderOK(s)'
<1>1. tx'[s] = "write" /\ work'[s] = g /\ db' = db
  BY WriteSound
<1>2. ASSUME NEW n \in Names, seen[s][n].id # 0, shown[s][n] = "pending"
      PROVE  leftover'[s] /\ Protects(g, n, seen[s][n])
  <2>1. leftover[s] /\ Protects(work[s], n, seen[s][n])
    BY <1>2 DEF IInv, ServerOK, ReaderOK
  <2>2. View(s) = work[s]
    BY <2>1 DEF IInv, ServerOK, WorkOK, View
  <2>3. seen[s][n] \in Entity /\ WellFormed(work[s])
    BY DEF IInv, TypeOK
  <2> QED BY <2>1, <2>2, <2>3, ProtectsLater
<1>3. ASSUME NEW n \in Names, seen[s][n].id # 0, shown[s][n] = "committed"
      PROVE  Protects(db, n, seen[s][n])
  BY <1>3 DEF IInv, ServerOK, ReaderOK
<1>4. \A n \in Names : seen'[s][n].id # 0 =>
         /\ shown'[s][n] = "committed" => Protects(db', n, seen'[s][n])
         /\ shown'[s][n] = "pending" => leftover'[s] /\ Protects(work'[s], n, seen'[s][n])
  BY <1>1, <1>2, <1>3
<1> QED BY <1>4 DEF ReaderOK, Protects, ReadBefore

\* A writing statement followed by the next element: it is enough that the
\* graph written is one transaction away from the one the statement saw,
\* and that relations are only added while the entities are as committed.
LEMMA WrittenItem ==
  ASSUME IInv, NEW s \in Servers, NEW g, WellFormed(g),
         req[s] # <<>>, Write(s, g), NextItem(s), Transaction(View(s), g),
         g.rel \subseteq View(s).rel \/ element(s).op = "createRel",
         element(s).op = "createRel" => g.ent = View(s).ent
  PROVE  IInv'
<1>1. /\ WellFormed(View(s)) /\ WellFormed(db) /\ Later(db, View(s))
      /\ ~leftover[s] => Transaction(db, View(s))
      /\ tx[s] # "write" => View(s) = db
  BY ViewIsSound DEF Write, IInv, TypeOK
<1>2. element(s).op = "createRel" /\ ~leftover[s] => View(s).ent = db.ent
  BY <1>1 DEF IInv, ServerOK, WorkOK, View
<1>3. Later(View(s), g) /\ Later(db, g)
  BY <1>1, LaterTransitive DEF Transaction, Later
<1>4. ~leftover[s] => Transaction(db, g)
  BY <1>1, <1>2, ChangesCompose
<1>5. TypeOK'
  BY WriteSound, NextItemSound DEF IInv, TypeOK
<1>6. HandlerOK(s)'
  BY NextItemSound
<1>7. WorkOK(s)'
  <2>1. /\ tx'[s] = "write" /\ work'[s] = g /\ db' = db /\ pc'[s] = "item"
        /\ leftover' = leftover
    BY WriteSound, NextItemSound
  <2>2. req'[s] # <<>> => (element(s).op)' = element(s).op
    <3>1. req'[s] \in Seq(Item)
      BY <1>5 DEF TypeOK
    <3> QED BY <3>1, NextItemSound DEF element
  <2> QED BY <1>2, <1>3, <1>4, <2>1, <2>2 DEF WorkOK, Transaction
<1>8. ReaderOK(s)'
  <2>1. seen' = seen /\ shown' = shown /\ leftover' = leftover /\ pc'[s] = "item"
    BY NextItemSound
  <2> QED BY <1>3, <2>1, WrittenReader
<1> QED BY <1>5, <1>6, <1>7, <1>8, WriteSound, NextItemSound, OneServerSteps DEF ServerOK

\* A writing statement after which the handler raises: what it wrote is the
\* remainder.
LEMMA RaisedItem ==
  ASSUME IInv, NEW s \in Servers, NEW g, WellFormed(g),
         Write(s, g), Raises(s), Transaction(View(s), g)
  PROVE  IInv'
<1>1. Leave(s)
  BY RaisesSound
<1>2. WellFormed(View(s)) /\ WellFormed(db) /\ Later(db, View(s))
  BY ViewIsSound DEF Write, IInv, TypeOK
<1>3. Later(View(s), g) /\ Later(db, g)
  BY <1>2, LaterTransitive DEF Transaction, Later
<1>4. TypeOK'
  BY <1>1, WriteSound, LeaveSound, RaisesSound DEF IInv, TypeOK
<1>5. HandlerOK(s)'
  BY <1>1, LeaveSound
<1>6. /\ tx'[s] = "write" /\ work'[s] = g /\ db' = db /\ pc'[s] = "idle"
      /\ leftover'[s] /\ seen' = seen /\ shown' = shown
  BY <1>1, WriteSound, LeaveSound, RaisesSound
<1>7. WorkOK(s)'
  BY <1>3, <1>6 DEF WorkOK
<1>8. ReaderOK(s)'
  BY <1>3, <1>6, WrittenReader
<1>9. OneWriter' /\ \A t \in Servers \ {s} : tx'[t] = tx[t] /\ work'[t] = work[t]
  BY WriteSound
<1>10. \A t \in Servers \ {s} :
         /\ pc'[t] = pc[t] /\ req'[t] = req[t] /\ loc'[t] = loc[t] /\ seen'[t] = seen[t]
         /\ leftover'[t] = leftover[t] /\ shown'[t] = shown[t]
  BY <1>1, <1>6, LeaveSound, RaisesSound
<1> QED BY <1>4, <1>5, <1>6, <1>7, <1>8, <1>9, <1>10, OneServerSteps DEF ServerOK

\* A handler that raises before it writes the element keeps the transaction,
\* with what it wrote for the elements before.
LEMMA RaisedBeforeWriting ==
  ASSUME IInv, NEW s \in Servers, Raises(s), db' = db, mixed' = mixed,
         tx' \in [Servers -> TxStates], work' \in [Servers -> Graph],
         \A t \in Servers : WellFormed(work'[t]),
         OneWriter',
         \A t \in Servers \ {s} : tx'[t] = tx[t] /\ work'[t] = work[t],
         tx'[s] = "write" => tx[s] = "write" /\ work'[s] = work[s],
         tx'[s] # "write" => tx[s] # "write",
         tx'[s] = "read" => work'[s] = db,
         tx'[s] = "stale" => Later(work'[s], db)
  PROVE  IInv'
<1>1. Leave(s) /\ shown' = shown /\ (leftover'[s] <=> tx'[s] = "write")
  BY RaisesSound
<1>2. TypeOK'
  BY <1>1, LeaveSound, RaisesSound DEF IInv, TypeOK
<1>3. HandlerOK(s)' /\ pc'[s] = "idle" /\ seen' = seen
  BY <1>1, LeaveSound
<1>4. WorkOK(s)'
  <2>1. tx'[s] = "write" => Later(db', work'[s])
    BY DEF IInv, ServerOK, WorkOK
  <2> QED BY <1>1, <1>3, <2>1 DEF WorkOK
<1>5. ReaderOK(s)'
  <2>1. leftover[s] => tx[s] = "write"
    BY DEF IInv, ServerOK, WorkOK
  <2> QED BY <1>1, <1>3, <2>1, ReaderKept
<1> QED BY <1>1, <1>2, <1>3, <1>4, <1>5, LeaveSound, RaisesSound, OneServerSteps
        DEF ServerOK

-----------------------------------------------------------------------------
(* Every action keeps the invariant.                                       *)

\* The empty graph and the idle servers satisfy the invariant.
LEMMA InitEstablishes == Init => IInv
<1> SUFFICES ASSUME Init PROVE IInv
  OBVIOUS
<1> USE DEF Init
<1>1. TypeOK
  <2>1. NoReading \in Reading
    BY NamesAssumption DEF NoReading, Read, Reading
  <2>2. NoEntity \in Entity
    BY DEF NoEntity, Row, Entity
  <2>3. WellFormed(EmptyGraph) /\ EmptyGraph \in Graph
    BY EmptyIsWellFormed DEF WellFormed
  <2>4. /\ leftover \in [Servers -> BOOLEAN] /\ mixed \in BOOLEAN
        /\ shown \in [Servers -> [Names -> Fates]]
    BY DEF Fates
  <2> QED BY <2>1, <2>2, <2>3, <2>4, MaxCallsAssumption DEF TypeOK, TxStates, PcStates
<1>2. OneWriter
  BY DEF OneWriter
<1>3. ASSUME NEW s \in Servers PROVE ServerOK(s)
  BY DEF ServerOK, HandlerOK, WorkOK, ReaderOK, NoEntity, Row
<1> QED BY <1>1, <1>2, <1>3 DEF IInv

\* A call only hands its arguments to the handler.
LEMMA CallKeeps == ASSUME IInv, NEW s \in Servers, Call(s) PROVE IInv'
<1> USE DEF IInv, Call
<1>1. PICK b \in Batches : req' = [req EXCEPT ![s] = b]
  OBVIOUS
<1>2. b \in Seq(Item) /\ \A i, j \in DOMAIN b : b[i].op = b[j].op
  BY BatchesAssumption
<1>3. TypeOK'
  <2>1. req' \in [Servers -> Seq(Item)] /\ pc' \in [Servers -> PcStates]
    BY <1>1, <1>2 DEF TypeOK, PcStates
  <2>2. calls' \in 0..MaxCalls
    BY MaxCallsAssumption DEF TypeOK
  <2> QED BY <2>1, <2>2 DEF TypeOK
<1>4. pc'[s] = "item" /\ req'[s] = b /\ loc' = loc /\ seen' = seen
  BY <1>1 DEF TypeOK
<1>5. OneWriter'
  BY DEF OneWriter
<1>6. ServerOK(s)'
  <2>1. HandlerOK(s)' /\ WorkOK(s)'
    BY <1>2, <1>4 DEF ServerOK, HandlerOK, WorkOK
  <2>2. ReaderOK(s)'
    BY <1>4, ReaderKept
  <2> QED BY <2>1, <2>2 DEF ServerOK
<1>7. \A t \in Servers \ {s} : pc'[t] = pc[t] /\ req'[t] = req[t]
  BY <1>1 DEF TypeOK
<1> QED BY <1>3, <1>5, <1>6, <1>7, OneServerSteps

\* A created row has a fresh id: no client was ever shown it.
LEMMA CreateEntityKeeps == ASSUME IInv, NEW s \in Servers, CreateEntity(s) PROVE IInv'
<1> DEFINE n == element(s).name
<1>1. req[s] # <<>> /\ element(s).op = "create"
  BY DEF CreateEntity, Executes, AtWrite, HasItem, IInv, ServerOK, HandlerOK
<1>2. element(s) \in Item
  BY <1>1 DEF IInv, TypeOK, element
<1>3. n \in Names /\ element(s).contents \in SUBSET Contents
  BY <1>2 DEF Item
<1>4. WellFormed(View(s))
  BY ViewIsSound
<1>5. CASE Exists(View(s), n)
  <2>1. Write(s, View(s)) /\ NextItem(s)
    BY <1>5 DEF CreateEntity
  <2> QED BY <1>1, <1>4, <2>1, NoChange, WrittenItem
<1>6. CASE ~Exists(View(s), n)
  <2>1. PICK cs \in SUBSET Contents :
          Write(s, InsertEntity(View(s), n, cs)) /\ (NextItem(s) \/ Raises(s))
    BY <1>3, <1>6 DEF CreateEntity
  <2>2. PICK g : g = InsertEntity(View(s), n, cs)
    OBVIOUS
  <2>3. WellFormed(g) /\ Transaction(View(s), g) /\ g.rel = View(s).rel
    BY <1>3, <1>4, <1>6, <2>2, InsertEntityChanges
  <2>4. CASE NextItem(s)
    BY <1>1, <2>1, <2>2, <2>3, <2>4, WrittenItem
  <2>5. CASE Raises(s)
    BY <2>1, <2>2, <2>3, <2>5, RaisedItem
  <2> QED BY <2>1, <2>4, <2>5
<1> QED BY <1>5, <1>6

\* Relations carry no revision, so no reading depends on them.
LEMMA RelationKeeps ==
  ASSUME IInv, NEW s \in Servers, CreateRelation(s) \/ DeleteRelation(s) PROVE IInv'
<1>1. PICK g \in {InsertRelations(View(s), element(s).rels),
                  DeleteRelations(View(s), element(s).rels)} :
        /\ req[s] # <<>> /\ Write(s, g) /\ NextItem(s)
        /\ element(s).op = "createRel" \/ g = DeleteRelations(View(s), element(s).rels)
  BY DEF CreateRelation, DeleteRelation, Executes, AtWrite, HasItem, IInv, ServerOK, HandlerOK
<1>2. element(s) \in Item
  BY <1>1 DEF IInv, TypeOK, element
<1>3. WellFormed(g) /\ Transaction(View(s), g) /\ g.ent = View(s).ent
  BY <1>1, <1>2, ViewIsSound, RelationsChange DEF Item
<1>4. g.rel \subseteq View(s).rel \/ element(s).op = "createRel"
  BY <1>1 DEF DeleteRelations, WithRelations
<1> QED BY <1>1, <1>3, <1>4, WrittenItem

\* A deleted row leaves with its id, which never comes back.
LEMMA DeleteEntityKeeps ==
  ASSUME IInv, NEW s \in Servers, DeleteEntityItem(s) PROVE IInv'
<1> DEFINE n == element(s).name
           h == DeleteEntity(DeleteRelationsOf(View(s), n), n)
<1>1. PICK g \in {View(s), h} :
        req[s] # <<>> /\ element(s).op = "delEntity" /\ Write(s, g) /\ NextItem(s)
  BY DEF DeleteEntityItem, Executes, AtWrite, HasItem, IInv, ServerOK, HandlerOK
<1>2. n \in Names
  <2>1. element(s) \in Item
    BY <1>1 DEF IInv, TypeOK, element
  <2> QED BY <2>1 DEF Item
<1>3. WellFormed(h) /\ Transaction(View(s), h) /\ h.rel \subseteq View(s).rel
  BY <1>2, ViewIsSound, DeleteEntityChanges
<1>4. WellFormed(g) /\ Transaction(View(s), g) /\ g.rel \subseteq View(s).rel
  <2> HIDE DEF h
  <2> QED BY <1>1, <1>3, ViewIsSound, NoChange
<1> QED BY <1>1, <1>4, WrittenItem

\* The SELECTs of add_observations and delete_observations: either the next
\* element, or the same element with more read about it.
LEMMA ReadIdKeeps == ASSUME IInv, NEW s \in Servers, ReadId(s) PROVE IInv'
<1> DEFINE n == element(s).name
           r == Read(n, View(s).ent[n].id, 0, {})
<1>1. /\ req[s] # <<>> /\ element(s).op \in {"add", "delObs"} /\ pc[s] = "item"
      /\ Select(s) /\ db' = db /\ mixed' = mixed
      /\ leftover[s] => tx'[s] = "write" /\ work'[s] = work[s]
  BY SelectSound DEF ReadId, HasItem, IInv, ServerOK, WorkOK
<1>2. CASE ~Exists(View(s), n)
  <2>1. NextItem(s)
    BY <1>2 DEF ReadId
  <2>2. TypeOK' /\ HandlerOK(s)'
    BY <1>1, <2>1, SelectSound, NextItemSound DEF IInv, TypeOK
  <2>3. pc'[s] = "item" /\ seen' = seen /\ leftover' = leftover /\ shown' = shown
    BY <1>1, <2>1, NextItemSound
  <2>4. req'[s] # <<>> => (element(s).op)' # "createRel"
    <3>1. req'[s] \in Seq(Item)
      BY <2>2 DEF TypeOK
    <3> QED BY <1>1, <2>1, <3>1, NextItemSound DEF element
  <2>5. WorkOK(s)'
    BY <1>1, <2>3, <2>4, SelectSound DEF IInv, ServerOK, WorkOK
  <2>6. ReaderOK(s)'
    BY <1>1, <2>3, ReaderKept
  <2> QED BY <1>1, <2>1, <2>2, <2>5, <2>6, SelectSound, NextItemSound,
             OneServerSteps DEF ServerOK
<1>3. CASE Exists(View(s), n)
  <2>1. /\ loc' = [loc EXCEPT ![s] = r]
        /\ pc' = [pc EXCEPT ![s] = IF element(s).op = "add" THEN "existing" ELSE "write"]
        /\ req' = req /\ seen' = seen /\ calls' = calls
        /\ leftover' = leftover /\ shown' = shown
    BY <1>3 DEF ReadId
  <2>2. element(s) \in Item
    BY <1>1 DEF IInv, TypeOK, element
  <2>3. n \in Names /\ View(s).ent[n].id \in Nat
    BY <2>2, ViewIsSound DEF Item, WellFormed, Graph, Entity
  <2>4. r \in Reading
    BY <2>3 DEF Read, Reading
  <2>5. TypeOK'
    <3> HIDE DEF r
    <3> QED BY <1>1, <2>1, <2>4, SelectSound DEF IInv, TypeOK, PcStates
  <2>6. /\ pc'[s] = IF element(s).op = "add" THEN "existing" ELSE "write"
        /\ loc'[s].id = View(s).ent[n].id /\ (element(s))' = element(s)
    BY <2>1 DEF IInv, TypeOK, Read, element
  <2>7. HandlerOK(s)'
    BY <1>1, <2>1, <2>6 DEF IInv, ServerOK, HandlerOK
  <2>8. WorkOK(s)'
    <3>1. tx'[s] = "write" => IsRow(work'[s], n, loc'[s].id)
      BY <1>1, <1>3, <2>6, SelectSound DEF IsRow, View
    <3> QED BY <1>1, <2>1, <2>6, <3>1, SelectSound DEF IInv, ServerOK, WorkOK
  <2>9. ReaderOK(s)'
    BY <1>1, <2>1, <2>6, ReaderKept
  <2> QED BY <1>1, <2>1, <2>5, <2>7, <2>8, <2>9, SelectSound, OneServerSteps
          DEF ServerOK, IInv, TypeOK
<1> QED BY <1>2, <1>3

\* The second SELECT of add_observations writes nothing.
LEMMA ReadExistingKeeps == ASSUME IInv, NEW s \in Servers, ReadExisting(s) PROVE IInv'
<1> DEFINE n == element(s).name
           existing == IF IsRow(View(s), n, loc[s].id) THEN View(s).ent[n].obs ELSE {}
           new == element(s).contents \ existing
<1>1. /\ req[s] # <<>> /\ element(s).op = "add" /\ pc[s] = "existing"
      /\ Select(s) /\ db' = db /\ mixed' = mixed
      /\ leftover[s] => tx'[s] = "write" /\ work'[s] = work[s]
  BY SelectSound DEF ReadExisting, IInv, ServerOK, HandlerOK, WorkOK
<1>0. CASE Flaw(s) = "texts"
  <2>1. Raises(s)
    BY <1>0 DEF ReadExisting
  <2> QED BY <1>1, <2>1, SelectSound, RaisedBeforeWriting
<1>2. CASE Flaw(s) # "texts" /\ new = {}
  <2>1. NextItem(s)
    BY <1>2 DEF ReadExisting
  <2>2. TypeOK' /\ HandlerOK(s)'
    BY <1>1, <2>1, SelectSound, NextItemSound DEF IInv, TypeOK
  <2>3. pc'[s] = "item" /\ seen' = seen /\ leftover' = leftover /\ shown' = shown
    BY <1>1, <2>1, NextItemSound
  <2>4. req'[s] # <<>> => (element(s).op)' # "createRel"
    <3>1. req'[s] \in Seq(Item)
      BY <2>2 DEF TypeOK
    <3> QED BY <1>1, <2>1, <3>1, NextItemSound DEF element
  <2>5. WorkOK(s)'
    BY <1>1, <2>3, <2>4, SelectSound DEF IInv, ServerOK, WorkOK
  <2>6. ReaderOK(s)'
    BY <1>1, <2>3, ReaderKept
  <2> QED BY <1>1, <2>1, <2>2, <2>5, <2>6, SelectSound, NextItemSound,
             OneServerSteps DEF ServerOK
<1>3. CASE Flaw(s) # "texts" /\ new # {}
  <2>1. /\ loc' = [loc EXCEPT ![s] = Read(n, loc[s].id, 0, new)]
        /\ pc' = [pc EXCEPT ![s] = "write"]
        /\ req' = req /\ seen' = seen /\ calls' = calls
        /\ leftover' = leftover /\ shown' = shown
    BY <1>3 DEF ReadExisting
  <2>2. element(s) \in Item
    BY <1>1 DEF IInv, TypeOK, element
  <2>3. Read(n, loc[s].id, 0, new) \in Reading
    <3> HIDE DEF existing
    <3> QED BY <2>2 DEF Read, Reading, Item, IInv, TypeOK
  <2>4. TypeOK'
    <3> HIDE DEF new, n
    <3> QED BY <1>1, <2>1, <2>3, SelectSound DEF IInv, TypeOK, PcStates
  <2>5. pc'[s] = "write" /\ loc'[s].id = loc[s].id /\ (element(s))' = element(s)
    <3> HIDE DEF new, n
    <3> QED BY <2>1 DEF IInv, TypeOK, Read, element
  <2>6. HandlerOK(s)'
    BY <1>1, <2>1, <2>5 DEF IInv, ServerOK, HandlerOK
  <2>7. WorkOK(s)'
    BY <1>1, <2>1, <2>5, SelectSound DEF IInv, ServerOK, WorkOK
  <2>8. ReaderOK(s)'
    BY <1>1, <2>1, <2>5, ReaderKept
  <2>9. \A t \in Servers \ {s} : loc'[t] = loc[t] /\ pc'[t] = pc[t]
    <3> HIDE DEF new, n
    <3> QED BY <2>1 DEF IInv, TypeOK
  <2> QED BY <1>1, <2>1, <2>4, <2>6, <2>7, <2>8, <2>9, SelectSound, OneServerSteps
          DEF ServerOK
<1> QED BY <1>0, <1>2, <1>3

\* A flawed name or value raises before the element is written.
LEMMA UnbindableKeeps ==
  ASSUME IInv, NEW s \in Servers, NameUnbindable(s) \/ ValueUnbindable(s) PROVE IInv'
<1>1. /\ Raises(s) /\ db' = db /\ mixed' = mixed /\ work' = work
      /\ tx' = tx \/ tx' = [tx EXCEPT ![s] = IF @ = "none" THEN "open" ELSE @]
  BY DEF NameUnbindable, ValueUnbindable
<1>2. /\ tx' \in [Servers -> TxStates]
      /\ tx'[s] \in {"read", "stale", "write"} => tx'[s] = tx[s]
      /\ tx[s] = "write" => tx'[s] = "write"
      /\ \A t \in Servers \ {s} : tx'[t] = tx[t]
  BY <1>1 DEF IInv, TypeOK, TxStates
<1>3. OneWriter'
  BY <1>2 DEF IInv, OneWriter
<1>4. work' \in [Servers -> Graph] /\ \A t \in Servers : WellFormed(work'[t])
  BY <1>1 DEF IInv, TypeOK
<1>5. /\ tx'[s] = "read" => work'[s] = db
      /\ tx'[s] = "stale" => Later(work'[s], db)
  BY <1>1, <1>2 DEF IInv, ServerOK, WorkOK
<1> QED BY <1>1, <1>2, <1>3, <1>4, <1>5, RaisedBeforeWriting

\* When the UPDATE of add_observations hits no row and the INSERT raises, the
\* transaction has written nothing: had the handler held the lock when it
\* read the id, the row could not have gone.
LEMMA AddObservationsKeeps ==
  ASSUME IInv, NEW s \in Servers, AddObservations(s) PROVE IInv'
<1> DEFINE n == element(s).name
           g == InsertObs(Bump(View(s), n), n, loc[s].new)
<1>1. req[s] # <<>> /\ element(s).op = "add" /\ pc[s] = "write"
  BY DEF AddObservations, Executes, AtWrite, HasItem, IInv, ServerOK, HandlerOK
<1>2. element(s) \in Item
  BY <1>1 DEF IInv, TypeOK, element
<1>3. n \in Names /\ loc[s].new \in SUBSET Contents
  BY <1>2 DEF Item, IInv, TypeOK, Reading
<1>4. CASE UpdateHits(s)
  <2>1. Write(s, g) /\ NextItem(s)
    BY <1>4 DEF AddObservations
  <2>2. WellFormed(g) /\ Transaction(View(s), g) /\ g.rel = View(s).rel
    BY <1>3, <1>4, ViewIsSound, BumpedChangeChanges DEF UpdateHits, IsRow
  <2> HIDE DEF g
  <2> QED BY <1>1, <2>1, <2>2, WrittenItem
<1>5. CASE ~UpdateHits(s) /\ element(s).cas
  <2>1. Write(s, View(s)) /\ NextItem(s)
    BY <1>5 DEF AddObservations
  <2> QED BY <1>1, <2>1, ViewIsSound, NoChange, WrittenItem
<1>6. CASE ~UpdateHits(s) /\ ~element(s).cas
  <2>1. /\ Write(s, View(s)) /\ Leave(s)
        /\ leftover' = leftover /\ shown' = shown
    BY <1>6 DEF AddObservations, Fails
  <2>2. WellFormed(View(s)) /\ MayWrite(s)
    BY <2>1, ViewIsSound DEF Write
  <2>3. tx[s] # "write"
    BY <1>1, <1>6 DEF IInv, ServerOK, WorkOK, UpdateHits, View
  <2>4. View(s) = db
    BY <2>2, <2>3, ViewIsSound
  <2>5. tx'[s] = "write" /\ work'[s] = db /\ db' = db /\ pc'[s] = "idle"
        /\ req'[s] = <<>> /\ seen' = seen
    BY <2>1, <2>2, <2>4, WriteSound, LeaveSound
  <2>6. TypeOK'
    BY <2>1, <2>2, WriteSound, LeaveSound DEF IInv, TypeOK
  <2>7. WorkOK(s)'
    BY <2>5, NoChange DEF WorkOK, IInv, TypeOK, Transaction, Later
  <2>8. ReaderOK(s)'
    <3>1. ~leftover[s]
      BY <2>3 DEF IInv, ServerOK, WorkOK
    <3> QED BY <2>1, <2>5, <3>1, ReaderKept
  <2> QED BY <2>1, <2>2, <2>6, <2>7, <2>8, WriteSound, LeaveSound, OneServerSteps
          DEF ServerOK
<1> QED BY <1>4, <1>5, <1>6

\* Every deletion of observations bumps the revision first.
LEMMA DeleteObservationsKeeps ==
  ASSUME IInv, NEW s \in Servers, DeleteObservations(s) PROVE IInv'
<1> DEFINE n == element(s).name
<1>1. req[s] # <<>> /\ element(s).op = "delObs"
  BY DEF DeleteObservations, Executes, AtWrite, HasItem, IInv, ServerOK, HandlerOK
<1>2. element(s) \in Item
  BY <1>1 DEF IInv, TypeOK, element
<1>3. n \in Names /\ element(s).contents \in SUBSET Contents
  BY <1>2 DEF Item
<1>4. CASE UpdateHits(s)
  <2>1. PICK cs \in SUBSET Contents :
          /\ Write(s, DeleteObs(Bump(View(s), n), n, cs))
          /\ NextItem(s) \/ Raises(s)
    BY <1>3, <1>4 DEF DeleteObservations
  <2>2. PICK g : g = DeleteObs(Bump(View(s), n), n, cs)
    OBVIOUS
  <2>3. WellFormed(g) /\ Transaction(View(s), g) /\ g.rel = View(s).rel
    BY <1>3, <1>4, <2>2, ViewIsSound, BumpedChangeChanges DEF UpdateHits, IsRow
  <2>4. CASE NextItem(s)
    BY <1>1, <2>1, <2>2, <2>3, <2>4, WrittenItem
  <2>5. CASE Raises(s)
    BY <2>1, <2>2, <2>3, <2>5, RaisedItem
  <2> QED BY <2>1, <2>4, <2>5
<1>5. CASE ~UpdateHits(s)
  <2>1. Write(s, View(s)) /\ (NextItem(s) \/ Raises(s))
    BY <1>5 DEF DeleteObservations
  <2>2. WellFormed(View(s)) /\ Transaction(View(s), View(s))
    BY ViewIsSound, NoChange
  <2>3. CASE NextItem(s)
    BY <1>1, <2>1, <2>2, <2>3, WrittenItem
  <2>4. CASE Raises(s)
    BY <2>1, <2>2, <2>4, RaisedItem
  <2> QED BY <2>1, <2>3, <2>4
<1> QED BY <1>4, <1>5

\* A commit without a write ends the transaction and changes nothing else.
LEMMA CommitKeeps == ASSUME IInv, NEW s \in Servers, Commit(s) PROVE IInv'
<1>1. /\ pc[s] = "item" /\ req[s] = <<>> /\ req' = req /\ loc' = loc /\ seen' = seen
      /\ db' = IF tx[s] = "write" THEN work[s] ELSE db
      /\ pc' = [pc EXCEPT ![s] = "idle"] /\ work' = [work EXCEPT ![s] = EmptyGraph]
      /\ calls' = calls /\ mixed' = leftover[s]
      /\ leftover' = [leftover EXCEPT ![s] = FALSE] /\ shown' = Settled(s, "committed")
  BY DEF Commit
<1>8. /\ shown' \in [Servers -> [Names -> Fates]]
      /\ \A n \in Names : shown'[s][n] =
           IF shown[s][n] = "pending" THEN "committed" ELSE shown[s][n]
      /\ \A t \in Servers \ {s} : shown'[t] = shown[t]
  BY <1>1 DEF IInv, TypeOK, Settled, Fates
<1>9. ~leftover'[s] /\ \A t \in Servers \ {s} : leftover'[t] = leftover[t]
  BY <1>1 DEF IInv, TypeOK
<1>2. tx'[s] = "none" /\ \A t \in Servers \ {s} :
        tx'[t] = IF tx[t] = "read" /\ db' # db THEN "stale" ELSE tx[t]
  BY DEF Commit
<1>3. WellFormed(db) /\ WellFormed(db')
  BY <1>1 DEF IInv, TypeOK
<1>4. Later(db, db')
  BY <1>1, <1>3, NoChange DEF IInv, ServerOK, WorkOK, Transaction, Later
<1>5. TypeOK'
  <2>1. tx' \in [Servers -> TxStates]
    BY DEF Commit, IInv, TypeOK, TxStates
  <2>2. work' \in [Servers -> Graph] /\ \A t \in Servers : WellFormed(work'[t])
    BY <1>1, EmptyIsWellFormed DEF IInv, TypeOK, WellFormed
  <2>3. leftover' \in [Servers -> BOOLEAN] /\ mixed' \in BOOLEAN
    BY <1>1 DEF IInv, TypeOK
  <2> QED BY <1>8, <1>1, <1>3, <2>1, <2>2, <2>3 DEF IInv, TypeOK, PcStates
<1>6. OneWriter'
  BY <1>2 DEF IInv, OneWriter
<1>7. ASSUME NEW t \in Servers PROVE ServerOK(t)'
  <2>1. HandlerOK(t)'
    BY <1>1 DEF IInv, TypeOK, ServerOK, HandlerOK, element
  <2>2. WorkOK(t)'
    <3>1. CASE t = s
      BY <1>9, <1>2, <3>1 DEF WorkOK
    <3>2. CASE t # s /\ db' = db
      BY <1>9, <1>1, <1>2, <3>2 DEF IInv, TypeOK, ServerOK, WorkOK, element
    <3>3. CASE t # s /\ db' # db
      <4>1. tx[s] = "write" /\ tx[t] # "write"
        BY <1>1, <3>3 DEF IInv, OneWriter
      <4>2. tx'[t] # "read" /\ tx'[t] # "write" /\ work'[t] = work[t]
        BY <1>1, <1>2, <3>3, <4>1 DEF IInv, TypeOK
      <4>3. tx'[t] = "stale" => Later(work[t], db)
        BY <1>2, <3>3, NoChange DEF IInv, TypeOK, ServerOK, WorkOK, Transaction, Later
      <4>4. tx'[t] = "stale" => Later(work[t], db')
        BY <1>3, <1>4, <4>3, LaterTransitive DEF IInv, TypeOK
      <4>5. ~leftover'[t]
        BY <1>9, <3>3, <4>1 DEF IInv, ServerOK, WorkOK
      <4> QED BY <4>2, <4>4, <4>5 DEF WorkOK
    <3> QED BY <3>1, <3>2, <3>3
  <2>3. ReaderOK(t)'
    <3>1. ASSUME NEW n \in Names, seen[t][n].id # 0
          PROVE  /\ shown'[t][n] = "committed" => Protects(db', n, seen[t][n])
                 /\ shown'[t][n] = "pending" =>
                      leftover'[t] /\ Protects(work'[t], n, seen[t][n])
      <4>1. seen[t][n] \in Entity
        BY DEF IInv, TypeOK
      <4>2. /\ shown[t][n] = "committed" => Protects(db, n, seen[t][n])
            /\ shown[t][n] = "pending" => leftover[t] /\ Protects(work[t], n, seen[t][n])
        BY <3>1 DEF IInv, ServerOK, ReaderOK
      <4>3. shown[t][n] = "committed" => Protects(db', n, seen[t][n])
        BY <1>3, <1>4, <4>1, <4>2, ProtectsLater
      <4>4. CASE t = s
        <5>1. shown[s][n] = "pending" => db' = work[s]
          BY <1>1, <4>2, <4>4 DEF IInv, ServerOK, WorkOK
        <5>2. shown'[s][n] # "pending"
          BY <1>8
        <5>3. shown'[s][n] = "committed" =>
                shown[s][n] = "committed" \/ shown[s][n] = "pending"
          BY <1>8
        <5> QED BY <4>2, <4>3, <4>4, <5>1, <5>2, <5>3
      <4>5. CASE t # s
        BY <1>8, <1>9, <1>1, <4>2, <4>3, <4>5 DEF IInv, TypeOK
      <4> QED BY <4>4, <4>5
    <3>2. ASSUME pc'[t] = "openObs"
          PROVE  ReadBefore(View(t)', loc[t].name, loc[t].id, loc[t].rev)
      <4>1. t # s /\ pc[t] = "openObs"
        BY <1>1, <3>2 DEF IInv, TypeOK
      <4>2. ReadBefore(View(t), loc[t].name, loc[t].id, loc[t].rev)
        BY <4>1 DEF IInv, ServerOK, ReaderOK
      <4>3. loc[t] \in Reading
        BY DEF IInv, TypeOK
      <4>4. ReadBefore(db, loc[t].name, loc[t].id, loc[t].rev)
              => ReadBefore(db', loc[t].name, loc[t].id, loc[t].rev)
        BY <1>3, <1>4, <4>3, ReadBeforeLater DEF Reading
      <4>5. CASE tx[t] \in {"none", "open"}
        BY <1>2, <4>1, <4>2, <4>4, <4>5 DEF View
      <4>6. CASE tx[t] \notin {"none", "open"}
        <5>1. tx'[t] \notin {"none", "open"} /\ work'[t] = work[t]
          BY <1>1, <1>2, <4>1, <4>6 DEF IInv, TypeOK
        <5> QED BY <4>2, <4>6, <5>1 DEF View
      <4> QED BY <4>5, <4>6
    <3>3. \A n \in Names : seen'[t][n].id # 0 =>
             /\ shown'[t][n] = "committed" => Protects(db', n, seen'[t][n])
             /\ shown'[t][n] = "pending" =>
                  leftover'[t] /\ Protects(work'[t], n, seen'[t][n])
      BY <1>1, <3>1
    <3> QED BY <1>1, <3>2, <3>3 DEF ReaderOK, Protects, ReadBefore
  <2> QED BY <2>1, <2>2, <2>3 DEF ServerOK
<1> QED BY <1>5, <1>6, <1>7 DEF IInv

\* A handler that a lock stops at its writing statement has written nothing,
\* and no handler before it has.
LEMMA LockFailureKeeps ==
  ASSUME IInv, NEW s \in Servers, LockTimeout(s) \/ LockedAtOnce(s) PROVE IInv'
<1>1. /\ Leave(s) /\ leftover' = leftover /\ shown' = shown
      /\ db' = db /\ work' = work /\ mixed' = mixed
      /\ tx[s] # "write" /\ (tx' = tx \/ tx' = [tx EXCEPT ![s] = "open"])
  BY DEF LockTimeout, LockedAtOnce, FailsAtOnce, Fails
<1>2. /\ tx' \in [Servers -> TxStates] /\ tx'[s] # "write"
      /\ tx'[s] \in {"read", "stale"} => tx'[s] = tx[s]
      /\ \A t \in Servers \ {s} : tx'[t] = tx[t]
  BY <1>1 DEF IInv, TypeOK, TxStates
<1>3. TypeOK'
  BY <1>1, <1>2, LeaveSound DEF IInv, TypeOK
<1>4. OneWriter'
  BY <1>2 DEF IInv, OneWriter
<1>5. pc'[s] = "idle" /\ seen' = seen /\ HandlerOK(s)'
  BY <1>1, LeaveSound
<1>6. ~leftover[s]
  BY <1>1 DEF IInv, ServerOK, WorkOK
<1>7. WorkOK(s)'
  BY <1>1, <1>2, <1>5, <1>6 DEF IInv, ServerOK, WorkOK
<1>8. ReaderOK(s)'
  BY <1>1, <1>5, <1>6, ReaderKept
<1> QED BY <1>1, <1>2, <1>3, <1>4, <1>5, <1>7, <1>8, LeaveSound, OneServerSteps DEF ServerOK

\* What open_nodes read of the row is at most as new as the graph.
LEMMA OpenRowKeeps == ASSUME IInv, NEW s \in Servers, OpenRow(s) PROVE IInv'
<1>1. /\ pc[s] = "idle" /\ Select(s) /\ db' = db /\ req' = req /\ seen' = seen
      /\ calls' = calls + 1 /\ calls < MaxCalls
      /\ leftover' = leftover /\ shown' = shown
      /\ leftover[s] => tx'[s] = "write" /\ work'[s] = work[s]
  BY SelectSound DEF OpenRow, IInv, ServerOK, WorkOK
<1>2. PICK n \in Names :
        IF Exists(View(s), n)
        THEN /\ loc' = [loc EXCEPT ![s] = Read(n, View(s).ent[n].id, View(s).ent[n].rev, {})]
             /\ pc' = [pc EXCEPT ![s] = "openObs"]
        ELSE UNCHANGED <<loc, pc>>
  BY DEF OpenRow
<1> DEFINE r == Read(n, View(s).ent[n].id, View(s).ent[n].rev, {})
<1>3. WellFormed(View(s)) /\ r \in Reading
  BY ViewIsSound DEF WellFormed, Graph, Entity, Read, Reading
<1>4. /\ loc' \in [Servers -> Reading] /\ pc' \in [Servers -> PcStates]
      /\ \A t \in Servers \ {s} : loc'[t] = loc[t] /\ pc'[t] = pc[t]
      /\ pc'[s] \in {"idle", "openObs"}
      /\ pc'[s] = "openObs" => Exists(View(s), n) /\ loc'[s] = r
  <2> HIDE DEF r
  <2>1. CASE Exists(View(s), n)
    BY <1>2, <1>3, <2>1 DEF IInv, TypeOK, PcStates, r
  <2>2. CASE ~Exists(View(s), n)
    BY <1>1, <1>2, <2>2 DEF IInv, TypeOK, PcStates
  <2> QED BY <2>1, <2>2
<1>5. TypeOK'
  <2>1. calls' \in 0..MaxCalls
    BY <1>1, MaxCallsAssumption DEF IInv, TypeOK
  <2> QED BY <1>1, <1>4, <2>1, SelectSound DEF IInv, TypeOK
<1>6. HandlerOK(s)'
  BY <1>1, <1>4 DEF IInv, ServerOK, HandlerOK
<1>7. WorkOK(s)'
  BY <1>1, <1>4, SelectSound DEF IInv, ServerOK, WorkOK, element
<1>8. ReaderOK(s)'
  <2>1. pc'[s] = "openObs" =>
          ReadBefore(View(s)', loc'[s].name, loc'[s].id, loc'[s].rev)
    BY <1>1, <1>3, <1>4, SelectSound
       DEF ReadBefore, Read, WellFormed, Graph, Entity, Exists
  <2> QED BY <1>1, <2>1, ReaderKept
<1> QED BY <1>1, <1>4, <1>5, <1>6, <1>7, <1>8, SelectSound, OneServerSteps DEF ServerOK

\* The revision was read before the observations: if it is still current,
\* so are they.
LEMMA OpenObsKeeps == ASSUME IInv, NEW s \in Servers, OpenObs(s) PROVE IInv'
<1> DEFINE n == loc[s].name
           obs == IF IsRow(View(s), n, loc[s].id) THEN View(s).ent[n].obs ELSE {}
           row == Row(loc[s].id, loc[s].rev, obs)
           fate == IF leftover[s] THEN "pending" ELSE "committed"
<1>1. /\ pc[s] = "openObs" /\ Select(s) /\ db' = db /\ req' = req /\ calls' = calls
      /\ seen' = [seen EXCEPT ![s] = [@ EXCEPT ![n] = row]]
      /\ shown' = [shown EXCEPT ![s] = [@ EXCEPT ![n] = fate]]
      /\ leftover' = leftover /\ mixed' = mixed
      /\ pc' = [pc EXCEPT ![s] = "idle"] /\ loc' = [loc EXCEPT ![s] = NoReading]
  BY SelectSound DEF OpenObs
<1>2. loc[s] \in Reading /\ NoReading \in Reading
  BY NamesAssumption DEF IInv, TypeOK, NoReading, Read, Reading
<1>3. WellFormed(View(s)) /\ WellFormed(db)
  BY ViewIsSound DEF IInv, TypeOK
<1>4. n \in Names /\ obs \in SUBSET Contents /\ row \in Entity
  BY <1>2, <1>3 DEF Reading, WellFormed, Graph, Entity, Row
<1>5. /\ seen' \in [Servers -> [Names -> Entity]]
      /\ \A t \in Servers \ {s} : seen'[t] = seen[t]
      /\ \A m \in Names : seen'[s][m] = IF m = n THEN row ELSE seen[s][m]
  <2> HIDE DEF row, n
  <2> QED BY <1>1, <1>4 DEF IInv, TypeOK
<1>15. /\ shown' \in [Servers -> [Names -> Fates]]
       /\ \A t \in Servers \ {s} : shown'[t] = shown[t]
       /\ \A m \in Names : shown'[s][m] = IF m = n THEN fate ELSE shown[s][m]
  <2>1. fate \in Fates
    BY DEF Fates
  <2> HIDE DEF n, fate
  <2> QED BY <1>1, <1>4, <2>1 DEF IInv, TypeOK
<1>6. TypeOK'
  BY <1>1, <1>2, <1>5, <1>15, SelectSound DEF IInv, TypeOK, PcStates
<1>7. pc'[s] = "idle"
  BY <1>1 DEF IInv, TypeOK
<1>8. HandlerOK(s)'
  BY <1>1, <1>7 DEF IInv, ServerOK, HandlerOK
<1>9. WorkOK(s)'
  BY <1>1, <1>7, SelectSound DEF IInv, ServerOK, WorkOK, element
<1>10. leftover[s] => View(s) = work[s] /\ work'[s] = work[s]
  BY <1>1, SelectSound DEF IInv, ServerOK, WorkOK, View
<1>11. ~leftover[s] => Later(View(s), db)
  BY <1>1, NoChange DEF IInv, TypeOK, TxStates, ServerOK, WorkOK, View, Transaction, Later
<1>12. Protects(View(s), n, row)
  <2>1. ReadBefore(View(s), n, loc[s].id, loc[s].rev)
    BY <1>1 DEF IInv, ServerOK, ReaderOK
  <2>2. row.id = loc[s].id /\ row.rev = loc[s].rev /\ row.obs = obs
    BY DEF Row
  <2>3. View(s).ent[n].id = loc[s].id => View(s).ent[n].obs = obs
    BY <2>1 DEF ReadBefore, IsRow, Exists
  <2> HIDE DEF row, obs
  <2> QED BY <2>1, <2>2, <2>3 DEF Protects
<1>13. ReaderOK(s)'
  <2>1. ~leftover[s] => Protects(db, n, row)
    <3> HIDE DEF row, n
    <3> QED BY <1>3, <1>4, <1>11, <1>12, ProtectsLater
  <2>2. leftover[s] => Protects(work'[s], n, row)
    BY <1>10, <1>12
  <2>3. ASSUME NEW m \in Names, seen'[s][m].id # 0
        PROVE  /\ shown'[s][m] = "committed" => Protects(db', m, seen'[s][m])
               /\ shown'[s][m] = "pending" =>
                    leftover'[s] /\ Protects(work'[s], m, seen'[s][m])
    <3> HIDE DEF row, n
    <3>1. CASE m = n
      BY <1>1, <1>5, <1>15, <2>1, <2>2, <3>1
    <3>2. CASE m # n
      BY <1>1, <1>5, <1>10, <1>15, <2>3, <3>2 DEF IInv, ServerOK, ReaderOK
    <3> QED BY <3>1, <3>2
  <2> QED BY <1>7, <2>3 DEF ReaderOK, Protects, ReadBefore
<1>14. \A t \in Servers \ {s} : pc'[t] = pc[t] /\ loc'[t] = loc[t]
  BY <1>1 DEF IInv, TypeOK
<1> QED
  <2> HIDE DEF row, n
  <2> QED BY <1>1, <1>5, <1>6, <1>8, <1>9, <1>13, <1>14, <1>15, SelectSound,
             OneServerSteps DEF ServerOK

\* A rolled back transaction leaves the committed graph as it was.
LEMMA CrashKeeps == ASSUME IInv, NEW s \in Servers, Crash(s) PROVE IInv'
<1>1. /\ Leave(s) /\ db' = db /\ mixed' = mixed /\ tx' = [tx EXCEPT ![s] = "none"]
      /\ work' = [work EXCEPT ![s] = EmptyGraph]
      /\ leftover' = [leftover EXCEPT ![s] = FALSE] /\ shown' = Settled(s, "lost")
  BY DEF Crash
<1>2. tx'[s] = "none" /\ pc'[s] = "idle" /\ seen' = seen /\ HandlerOK(s)' /\ ~leftover'[s]
  BY <1>1, LeaveSound DEF IInv, TypeOK
<1>3. /\ shown' \in [Servers -> [Names -> Fates]]
      /\ \A n \in Names : shown'[s][n] =
           IF shown[s][n] = "pending" THEN "lost" ELSE shown[s][n]
      /\ \A t \in Servers \ {s} : shown'[t] = shown[t]
  BY <1>1 DEF IInv, TypeOK, Settled, Fates
<1>4. TypeOK'
  BY <1>1, <1>3, LeaveSound, EmptyIsWellFormed DEF IInv, TypeOK, TxStates, WellFormed
<1>5. OneWriter'
  BY <1>1 DEF IInv, TypeOK, OneWriter
<1>6. WorkOK(s)'
  BY <1>2 DEF WorkOK
<1>7. ReaderOK(s)'
  <2>1. \A n \in Names : seen'[s][n].id # 0 =>
          /\ shown'[s][n] = "committed" => Protects(db', n, seen'[s][n])
          /\ shown'[s][n] # "pending"
    BY <1>1, <1>2, <1>3 DEF IInv, ServerOK, ReaderOK
  <2> QED BY <1>2, <2>1 DEF ReaderOK, Protects, ReadBefore
<1>8. \A t \in Servers \ {s} : tx'[t] = tx[t] /\ work'[t] = work[t] /\ leftover'[t] = leftover[t]
  BY <1>1 DEF IInv, TypeOK
<1> QED BY <1>1, <1>2, <1>3, <1>4, <1>5, <1>6, <1>7, <1>8, LeaveSound, OneServerSteps
        DEF ServerOK

\* A stuttering step changes nothing the invariant speaks of.
LEMMA StutterKeeps == ASSUME IInv, UNCHANGED vars PROVE IInv'
  BY DEF vars, IInv, TypeOK, OneWriter, ServerOK, HandlerOK, WorkOK, ReaderOK,
         ReadBefore, Protects, View, element

-----------------------------------------------------------------------------
(* The theorems.                                                           *)

\* Every step of every server preserves the invariant.
LEMMA NextKeeps == IInv /\ [Next]_vars => IInv'
<1> SUFFICES ASSUME IInv, [Next]_vars PROVE IInv'
  OBVIOUS
<1>1. CASE UNCHANGED vars
  BY <1>1, StutterKeeps
<1>2. ASSUME NEW s \in Servers,
             \/ Call(s) \/ CreateEntity(s) \/ CreateRelation(s) \/ DeleteRelation(s)
             \/ DeleteEntityItem(s) \/ ReadId(s) \/ ReadExisting(s)
             \/ AddObservations(s) \/ DeleteObservations(s) \/ Commit(s)
             \/ LockTimeout(s) \/ LockedAtOnce(s)
             \/ NameUnbindable(s) \/ ValueUnbindable(s)
             \/ OpenRow(s) \/ OpenObs(s) \/ Crash(s)
      PROVE  IInv'
  BY <1>2, CallKeeps, CreateEntityKeeps, RelationKeeps, DeleteEntityKeeps,
     ReadIdKeeps, ReadExistingKeeps, AddObservationsKeeps, DeleteObservationsKeeps,
     CommitKeeps, LockFailureKeeps, UnbindableKeeps, OpenRowKeeps, OpenObsKeeps, CrashKeeps
<1> QED BY <1>1, <1>2 DEF Next

\* The inductive invariant holds in every reachable state.
THEOREM Invariance == Spec => []IInv
  BY InitEstablishes, NextKeeps, PTL DEF Spec

\* Types, the schema's uniqueness and reference constraints included.
THEOREM TypeCorrect == Spec => []TypeOK
<1>1. IInv => TypeOK
  BY DEF IInv
<1> QED BY <1>1, Invariance, PTL

\* A compare-and-swap on the revision a client was shown protects the
\* observations it was shown, if these were committed then or later.
THEOREM ShownRevisionsProtect == Spec => []SeenIsCurrent
<1>1. IInv => SeenIsCurrent
  BY DEF IInv, ServerOK, ReaderOK, Protects, SeenIsCurrent
<1> QED BY <1>1, Invariance, PTL

\* A half-written transaction on an idle connection is the remainder of a
\* handler that raised over a flawed element: no lock and no foreign key
\* leaves one.
THEOREM NoHalfWrittenTransaction == Spec => []NothingHalfWritten
<1>1. IInv => NothingHalfWritten
  BY DEF IInv, ServerOK, WorkOK, NothingHalfWritten
<1> QED BY <1>1, Invariance, PTL

\* Every step either leaves the committed graph alone or commits one
\* transaction of KnowledgeGraph.
THEOREM Refinement == Spec => ImplementsKnowledgeGraph
<1> USE DEF KG!WellFormed, WellFormed, KG!Graph, Graph, KG!Entity, Entity,
            KG!NoEntity, NoEntity, KG!Row, Row, KG!Relations, Relations,
            KG!Exists, Exists, KG!SameRow, SameRow, KG!Touches, Touches
<1>1. Init => KG!Init
  BY EmptyIsWellFormed DEF Init, KG!Init
<1>2. IInv /\ IInv' /\ [Next]_vars => [KG!Next]_<<db, mixed>>
  <2> SUFFICES ASSUME IInv, IInv', [Next]_vars, <<db, mixed>>' # <<db, mixed>> PROVE KG!Next
    BY DEF KG!Next
  <2>1. PICK s \in Servers : Commit(s)
    BY DEF Next, vars, Call, CreateEntity, CreateRelation, DeleteRelation,
           DeleteEntityItem, ReadId, ReadExisting, AddObservations,
           DeleteObservations, LockTimeout, LockedAtOnce, NameUnbindable,
           ValueUnbindable, OpenRow, OpenObs, Crash, Write, Select
  <2>2. /\ WellFormed(db) /\ WellFormed(db') /\ mixed' = leftover[s]
        /\ db' = IF tx[s] = "write" THEN work[s] ELSE db
        /\ mixed' \in BOOLEAN
    <3> HIDE DEF WellFormed
    <3> QED BY <2>1 DEF Commit, IInv, TypeOK
  <2>3. Later(db, db') /\ (mixed' \/ NoRelationOutlives(db, db'))
    <3> HIDE DEF WellFormed, Exists, SameRow, Touches
    <3> QED BY <2>2, NoChange DEF IInv, ServerOK, WorkOK, Transaction, Later
  <2>4. /\ KG!RevisionTracksContent(db, db') /\ KG!IdsAreFresh(db, db')
        /\ mixed' \/ KG!NoRelationOutlives(db, db')
    BY <2>3 DEF Later, RevisionTracksContent, KG!RevisionTracksContent,
       IdsAreFresh, KG!IdsAreFresh, NoRelationOutlives, KG!NoRelationOutlives
  <2> QED BY <2>2, <2>4 DEF KG!Next
<1> QED BY <1>1, <1>2, Invariance, PTL DEF Spec, ImplementsKnowledgeGraph, KG!Spec
=============================================================================
