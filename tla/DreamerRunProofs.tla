-------------------------- MODULE DreamerRunProofs --------------------------
(***************************************************************************)
(* What a run directory promises, for every set of processes and run ids   *)
(* and every bound.                                                        *)
(***************************************************************************)
EXTENDS DreamerRun, FiniteSetTheorems, TLAPS

-----------------------------------------------------------------------------
(* The inductive invariant.                                                *)

Pcs == {"idle", "mkdir", "snapshot", "manifest", "stage", "applied", "read", "write"}

Runs == [dir : BOOLEAN, snapshot : BOOLEAN, manifest : BOOLEAN, mode : Modes,
         completed : SUBSET Stages, file : [Stages -> Result]]

Processes ==
    [pc : Pcs, id : RunIds, mode : Modes, replay : BOOLEAN, default : BOOLEAN,
     stage : Stages, prior : Result, loaded : BOOLEAN, apply : BOOLEAN,
     completed : SUBSET Stages, wrote : BOOLEAN]

Types ==
    /\ run \in [RunIds -> Runs]
    /\ proc \in [Procs -> Processes]
    /\ starts \in 0..MaxStarts
    /\ applied \in SUBSET Nat /\ IsFiniteSet(applied)
    /\ patched \in SUBSET RunIds /\ shared \in SUBSET RunIds

\* The directory is made before the copy, and the copy before the manifest.
CreationOK(p) ==
    /\ Creating(p) => run[proc[p].id].dir
    /\ proc[p].pc = "manifest" => run[proc[p].id].snapshot /\ run[proc[p].id].dir
    /\ proc[p].pc = "snapshot" => Creating(p)
    /\ proc[p].pc = "mkdir" => ~proc[p].replay

\* What a process will list is on disk.
ListingOK(p) ==
    /\ proc[p].pc \in {"read", "write"} => Present(proc[p].id, proc[p].stage)
    /\ proc[p].pc = "write" => \A s \in proc[p].completed : Present(proc[p].id, s)

RunOK(i) ==
    /\ run[i].manifest => run[i].snapshot /\ run[i].dir
    /\ \A s \in run[i].completed : Present(i, s)

IInv ==
    /\ Types
    /\ \A i \in RunIds : RunOK(i)
    /\ \A p \in Procs : CreationOK(p) /\ ListingOK(p)
    /\ OneCreator

-----------------------------------------------------------------------------
(* Numbers for new results.                                                *)

LEMMA ImageIsFinite ==
  ASSUME NEW S, IsFiniteSet(S), NEW f, f = [x \in S |-> f[x]]
  PROVE  IsFiniteSet({f[x] : x \in S})
<1> DEFINE T == {f[x] : x \in S}
<1>1. f \in Surjection(S, T)
  BY DEF Surjection
<1> QED BY <1>1, FS_Surjection

\* Only finitely many numbers are taken.
LEMMA NumbersAreFinite ==
  ASSUME Types, NEW s \in Stages
  PROVE  IsFiniteSet(Numbers(s))
<1> DEFINE mine == [i \in RunIds |-> run[i].file[s].n]
           held == [p \in Procs |-> proc[p].prior.n]
           next == [i \in RunIds |-> run[i].file[s + 1].on]
           Mine == {mine[i] : i \in RunIds}
           Held == {held[p] : p \in Procs}
           Next1 == {next[i] : i \in RunIds}
<1>1. IsFiniteSet(Mine) /\ IsFiniteSet(Held) /\ IsFiniteSet(Next1)
  BY RunBounds, ImageIsFinite
<1>2. IsFiniteSet((Mine \cup Held) \cup (Next1 \cup applied))
  BY <1>1, FS_Union DEF Types
<1>3. Numbers(s) \subseteq (Mine \cup Held) \cup (Next1 \cup applied)
  <2>1. {run[i].file[s].n : i \in RunIds} \subseteq Mine
    OBVIOUS
  <2>2. {proc[p].prior.n : p \in {q \in Procs : proc[q].prior.of = s}} \subseteq Held
    OBVIOUS
  <2>3. UNION {{run[i].file[t].on : t \in {u \in Stages : u = s + 1}} : i \in RunIds} \subseteq Next1
    OBVIOUS
  <2> HIDE DEF Mine, Held, Next1
  <2> QED BY <2>1, <2>2, <2>3 DEF Numbers
<1> QED BY <1>2, <1>3, FS_Subset

\* There is always a number left.
LEMMA UnusedIsNew ==
  ASSUME Types, NEW s \in Stages
  PROVE  Unused(s) \in Nat /\ Unused(s) \notin Numbers(s)
<1> DEFINE k == Cardinality(Numbers(s))
<1>1. k \in Nat /\ IsFiniteSet(Numbers(s))
  BY NumbersAreFinite, FS_CardinalityType
<1>2. \E n \in 1..(k + 1) : n \notin Numbers(s)
  <2> SUFFICES ASSUME 1..(k + 1) \subseteq Numbers(s)
               PROVE  FALSE
    OBVIOUS
  <2>1. Cardinality(1..(k + 1)) <= k
    BY <1>1, FS_Subset
  <2>2. Cardinality(1..(k + 1)) = k + 1
    BY <1>1, FS_Interval
  <2> QED BY <1>1, <2>1, <2>2
<1>3. Unused(s) \in 1..(k + 1) /\ Unused(s) \notin Numbers(s)
  BY <1>2 DEF Unused
<1> QED BY <1>1, <1>3

\* A new result is one of the stage that made it.
LEMMA NewResultIsResult ==
  ASSUME Types, NEW p \in Procs, NEW c \in BOOLEAN
  PROVE  /\ NewResult(p, c) \in Result
         /\ NewResult(p, c).of = proc[p].stage
         /\ NewResult(p, c) # NoResult
<1>1. proc[p].stage \in Stages /\ proc[p].prior \in Result
  BY DEF Types, Processes
<1>2. Unused(proc[p].stage) \in Nat
  BY <1>1, UnusedIsNew
<1> QED BY <1>1, <1>2 DEF NewResult, Result, NoResult, Stages, Discover, Apply

\* Among any stages there is a last one.
LEMMA LastStage ==
  ASSUME NEW S \in SUBSET Stages, S # {}
  PROVE  \E b \in S : \A o \in S : b >= o
<1> S \subseteq 1..4
  BY DEF Stages, Discover, Apply
<1>1. CASE 4 \in S
  BY <1>1
<1>2. CASE 4 \notin S /\ 3 \in S
  BY <1>2
<1>3. CASE 4 \notin S /\ 3 \notin S /\ 2 \in S
  BY <1>3
<1>4. CASE 4 \notin S /\ 3 \notin S /\ 2 \notin S
  <2>1. PICK b \in S : TRUE
    OBVIOUS
  <2>2. \A o \in S : o = 1
    BY <1>4
  <2> QED BY <2>1, <2>2
<1> QED BY <1>1, <1>2, <1>3, <1>4

\* The last result before a stage.
LEMMA LoadedPriorIsResult ==
  ASSUME Types, NEW i \in RunIds, NEW s \in Stages
  PROVE  LoadedPrior(i, s) \in Result
<1> DEFINE before == {b \in Stages : b < s /\ Present(i, b)}
<1>1. NoResult \in Result
  BY DEF NoResult, Result
<1>2. before # {} => \E b \in before : \A o \in before : b >= o
  BY LastStage
<1>3. \A b \in before : run[i].file[b] \in Result
  BY DEF Types, Runs
<1> QED BY <1>1, <1>2, <1>3 DEF LoadedPrior

-----------------------------------------------------------------------------
(* The initial states, and what every step has in common.                  *)

LEMMA IdleIsProcess == Idle \in Processes
<1>1. (CHOOSE i \in RunIds : TRUE) \in RunIds
  BY RunBounds
<1>2. NoResult \in Result
  BY DEF NoResult, Result
<1> QED BY <1>1, <1>2 DEF Idle, Processes, Pcs, Modes, Stages, Discover, Apply

LEMMA InitInvariant == Init => IInv
<1> SUFFICES ASSUME Init PROVE IInv
  OBVIOUS
<1>1. NoRun \in Runs
  <2>1. NoResult \in Result
    BY DEF NoResult, Result
  <2> QED BY <2>1 DEF NoRun, Runs, Modes
<1>2. Types
  <2>1. run \in [RunIds -> Runs] /\ proc \in [Procs -> Processes]
    BY <1>1, IdleIsProcess DEF Init
  <2>2. applied \in SUBSET Nat /\ IsFiniteSet(applied)
    BY FS_EmptySet DEF Init
  <2>3. starts \in 0..MaxStarts
    BY RunBounds DEF Init
  <2> QED BY <2>1, <2>2, <2>3 DEF Init, Types
<1>3. \A i \in RunIds : RunOK(i)
  BY DEF Init, RunOK, NoRun
<1>4. \A p \in Procs : CreationOK(p) /\ ListingOK(p) /\ ~Creating(p)
  BY DEF Init, CreationOK, ListingOK, Creating, Active, Idle
<1> QED BY <1>2, <1>3, <1>4 DEF IInv, OneCreator

\* Nothing that a run directory has is taken away.
Grows ==
    \A i \in RunIds :
        /\ run[i].dir => run'[i].dir
        /\ run[i].snapshot => run'[i].snapshot
        /\ \A s \in Stages : Present(i, s) => Present(i, s)'

\* A step of p keeps the invariant when it keeps p's part of it.
LEMMA StepOf ==
  ASSUME IInv, NEW p \in Procs, Types', Grows,
         \A q \in Procs : q # p => proc'[q] = proc[q],
         \A i \in RunIds : RunOK(i)',
         CreationOK(p)', ListingOK(p)',
         Creating(p)' => \/ Creating(p) /\ proc'[p].id = proc[p].id
                         \/ ~run[proc'[p].id].dir
  PROVE  IInv'
<1>1. ASSUME NEW q \in Procs, q # p
      PROVE  /\ CreationOK(q)' /\ ListingOK(q)'
             /\ Creating(q)' <=> Creating(q)
  <2>1. proc[q] \in Processes /\ proc'[q] = proc[q]
    BY <1>1 DEF IInv, Types
  <2>2. proc[q].id \in RunIds /\ proc[q].stage \in Stages /\ proc[q].completed \subseteq Stages
    BY <2>1 DEF Processes
  <2>3. Creating(q)' <=> Creating(q)
    BY <2>1 DEF Creating, Active
  <2>4. CreationOK(q) /\ ListingOK(q)
    BY DEF IInv
  <2>5. CreationOK(q)'
    BY <2>1, <2>2, <2>3, <2>4 DEF CreationOK, Grows
  <2>6. ListingOK(q)'
    BY <2>1, <2>2, <2>4 DEF ListingOK, Grows
  <2> QED BY <2>3, <2>5, <2>6
<1>2. \A q \in Procs : CreationOK(q)' /\ ListingOK(q)'
  BY <1>1
<1>3. ASSUME NEW q \in Procs, q # p, Creating(p)', Creating(q)'
      PROVE  proc'[p].id # proc'[q].id
  <2>1. Creating(q) /\ proc'[q] = proc[q]
    BY <1>1, <1>3
  <2>2. run[proc[q].id].dir
    BY <2>1 DEF IInv, CreationOK
  <2>3. CASE Creating(p) /\ proc'[p].id = proc[p].id
    BY <1>3, <2>1, <2>3 DEF IInv, OneCreator
  <2> QED BY <1>3, <2>1, <2>2, <2>3
<1>4. OneCreator'
  <2> SUFFICES ASSUME NEW a \in Procs, NEW b \in Procs, a # b, Creating(a)', Creating(b)'
               PROVE  proc'[a].id # proc'[b].id
    BY DEF OneCreator
  <2>1. CASE a = p
    BY <1>3, <2>1
  <2>2. CASE b = p
    BY <1>3, <2>2
  <2>3. CASE a # p /\ b # p
    BY <1>1, <2>3 DEF IInv, OneCreator
  <2> QED BY <2>1, <2>2, <2>3
<1> QED BY <1>2, <1>4 DEF IInv

\* A process that stops leaves its run as it is.
LEMMA StopKeeps ==
  ASSUME IInv, NEW p \in Procs, NEW d \in BOOLEAN, Stop(p, d),
         UNCHANGED <<run, applied, shared>>, starts' \in 0..MaxStarts
  PROVE  IInv'
<1>1. proc[p].id \in RunIds
  BY DEF IInv, Types, Processes
<1>2. proc' = [proc EXCEPT ![p] = Idle] /\ patched' \in SUBSET RunIds
  BY <1>1 DEF Stop, IInv, Types
<1>3. proc'[p] = Idle /\ \A q \in Procs : q # p => proc'[q] = proc[q]
  BY <1>2 DEF IInv, Types
<1>4. Types'
  BY <1>2, IdleIsProcess DEF IInv, Types
<1>5. Grows /\ \A i \in RunIds : RunOK(i)'
  BY DEF Grows, Present, IInv, RunOK
<1>6. CreationOK(p)' /\ ListingOK(p)' /\ ~Creating(p)'
  BY <1>3 DEF CreationOK, ListingOK, Creating, Active, Idle
<1> QED BY <1>3, <1>4, <1>5, <1>6, StepOf

\* So does a step that leaves every run and its place in the creation alone:
\* what is to be shown is what p will list.
LEMMA QuietKeeps ==
  ASSUME IInv, NEW p \in Procs, NEW r \in Processes, UNCHANGED run,
         proc' = [proc EXCEPT ![p] = r],
         r.pc \notin {"snapshot", "manifest"},
         r.pc = "mkdir" => ~r.replay,
         Creating(p)' => Creating(p) /\ r.id = proc[p].id,
         r.pc \in {"read", "write"} => Present(r.id, r.stage),
         r.pc = "write" => \A s \in r.completed : Present(r.id, s),
         Types'
  PROVE  IInv'
<1>1. proc'[p] = r /\ \A q \in Procs : q # p => proc'[q] = proc[q]
  BY DEF IInv, Types
<1>2. Grows /\ \A i \in RunIds : RunOK(i)'
  BY DEF Grows, Present, IInv, RunOK
<1>3. CreationOK(p)'
  BY <1>1 DEF CreationOK, IInv
<1>4. ListingOK(p)'
  BY <1>1 DEF ListingOK, Present
<1> QED BY <1>1, <1>2, <1>3, <1>4, StepOf

-----------------------------------------------------------------------------
(* The creation of a run.                                                  *)

LEMMA StartFreshKeeps ==
  ASSUME IInv, NEW p \in Procs, StartFresh(p)
  PROVE  IInv'
<1>1. PICK i \in RunIds, m \in Modes :
        proc' = [proc EXCEPT ![p] = [Idle EXCEPT !.pc = "mkdir", !.id = i, !.mode = m]]
  BY DEF StartFresh
<1> DEFINE r == [Idle EXCEPT !.pc = "mkdir", !.id = i, !.mode = m]
<1>2. r \in Processes /\ r.pc = "mkdir" /\ ~r.replay
  BY IdleIsProcess DEF Processes, Pcs, Idle
<1>3. starts' \in 0..MaxStarts
  BY RunBounds DEF StartFresh, CountStart, IInv, Types
<1>4. Types'
  BY <1>1, <1>2, <1>3 DEF StartFresh, IInv, Types
<1>5. ~Creating(p)'
  BY <1>1, <1>2 DEF Creating, IInv, Types
<1>6. UNCHANGED run /\ proc' = [proc EXCEPT ![p] = r]
  BY <1>1 DEF StartFresh
<1> HIDE DEF r
<1> QED BY <1>2, <1>4, <1>5, <1>6, QuietKeeps

LEMMA MkdirKeeps ==
  ASSUME IInv, NEW p \in Procs, Mkdir(p)
  PROVE  IInv'
<1> DEFINE i == proc[p].id
<1>1. proc[p] \in Processes /\ i \in RunIds /\ run[i] \in Runs
  BY DEF IInv, Types, Processes
<1>2. CASE run[i].dir
  BY <1>2, StopKeeps DEF Mkdir, Fails, IInv, Types
<1>3. CASE ~run[i].dir
  <2>1. /\ run' = [run EXCEPT ![i].dir = TRUE]
        /\ proc' = [proc EXCEPT ![p].pc = "snapshot"]
        /\ UNCHANGED <<starts, applied, patched, shared>>
    BY <1>3 DEF Mkdir
  <2>2. /\ proc'[p] = [proc[p] EXCEPT !.pc = "snapshot"]
        /\ \A q \in Procs : q # p => proc'[q] = proc[q]
    BY <2>1 DEF IInv, Types
  <2>3. /\ run'[i] = [run[i] EXCEPT !.dir = TRUE]
        /\ \A j \in RunIds : j # i => run'[j] = run[j]
    BY <1>1, <2>1 DEF IInv, Types
  <2>4. Types'
    <3>1. [proc[p] EXCEPT !.pc = "snapshot"] \in Processes /\ [run[i] EXCEPT !.dir = TRUE] \in Runs
      BY <1>1 DEF Processes, Pcs, Runs
    <3> QED BY <1>1, <2>1, <3>1 DEF IInv, Types
  <2>5. Grows /\ \A j \in RunIds : RunOK(j)'
    BY <1>1, <2>3 DEF Grows, Present, IInv, RunOK, Runs
  <2>6. ~proc[p].replay
    BY <1>1 DEF IInv, CreationOK, Mkdir
  <2>7. proc'[p].pc = "snapshot" /\ proc'[p].id = i /\ ~proc'[p].replay /\ run'[i].dir
    BY <1>1, <2>2, <2>3, <2>6 DEF Processes, Runs
  <2>8. CreationOK(p)' /\ ListingOK(p)'
    BY <2>7 DEF CreationOK, ListingOK, Creating, Active
  <2> QED BY <1>3, <2>2, <2>4, <2>5, <2>7, <2>8, StepOf
<1> QED BY <1>2, <1>3

LEMMA SnapshotKeeps ==
  ASSUME IInv, NEW p \in Procs, Snapshot(p)
  PROVE  IInv'
<1> DEFINE i == proc[p].id
<1>1. proc[p] \in Processes /\ i \in RunIds /\ run[i] \in Runs
  BY DEF IInv, Types, Processes
<1>2. /\ run' = [run EXCEPT ![i].snapshot = TRUE]
      /\ proc' = [proc EXCEPT ![p].pc = "manifest"]
      /\ UNCHANGED <<starts, applied, patched, shared>>
  BY DEF Snapshot
<1>3. /\ proc'[p] = [proc[p] EXCEPT !.pc = "manifest"]
      /\ \A q \in Procs : q # p => proc'[q] = proc[q]
  BY <1>2 DEF IInv, Types
<1>4. /\ run'[i] = [run[i] EXCEPT !.snapshot = TRUE]
      /\ \A j \in RunIds : j # i => run'[j] = run[j]
  BY <1>1, <1>2 DEF IInv, Types
<1>5. Types'
  <2>1. [proc[p] EXCEPT !.pc = "manifest"] \in Processes /\ [run[i] EXCEPT !.snapshot = TRUE] \in Runs
    BY <1>1 DEF Processes, Pcs, Runs
  <2> QED BY <1>1, <1>2, <2>1 DEF IInv, Types
<1>6. Grows /\ \A j \in RunIds : RunOK(j)'
  BY <1>1, <1>4 DEF Grows, Present, IInv, RunOK, Runs
<1>7. Creating(p) /\ run[i].dir
  BY DEF Snapshot, IInv, CreationOK
<1>8. /\ proc'[p].pc = "manifest" /\ proc'[p].id = i
      /\ run'[i].dir /\ run'[i].snapshot
  BY <1>1, <1>3, <1>4, <1>7 DEF Processes, Runs
<1>9. CreationOK(p)' /\ ListingOK(p)'
  BY <1>8 DEF CreationOK, ListingOK
<1> QED BY <1>3, <1>5, <1>6, <1>7, <1>8, <1>9, StepOf

LEMMA ManifestKeeps ==
  ASSUME IInv, NEW p \in Procs, Manifest(p)
  PROVE  IInv'
<1>0. PICK i \in RunIds : i = proc[p].id
  BY DEF IInv, Types, Processes
<1> DEFINE made == [run[i] EXCEPT !.manifest = TRUE, !.mode = proc[p].mode, !.completed = {}]
           r == [proc[p] EXCEPT !.pc = "stage"]
<1>1. proc[p] \in Processes /\ run[i] \in Runs
  BY DEF IInv, Types, Processes
<1>2. /\ run' = [run EXCEPT ![i] = made]
      /\ proc' = [proc EXCEPT ![p] = r]
      /\ UNCHANGED <<starts, applied, patched, shared>>
  BY <1>0 DEF Manifest
<1>3. proc'[p] = r /\ \A q \in Procs : q # p => proc'[q] = proc[q]
  BY <1>2 DEF IInv, Types
<1>4. run'[i] = made /\ \A j \in RunIds : j # i => run'[j] = run[j]
  BY <1>1, <1>2 DEF IInv, Types
<1>5. Types'
  <2>1. r \in Processes /\ made \in Runs
    BY <1>1 DEF Processes, Pcs, Runs
  <2> QED BY <1>1, <1>2, <2>1 DEF IInv, Types
<1>6. run[i].snapshot /\ run[i].dir
  BY <1>0 DEF Manifest, IInv, CreationOK
<1>7. made.file = run[i].file /\ made.dir /\ made.snapshot /\ made.completed = {}
  BY <1>1, <1>6 DEF Runs
<1> HIDE DEF made
<1>8. Grows /\ \A j \in RunIds : RunOK(j)'
  <2>1. RunOK(i)' /\ \A s \in Stages : Present(i, s) => Present(i, s)'
    BY <1>4, <1>7 DEF Present, RunOK
  <2>2. \A j \in RunIds : j # i => RunOK(j)'
    BY <1>4 DEF Present, RunOK, IInv
  <2>3. Grows
    BY <1>4, <1>7, <2>1 DEF Grows, Present
  <2> QED BY <2>1, <2>2, <2>3
<1>9. /\ r.pc = "stage" /\ r.id = i /\ r.replay = proc[p].replay
  BY <1>0, <1>1 DEF Processes
<1> HIDE DEF r
<1>10. CreationOK(p)' /\ ListingOK(p)'
  BY <1>3, <1>4, <1>6, <1>7, <1>9 DEF CreationOK, ListingOK
<1>11. Creating(p)' => Creating(p)
  BY <1>3, <1>9 DEF Creating, Active, Manifest
<1> QED BY <1>0, <1>3, <1>5, <1>8, <1>9, <1>10, <1>11, StepOf

-----------------------------------------------------------------------------
(* The stages.                                                             *)

LEMMA StartReplayKeeps ==
  ASSUME IInv, NEW p \in Procs, StartReplay(p)
  PROVE  IInv'
<1>1. PICK i \in RunIds, s \in Stages :
        /\ run[i].manifest
        /\ proc' = [proc EXCEPT ![p] =
             [Idle EXCEPT !.pc = "stage", !.id = i, !.mode = run[i].mode, !.replay = TRUE,
                          !.default = s = FirstIncomplete(i), !.stage = s,
                          !.prior = LoadedPrior(i, s), !.loaded = s # Discover]]
        /\ patched' = IF s # Discover /\ ~Present(i, s - 1) THEN patched \cup {i} ELSE patched
        /\ shared' = IF \E q \in Procs : Active(q) /\ proc[q].id = i
                     THEN shared \cup {i} ELSE shared
  BY DEF StartReplay
<1> DEFINE r == [Idle EXCEPT !.pc = "stage", !.id = i, !.mode = run[i].mode, !.replay = TRUE,
                             !.default = s = FirstIncomplete(i), !.stage = s,
                             !.prior = LoadedPrior(i, s), !.loaded = s # Discover]
<1>2. run[i].mode \in Modes /\ LoadedPrior(i, s) \in Result
  BY LoadedPriorIsResult DEF IInv, Types, Runs
<1>3. r \in Processes /\ r.pc = "stage" /\ r.replay
  BY <1>2, IdleIsProcess DEF Processes, Pcs, Idle
<1>4. starts' \in 0..MaxStarts
  BY RunBounds DEF StartReplay, CountStart, IInv, Types
<1>5. UNCHANGED <<run, applied>> /\ proc' = [proc EXCEPT ![p] = r]
  BY <1>1 DEF StartReplay
<1> HIDE DEF r
<1>6. patched' \in SUBSET RunIds /\ shared' \in SUBSET RunIds
  BY <1>1 DEF IInv, Types
<1>7. Types'
  BY <1>3, <1>4, <1>5, <1>6 DEF IInv, Types
<1>8. ~Creating(p)'
  BY <1>3, <1>5 DEF Creating, IInv, Types
<1> QED BY <1>3, <1>5, <1>7, <1>8, QuietKeeps

\* A stage's file is written.
LEMMA PersistKeeps ==
  ASSUME IInv, NEW p \in Procs, proc[p].pc \in {"stage", "applied"},
         NEW r \in Result, r.of = proc[p].stage, r # NoResult,
         Persist(p, r), UNCHANGED <<starts, applied, shared>>
  PROVE  IInv'
<1>0. PICK i \in RunIds, s \in Stages : i = proc[p].id /\ s = proc[p].stage
  BY DEF IInv, Types, Processes
<1> DEFINE made == [run[i] EXCEPT !.file[s] = r]
           new == [proc[p] EXCEPT !.pc = "read", !.prior = r, !.wrote = TRUE]
<1>1. proc[p] \in Processes /\ run[i] \in Runs
  BY DEF IInv, Types
<1>2. /\ run' = [run EXCEPT ![i] = made]
      /\ proc' = [proc EXCEPT ![p] = new]
      /\ UNCHANGED <<starts, applied, patched, shared>>
  BY <1>0 DEF Persist
<1>3. made \in Runs /\ new \in Processes
  BY <1>1 DEF Runs, Processes, Pcs
<1>4. /\ made.dir = run[i].dir /\ made.snapshot = run[i].snapshot
      /\ made.manifest = run[i].manifest /\ made.completed = run[i].completed
      /\ made.file = [run[i].file EXCEPT ![s] = r]
  BY <1>1 DEF Runs
<1>5. /\ new.pc = "read" /\ new.id = i /\ new.stage = s
      /\ new.replay = proc[p].replay
  BY <1>0, <1>1 DEF Processes
<1> HIDE DEF made, new
<1>6. proc'[p] = new /\ \A q \in Procs : q # p => proc'[q] = proc[q]
  BY <1>2 DEF IInv, Types
<1>7. run'[i] = made /\ \A j \in RunIds : j # i => run'[j] = run[j]
  BY <1>2 DEF IInv, Types
<1>8. Types'
  BY <1>2, <1>3 DEF IInv, Types
<1>9. /\ made.file[s] # NoResult
      /\ \A t \in Stages : t # s => made.file[t] = run[i].file[t]
  BY <1>1, <1>4 DEF Runs
<1>10. Grows
  BY <1>4, <1>7, <1>9 DEF Grows, Present
<1>11. ASSUME NEW j \in RunIds PROVE RunOK(j)'
  <2>1. run[j].completed \subseteq Stages /\ RunOK(j)
    BY DEF IInv, Types, Runs
  <2>2. CASE j = i
    BY <1>4, <1>7, <1>9, <2>1, <2>2 DEF RunOK, Present
  <2>3. CASE j # i
    BY <1>7, <2>1, <2>3 DEF RunOK, Present
  <2> QED BY <2>2, <2>3
<1>12. ListingOK(p)'
  BY <1>5, <1>6, <1>7, <1>9 DEF ListingOK, Present
<1>13. Creating(p)' => Creating(p)
  BY <1>5, <1>6 DEF Creating, Active
<1>14. CreationOK(p)'
  <2>1. Creating(p) => run[i].dir
    BY <1>0 DEF IInv, CreationOK
  <2> QED BY <1>4, <1>5, <1>6, <1>7, <1>13, <2>1 DEF CreationOK
<1> QED BY <1>0, <1>5, <1>6, <1>8, <1>10, <1>11, <1>12, <1>13, <1>14, StepOf

LEMMA NewResultKeeps ==
  ASSUME IInv, NEW p \in Procs, proc[p].pc \in {"stage", "applied"},
         NEW c \in BOOLEAN, Persist(p, NewResult(p, c)), UNCHANGED <<starts, applied, shared>>
  PROVE  IInv'
<1>1. Types
  BY DEF IInv
<1> QED BY <1>1, NewResultIsResult, PersistKeeps

LEMMA FailsKeeps ==
  ASSUME IInv, NEW p \in Procs, Fails(p), UNCHANGED <<starts, applied, shared>>
  PROVE  IInv'
BY StopKeeps DEF Fails, IInv, Types

LEMMA SouffleFailsKeeps ==
  ASSUME IInv, NEW p \in Procs, SouffleFails(p), UNCHANGED <<starts, applied, shared>>
  PROVE  IInv'
<1>1. CASE proc[p].replay
  BY <1>1, FailsKeeps DEF SouffleFails
<1>2. CASE ~proc[p].replay
  <2> DEFINE r == [proc[p] EXCEPT !.mode = "llm", !.pc = "mkdir"]
  <2>1. proc' = [proc EXCEPT ![p] = r] /\ UNCHANGED <<run, patched>>
    BY <1>2 DEF SouffleFails
  <2>2. proc[p] \in Processes
    BY DEF IInv, Types
  <2>3. r \in Processes /\ r.pc = "mkdir" /\ ~r.replay
    BY <1>2, <2>2 DEF Processes, Pcs, Modes
  <2> HIDE DEF r
  <2>4. Types'
    BY <2>1, <2>3 DEF IInv, Types
  <2>5. ~Creating(p)'
    BY <2>1, <2>3 DEF Creating, IInv, Types
  <2> QED BY <2>1, <2>3, <2>4, <2>5, QuietKeeps
<1> QED BY <1>1, <1>2

LEMMA DiscoverKeeps ==
  ASSUME IInv, NEW p \in Procs, DiscoverStage(p)
  PROVE  IInv'
<1>1. ASSUME NEW c \in BOOLEAN, Persist(p, NewResult(p, c))
      PROVE  IInv'
  BY <1>1, NewResultKeeps DEF DiscoverStage
<1>2. ASSUME SouffleFails(p)
      PROVE  IInv'
  BY <1>2, SouffleFailsKeeps DEF DiscoverStage
<1>3. ASSUME Fails(p)
      PROVE  IInv'
  BY <1>3, FailsKeeps DEF DiscoverStage
<1> QED BY <1>1, <1>2, <1>3 DEF DiscoverStage

LEMMA RankKeeps ==
  ASSUME IInv, NEW p \in Procs, RankStage(p)
  PROVE  IInv'
<1>1. proc[p].prior.cands \in BOOLEAN
  BY DEF IInv, Types, Processes, Result
<1>2. ASSUME Persist(p, NewResult(p, proc[p].prior.cands))
      PROVE  IInv'
  BY <1>1, <1>2, NewResultKeeps DEF RankStage
<1>3. ASSUME Fails(p)
      PROVE  IInv'
  BY <1>3, FailsKeeps DEF RankStage
<1> QED BY <1>2, <1>3 DEF RankStage

LEMMA ValidateKeeps ==
  ASSUME IInv, NEW p \in Procs, ValidateStage(p)
  PROVE  IInv'
<1>1. ASSUME Persist(p, NewResult(p, FALSE))
      PROVE  IInv'
  BY <1>1, NewResultKeeps DEF ValidateStage
<1>2. ASSUME Fails(p)
      PROVE  IInv'
  BY <1>2, FailsKeeps DEF ValidateStage
<1> QED BY <1>1, <1>2 DEF ValidateStage, NoAnswer

LEMMA ApplyKeeps ==
  ASSUME IInv, NEW p \in Procs, ApplyStage(p)
  PROVE  IInv'
<1>1. ASSUME Fails(p), UNCHANGED applied
      PROVE  IInv'
  BY <1>1, FailsKeeps DEF ApplyStage
<1>2. ASSUME NEW a \in BOOLEAN,
             applied' = IF a /\ proc[p].prior.of = Validate
                        THEN applied \cup {proc[p].prior.n} ELSE applied,
             proc' = [proc EXCEPT ![p].pc = "applied", ![p].apply = a],
             UNCHANGED <<run, patched>>
      PROVE  IInv'
  <2> DEFINE r == [proc[p] EXCEPT !.pc = "applied", !.apply = a]
  <2>1. proc[p] \in Processes /\ proc[p].prior.n \in Nat
    BY DEF IInv, Types, Processes, Result
  <2>2. /\ r \in Processes /\ r.pc = "applied" /\ r.id = proc[p].id
        /\ r.replay = proc[p].replay
    BY <2>1 DEF Processes, Pcs
  <2>3. proc' = [proc EXCEPT ![p] = r]
    BY <1>2
  <2> HIDE DEF r
  <2>4. applied' \in SUBSET Nat /\ IsFiniteSet(applied')
    BY <1>2, <2>1, FS_AddElement DEF IInv, Types
  <2>5. Types'
    BY <1>2, <2>2, <2>3, <2>4 DEF ApplyStage, IInv, Types
  <2>6. Creating(p)' => Creating(p)
    BY <2>2, <2>3 DEF Creating, Active, IInv, Types, ApplyStage
  <2> QED BY <1>2, <2>2, <2>3, <2>5, <2>6, QuietKeeps
<1> QED BY <1>1, <1>2 DEF ApplyStage

LEMMA PersistApplyKeeps ==
  ASSUME IInv, NEW p \in Procs, PersistApply(p)
  PROVE  IInv'
BY NewResultKeeps DEF PersistApply

-----------------------------------------------------------------------------
(* The manifest.                                                           *)

LEMMA ReadManifestKeeps ==
  ASSUME IInv, NEW p \in Procs, ReadManifest(p)
  PROVE  IInv'
<1>0. PICK i \in RunIds : i = proc[p].id
  BY DEF IInv, Types, Processes
<1> DEFINE r == [proc[p] EXCEPT !.pc = "write", !.completed = run[i].completed]
<1>1. proc[p] \in Processes /\ run[i] \in Runs
  BY DEF IInv, Types
<1>2. proc' = [proc EXCEPT ![p] = r] /\ UNCHANGED <<run, starts, applied, patched, shared>>
  BY <1>0 DEF ReadManifest
<1>3. /\ r \in Processes /\ r.pc = "write" /\ r.id = i /\ r.stage = proc[p].stage
      /\ r.replay = proc[p].replay /\ r.completed = run[i].completed
  BY <1>0, <1>1 DEF Processes, Pcs, Runs
<1> HIDE DEF r
<1>4. Types'
  BY <1>2, <1>3 DEF IInv, Types
<1>5. Creating(p)' => Creating(p)
  BY <1>2, <1>3 DEF Creating, Active, IInv, Types, ReadManifest
<1>6. Present(i, proc[p].stage)
  BY <1>0 DEF ReadManifest, IInv, ListingOK
<1>7. \A s \in run[i].completed : Present(i, s)
  BY DEF IInv, RunOK
<1> QED BY <1>0, <1>2, <1>3, <1>4, <1>5, <1>6, <1>7, QuietKeeps

LEMMA WriteManifestKeeps ==
  ASSUME IInv, NEW p \in Procs, WriteManifest(p)
  PROVE  IInv'
<1>0. PICK i \in RunIds : i = proc[p].id
  BY DEF IInv, Types, Processes
<1> DEFINE made == [run[i] EXCEPT !.completed = proc[p].completed \cup {proc[p].stage}]
<1>1. proc[p] \in Processes /\ run[i] \in Runs
  BY DEF IInv, Types
<1>2. run' = [run EXCEPT ![i] = made] /\ UNCHANGED <<starts, applied, shared>>
  BY <1>0 DEF WriteManifest
<1>3. /\ made \in Runs
      /\ made.dir = run[i].dir /\ made.snapshot = run[i].snapshot
      /\ made.manifest = run[i].manifest /\ made.file = run[i].file
      /\ made.completed = proc[p].completed \cup {proc[p].stage}
  BY <1>1 DEF Runs, Processes
<1> HIDE DEF made
<1>4. run'[i] = made /\ \A j \in RunIds : j # i => run'[j] = run[j]
  BY <1>2 DEF IInv, Types
<1>5. run' \in [RunIds -> Runs]
  BY <1>2, <1>3 DEF IInv, Types
<1>6. Grows
  BY <1>3, <1>4 DEF Grows, Present
<1>7. \A s \in proc[p].completed \cup {proc[p].stage} : Present(i, s)
  BY <1>0 DEF WriteManifest, IInv, ListingOK
<1>8. ASSUME NEW j \in RunIds PROVE RunOK(j)'
  <2>1. RunOK(j) /\ RunOK(i)
    BY DEF IInv
  <2>2. CASE j = i
    BY <1>3, <1>4, <1>7, <2>1, <2>2 DEF RunOK, Present
  <2>3. CASE j # i
    BY <1>4, <2>1, <2>3 DEF RunOK, Present
  <2> QED BY <2>2, <2>3
<1>9. CASE proc[p].stage = Apply
  <2>1. proc' = [proc EXCEPT ![p] = Idle] /\ patched' \in SUBSET RunIds
    BY <1>0, <1>9 DEF WriteManifest, GoOn, Stop, IInv, Types
  <2>2. proc'[p] = Idle /\ \A q \in Procs : q # p => proc'[q] = proc[q]
    BY <2>1 DEF IInv, Types
  <2>3. Types'
    BY <1>2, <1>5, <2>1, IdleIsProcess DEF IInv, Types
  <2>4. CreationOK(p)' /\ ListingOK(p)' /\ ~Creating(p)'
    BY <2>2 DEF CreationOK, ListingOK, Creating, Active, Idle
  <2> QED BY <1>6, <1>8, <2>2, <2>3, <2>4, StepOf
<1>10. CASE proc[p].stage # Apply
  <2> DEFINE r == [proc[p] EXCEPT !.pc = "stage", !.stage = @ + 1, !.prior = proc[p].prior,
                                  !.loaded = FALSE, !.completed = {}]
  <2>1. proc' = [proc EXCEPT ![p] = r] /\ UNCHANGED patched
    BY <1>10 DEF WriteManifest, GoOn
  <2>2. proc[p].stage + 1 \in Stages
    BY <1>1, <1>10 DEF Processes, Stages, Discover, Apply
  <2>3. r \in Processes /\ r.pc = "stage" /\ r.id = i /\ r.replay = proc[p].replay
    BY <1>0, <1>1, <2>2 DEF Processes, Pcs
  <2> HIDE DEF r
  <2>4. proc'[p] = r /\ \A q \in Procs : q # p => proc'[q] = proc[q]
    BY <2>1 DEF IInv, Types
  <2>5. Types'
    BY <1>2, <1>5, <2>1, <2>3 DEF IInv, Types
  <2>6. Creating(p)' => Creating(p)
    BY <2>3, <2>4 DEF Creating, Active, WriteManifest
  <2>7. Creating(p) => run[i].dir
    BY <1>0 DEF IInv, CreationOK
  <2>8. CreationOK(p)' /\ ListingOK(p)'
    BY <1>3, <1>4, <2>3, <2>4, <2>6, <2>7 DEF CreationOK, ListingOK
  <2> QED BY <1>0, <1>6, <1>8, <2>3, <2>4, <2>5, <2>6, <2>8, StepOf
<1> QED BY <1>9, <1>10

LEMMA CrashKeeps ==
  ASSUME IInv, NEW p \in Procs, Crash(p)
  PROVE  IInv'
BY StopKeeps DEF Crash, IInv, Types

-----------------------------------------------------------------------------
(* Every step.                                                             *)

\* Every step of every process keeps the invariant.
LEMMA NextInvariant == IInv /\ [Next]_vars => IInv'
<1> SUFFICES ASSUME IInv, [Next]_vars PROVE IInv'
  OBVIOUS
<1>1. ASSUME UNCHANGED vars PROVE IInv'
  BY <1>1 DEF vars, IInv, Types, RunOK, CreationOK, ListingOK, OneCreator, Creating, Active,
             Present
<1>2. ASSUME NEW p \in Procs, StartFresh(p) \/ StartReplay(p) \/ Step(p) \/ Crash(p)
      PROVE  IInv'
  <2>1. CASE StartFresh(p)
    BY <2>1, StartFreshKeeps
  <2>2. CASE StartReplay(p)
    BY <2>2, StartReplayKeeps
  <2>3. CASE Mkdir(p) \/ Snapshot(p) \/ Manifest(p)
    BY <2>3, MkdirKeeps, SnapshotKeeps, ManifestKeeps
  <2>4. CASE DiscoverStage(p) \/ RankStage(p) \/ ValidateStage(p)
    BY <2>4, DiscoverKeeps, RankKeeps, ValidateKeeps
  <2>5. CASE ApplyStage(p) \/ PersistApply(p)
    BY <2>5, ApplyKeeps, PersistApplyKeeps
  <2>6. CASE ReadManifest(p) \/ WriteManifest(p)
    BY <2>6, ReadManifestKeeps, WriteManifestKeeps
  <2>7. CASE Crash(p)
    BY <2>7, CrashKeeps
  <2> QED BY <1>2, <2>1, <2>2, <2>3, <2>4, <2>5, <2>6, <2>7 DEF Step
<1> QED BY <1>1, <1>2 DEF Next

LEMMA SpecInvariant == Spec => []IInv
<1>1. Init => IInv
  BY InitInvariant
<1>2. IInv /\ [Next]_vars => IInv'
  BY NextInvariant
<1> QED BY <1>1, <1>2, PTL DEF Spec

-----------------------------------------------------------------------------
(* Which plan is applied: what a run's files say of each other.            *)

\* p goes on with a run directory it has made or replays.
Working(p) == Active(p) /\ proc[p].pc # "mkdir"

\* The runs about which the properties say something.
Lone(i) == i \notin patched \cup shared

\* The stage that p comes to next.
NextOf(p) == IF proc[p].pc \in {"read", "write"} THEN proc[p].stage + 1 ELSE proc[p].stage

\* A stage's file names the result before it, but for the one that a replay
\* comes to next: it has rewritten the file before.
Linked(i, t) == Present(i, t) => Present(i, t - 1) /\ run[i].file[t].on = run[i].file[t - 1].n
Rewriting(p, i, t) ==
    Working(p) /\ proc[p].id = i /\ proc[p].replay /\ proc[p].wrote /\ NextOf(p) = t
ChainOK(i) ==
    Lone(i) => \A t \in {Rank, Validate, Apply} :
                   Linked(i, t) \/ \E p \in Procs : Rewriting(p, i, t)

FilesOK(i) ==
    /\ ~run[i].dir => \A s \in Stages : ~Present(i, s)
    /\ \A s \in Stages : Present(i, s) => run[i].file[s].of = s

Alone ==
    \A p, q \in Procs :
        p # q /\ Working(p) /\ Working(q) /\ proc[p].id = proc[q].id => proc[p].id \in shared

\* What p holds is the result on disk; a new run has nothing yet of what comes next.
HeldOK(p) ==
    LET i == proc[p].id IN
    /\ proc[p].pc \in {"stage", "applied"} /\ proc[p].stage # Discover =>
         /\ Present(i, proc[p].stage - 1)
         /\ proc[p].prior = run[i].file[proc[p].stage - 1]
    /\ proc[p].pc \in {"read", "write"} => proc[p].prior = run[i].file[proc[p].stage]
    /\ ~proc[p].replay => \A s \in Stages : s >= NextOf(p) => ~Present(i, s)
StageOK(p) ==
    /\ proc[p].pc \in {"mkdir", "snapshot", "manifest"} => proc[p].stage = Discover
    /\ proc[p].pc = "applied" => proc[p].stage = Apply
    /\ Working(p) => run[proc[p].id].dir
    /\ Working(p) /\ Lone(proc[p].id) => HeldOK(p)

\* The plan that p holds is nobody else's, and has not been applied.
Own(p) ==
    /\ proc[p].prior.of = Validate /\ proc[p].prior.n \notin applied
    /\ \A q \in Procs : q # p /\ proc[q].prior.of = Validate => proc[q].prior.n # proc[p].prior.n
    /\ \A j \in RunIds : j # proc[p].id => run[j].file[Validate].n # proc[p].prior.n
OnceOK(p) ==
    /\ Working(p) /\ proc[p].default /\ proc[p].id \notin shared
    /\ NextOf(p) = Apply /\ proc[p].pc # "applied"
    => ~Present(proc[p].id, Apply) \/ Own(p)

\* The second inductive invariant, on top of the first.
PlanInv ==
    /\ \A i \in RunIds : ChainOK(i) /\ FilesOK(i)
    /\ \A p \in Procs : StageOK(p) /\ OnceOK(p)
    /\ Alone

-----------------------------------------------------------------------------
\* The last result before a stage is the one on disk of the stage before, if
\* there is one.
LEMMA LoadedPriorIsOnDisk ==
  ASSUME Types, NEW i \in RunIds, NEW s \in Stages
  PROVE  /\ LoadedPrior(i, s) = NoResult \/ \E b \in Stages : LoadedPrior(i, s) = run[i].file[b] /\ Present(i, b)
         /\ s # Discover /\ Present(i, s - 1) => LoadedPrior(i, s) = run[i].file[s - 1]
<1> DEFINE before == {b \in Stages : b < s /\ Present(i, b)}
           last == CHOOSE b \in before : \A o \in before : b >= o
<1>1. before # {} => \E b \in before : \A o \in before : b >= o
  BY LastStage
<1>2. ASSUME before # {}
      PROVE  /\ last \in before /\ \A o \in before : last >= o
             /\ LoadedPrior(i, s) = run[i].file[last]
  <2>1. last \in before /\ \A o \in before : last >= o
    BY <1>1, <1>2
  <2> QED BY <1>2, <2>1 DEF LoadedPrior
<1>3. before = {} => LoadedPrior(i, s) = NoResult
  BY DEF LoadedPrior
<1>4. ASSUME s # Discover, Present(i, s - 1)
      PROVE  before # {} /\ last = s - 1
  <2>1. s \in 2..4 /\ s - 1 \in before
    BY <1>4 DEF Stages, Discover, Apply
  <2>2. last \in before /\ last >= s - 1
    BY <1>2, <2>1
  <2>3. last \in Stages /\ last < s
    BY <2>2
  <2> QED BY <2>1, <2>2, <2>3 DEF Stages, Discover, Apply
<1> HIDE DEF before, last
<1>5. before # {} => last \in Stages /\ Present(i, last)
  <2>1. before # {} => last \in before
    BY <1>2
  <2> QED BY <2>1 DEF before
<1> QED BY <1>2, <1>3, <1>4, <1>5

\* The numbers that are taken.
LEMMA TakenNumbers ==
  ASSUME Types
  PROVE  /\ \A i \in RunIds : run[i].file[Validate].n \in Numbers(Validate)
         /\ \A p \in Procs : proc[p].prior.of = Validate => proc[p].prior.n \in Numbers(Validate)
         /\ applied \subseteq Numbers(Validate)
BY DEF Numbers

\* A step of p, in run i, keeps the invariant when it keeps what that says of p
\* and i.
LEMMA StepIn ==
  ASSUME IInv, PlanInv, NEW p \in Procs, NEW i \in RunIds,
         \A q \in Procs : q # p => proc'[q] = proc[q],
         \A j \in RunIds : j # i => run'[j].file = run[j].file /\ run'[j].dir = run[j].dir,
         Working(p) => proc[p].id = i,
         Working(p)' => proc'[p].id = i,
         patched \subseteq patched', shared \subseteq shared',
         run'[i].file = run[i].file \/ Working(p),
         run[i].dir => run'[i].dir,
         ChainOK(i)', FilesOK(i)', StageOK(p)', OnceOK(p)',
         Working(p)' /\ ~Working(p) =>
           \A q \in Procs : q # p /\ Working(q) /\ proc[q].id = i => i \in shared',
         \A n \in applied' :
           n \in applied \/ (n = proc[p].prior.n /\ proc[p].prior.of = Validate),
         proc'[p].prior.of = Validate =>
           \/ proc'[p].prior = proc[p].prior
           \/ proc'[p].prior.n \notin Numbers(Validate)
           \/ /\ proc'[p].prior.n = run[i].file[Validate].n
              /\ \A q \in Procs : q # p /\ Working(q) /\ proc[q].id = i => i \in shared',
         \/ run'[i].file[Validate].n = run[i].file[Validate].n
         \/ run'[i].file[Validate].n \notin Numbers(Validate)
  PROVE  PlanInv'
<1>1. \A q \in Procs : q # p => (Working(q)' <=> Working(q)) /\ NextOf(q)' = NextOf(q)
  BY DEF Working, Active, NextOf
<1>2. ASSUME NEW q \in Procs, q # p, Working(q), proc[q].id \notin shared'
      PROVE  \A j \in RunIds : j = proc[q].id => run'[j].file = run[j].file
  <2>1. proc[q].id = i /\ Working(p) => i \in shared
    BY <1>2 DEF PlanInv, Alone
  <2> QED BY <1>2, <2>1
<1>3. ASSUME NEW j \in RunIds, j # i
      PROVE  ChainOK(j)' /\ FilesOK(j)'
  <2>1. ChainOK(j) /\ FilesOK(j)
    BY DEF PlanInv
  <2>2. FilesOK(j)'
    BY <1>3, <2>1 DEF FilesOK, Present
  <2>3. Lone(j)' => Lone(j)
    BY DEF Lone
  <2>4. \A t \in {Rank, Validate, Apply} : Linked(j, t) => Linked(j, t)'
    BY <1>3 DEF Linked, Present
  <2>5. ASSUME NEW q \in Procs, NEW t \in {Rank, Validate, Apply}, Rewriting(q, j, t)
        PROVE  Rewriting(q, j, t)'
    <3>1. q # p
      BY <1>3, <2>5 DEF Rewriting
    <3> QED BY <1>1, <2>5, <3>1 DEF Rewriting
  <2>6. ChainOK(j)'
    BY <2>1, <2>3, <2>4, <2>5 DEF ChainOK
  <2> QED BY <2>2, <2>6
<1>4. ASSUME NEW q \in Procs, q # p
      PROVE  StageOK(q)'
  <2>1. PICK j \in RunIds : j = proc[q].id
    BY DEF IInv, Types, Processes
  <2>2. StageOK(q) /\ proc'[q] = proc[q]
    BY <1>4 DEF PlanInv
  <2>3. run[j].dir => run'[j].dir
    OBVIOUS
  <2>4. Working(q)' /\ Lone(j)' => Working(q) /\ Lone(j) /\ run'[j].file = run[j].file
    BY <1>1, <1>2, <1>4, <2>1 DEF Lone
  <2>5. Working(q)' /\ Lone(j)' => HeldOK(q)'
    <3>1. HeldOK(q) /\ run'[j].file = run[j].file => HeldOK(q)'
      BY <1>1, <1>4, <2>1, <2>2 DEF HeldOK, Present
    <3> QED BY <2>1, <2>2, <2>4, <3>1 DEF StageOK
  <2> QED BY <1>1, <1>4, <2>1, <2>2, <2>3, <2>5 DEF StageOK
<1>5. ASSUME NEW q \in Procs, q # p
      PROVE  OnceOK(q)'
  <2>1. PICK j \in RunIds : j = proc[q].id
    BY DEF IInv, Types, Processes
  <2>2. OnceOK(q) /\ proc'[q] = proc[q]
    BY <1>5 DEF PlanInv
  <2> SUFFICES ASSUME Working(q)', proc[q].default, j \notin shared', NextOf(q)' = Apply,
                      proc[q].pc # "applied"
               PROVE  ~Present(j, Apply)' \/ Own(q)'
    BY <2>1, <2>2 DEF OnceOK
  <2>3. Working(q) /\ j \notin shared /\ NextOf(q) = Apply /\ run'[j].file = run[j].file
    BY <1>1, <1>2, <1>5, <2>1
  <2>4. CASE ~Present(j, Apply)
    BY <2>3, <2>4 DEF Present
  <2>5. CASE Own(q)
    <3>1. proc[q].prior.of = Validate /\ proc[q].prior.n \notin applied
      BY <2>5 DEF Own
    <3>2. proc[q].prior.n \in Numbers(Validate)
      BY <3>1, TakenNumbers DEF IInv
    <3>3. proc[p].prior.of = Validate => proc[p].prior.n # proc[q].prior.n
      BY <1>5, <2>5 DEF Own
    <3>4. proc[q].prior.n \notin applied'
      BY <3>1, <3>3
    <3>5. i # j => run[i].file[Validate].n # proc[q].prior.n
      BY <2>1, <2>5 DEF Own
    <3>6. proc'[p].prior.of = Validate => proc'[p].prior.n # proc[q].prior.n
      BY <1>5, <2>1, <2>3, <3>2, <3>3, <3>5
    <3>7. \A o \in Procs : o # q /\ proc'[o].prior.of = Validate => proc'[o].prior.n # proc[q].prior.n
      BY <2>5, <3>6 DEF Own
    <3>8. \A k \in RunIds : k # j => run'[k].file[Validate].n # proc[q].prior.n
      BY <2>1, <2>5, <3>2, <3>5 DEF Own
    <3> QED BY <2>1, <2>2, <3>1, <3>4, <3>7, <3>8 DEF Own
  <2> QED BY <2>1, <2>2, <2>3, <2>4, <2>5 DEF OnceOK
<1>6. ASSUME NEW q \in Procs, q # p, Working(p)', Working(q)', proc'[p].id = proc'[q].id
      PROVE  proc'[p].id \in shared'
  <2>1. Working(q) /\ proc[q].id = i /\ proc'[p].id = i
    BY <1>1, <1>6
  <2>2. CASE Working(p)
    BY <1>6, <2>1, <2>2 DEF PlanInv, Alone
  <2>3. CASE ~Working(p)
    BY <1>6, <2>1, <2>3
  <2> QED BY <2>2, <2>3
<1>7. Alone'
  <2> SUFFICES ASSUME NEW a \in Procs, NEW b \in Procs, a # b, Working(a)', Working(b)',
                      proc'[a].id = proc'[b].id
               PROVE  proc'[a].id \in shared'
    BY DEF Alone
  <2>1. CASE a = p
    BY <1>6, <2>1
  <2>2. CASE b = p
    BY <1>6, <2>2
  <2>3. CASE a # p /\ b # p
    BY <1>1, <2>3 DEF PlanInv, Alone
  <2> QED BY <2>1, <2>2, <2>3
<1>8. \A j \in RunIds : ChainOK(j)' /\ FilesOK(j)'
  BY <1>3
<1>9. \A q \in Procs : StageOK(q)' /\ OnceOK(q)'
  BY <1>4, <1>5
<1> QED BY <1>7, <1>8, <1>9 DEF PlanInv

\* A step after which p no longer works on a run, and no file has changed.
LEMMA LeavesKeeps ==
  ASSUME IInv, PlanInv, NEW p \in Procs, NEW i \in RunIds, i = proc[p].id,
         \A q \in Procs : q # p => proc'[q] = proc[q],
         \A j \in RunIds : run'[j].file = run[j].file /\ run'[j].dir = run[j].dir,
         patched \subseteq patched', UNCHANGED <<applied, shared>>,
         ~Working(p)', proc'[p].stage = Discover, proc'[p].pc # "applied",
         \A t \in {Rank, Validate, Apply} : Rewriting(p, i, t) => i \in patched',
         proc'[p].prior \in {proc[p].prior, NoResult}
  PROVE  PlanInv'
<1>1. StageOK(p)' /\ OnceOK(p)'
  BY DEF StageOK, OnceOK
<1>2. FilesOK(i)'
  BY DEF PlanInv, FilesOK, Present
<1>3. ChainOK(i)'
  <2> SUFFICES ASSUME Lone(i)', NEW t \in {Rank, Validate, Apply}
               PROVE  Linked(i, t)' \/ \E q \in Procs : Rewriting(q, i, t)'
    BY DEF ChainOK
  <2>1. Lone(i)
    BY DEF Lone
  <2>2. CASE Linked(i, t)
    BY <2>2 DEF Linked, Present
  <2>3. ASSUME NEW q \in Procs, Rewriting(q, i, t)
        PROVE  Rewriting(q, i, t)'
    <3>1. q # p
      BY <2>3 DEF Lone
    <3> QED BY <2>3, <3>1 DEF Rewriting, Working, Active, NextOf
  <2> QED BY <2>1, <2>2, <2>3 DEF PlanInv, ChainOK
<1>4. proc'[p].prior.of = Validate => proc'[p].prior = proc[p].prior
  BY DEF NoResult, Validate
<1> QED BY <1>1, <1>2, <1>3, <1>4, StepIn

\* A step of a process that goes on with its run, as far as it was, and changes
\* no file.
LEMMA StaysKeeps ==
  ASSUME IInv, PlanInv, NEW p \in Procs, NEW i \in RunIds, i = proc[p].id,
         \A q \in Procs : q # p => proc'[q] = proc[q],
         \A j \in RunIds : run'[j].file = run[j].file /\ run'[j].dir = run[j].dir,
         UNCHANGED <<patched, shared>>,
         \A n \in applied' :
           n \in applied \/ (n = proc[p].prior.n /\ proc[p].prior.of = Validate),
         proc'[p].pc # "applied" => proc[p].pc # "applied" /\ applied' = applied,
         Working(p), Working(p)', NextOf(p)' = NextOf(p),
         proc'[p].id = i, proc'[p].prior = proc[p].prior, proc'[p].replay = proc[p].replay,
         proc'[p].wrote = proc[p].wrote, proc'[p].default = proc[p].default,
         proc'[p].pc \in {"mkdir", "snapshot", "manifest"} => proc'[p].stage = Discover,
         proc'[p].pc = "applied" => proc'[p].stage = Apply,
         proc'[p].pc \in {"stage", "applied"} /\ proc'[p].stage # Discover =>
           \/ proc[p].pc \in {"stage", "applied"} /\ proc[p].stage = proc'[p].stage
           \/ proc[p].pc \in {"read", "write"} /\ proc[p].stage = proc'[p].stage - 1
              /\ Present(i, proc[p].stage),
         proc'[p].pc \in {"read", "write"} =>
           proc[p].pc \in {"read", "write"} /\ proc'[p].stage = proc[p].stage
  PROVE  PlanInv'
<1>1. StageOK(p)'
  <2>1. run'[i].dir
    BY DEF PlanInv, StageOK
  <2>2. ASSUME Lone(i)'
        PROVE  HeldOK(p)'
    <3>1. HeldOK(p)
      BY <2>2 DEF Lone, PlanInv, StageOK
    <3> QED BY <3>1 DEF HeldOK, Present
  <2> QED BY <2>1, <2>2 DEF StageOK
<1>2. FilesOK(i)'
  BY DEF PlanInv, FilesOK, Present
<1>3. ChainOK(i)'
  <2> SUFFICES ASSUME Lone(i)', NEW t \in {Rank, Validate, Apply}
               PROVE  Linked(i, t)' \/ \E q \in Procs : Rewriting(q, i, t)'
    BY DEF ChainOK
  <2>1. Lone(i)
    BY DEF Lone
  <2>2. CASE Linked(i, t)
    BY <2>2 DEF Linked, Present
  <2>3. ASSUME NEW q \in Procs, Rewriting(q, i, t)
        PROVE  Rewriting(q, i, t)'
    <3>1. CASE q = p
      BY <2>3, <3>1 DEF Rewriting
    <3>2. CASE q # p
      BY <2>3, <3>2 DEF Rewriting, Working, Active, NextOf
    <3> QED BY <3>1, <3>2
  <2> QED BY <2>1, <2>2, <2>3 DEF PlanInv, ChainOK
<1>4. OnceOK(p)'
  <2> SUFFICES ASSUME proc[p].default, i \notin shared, NextOf(p) = Apply, proc'[p].pc # "applied"
               PROVE  ~Present(i, Apply)' \/ Own(p)'
    BY DEF OnceOK
  <2>1. ~Present(i, Apply) \/ Own(p)
    BY DEF PlanInv, OnceOK
  <2>2. Own(p) => Own(p)'
    BY DEF Own
  <2> QED BY <2>1, <2>2 DEF Present
<1> QED BY <1>1, <1>2, <1>3, <1>4, StepIn

-----------------------------------------------------------------------------
(* Every action keeps it.                                                  *)

LEMMA StopKeepsPlan ==
  ASSUME IInv, PlanInv, NEW p \in Procs, NEW d \in BOOLEAN, Stop(p, d),
         \A j \in RunIds : run'[j].file = run[j].file /\ run'[j].dir = run[j].dir,
         d => proc[p].pc = "write" /\ proc[p].stage = Apply,
         UNCHANGED <<applied, shared>>
  PROVE  PlanInv'
<1>1. PICK i \in RunIds : i = proc[p].id
  BY DEF IInv, Types, Processes
<1>2. proc'[p] = Idle /\ \A q \in Procs : q # p => proc'[q] = proc[q]
  BY DEF Stop, IInv, Types
<1>3. /\ ~Working(p)' /\ proc'[p].stage = Discover /\ proc'[p].pc # "applied"
      /\ proc'[p].prior = NoResult
  BY <1>2 DEF Working, Active, Idle
<1>4. patched \subseteq patched'
  BY DEF Stop
<1>5. \A t \in {Rank, Validate, Apply} : Rewriting(p, i, t) => i \in patched'
  <2>1. d => NextOf(p) \notin {Rank, Validate, Apply}
    BY DEF NextOf, Rank, Validate, Apply
  <2>2. ~d /\ proc[p].replay /\ proc[p].wrote => i \in patched'
    BY <1>1 DEF Stop
  <2> QED BY <2>1, <2>2 DEF Rewriting
<1> QED BY <1>1, <1>2, <1>3, <1>4, <1>5, LeavesKeeps

LEMMA FailsKeepsPlan ==
  ASSUME IInv, PlanInv, NEW p \in Procs, Fails(p), UNCHANGED <<starts, applied, shared>>
  PROVE  PlanInv'
BY StopKeepsPlan DEF Fails

LEMMA StartFreshKeepsPlan ==
  ASSUME IInv, PlanInv, NEW p \in Procs, StartFresh(p)
  PROVE  PlanInv'
<1>1. PICK k \in RunIds, m \in Modes :
        proc' = [proc EXCEPT ![p] = [Idle EXCEPT !.pc = "mkdir", !.id = k, !.mode = m]]
  BY DEF StartFresh
<1>2. PICK i \in RunIds : i = proc[p].id
  BY DEF IInv, Types, Processes
<1>3. /\ proc'[p] = [Idle EXCEPT !.pc = "mkdir", !.id = k, !.mode = m]
      /\ \A q \in Procs : q # p => proc'[q] = proc[q]
  BY <1>1 DEF IInv, Types
<1>4. /\ ~Working(p)' /\ proc'[p].stage = Discover /\ proc'[p].pc # "applied"
      /\ proc'[p].prior = NoResult
  BY <1>3 DEF Working, Active, Idle
<1>5. ~Working(p)
  BY DEF StartFresh, Working
<1>6. UNCHANGED <<run, applied, patched, shared>>
  BY DEF StartFresh
<1> QED BY <1>2, <1>3, <1>4, <1>5, <1>6, LeavesKeeps DEF Rewriting

LEMMA SouffleFailsKeepsPlan ==
  ASSUME IInv, PlanInv, NEW p \in Procs, SouffleFails(p), proc[p].stage = Discover,
         proc[p].pc = "stage", UNCHANGED <<starts, applied, shared>>
  PROVE  PlanInv'
<1>1. CASE proc[p].replay
  BY <1>1, FailsKeepsPlan DEF SouffleFails
<1>2. CASE ~proc[p].replay
  <2>1. proc[p] \in Processes
    BY DEF IInv, Types
  <2>2. PICK i \in RunIds : i = proc[p].id
    BY <2>1 DEF Processes
  <2>3. /\ proc'[p] = [proc[p] EXCEPT !.mode = "llm", !.pc = "mkdir"]
        /\ \A q \in Procs : q # p => proc'[q] = proc[q]
        /\ UNCHANGED <<run, patched>>
    BY <1>2 DEF SouffleFails, IInv, Types
  <2>4. /\ ~Working(p)' /\ proc'[p].stage = Discover /\ proc'[p].pc # "applied"
        /\ proc'[p].prior = proc[p].prior
    BY <2>1, <2>3 DEF Working, Active, Processes
  <2>5. \A t \in {Rank, Validate, Apply} : ~Rewriting(p, i, t)
    BY <1>2 DEF Rewriting
  <2> QED BY <2>2, <2>3, <2>4, <2>5, LeavesKeeps
<1> QED BY <1>1, <1>2

LEMMA MkdirKeepsPlan ==
  ASSUME IInv, PlanInv, NEW p \in Procs, Mkdir(p)
  PROVE  PlanInv'
<1>0. PICK i \in RunIds : i = proc[p].id
  BY DEF IInv, Types, Processes
<1>1. proc[p] \in Processes /\ run[i] \in Runs
  BY DEF IInv, Types
<1>2. CASE run[i].dir
  BY <1>0, <1>2, FailsKeepsPlan DEF Mkdir
<1>3. CASE ~run[i].dir
  <2>1. /\ run' = [run EXCEPT ![i].dir = TRUE]
        /\ proc' = [proc EXCEPT ![p].pc = "snapshot"]
        /\ UNCHANGED <<starts, applied, patched, shared>>
    BY <1>0, <1>3 DEF Mkdir
  <2>2. /\ proc'[p] = [proc[p] EXCEPT !.pc = "snapshot"]
        /\ \A q \in Procs : q # p => proc'[q] = proc[q]
    BY <2>1 DEF IInv, Types
  <2>3. /\ run'[i] = [run[i] EXCEPT !.dir = TRUE]
        /\ \A j \in RunIds : j # i => run'[j] = run[j]
    BY <1>1, <2>1 DEF IInv, Types
  <2>4. run'[i].dir /\ run'[i].file = run[i].file
    BY <1>1, <2>3 DEF Runs
  <2>5. /\ proc'[p].pc = "snapshot" /\ proc'[p].id = i /\ proc'[p].stage = Discover
        /\ proc'[p].prior = proc[p].prior /\ proc'[p].replay = proc[p].replay
    BY <1>0, <1>1, <2>2 DEF Processes, Mkdir, PlanInv, StageOK
  <2>6. ~Working(p) /\ Working(p)'
    BY <2>5 DEF Mkdir, Working, Active
  <2>7. \A s \in Stages : ~Present(i, s) /\ ~Present(i, s)'
    BY <1>3, <2>4 DEF PlanInv, FilesOK, Present
  <2>8. \A q \in Procs : Working(q) => proc[q].id # i
    BY <1>3 DEF PlanInv, StageOK
  <2>9. FilesOK(i)' /\ ChainOK(i)'
    BY <2>7 DEF FilesOK, ChainOK, Linked, Stages, Discover, Rank, Validate, Apply
  <2>10. StageOK(p)'
    BY <2>4, <2>5, <2>7 DEF StageOK, HeldOK, Present
  <2>11. OnceOK(p)'
    BY <2>5 DEF OnceOK, NextOf, Discover, Apply
  <2> QED BY <2>1, <2>2, <2>3, <2>4, <2>5, <2>6, <2>8, <2>9, <2>10, <2>11, StepIn
<1> QED BY <1>2, <1>3

LEMMA SnapshotKeepsPlan ==
  ASSUME IInv, PlanInv, NEW p \in Procs, Snapshot(p)
  PROVE  PlanInv'
<1>0. PICK i \in RunIds : i = proc[p].id
  BY DEF IInv, Types, Processes
<1>1. proc[p] \in Processes /\ run[i] \in Runs
  BY DEF IInv, Types
<1>2. /\ run' = [run EXCEPT ![i].snapshot = TRUE]
      /\ proc' = [proc EXCEPT ![p].pc = "manifest"]
      /\ proc[p].pc = "snapshot" /\ UNCHANGED <<starts, applied, patched, shared>>
  BY <1>0 DEF Snapshot
<1>3. /\ proc'[p] = [proc[p] EXCEPT !.pc = "manifest"]
      /\ \A q \in Procs : q # p => proc'[q] = proc[q]
  BY <1>2 DEF IInv, Types
<1>4. \A j \in RunIds : run'[j].file = run[j].file /\ run'[j].dir = run[j].dir
  BY <1>2 DEF IInv, Types, Runs
<1>5. /\ proc'[p].id = i /\ proc'[p].prior = proc[p].prior /\ proc'[p].replay = proc[p].replay
      /\ proc'[p].wrote = proc[p].wrote /\ proc'[p].default = proc[p].default
      /\ proc'[p].stage = proc[p].stage /\ proc'[p].pc = "manifest"
  BY <1>0, <1>1, <1>3 DEF Processes
<1>6. proc[p].stage = Discover
  BY <1>2 DEF PlanInv, StageOK
<1>7. Working(p) /\ Working(p)' /\ NextOf(p)' = NextOf(p)
  BY <1>2, <1>5 DEF Working, Active, NextOf
<1> QED BY <1>0, <1>2, <1>3, <1>4, <1>5, <1>6, <1>7, StaysKeeps

LEMMA ManifestKeepsPlan ==
  ASSUME IInv, PlanInv, NEW p \in Procs, Manifest(p)
  PROVE  PlanInv'
<1>0. PICK i \in RunIds : i = proc[p].id
  BY DEF IInv, Types, Processes
<1>1. proc[p] \in Processes /\ run[i] \in Runs
  BY DEF IInv, Types
<1>2. /\ run' = [run EXCEPT ![i].manifest = TRUE, ![i].mode = proc[p].mode, ![i].completed = {}]
      /\ proc' = [proc EXCEPT ![p].pc = "stage"]
      /\ proc[p].pc = "manifest" /\ UNCHANGED <<starts, applied, patched, shared>>
  BY <1>0 DEF Manifest
<1>3. /\ proc'[p] = [proc[p] EXCEPT !.pc = "stage"]
      /\ \A q \in Procs : q # p => proc'[q] = proc[q]
  BY <1>2 DEF IInv, Types
<1>4. \A j \in RunIds : run'[j].file = run[j].file /\ run'[j].dir = run[j].dir
  BY <1>2 DEF IInv, Types, Runs
<1>5. /\ proc'[p].id = i /\ proc'[p].prior = proc[p].prior /\ proc'[p].replay = proc[p].replay
      /\ proc'[p].wrote = proc[p].wrote /\ proc'[p].default = proc[p].default
      /\ proc'[p].stage = proc[p].stage /\ proc'[p].pc = "stage"
  BY <1>0, <1>1, <1>3 DEF Processes
<1>6. proc[p].stage = Discover
  BY <1>2 DEF PlanInv, StageOK
<1>7. Working(p) /\ Working(p)' /\ NextOf(p)' = NextOf(p)
  BY <1>2, <1>5 DEF Working, Active, NextOf
<1> QED BY <1>0, <1>2, <1>3, <1>4, <1>5, <1>6, <1>7, StaysKeeps

LEMMA StartReplayKeepsPlan ==
  ASSUME IInv, PlanInv, NEW p \in Procs, StartReplay(p)
  PROVE  PlanInv'
<1>1. PICK i \in RunIds, s \in Stages :
        /\ run[i].manifest
        /\ proc' = [proc EXCEPT ![p] =
             [Idle EXCEPT !.pc = "stage", !.id = i, !.mode = run[i].mode, !.replay = TRUE,
                          !.default = s = FirstIncomplete(i), !.stage = s,
                          !.prior = LoadedPrior(i, s), !.loaded = s # Discover]]
        /\ patched' = IF s # Discover /\ ~Present(i, s - 1) THEN patched \cup {i} ELSE patched
        /\ shared' = IF \E q \in Procs : Active(q) /\ proc[q].id = i
                     THEN shared \cup {i} ELSE shared
  BY DEF StartReplay
<1>2. PICK r : r = LoadedPrior(i, s)
  OBVIOUS
<1>3. /\ proc'[p].pc = "stage" /\ proc'[p].id = i /\ proc'[p].stage = s /\ proc'[p].prior = r
      /\ proc'[p].replay /\ proc'[p].default = (s = FirstIncomplete(i))
      /\ \A q \in Procs : q # p => proc'[q] = proc[q]
  BY <1>1, <1>2 DEF IInv, Types, Idle
<1>4. ~Working(p) /\ Working(p)' /\ UNCHANGED <<run, applied>>
  BY <1>3 DEF StartReplay, Working, Active
<1>5. patched \subseteq patched' /\ shared \subseteq shared'
  BY <1>1
<1>6. \A q \in Procs : Working(q) /\ proc[q].id = i => i \in shared'
  BY <1>1 DEF Working
<1>7. FilesOK(i)'
  BY <1>4 DEF PlanInv, FilesOK, Present
<1>8. ChainOK(i)'
  <2> SUFFICES ASSUME Lone(i)', NEW t \in {Rank, Validate, Apply}
               PROVE  Linked(i, t)' \/ \E q \in Procs : Rewriting(q, i, t)'
    BY DEF ChainOK
  <2>1. Lone(i)
    BY <1>5 DEF Lone
  <2>2. CASE Linked(i, t)
    BY <1>4, <2>2 DEF Linked, Present
  <2>3. ASSUME NEW q \in Procs, Rewriting(q, i, t)
        PROVE  Rewriting(q, i, t)'
    <3>1. q # p
      BY <1>4, <2>3 DEF Rewriting
    <3> QED BY <1>3, <2>3, <3>1 DEF Rewriting, Working, Active, NextOf
  <2> QED BY <2>1, <2>2, <2>3 DEF PlanInv, ChainOK
<1>9. StageOK(p)'
  <2>1. run'[i].dir
    BY <1>1, <1>4 DEF IInv, RunOK
  <2>2. ASSUME Lone(i)', s # Discover
        PROVE  Present(i, s - 1) /\ r = run[i].file[s - 1]
    <3>1. Present(i, s - 1)
      BY <1>1, <2>2 DEF Lone
    <3> QED BY <1>2, <2>2, <3>1, LoadedPriorIsOnDisk DEF IInv
  <2>3. Lone(i)' => HeldOK(p)'
    BY <1>3, <1>4, <2>2 DEF HeldOK, Present
  <2> QED BY <1>3, <2>1, <2>3 DEF StageOK
<1>10. OnceOK(p)'
  <2> SUFFICES ASSUME s = FirstIncomplete(i), s = Apply
               PROVE  ~Present(i, Apply)'
    BY <1>3 DEF OnceOK, NextOf
  <2> DEFINE open == {o \in Stages : ~Present(i, o)}
  <2>1. open # {}
    BY DEF FirstIncomplete, Discover, Apply
  <2>2. \E o \in open : \A u \in open : o <= u
    <3> open \subseteq 1..4
      BY DEF Stages, Discover, Apply
    <3>1. CASE 1 \in open
      BY <3>1
    <3>2. CASE 1 \notin open /\ 2 \in open
      BY <3>2
    <3>3. CASE 1 \notin open /\ 2 \notin open /\ 3 \in open
      BY <3>3
    <3>4. CASE 1 \notin open /\ 2 \notin open /\ 3 \notin open
      BY <2>1, <3>4
    <3> QED BY <3>1, <3>2, <3>3, <3>4
  <2>3. FirstIncomplete(i) \in open
    BY <2>1, <2>2 DEF FirstIncomplete
  <2> QED BY <1>4, <2>3 DEF Present
<1>11. r.of = Validate => r.n = run[i].file[Validate].n
  <2>1. CASE r = NoResult
    BY <2>1 DEF NoResult, Validate
  <2>2. ASSUME NEW b \in Stages, r = run[i].file[b], Present(i, b)
        PROVE  r.of = b
    BY <2>2 DEF PlanInv, FilesOK
  <2> QED BY <1>2, <2>1, <2>2, LoadedPriorIsOnDisk DEF IInv
<1> QED BY <1>3, <1>4, <1>5, <1>6, <1>7, <1>8, <1>9, <1>10, <1>11, StepIn

\* A new result is made from what the process holds, and has a number of its own.
LEMMA PersistKeepsPlan ==
  ASSUME IInv, PlanInv, NEW p \in Procs, proc[p].pc \in {"stage", "applied"},
         NEW c \in BOOLEAN, Persist(p, NewResult(p, c)), UNCHANGED <<starts, applied, shared>>
  PROVE  PlanInv'
<1>0. PICK i \in RunIds, s \in Stages : i = proc[p].id /\ s = proc[p].stage
  BY DEF IInv, Types, Processes
<1>1. proc[p] \in Processes /\ run[i] \in Runs
  BY DEF IInv, Types
<1>2. PICK r : r = NewResult(p, c)
  OBVIOUS
<1>3. /\ r.of = s /\ r # NoResult /\ r.on = proc[p].prior.n
      /\ r.n = Unused(s) /\ r.n \notin Numbers(s)
  BY <1>0, <1>2, NewResultIsResult, UnusedIsNew DEF IInv, NewResult
<1>4. /\ run' = [run EXCEPT ![i].file[s] = r]
      /\ proc' = [proc EXCEPT ![p].pc = "read", ![p].prior = r, ![p].wrote = TRUE]
      /\ UNCHANGED patched
  BY <1>0, <1>2, <1>3 DEF Persist
<1>5. /\ proc'[p].pc = "read" /\ proc'[p].id = i /\ proc'[p].stage = s /\ proc'[p].prior = r
      /\ proc'[p].replay = proc[p].replay /\ proc'[p].default = proc[p].default /\ proc'[p].wrote
      /\ \A q \in Procs : q # p => proc'[q] = proc[q]
  BY <1>0, <1>1, <1>4 DEF IInv, Types, Processes
<1>6. /\ run'[i].file[s] = r /\ run'[i].dir = run[i].dir
      /\ \A t \in Stages : t # s => run'[i].file[t] = run[i].file[t]
      /\ \A j \in RunIds : j # i => run'[j] = run[j]
  BY <1>1, <1>4 DEF IInv, Types, Runs
<1>7. Working(p) /\ Working(p)' /\ NextOf(p) = s /\ NextOf(p)' = s + 1
  BY <1>0, <1>5 DEF Working, Active, NextOf
<1>8. run[i].dir
  BY <1>0, <1>7 DEF PlanInv, StageOK
<1>9. FilesOK(i)'
  BY <1>3, <1>6, <1>8 DEF PlanInv, FilesOK, Present
<1>10. Lone(i) => HeldOK(p)
  BY <1>0, <1>7 DEF PlanInv, StageOK
<1>11. Present(i, s)' /\ \A t \in Stages : t # s => (Present(i, t)' <=> Present(i, t))
  BY <1>3, <1>6 DEF Present
<1>12. StageOK(p)'
  <2>1. ASSUME Lone(i)'
        PROVE  HeldOK(p)'
    <3>1. HeldOK(p)
      BY <1>4, <1>10, <2>1 DEF Lone
    <3>2. ASSUME ~proc[p].replay, NEW t \in Stages, t >= s + 1
          PROVE  ~Present(i, t)'
      <4>1. t # s /\ t >= s
        BY <3>2 DEF Stages, Discover, Apply
      <4> QED BY <1>0, <1>7, <1>11, <3>1, <3>2, <4>1 DEF HeldOK
    <3> QED BY <1>5, <1>6, <1>7, <3>2 DEF HeldOK, Present
  <2> QED BY <1>5, <1>6, <1>8, <2>1 DEF StageOK
<1>13. ChainOK(i)'
  <2> SUFFICES ASSUME Lone(i)', NEW t \in {Rank, Validate, Apply}
               PROVE  Linked(i, t)' \/ \E q \in Procs : Rewriting(q, i, t)'
    BY DEF ChainOK
  <2>1. Lone(i) /\ HeldOK(p)
    BY <1>4, <1>10 DEF Lone
  <2>2. t \in Stages /\ t - 1 \in Stages /\ t # Discover /\ t - 1 # t
    BY DEF Stages, Discover, Rank, Validate, Apply
  <2>3. CASE t = s
    <3>1. Present(i, s - 1) /\ proc[p].prior = run[i].file[s - 1]
      BY <1>0, <2>1, <2>2, <2>3 DEF HeldOK
    <3> QED BY <1>3, <1>6, <1>11, <2>2, <2>3, <3>1 DEF Linked
  <2>4. CASE t = s + 1
    <3>1. CASE proc[p].replay
      BY <1>5, <1>7, <2>4, <3>1 DEF Rewriting
    <3>2. CASE ~proc[p].replay
      <4>1. t >= s /\ t # s
        BY <2>4 DEF Stages, Discover, Apply
      <4>2. ~Present(i, t)'
        BY <1>0, <1>7, <1>11, <2>1, <2>2, <3>2, <4>1 DEF HeldOK
      <4> QED BY <4>2 DEF Linked
    <3> QED BY <3>1, <3>2
  <2>5. CASE t # s /\ t # s + 1
    <3>1. t - 1 # s
      BY <2>5 DEF Stages, Discover, Apply, Rank, Validate
    <3>2. Linked(i, t) => Linked(i, t)'
      BY <1>6, <1>11, <2>2, <2>5, <3>1 DEF Linked
    <3>3. ASSUME NEW q \in Procs, Rewriting(q, i, t)
          PROVE  Rewriting(q, i, t)'
      <4>1. q # p
        BY <1>7, <2>5, <3>3 DEF Rewriting
      <4> QED BY <1>5, <3>3, <4>1 DEF Rewriting, Working, Active, NextOf
    <3> QED BY <2>1, <3>2, <3>3 DEF PlanInv, ChainOK
  <2> QED BY <2>3, <2>4, <2>5
<1>14. OnceOK(p)'
  <2> SUFFICES ASSUME s + 1 = Apply
               PROVE  Own(p)'
    BY <1>7 DEF OnceOK
  <2>1. s = Validate
    BY DEF Stages, Discover, Validate, Apply
  <2> QED BY <1>3, <1>5, <1>6, <2>1, TakenNumbers DEF Own, IInv
<1>15. proc'[p].prior.of = Validate => proc'[p].prior.n \notin Numbers(Validate)
  BY <1>3, <1>5
<1>16. \/ run'[i].file[Validate].n = run[i].file[Validate].n
       \/ run'[i].file[Validate].n \notin Numbers(Validate)
  <2>1. Validate \in Stages
    BY DEF Stages, Discover, Validate, Apply
  <2> QED BY <1>3, <1>6, <2>1
<1> QED BY <1>0, <1>4, <1>5, <1>6, <1>7, <1>8, <1>9, <1>12, <1>13, <1>14, <1>15, <1>16, StepIn

LEMMA DiscoverKeepsPlan ==
  ASSUME IInv, PlanInv, NEW p \in Procs, DiscoverStage(p)
  PROVE  PlanInv'
<1>1. ASSUME NEW c \in BOOLEAN, Persist(p, NewResult(p, c))
      PROVE  PlanInv'
  BY <1>1, PersistKeepsPlan DEF DiscoverStage
<1>2. ASSUME SouffleFails(p)
      PROVE  PlanInv'
  BY <1>2, SouffleFailsKeepsPlan DEF DiscoverStage
<1>3. ASSUME Fails(p)
      PROVE  PlanInv'
  BY <1>3, FailsKeepsPlan DEF DiscoverStage
<1> QED BY <1>1, <1>2, <1>3 DEF DiscoverStage

LEMMA RankKeepsPlan ==
  ASSUME IInv, PlanInv, NEW p \in Procs, RankStage(p)
  PROVE  PlanInv'
<1>1. proc[p].prior.cands \in BOOLEAN
  BY DEF IInv, Types, Processes, Result
<1>2. ASSUME Persist(p, NewResult(p, proc[p].prior.cands))
      PROVE  PlanInv'
  BY <1>1, <1>2, PersistKeepsPlan DEF RankStage
<1>3. ASSUME Fails(p)
      PROVE  PlanInv'
  BY <1>3, FailsKeepsPlan DEF RankStage
<1> QED BY <1>2, <1>3 DEF RankStage

LEMMA ValidateKeepsPlan ==
  ASSUME IInv, PlanInv, NEW p \in Procs, ValidateStage(p)
  PROVE  PlanInv'
<1>1. ASSUME Persist(p, NewResult(p, FALSE))
      PROVE  PlanInv'
  BY <1>1, PersistKeepsPlan DEF ValidateStage
<1>2. ASSUME Fails(p)
      PROVE  PlanInv'
  BY <1>2, FailsKeepsPlan DEF ValidateStage
<1> QED BY <1>1, <1>2 DEF ValidateStage, NoAnswer

LEMMA ApplyKeepsPlan ==
  ASSUME IInv, PlanInv, NEW p \in Procs, ApplyStage(p)
  PROVE  PlanInv'
<1>1. ASSUME Fails(p), UNCHANGED applied
      PROVE  PlanInv'
  BY <1>1, FailsKeepsPlan DEF ApplyStage
<1>2. ASSUME NEW a \in BOOLEAN,
             applied' = IF a /\ proc[p].prior.of = Validate
                        THEN applied \cup {proc[p].prior.n} ELSE applied,
             proc' = [proc EXCEPT ![p].pc = "applied", ![p].apply = a],
             UNCHANGED <<run, patched>>
      PROVE  PlanInv'
  <2>0. PICK i \in RunIds : i = proc[p].id
    BY DEF IInv, Types, Processes
  <2>1. proc[p] \in Processes /\ proc[p].pc = "stage" /\ proc[p].stage = Apply /\ UNCHANGED shared
    BY DEF IInv, Types, ApplyStage
  <2>2. /\ proc'[p].pc = "applied" /\ proc'[p].id = i /\ proc'[p].stage = Apply
        /\ proc'[p].prior = proc[p].prior /\ proc'[p].replay = proc[p].replay
        /\ proc'[p].wrote = proc[p].wrote /\ proc'[p].default = proc[p].default
        /\ \A q \in Procs : q # p => proc'[q] = proc[q]
    BY <1>2, <2>0, <2>1 DEF IInv, Types, Processes
  <2>3. Working(p) /\ Working(p)' /\ NextOf(p)' = NextOf(p)
    BY <2>1, <2>2 DEF Working, Active, NextOf
  <2>4. \A n \in applied' : n \in applied \/ (n = proc[p].prior.n /\ proc[p].prior.of = Validate)
    BY <1>2
  <2> QED BY <1>2, <2>0, <2>1, <2>2, <2>3, <2>4, StaysKeeps
<1> QED BY <1>1, <1>2 DEF ApplyStage

LEMMA ReadManifestKeepsPlan ==
  ASSUME IInv, PlanInv, NEW p \in Procs, ReadManifest(p)
  PROVE  PlanInv'
<1>0. PICK i \in RunIds : i = proc[p].id
  BY DEF IInv, Types, Processes
<1>1. proc[p] \in Processes /\ proc[p].pc = "read"
  BY DEF IInv, Types, ReadManifest
<1>2. /\ proc' = [proc EXCEPT ![p].pc = "write", ![p].completed = run[i].completed]
      /\ UNCHANGED <<run, starts, applied, patched, shared>>
  BY <1>0 DEF ReadManifest
<1>3. /\ proc'[p].pc = "write" /\ proc'[p].id = i /\ proc'[p].stage = proc[p].stage
      /\ proc'[p].prior = proc[p].prior /\ proc'[p].replay = proc[p].replay
      /\ proc'[p].wrote = proc[p].wrote /\ proc'[p].default = proc[p].default
      /\ \A q \in Procs : q # p => proc'[q] = proc[q]
  BY <1>0, <1>1, <1>2 DEF IInv, Types, Processes
<1>4. Working(p) /\ Working(p)' /\ NextOf(p)' = NextOf(p)
  BY <1>1, <1>3 DEF Working, Active, NextOf
<1> QED BY <1>0, <1>1, <1>2, <1>3, <1>4, StaysKeeps

LEMMA WriteManifestKeepsPlan ==
  ASSUME IInv, PlanInv, NEW p \in Procs, WriteManifest(p)
  PROVE  PlanInv'
<1>0. PICK i \in RunIds, s \in Stages : i = proc[p].id /\ s = proc[p].stage
  BY DEF IInv, Types, Processes
<1>1. proc[p] \in Processes /\ proc[p].pc = "write"
  BY DEF IInv, Types, WriteManifest
<1>2. \A j \in RunIds : run'[j].file = run[j].file /\ run'[j].dir = run[j].dir
  <2>1. run' = [run EXCEPT ![i].completed = proc[p].completed \cup {proc[p].stage}]
    BY <1>0 DEF WriteManifest
  <2> QED BY <2>1 DEF IInv, Types, Runs
<1>3. CASE s = Apply
  <2>1. Stop(p, TRUE) /\ UNCHANGED <<applied, shared>>
    BY <1>0, <1>3 DEF WriteManifest, GoOn
  <2> QED BY <1>0, <1>1, <1>2, <1>3, <2>1, StopKeepsPlan
<1>4. CASE s # Apply
  <2>1. /\ proc' = [proc EXCEPT ![p].pc = "stage", ![p].stage = s + 1, ![p].prior = proc[p].prior,
                                ![p].loaded = FALSE, ![p].completed = {}]
        /\ UNCHANGED <<starts, applied, patched, shared>>
    BY <1>0, <1>4 DEF WriteManifest, GoOn
  <2>2. /\ proc'[p].pc = "stage" /\ proc'[p].id = i /\ proc'[p].stage = s + 1
        /\ proc'[p].prior = proc[p].prior /\ proc'[p].replay = proc[p].replay
        /\ proc'[p].wrote = proc[p].wrote /\ proc'[p].default = proc[p].default
        /\ \A q \in Procs : q # p => proc'[q] = proc[q]
    BY <1>0, <1>1, <2>1 DEF IInv, Types, Processes
  <2>3. Working(p) /\ Working(p)' /\ NextOf(p)' = NextOf(p)
    BY <1>0, <1>1, <2>2 DEF Working, Active, NextOf
  <2>4. Present(i, s)
    BY <1>0, <1>1 DEF IInv, ListingOK
  <2>5. s = (s + 1) - 1
    BY DEF Stages, Discover, Apply
  <2> QED BY <1>0, <1>1, <1>2, <2>1, <2>2, <2>3, <2>4, <2>5, StaysKeeps
<1> QED BY <1>3, <1>4

LEMMA CrashKeepsPlan ==
  ASSUME IInv, PlanInv, NEW p \in Procs, Crash(p)
  PROVE  PlanInv'
BY StopKeepsPlan DEF Crash

\* Every step keeps it.
LEMMA NextPlan == IInv /\ PlanInv /\ [Next]_vars => PlanInv'
<1> SUFFICES ASSUME IInv, PlanInv, [Next]_vars PROVE PlanInv'
  OBVIOUS
<1>1. ASSUME UNCHANGED vars PROVE PlanInv'
  <2>1. \A i \in RunIds : ChainOK(i)' /\ FilesOK(i)'
    BY <1>1 DEF vars, PlanInv, ChainOK, FilesOK, Lone, Linked, Present, Rewriting, Working, Active,
               NextOf
  <2>2. \A p \in Procs : StageOK(p)' /\ OnceOK(p)'
    BY <1>1 DEF vars, PlanInv, StageOK, HeldOK, OnceOK, Own, Lone, Present, Working, Active, NextOf
  <2>3. Alone'
    BY <1>1 DEF vars, PlanInv, Alone, Working, Active
  <2> QED BY <2>1, <2>2, <2>3 DEF PlanInv
<1>2. ASSUME NEW p \in Procs, StartFresh(p) \/ StartReplay(p) \/ Step(p) \/ Crash(p)
      PROVE  PlanInv'
  <2>1. CASE StartFresh(p)
    BY <2>1, StartFreshKeepsPlan
  <2>2. CASE StartReplay(p)
    BY <2>2, StartReplayKeepsPlan
  <2>3. CASE Mkdir(p) \/ Snapshot(p) \/ Manifest(p)
    BY <2>3, MkdirKeepsPlan, SnapshotKeepsPlan, ManifestKeepsPlan
  <2>4. CASE DiscoverStage(p) \/ RankStage(p) \/ ValidateStage(p)
    BY <2>4, DiscoverKeepsPlan, RankKeepsPlan, ValidateKeepsPlan
  <2>5. CASE ApplyStage(p)
    BY <2>5, ApplyKeepsPlan
  <2>6. CASE PersistApply(p)
    BY <2>6, PersistKeepsPlan DEF PersistApply
  <2>7. CASE ReadManifest(p) \/ WriteManifest(p)
    BY <2>7, ReadManifestKeepsPlan, WriteManifestKeepsPlan
  <2>8. CASE Crash(p)
    BY <2>8, CrashKeepsPlan
  <2> QED BY <1>2, <2>1, <2>2, <2>3, <2>4, <2>5, <2>6, <2>7, <2>8 DEF Step
<1> QED BY <1>1, <1>2 DEF Next

LEMMA InitPlan == Init => PlanInv
<1> SUFFICES ASSUME Init PROVE PlanInv
  OBVIOUS
<1>1. \A p \in Procs : ~Working(p) /\ proc[p].stage = Discover /\ proc[p].pc = "idle"
  BY DEF Init, Working, Active, Idle
<1>2. \A i \in RunIds, s \in Stages : ~Present(i, s)
  BY DEF Init, NoRun, Present
<1>3. \A i \in RunIds : FilesOK(i) /\ ChainOK(i)
  BY <1>2 DEF FilesOK, ChainOK, Linked, Stages, Discover, Rank, Validate, Apply
<1> QED BY <1>1, <1>3 DEF PlanInv, StageOK, OnceOK, Alone

LEMMA SpecPlan == Spec => [](IInv /\ PlanInv)
<1>1. Init => IInv /\ PlanInv
  BY InitInvariant, InitPlan
<1>2. IInv /\ PlanInv /\ [Next]_vars => IInv' /\ PlanInv'
  BY NextInvariant, NextPlan
<1> QED BY <1>1, <1>2, PTL DEF Spec

-----------------------------------------------------------------------------
(* The theorems.                                                           *)

\* Directories, stage files and processes have the types runstore.py and
\* contracts.py give them, and a run directory that has a manifest has its copy
\* of the store: create_run writes the manifest last.
THEOREM TypeCorrect == Spec => []TypeOK
<1>1. IInv => TypeOK
  BY DEF IInv, Types, TypeOK, RunOK, Runs, Processes, Pcs
<1> QED BY <1>1, SpecInvariant, PTL

\* write_stage and its unlocked rewrite of the manifest: any number of
\* processes, killed anywhere, replaying one run together, never make a
\* manifest list a stage whose file is not there.
THEOREM ListedStagesHaveFiles == Spec => []ManifestHasFiles
<1>1. IInv => ManifestHasFiles
  BY DEF IInv, RunOK, ManifestHasFiles
<1> QED BY <1>1, SpecInvariant, PTL

\* create_run's mkdir without exist_ok: two processes that drew the same run id
\* never both go on with it, Souffle's fallback included.
THEOREM OneCreatorPerRun == Spec => []OneCreator
<1>1. IInv => OneCreator
  BY DEF IInv
<1> QED BY <1>1, SpecInvariant, PTL

\* The plan that save_graph_sqlite is given is the validate result on disk, and
\* that was made from the rank and discover results on disk, whichever processes
\* failed, were killed or replayed the run before; the exceptions are the runs
\* that two processes shared and those a replay left half rewritten.
THEOREM AppliedPlanIsOnDisk == Spec => []AppliedPlanIsTheRuns
<1>1. IInv /\ PlanInv => AppliedPlanIsTheRuns
  <2> SUFFICES ASSUME IInv, PlanInv, NEW p \in Procs, proc[p].pc = "applied", Lone(proc[p].id)
               PROVE  /\ proc[p].prior = run[proc[p].id].file[Validate]
                      /\ run[proc[p].id].file[Validate].on = run[proc[p].id].file[Rank].n
                      /\ run[proc[p].id].file[Rank].on = run[proc[p].id].file[Discover].n
    BY DEF AppliedPlanIsTheRuns, Lone
  <2>1. PICK i \in RunIds : i = proc[p].id
    BY DEF IInv, Types, Processes
  <2>2. Working(p) /\ proc[p].stage = Apply /\ NextOf(p) = Apply
    BY DEF PlanInv, StageOK, Working, Active, NextOf
  <2>3. HeldOK(p)
    BY <2>2 DEF PlanInv, StageOK
  <2>4. Present(i, Validate) /\ proc[p].prior = run[i].file[Validate]
    BY <2>1, <2>2, <2>3 DEF HeldOK, Discover, Validate, Apply
  <2>5. ASSUME NEW t \in {Rank, Validate}, Present(i, t)
        PROVE  Present(i, t - 1) /\ run[i].file[t].on = run[i].file[t - 1].n
    <3>1. \A q \in Procs : ~Rewriting(q, i, t)
      <4> SUFFICES ASSUME NEW q \in Procs, Rewriting(q, i, t) PROVE FALSE
        OBVIOUS
      <4>1. q = p
        BY <2>1, <2>2 DEF Rewriting, PlanInv, Alone, Lone
      <4> QED BY <2>2, <4>1 DEF Rewriting, Rank, Validate, Apply
    <3> QED BY <2>1, <2>5, <3>1 DEF PlanInv, ChainOK, Linked
  <2> QED BY <2>1, <2>4, <2>5 DEF Rank, Validate, Discover
<1> QED BY <1>1, SpecPlan, PTL

\* A replay that takes up a run at its first missing stage applies a plan that
\* has been applied before only when the apply stage left no file: the process
\* that applied it died in between.
THEOREM AppliedOnceOnly == Spec => AppliedOnce
<1>1. IInv /\ PlanInv /\ [Next]_vars =>
        [\A p \in Procs :
           /\ proc[p].pc = "stage" /\ proc'[p].pc = "applied"
           /\ proc[p].default /\ proc[p].id \notin shared /\ proc'[p].apply
           /\ proc[p].prior.n \in applied
           => ~Present(proc[p].id, Apply)]_vars
  <2> SUFFICES ASSUME IInv, PlanInv, Next, NEW p \in Procs,
                      proc[p].pc = "stage", proc'[p].pc = "applied",
                      proc[p].default, proc[p].id \notin shared, proc[p].prior.n \in applied
               PROVE  ~Present(proc[p].id, Apply)
    BY DEF vars
  <2>1. PICK q \in Procs : StartFresh(q) \/ StartReplay(q) \/ Step(q) \/ Crash(q)
    BY DEF Next
  <2>2. proc[p].stage = Apply
    <3>0. proc \in [Procs -> Processes]
      BY DEF IInv, Types
    <3>1. proc'[p] = proc[p] \/ q = p
      <4> SUFFICES ASSUME q # p PROVE proc'[p] = proc[p]
        OBVIOUS
      <4>1. \A d \in BOOLEAN : Stop(q, d) => proc'[p] = proc[p]
        BY DEF Stop
      <4>2. ASSUME NEW r, Persist(q, r)
            PROVE  proc'[p] = proc[p]
        <5>1. proc' = [proc EXCEPT ![q].pc = "read", ![q].prior = r, ![q].wrote = TRUE]
          BY <4>2 DEF Persist
        <5> QED BY <3>0, <4>2, <5>1
      <4> QED BY <2>1, <3>0, <4>1, <4>2
           DEF StartFresh, StartReplay, Step, Crash, Mkdir, Snapshot, Manifest, DiscoverStage,
               RankStage, ValidateStage, ApplyStage, PersistApply, ReadManifest, WriteManifest,
               SouffleFails, Fails, NoAnswer, GoOn
    <3>2. q = p
      BY <3>1
    <3>3. ~StartFresh(p) /\ ~StartReplay(p) /\ (\A d \in BOOLEAN : ~Stop(p, d))
      BY <3>0 DEF StartFresh, StartReplay, Stop, Active, Idle
    <3>4. ASSUME NEW r, Persist(p, r)
          PROVE  FALSE
      <4>1. proc' = [proc EXCEPT ![p].pc = "read", ![p].prior = r, ![p].wrote = TRUE]
        BY <3>4 DEF Persist
      <4> QED BY <3>0, <4>1 DEF Processes
    <3>5. ASSUME SouffleFails(p)
          PROVE  FALSE
      <4>1. proc' = [proc EXCEPT ![p].mode = "llm", ![p].pc = "mkdir"]
        BY <3>3, <3>5 DEF SouffleFails, Fails
      <4> QED BY <3>0, <4>1 DEF Processes
    <3> QED BY <2>1, <3>2, <3>3, <3>4, <3>5
         DEF Step, Crash, Mkdir, Snapshot, Manifest, DiscoverStage, RankStage, ValidateStage,
             ApplyStage, PersistApply, ReadManifest, WriteManifest, Fails, NoAnswer
  <2>3. Working(p) /\ NextOf(p) = Apply
    BY <2>2 DEF Working, Active, NextOf
  <2> QED BY <2>3 DEF PlanInv, OnceOK, Own
<1> QED BY <1>1, SpecPlan, PTL DEF Spec, AppliedOnce

=============================================================================
