----------------------------- MODULE DreamerRun -----------------------------
(***************************************************************************)
(* A staged dreamer run and its directory (src/dreamer/runstore.py, the    *)
(* runner in dreamer.py, the stages in stages.py): create_run, one file    *)
(* per completed stage, the manifest that lists them, the fallback from    *)
(* Souffle to the LLM, and replays by later processes after a failure or   *)
(* a crash.  Runs without a run id keep nothing on disk and are left out.  *)
(*                                                                         *)
(* A stage result is a number of its own among the results of the stage,   *)
(* that of the result it was made from, its stage,                         *)
(* and whether it holds candidate relations.  What applying a plan does to *)
(* the store is the subject of DreamerSave.                                *)
(***************************************************************************)
EXTENDS Integers, FiniteSets

CONSTANTS
    Procs,      \* dreamer processes
    RunIds,     \* run ids
    MaxStarts,  \* bound: processes started
    MaxTogether \* bound: the first so many may start while another one works

ASSUME RunBounds ==
    /\ IsFiniteSet(Procs)
    /\ RunIds # {} /\ IsFiniteSet(RunIds)
    /\ MaxStarts \in Nat /\ MaxTogether \in Nat

VARIABLES
    run,        \* the run directories
    proc,       \* the processes
    starts,     \* processes started so far
    applied,    \* history: the plans applied to the store
    patched,    \* history: runs where a replay skipped a missing stage, or stopped half way
    shared      \* history: runs that two processes worked on at a time

vars == <<run, proc, starts, applied, patched, shared>>

\* STAGE_ORDER
Discover == 1
Rank == 2
Validate == 3
Apply == 4
Stages == Discover..Apply

Modes == {"souffle", "llm"}

NoResult == [n |-> 0, on |-> 0, of |-> 0, cands |-> FALSE]
Result == [n : Nat, on : Nat, of : {0} \cup Stages, cands : BOOLEAN]

NoRun == [dir |-> FALSE, snapshot |-> FALSE, manifest |-> FALSE, mode |-> "llm",
          completed |-> {}, file |-> [s \in Stages |-> NoResult]]

Idle ==
    [pc |-> "idle", id |-> CHOOSE i \in RunIds : TRUE, mode |-> "llm", replay |-> FALSE,
     default |-> FALSE, stage |-> Discover, prior |-> NoResult, loaded |-> FALSE,
     apply |-> FALSE, completed |-> {}, wrote |-> FALSE]

TypeOK ==
    /\ \A i \in RunIds :
         /\ run[i] \in [dir : BOOLEAN, snapshot : BOOLEAN, manifest : BOOLEAN, mode : Modes,
                        completed : SUBSET Stages, file : [Stages -> Result]]
         /\ run[i].manifest => run[i].snapshot /\ run[i].dir
    /\ \A p \in Procs :
         /\ proc[p].pc \in {"idle", "mkdir", "snapshot", "manifest", "stage", "applied",
                            "read", "write"}
         /\ proc[p].id \in RunIds
         /\ proc[p].prior \in Result /\ proc[p].stage \in Stages
    /\ starts \in 0..MaxStarts
    /\ applied \subseteq Nat
    /\ patched \subseteq RunIds /\ shared \subseteq RunIds

Init ==
    /\ run = [i \in RunIds |-> NoRun]
    /\ proc = [p \in Procs |-> Idle]
    /\ starts = 0 /\ applied = {} /\ patched = {} /\ shared = {}

-----------------------------------------------------------------------------
Active(p) == proc[p].pc # "idle"
Present(i, s) == run[i].file[s] # NoResult
CountStart ==
    /\ starts < MaxStarts /\ starts' = starts + 1
    /\ starts < MaxTogether \/ ~\E p \in Procs : Active(p)

\* A process stops: one that had rewritten a stage in a replay leaves the later
\* stages of the run as they were.
Stop(p, done) ==
    /\ proc' = [proc EXCEPT ![p] = Idle]
    /\ patched' = IF proc[p].replay /\ proc[p].wrote /\ ~done
                  THEN patched \cup {proc[p].id} ELSE patched

\* A stage raises.
Fails(p) == Stop(p, FALSE) /\ UNCHANGED run

-----------------------------------------------------------------------------
(* A new run: run() and run_souffle_mode() without --from-stage.           *)

\* The id comes from new_run_id or from the user, and nothing reserves it.
StartFresh(p) ==
    /\ ~Active(p) /\ CountStart
    /\ \E i \in RunIds, m \in Modes :
         proc' = [proc EXCEPT ![p] = [Idle EXCEPT !.pc = "mkdir", !.id = i, !.mode = m]]
    /\ UNCHANGED <<run, applied, patched, shared>>

\* Mutant: a directory that exists is taken over.
MkdirExistOk(p) ==
    /\ proc[p].pc = "mkdir"
    /\ run' = [run EXCEPT ![proc[p].id].dir = TRUE]
    /\ proc' = [proc EXCEPT ![p].pc = "snapshot"]
    /\ UNCHANGED <<starts, applied, patched, shared>>

\* create_run: mkdir(exist_ok=False) ...
Mkdir(p) ==
    /\ proc[p].pc = "mkdir"
    /\ IF run[proc[p].id].dir
       THEN Fails(p)
       ELSE /\ run' = [run EXCEPT ![proc[p].id].dir = TRUE]
            /\ proc' = [proc EXCEPT ![p].pc = "snapshot"]
            /\ UNCHANGED patched
    /\ UNCHANGED <<starts, applied, shared>>

\* Mutant: the copy of the store is forgotten.
SnapshotSkipped(p) ==
    /\ proc[p].pc = "snapshot"
    /\ proc' = [proc EXCEPT ![p].pc = "manifest"]
    /\ UNCHANGED <<run, starts, applied, patched, shared>>

\* ... the copy of the store ...
Snapshot(p) ==
    /\ proc[p].pc = "snapshot"
    /\ run' = [run EXCEPT ![proc[p].id].snapshot = TRUE]
    /\ proc' = [proc EXCEPT ![p].pc = "manifest"]
    /\ UNCHANGED <<starts, applied, patched, shared>>

\* ... and the manifest.
Manifest(p) ==
    /\ proc[p].pc = "manifest"
    /\ run' = [run EXCEPT ![proc[p].id].manifest = TRUE, ![proc[p].id].mode = proc[p].mode,
                          ![proc[p].id].completed = {}]
    /\ proc' = [proc EXCEPT ![p].pc = "stage"]
    /\ UNCHANGED <<starts, applied, patched, shared>>

-----------------------------------------------------------------------------
(* A replay: replay_run(), and --from-stage.  A stage named by             *)
(* --from-stage that is the default one makes no difference.               *)

\* Mutant: the first stage that the manifest does not list.
FirstUnlisted(i) ==
    LET open == Stages \ run[i].completed IN
    IF open = {} THEN Discover ELSE CHOOSE s \in open : \A o \in open : s <= o

\* Without --from-stage: the first stage without a file, or all of them again.
FirstIncomplete(i) ==
    LET open == {s \in Stages : ~Present(i, s)} IN
    IF open = {} THEN Discover ELSE CHOOSE s \in open : \A o \in open : s <= o

\* The priors of _run_stages: the last result on disk before stage s.  Missing
\* stages are skipped.
LoadedPrior(i, s) ==
    LET before == {b \in Stages : b < s /\ Present(i, b)} IN
    IF before = {} THEN NoResult
    ELSE run[i].file[CHOOSE b \in before : \A o \in before : b >= o]

\* load_run raises for a directory without a manifest.
StartReplay(p) ==
    /\ ~Active(p) /\ CountStart
    /\ \E i \in RunIds, s \in Stages :
         /\ run[i].manifest
         /\ proc' = [proc EXCEPT ![p] =
              [Idle EXCEPT !.pc = "stage", !.id = i, !.mode = run[i].mode, !.replay = TRUE,
                           !.default = s = FirstIncomplete(i), !.stage = s,
                           !.prior = LoadedPrior(i, s), !.loaded = s # Discover]]
         /\ patched' = IF s # Discover /\ ~Present(i, s - 1) THEN patched \cup {i} ELSE patched
         /\ shared' = IF \E q \in Procs : Active(q) /\ proc[q].id = i
                      THEN shared \cup {i} ELSE shared
    /\ UNCHANGED <<run, applied>>

-----------------------------------------------------------------------------
(* The stages.                                                             *)

\* On to the next stage, with the result r.
GoOn(p, r) ==
    IF proc[p].stage = Apply THEN Stop(p, TRUE)
    ELSE /\ proc' = [proc EXCEPT ![p].pc = "stage", ![p].stage = @ + 1, ![p].prior = r,
                                 ![p].loaded = FALSE, ![p].completed = {}]
         /\ UNCHANGED patched

\* _persist: write_stage writes the file first.
Persist(p, r) ==
    /\ run' = [run EXCEPT ![proc[p].id].file[r.of] = r]
    /\ proc' = [proc EXCEPT ![p].pc = "read", ![p].prior = r, ![p].wrote = TRUE]
    /\ UNCHANGED patched

\* A number that no result of the stage has.
Numbers(s) ==
    {run[i].file[s].n : i \in RunIds}
    \cup {proc[p].prior.n : p \in {q \in Procs : proc[q].prior.of = s}}
    \cup (UNION {{run[i].file[t].on : t \in {u \in Stages : u = s + 1}} : i \in RunIds})
    \cup (IF s = Validate THEN applied ELSE {})
Unused(s) == CHOOSE n \in 1..Cardinality(Numbers(s)) + 1 : n \notin Numbers(s)

NewResult(p, cands) ==
    [n |-> Unused(proc[p].stage), on |-> proc[p].prior.n, of |-> proc[p].stage, cands |-> cands]

\* run_souffle_mode falls back to run() with the same run id, which creates the
\* run directory again.  In a replay the mode is that of the manifest: no fallback.
SouffleFails(p) ==
    /\ proc[p].mode = "souffle"
    /\ IF proc[p].replay THEN Fails(p)
       ELSE /\ proc' = [proc EXCEPT ![p].mode = "llm", ![p].pc = "mkdir"]
            /\ UNCHANGED <<run, patched>>

DiscoverStage(p) ==
    /\ proc[p].pc = "stage" /\ proc[p].stage = Discover
    /\ \/ \E c \in BOOLEAN : Persist(p, NewResult(p, c))
       \/ SouffleFails(p)
       \/ proc[p].mode = "llm" /\ Fails(p)
    /\ UNCHANGED <<starts, applied, shared>>

\* Results read from disk hold their candidates as plain dicts, and the stages
\* read them as Candidate objects.
Unreadable(p) == proc[p].loaded /\ proc[p].prior.cands

RankStage(p) ==
    /\ proc[p].pc = "stage" /\ proc[p].stage = Rank
    /\ IF proc[p].prior = NoResult THEN Fails(p)
       ELSE IF Unreadable(p) THEN Fails(p)
       ELSE Persist(p, NewResult(p, proc[p].prior.cands))
    /\ UNCHANGED <<starts, applied, shared>>

\* Mutant: the candidates are ranked again, and the LLM asked again.
AsksAgain(p) ==
    /\ proc[p].mode = "llm"
    /\ proc' = [proc EXCEPT ![p].stage = Rank, ![p].prior = run[proc[p].id].file[Discover],
                            ![p].loaded = FALSE]
    /\ UNCHANGED <<run, patched>>

\* The LLM gives no answer: validate returns None, and the run is over.
NoAnswer(p) == proc[p].mode = "llm" /\ Fails(p)

\* Mutant: a plan that is on disk already is taken for the result of validate.
ValidateOnce(p) ==
    /\ proc[p].pc = "stage" /\ proc[p].stage = Validate
    /\ IF proc[p].prior = NoResult THEN Fails(p)
       ELSE IF Present(proc[p].id, Validate)
       THEN GoOn(p, run[proc[p].id].file[Validate]) /\ UNCHANGED run
       ELSE Persist(p, NewResult(p, FALSE))
    /\ UNCHANGED <<starts, applied, shared>>

\* Without a rank result (a gap) Souffle mode finds no candidates to look at.
ValidateStage(p) ==
    /\ proc[p].pc = "stage" /\ proc[p].stage = Validate
    /\ IF proc[p].prior = NoResult THEN Fails(p)
       ELSE IF Unreadable(p) /\ (proc[p].mode = "llm" \/ proc[p].prior.of = Rank)
       THEN Fails(p)
       ELSE \/ Persist(p, NewResult(p, FALSE))
            \/ NoAnswer(p)
    /\ UNCHANGED <<starts, applied, shared>>

\* With --apply, which nothing before looks at, the plan goes to the live store,
\* in one transaction.
ApplyStage(p) ==
    /\ proc[p].pc = "stage" /\ proc[p].stage = Apply
    /\ IF proc[p].prior = NoResult THEN Fails(p) /\ UNCHANGED applied
       ELSE \/ \E a \in BOOLEAN :
                 /\ applied' = IF a /\ proc[p].prior.of = Validate
                               THEN applied \cup {proc[p].prior.n} ELSE applied
                 /\ proc' = [proc EXCEPT ![p].pc = "applied", ![p].apply = a]
                 /\ UNCHANGED <<run, patched>>
            \/ Fails(p) /\ UNCHANGED applied
    /\ UNCHANGED <<starts, shared>>

PersistApply(p) ==
    /\ proc[p].pc = "applied"
    /\ Persist(p, NewResult(p, FALSE))
    /\ UNCHANGED <<starts, applied, shared>>

\* Mutant: the manifest lists a stage before its file is written.
ListNextStage(p) ==
    /\ proc[p].pc = "write"
    /\ run' = [run EXCEPT ![proc[p].id].completed = proc[p].completed \cup 1..(proc[p].stage + 1)]
    /\ GoOn(p, proc[p].prior)
    /\ UNCHANGED <<starts, applied, shared>>

\* write_stage: the manifest is read, and written with one more stage.
ReadManifest(p) ==
    /\ proc[p].pc = "read"
    /\ proc' = [proc EXCEPT ![p].pc = "write", ![p].completed = run[proc[p].id].completed]
    /\ UNCHANGED <<run, starts, applied, patched, shared>>

WriteManifest(p) ==
    /\ proc[p].pc = "write"
    /\ run' = [run EXCEPT ![proc[p].id].completed = proc[p].completed \cup {proc[p].stage}]
    /\ GoOn(p, proc[p].prior)
    /\ UNCHANGED <<starts, applied, shared>>

\* A process is killed, or fails with an exception nobody handles: the one it gets
\* when another process has renamed the temporary file both were writing.  (In a
\* Souffle run the exception leads to run() instead; it takes a shared run.)
Crash(p) ==
    /\ Active(p)
    /\ Stop(p, FALSE)
    /\ UNCHANGED <<run, starts, applied, shared>>

-----------------------------------------------------------------------------
Step(p) ==
    \/ Mkdir(p) \/ Snapshot(p) \/ Manifest(p)
    \/ DiscoverStage(p) \/ RankStage(p) \/ ValidateStage(p) \/ ApplyStage(p)
    \/ PersistApply(p) \/ ReadManifest(p) \/ WriteManifest(p)

Next == \E p \in Procs : StartFresh(p) \/ StartReplay(p) \/ Step(p) \/ Crash(p)

\* A process that has been started runs; whether one is started is up to others.
Spec == Init /\ [][Next]_vars /\ \A p \in Procs : WF_vars(Step(p))

-----------------------------------------------------------------------------
(* What a run directory promises.                                          *)

\* The manifest never lists a stage whose file is not there, whoever died
\* between the two writes: load_run's warning about it is never given.
ManifestHasFiles == \A i \in RunIds : \A s \in run[i].completed : Present(i, s)

\* "unique run ID": two new runs never share a directory, though nothing
\* reserves the id between new_run_id and create_run.
Creating(p) ==
    Active(p) /\ ~proc[p].replay /\ proc[p].pc # "mkdir"
OneCreator ==
    \A p, q \in Procs :
        p # q /\ Creating(p) /\ Creating(q) => proc[p].id # proc[q].id

\* A plan that goes to the store is the one on disk, made from the rank result
\* and the discover result on disk.  The exceptions are the runs that two
\* processes worked on at a time, and those where a replay skipped a missing
\* stage or stopped after rewriting one: the later stages' files then stay.
AppliedPlanIsTheRuns ==
    \A p \in Procs :
        LET i == proc[p].id IN
        /\ proc[p].pc = "applied" /\ proc[p].apply
        /\ i \notin patched \cup shared
        => /\ proc[p].prior = run[i].file[Validate]
           /\ run[i].file[Validate].on = run[i].file[Rank].n
           /\ run[i].file[Rank].on = run[i].file[Discover].n

\* A replay without --from-stage never applies again a plan whose apply stage
\* is on disk.
AppliedOnce ==
    [][\A p \in Procs :
         /\ proc[p].pc = "stage" /\ proc'[p].pc = "applied"
         /\ proc[p].default /\ proc[p].id \notin shared /\ proc'[p].apply
         /\ proc[p].prior.n \in applied
         => ~Present(proc[p].id, Apply)]_vars

\* Every process comes to an end, also when Souffle fails, the LLM gives no
\* answer, or a stage cannot use what it is given.
ProcessEnds == \A p \in Procs : Active(p) ~> ~Active(p)
=============================================================================
