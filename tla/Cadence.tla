------------------------------ MODULE Cadence ------------------------------
(***************************************************************************)
(* When the background maintenance runs: at the end of an agent's turn the *)
(* gardener hook and the archiver hook each look at a throttle file and at *)
(* how much the graph has grown (src/jing_meta/hooks/gardener.py,          *)
(* archiver.py, common.py).  The gardener starts a detached pass, a        *)
(* dreamer run whose id the hook has chosen.                               *)
(*                                                                         *)
(* The two hooks share nothing but the graph, which may change at any      *)
(* time: a behaviour is about one of them, kind, for all the agents.       *)
(* Time is kept as ages, capped at the throttle's interval.  What a        *)
(* dreamer run and the archiver do to the store is the subject of other    *)
(* modules; here they change the counts, as the agents do (Grow, Shrink).  *)
(***************************************************************************)
EXTENDS Integers, FiniteSets, FiniteSetsExt

CONSTANTS
    Agents,     \* agents whose turns end
    Jobs,       \* slots for detached passes
    Sorts,      \* what is counted: entities, observations
    MinGrowth,  \* GRAPH_GARDENER_MIN_GROWTH
    Interval,   \* the throttle, in ticks of the clock
    MaxItems,   \* bound: items of a sort
    MaxFaults   \* bound: processes killed or not started, counts that fail

ASSUME CadenceBounds ==
    /\ IsFiniteSet(Jobs)
    /\ MinGrowth \in Nat \ {0} /\ Interval \in Nat \ {0}
    /\ MaxItems \in Nat /\ MaxFaults \in Nat

VARIABLES
    items,      \* the counts of the graph
    kind,       \* the hook this behaviour is about
    file,       \* its throttle file
    hook,       \* the hook an agent's turn runs
    job,        \* the detached passes that have yet to create their run
    pass,       \* history: age of the clock reading behind the last pass
    due,        \* history: growth that no gardener has seen yet
    faults

vars == <<items, kind, file, hook, job, pass, due, faults>>

Hooks == {"gardener", "archiver"}
Counts == [Sorts -> 0..MaxItems]
Zero == [s \in Sorts |-> 0]
Ages == 0..Interval

\* alone is a history: no other hook was under way when the file was written.
NoFile == [there |-> FALSE, age |-> Interval, base |-> Zero, alone |-> FALSE]
Written(h, age, counts) == [there |-> TRUE, age |-> age, base |-> counts, alone |-> ~h.crossed]

Quiet == [pc |-> "idle", state |-> NoFile, seen |-> Zero, go |-> FALSE,
          since |-> 0, crossed |-> FALSE, doubt |-> FALSE]

Busy == {"count", "truncate", "save", "run"}

Free == [pc |-> "none", id |-> 0, young |-> FALSE, lost |-> FALSE, early |-> FALSE]

TypeOK ==
    /\ items \in Counts
    /\ kind \in Hooks
    /\ file \in [there : BOOLEAN, age : Ages, base : Counts, alone : BOOLEAN]
    /\ \A a \in Agents :
         /\ hook[a].pc \in {"idle"} \cup Busy
         /\ hook[a].seen \in Counts /\ hook[a].since \in 0..Interval - 1
    /\ \A j \in Jobs : job[j].pc \in {"none", "start"} /\ (job[j].lost => job[j].pc = "start")
    /\ pass \in Ages /\ due \in BOOLEAN /\ faults \in 0..MaxFaults

Init ==
    /\ items = Zero
    /\ kind \in Hooks
    /\ file = NoFile
    /\ hook = [a \in Agents |-> Quiet]
    /\ job = [j \in Jobs |-> Free]
    /\ pass = Interval
    /\ due = FALSE /\ faults = 0

-----------------------------------------------------------------------------
(* The graph and the clock.                                                *)

\* The gardener's growth: what was removed of one sort does not count against
\* what was added of the other.
Added(now, base) ==
    MapThenSumSet(LAMBDA s : IF now[s] > base[s] THEN now[s] - base[s] ELSE 0, Sorts)

Overdue(now, f) == f.there /\ Added(now, f.base) >= MinGrowth

Grow ==
    /\ \E s \in Sorts : items[s] < MaxItems /\ items' = [items EXCEPT ![s] = @ + 1]
    /\ due' = (kind = "gardener" /\ (due \/ Overdue(items', file)))
    /\ UNCHANGED <<kind, file, hook, job, pass, faults>>

Shrink ==
    /\ \E s \in Sorts : items[s] > 0 /\ items' = [items EXCEPT ![s] = @ - 1]
    /\ due' = (due /\ Overdue(items', file))
    /\ UNCHANGED <<kind, file, hook, job, pass, faults>>

\* Mutant: ages without a cap.
OlderStill(age) == age + 1

Older(age) == IF age = Interval THEN age ELSE age + 1

\* time.time(): a tick is more than the second that tells two run ids apart, and
\* a hook's time limit (60 s) is less than the interval (60 min, 24 h).
Tick ==
    /\ \A a \in Agents : hook[a].pc \in Busy => hook[a].since + 1 < Interval
    /\ file' = [file EXCEPT !.age = Older(@)]
    /\ pass' = Older(pass)
    /\ hook' = [a \in Agents |->
                  IF hook[a].pc \in Busy THEN [hook[a] EXCEPT !.since = @ + 1] ELSE hook[a]]
    /\ job' = [j \in Jobs |-> [job[j] EXCEPT !.young = FALSE]]
    /\ UNCHANGED <<items, kind, due, faults>>

-----------------------------------------------------------------------------
(* A hook.                                                                 *)

InFlight == {a \in Agents : hook[a].pc \in Busy}

\* A turn ends: load_state, which takes a torn file for an empty one, and the
\* throttle.  A hook that is throttled changes nothing.
Load(a) ==
    /\ hook[a].pc = "idle"
    /\ file.age = Interval
    /\ hook' = [b \in Agents |->
                  IF b = a THEN [Quiet EXCEPT !.pc = "count", !.state = file,
                                              !.crossed = InFlight # {}, !.doubt = ~file.alone]
                  ELSE IF b \in InFlight THEN [hook[b] EXCEPT !.crossed = TRUE] ELSE hook[b]]
    /\ UNCHANGED <<items, kind, file, job, pass, due, faults>>

\* The gate of each hook.
Gate(h) ==
    IF kind = "gardener" THEN Added(items, h.state.base) >= MinGrowth
    ELSE ~h.state.there \/ items # h.state.base

\* graph_counts, which may fail, and the gate.  Its two SELECTs are one read
\* here: no property compares one count with the other.
Count(a) ==
    /\ hook[a].pc = "count"
    /\ \/ /\ hook' = [hook EXCEPT ![a].pc = "truncate", ![a].seen = items,
                                  ![a].go = Gate(hook[a]), ![a].state = NoFile]
          /\ UNCHANGED faults
       \/ faults < MaxFaults /\ faults' = faults + 1 /\ hook' = [hook EXCEPT ![a] = Quiet]
    /\ UNCHANGED <<items, kind, file, job, pass, due>>

\* save_state truncates the file ...
Truncate(a) ==
    /\ hook[a].pc = "truncate"
    /\ file' = NoFile
    /\ hook' = [hook EXCEPT ![a].pc = "save"]
    /\ UNCHANGED <<items, kind, job, pass, due, faults>>

AfterSave(a) ==
    /\ hook' = [hook EXCEPT ![a] = IF @.go THEN [@ EXCEPT !.pc = "run", !.seen = Zero] ELSE Quiet]
    /\ due' = IF kind = "gardener" /\ ~hook[a].go
              THEN Overdue(items, file') ELSE due
    /\ UNCHANGED <<items, kind, job, pass, faults>>

\* Mutant: with the gate open only the counts are saved, not the time.
SaveCountsOnly(a) ==
    /\ hook[a].pc = "save"
    /\ file' = Written(hook[a], IF hook[a].go THEN Interval ELSE hook[a].since, hook[a].seen)
    /\ AfterSave(a)

\* Mutant: with the gate open only the time is saved, not the counts.
SaveTimeOnly(a) ==
    /\ hook[a].pc = "save"
    /\ file' = Written(hook[a], hook[a].since, IF hook[a].go THEN Zero ELSE hook[a].seen)
    /\ AfterSave(a)

\* ... and writes it, with the gate open or closed.
Save(a) ==
    /\ hook[a].pc = "save"
    /\ file' = Written(hook[a], hook[a].since, hook[a].seen)
    /\ AfterSave(a)

Fresh == CHOOSE i \in 1..Cardinality(Jobs) + 1 : \A j \in Jobs : job[j].id # i

\* Mutant: the id does not tell the second.
RunIdsOfTheDay == {Fresh} \cup {job[j].id : j \in {x \in Jobs : job[x].pc = "start" /\ ~job[x].lost}}

\* new_run_id names the second, and takes no name whose directory exists: a pass
\* that has yet to create its directory can get a namesake.
RunIds ==
    {Fresh} \cup {job[j].id : j \in {x \in Jobs : job[x].young /\ ~job[x].lost}}

\* The gardener's hook starts the detached pass.
Spawn(a) ==
    /\ hook[a].pc = "run" /\ kind = "gardener"
    /\ \/ /\ \E j \in Jobs, i \in RunIds :
               /\ job[j].pc = "none"
               /\ job' = [job EXCEPT ![j] = [pc |-> "start", id |-> i, young |-> TRUE,
                                             lost |-> FALSE, early |-> hook[a].crossed \/ hook[a].doubt]]
          /\ UNCHANGED faults
       \/ faults < MaxFaults /\ faults' = faults + 1 /\ UNCHANGED job
    /\ hook' = [hook EXCEPT ![a] = Quiet]
    /\ pass' = hook[a].since
    /\ due' = Overdue(items, file)
    /\ UNCHANGED <<items, kind, file>>

\* The archiver's hook archives, in its own process.
Archive(a) ==
    /\ hook[a].pc = "run" /\ kind = "archiver"
    /\ hook' = [hook EXCEPT ![a] = Quiet]
    /\ pass' = hook[a].since
    /\ UNCHANGED <<items, kind, file, job, due, faults>>

\* A hook runs into its time limit.
Kill(a) ==
    /\ hook[a].pc # "idle" /\ faults < MaxFaults /\ faults' = faults + 1
    /\ hook' = [hook EXCEPT ![a] = Quiet]
    /\ due' = FALSE
    /\ UNCHANGED <<items, kind, file, job, pass>>

\* The detached pass creates its run: of namesakes one gets the directory, and the
\* others fail, without a word to anyone.
CreateRun(j) ==
    /\ job[j].pc = "start"
    /\ job' = [x \in Jobs |->
                 IF x = j THEN Free
                 ELSE IF job[x].pc = "start" /\ job[x].id = job[j].id /\ ~job[j].lost
                 THEN [job[x] EXCEPT !.lost = TRUE] ELSE job[x]]
    /\ UNCHANGED <<items, kind, file, hook, pass, due, faults>>

-----------------------------------------------------------------------------
HookStep(a) == Load(a) \/ Count(a) \/ Truncate(a) \/ Save(a) \/ Spawn(a) \/ Archive(a)

Next ==
    \/ Grow \/ Shrink \/ Tick
    \/ \E a \in Agents : HookStep(a) \/ Kill(a)
    \/ \E j \in Jobs : CreateRun(j)

\* Processes that have been started run, time passes, and the agents, whose turns
\* start the hooks, go on working.
Fairness ==
    /\ WF_vars(Tick)
    /\ \A a \in Agents : WF_vars(HookStep(a))
    /\ \A j \in Jobs : WF_vars(CreateRun(j))

Spec == Init /\ [][Next]_vars /\ Fairness

-----------------------------------------------------------------------------
(* What the hooks promise.                                                 *)

\* "exactly one maintenance pass per interval": a hook that gets past the throttle
\* alone, over a file that a hook alone has written, does so an interval after the
\* reading of the clock behind the last pass.  When two turns end together there
\* can be two passes, and the file may keep the earlier of their readings.
OnePassPerInterval ==
    [][\A a \in Agents :
         hook[a].pc = "idle" /\ hook'[a].pc = "count" /\ ~hook'[a].crossed /\ ~hook'[a].doubt
         => pass = Interval]_vars

\* The run id "is unique even if two passes start in the same second": a pass is
\* lost to a namesake only if its hook ran together with another one, or over a
\* torn file.
NoPassIsLost == \A j \in Jobs : job[j].lost => job[j].early

\* Growth of MinGrowth over the counts in the gardener's file is looked at by a
\* hook that records it, and starts a pass for it unless the hook is killed or
\* the pass cannot be started.  Slower growth is recorded without a pass.
GrowthIsSeen == due ~> ~due
=============================================================================
