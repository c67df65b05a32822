---------------------------- MODULE CadenceProofs ----------------------------
(***************************************************************************)
(* The throttle of the hooks and the run ids of their passes, for every    *)
(* set of agents, every growth threshold and every interval.               *)
(***************************************************************************)
EXTENDS Cadence, FiniteSetTheorems, TLAPS

-----------------------------------------------------------------------------
(* The inductive invariant.                                                *)

Files == [there : BOOLEAN, age : Ages, base : Counts, alone : BOOLEAN]

HookStates ==
    [pc : {"idle"} \cup Busy, state : Files, seen : Counts, go : BOOLEAN,
     since : 0..(Interval - 1), crossed : BOOLEAN, doubt : BOOLEAN]

Passes == [pc : {"none", "start"}, id : Nat, young : BOOLEAN, lost : BOOLEAN, early : BOOLEAN]

Types ==
    /\ items \in Counts
    /\ kind \in Hooks
    /\ file \in Files
    /\ hook \in [Agents -> HookStates]
    /\ job \in [Jobs -> Passes]
    /\ pass \in Ages /\ due \in BOOLEAN /\ faults \in 0..MaxFaults

\* A hook that has met no other one is the only one.
AloneOK(a) == hook[a].pc \in Busy /\ ~hook[a].crossed => InFlight = {a}

\* The clock reading behind the last pass is as old as that of a hook that met
\* no other, and as old as the one in a file that a hook alone has written.
AgeOK ==
    /\ \A a \in Agents : hook[a].pc \in Busy /\ ~hook[a].crossed => pass >= hook[a].since
    /\ file.alone => pass >= file.age

\* What a hook is about to start a pass for is in the file.
RunOK(a) ==
    hook[a].pc = "run" =>
        /\ file.alone => file.age = hook[a].since
        /\ ~hook[a].crossed => file.alone

\* A pass that got its id since the last tick, from a hook that met no other:
\* the throttle holds until the tick.
YoungOK(j) ==
    /\ job[j].pc = "none" => job[j].id = 0 /\ ~job[j].young /\ ~job[j].lost
    /\ job[j].young => pass < Interval
    /\ job[j].young /\ ~job[j].early => InFlight = {} /\ file.age < Interval
    /\ job[j].young =>
         \A a \in InFlight : hook[a].crossed \/ hook[a].doubt

\* Namesakes are passes of hooks that met, or that found a torn file.
NamesOK ==
    \A i, j \in Jobs :
        i # j /\ job[i].pc = "start" /\ job[j].pc = "start" /\ job[i].id = job[j].id
        => job[i].early /\ job[j].early

IInv ==
    /\ Types
    /\ \A a \in Agents : AloneOK(a) /\ RunOK(a)
    /\ AgeOK
    /\ \A j \in Jobs : YoungOK(j)
    /\ NamesOK
    /\ NoPassIsLost

-----------------------------------------------------------------------------
(* Operators of the model.                                                 *)

LEMMA OverdueIsBoolean ==
  ASSUME NEW now, NEW f
  PROVE  Overdue(now, f) \in BOOLEAN
BY DEF Overdue

LEMMA GateIsBoolean ==
  ASSUME NEW h
  PROVE  Gate(h) \in BOOLEAN
<1>1. ASSUME kind = "gardener"
      PROVE  Gate(h) \in BOOLEAN
  <2>1. Gate(h) = (Added(items, h.state.base) >= MinGrowth)
    BY <1>1 DEF Gate
  <2> QED BY <2>1
<1>2. ASSUME kind # "gardener"
      PROVE  Gate(h) \in BOOLEAN
  <2>1. Gate(h) = (~h.state.there \/ items # h.state.base)
    BY <1>2 DEF Gate
  <2> QED BY <2>1
<1> QED BY <1>1, <1>2

\* There is always a run id that no pass has.
LEMMA FreshIsNew ==
  ASSUME Types
  PROVE  Fresh \in Nat /\ \A j \in Jobs : job[j].id # Fresh
<1> DEFINE ids == {job[j].id : j \in Jobs}
           k == Cardinality(Jobs)
<1>1. k \in Nat
  BY CadenceBounds, FS_CardinalityType
<1>2. IsFiniteSet(ids) /\ Cardinality(ids) <= k
  <2> DEFINE f == [j \in Jobs |-> job[j].id]
  <2>1. f \in Surjection(Jobs, ids)
    BY DEF Surjection
  <2> QED BY <2>1, CadenceBounds, FS_Surjection
<1>3. \E n \in 1..(k + 1) : n \notin ids
  <2> SUFFICES ASSUME 1..(k + 1) \subseteq ids
               PROVE  FALSE
    OBVIOUS
  <2>1. Cardinality(1..(k + 1)) <= Cardinality(ids)
    BY <1>2, FS_Subset
  <2>2. Cardinality(1..(k + 1)) = k + 1
    BY <1>1, FS_Interval
  <2>3. Cardinality(ids) \in Nat
    BY <1>2, FS_CardinalityType
  <2> QED BY <1>1, <1>2, <2>1, <2>2, <2>3
<1>4. Fresh \in 1..(k + 1) /\ \A j \in Jobs : job[j].id # Fresh
  BY <1>3 DEF Fresh
<1> QED BY <1>1, <1>4

LEMMA InitialValues ==
  /\ Zero \in Counts
  /\ NoFile \in Files /\ ~NoFile.alone
  /\ Quiet \in HookStates /\ Quiet.pc = "idle" /\ Quiet.since = 0
<1>1. Zero \in Counts
  BY CadenceBounds DEF Zero, Counts
<1>2. NoFile \in Files /\ ~NoFile.alone
  BY <1>1, CadenceBounds DEF NoFile, Files, Ages
<1> QED BY <1>1, <1>2, CadenceBounds DEF Quiet, HookStates

-----------------------------------------------------------------------------
(* Each action keeps the invariant.                                        *)

LEMMA InitInvariant == Init => IInv
<1> SUFFICES ASSUME Init
             PROVE  IInv
  OBVIOUS
<1>1. Types
  <2>4. Free \in Passes
    BY DEF Free, Passes
  <2>5. hook \in [Agents -> HookStates] /\ job \in [Jobs -> Passes]
    BY <2>4, InitialValues DEF Init
  <2>6. pass \in Ages /\ faults \in 0..MaxFaults
    BY CadenceBounds DEF Init, Ages
  <2>7. due \in BOOLEAN
    BY DEF Init
  <2> QED BY <2>5, <2>6, <2>7, InitialValues DEF Init, Types
<1>2. \A a \in Agents : hook[a].pc = "idle"
  BY DEF Init, Quiet
<1>3. \A a \in Agents : AloneOK(a) /\ RunOK(a)
  BY <1>2 DEF AloneOK, RunOK, Busy
<1>4. AgeOK
  BY <1>2 DEF AgeOK, Busy, Init, NoFile
<1>5. \A j \in Jobs : YoungOK(j) /\ job[j].pc = "none" /\ ~job[j].lost
  BY DEF YoungOK, Init, Free
<1> QED BY <1>1, <1>3, <1>4, <1>5 DEF IInv, NamesOK, NoPassIsLost

\* The graph changes.
LEMMA GraphInvariant == IInv /\ (Grow \/ Shrink) => IInv'
<1> SUFFICES ASSUME IInv, Grow \/ Shrink
             PROVE  IInv'
  OBVIOUS
<1>1. items' \in Counts
  <2>1. items \in [Sorts -> 0..MaxItems]
    BY DEF IInv, Types, Counts
  <2>2. PICK s \in Sorts : \/ items[s] < MaxItems /\ items' = [items EXCEPT ![s] = items[s] + 1]
                           \/ items[s] > 0 /\ items' = [items EXCEPT ![s] = items[s] - 1]
    BY DEF Grow, Shrink
  <2>3. items[s] + 1 \in 0..MaxItems \/ items[s] >= MaxItems
    BY <2>1, CadenceBounds
  <2>4. items[s] - 1 \in 0..MaxItems \/ items[s] <= 0
    BY <2>1, CadenceBounds
  <2> QED BY <2>1, <2>2, <2>3, <2>4, CadenceBounds DEF Counts
<1>2. due' \in BOOLEAN
  <2>1. due \in BOOLEAN /\ Overdue(items', file) \in BOOLEAN
    BY OverdueIsBoolean DEF IInv, Types
  <2> QED BY <2>1 DEF Grow, Shrink
<1>3. UNCHANGED <<kind, file, hook, job, pass, faults>>
  BY DEF Grow, Shrink
<1> QED BY <1>1, <1>2, <1>3 DEF IInv, Types, AloneOK, RunOK, AgeOK, YoungOK, NamesOK,
        NoPassIsLost, InFlight

LEMMA TickInvariant == IInv /\ Tick => IInv'
<1> SUFFICES ASSUME IInv, Tick
             PROVE  IInv'
  OBVIOUS
<1>1. ASSUME NEW n \in Ages
      PROVE  /\ Older(n) \in Ages /\ Older(n) >= n
             /\ n < Interval => Older(n) = n + 1
  BY CadenceBounds DEF Older, Ages
<1>2. /\ pass' = Older(pass) /\ pass \in Ages
      /\ file' = [file EXCEPT !.age = Older(file.age)] /\ file \in Files /\ file.age \in Ages
  BY DEF Tick, IInv, Types, Files
<1>3. /\ file' \in Files /\ file'.alone = file.alone /\ file'.age = Older(file.age)
      /\ pass' \in Ages
  BY <1>1, <1>2 DEF Files
<1>4. ASSUME NEW a \in Agents
      PROVE  /\ hook'[a] \in HookStates
             /\ hook'[a].pc = hook[a].pc /\ hook'[a].crossed = hook[a].crossed
             /\ hook'[a].doubt = hook[a].doubt
             /\ hook[a].pc \in Busy => hook'[a].since = hook[a].since + 1
                                       /\ hook[a].since + 1 < Interval
  <2>1. hook[a] \in HookStates
    BY DEF IInv, Types
  <2>2. hook'[a] = IF hook[a].pc \in Busy THEN [hook[a] EXCEPT !.since = hook[a].since + 1]
                   ELSE hook[a]
    BY DEF Tick
  <2>3. hook[a].pc \in Busy => hook[a].since + 1 < Interval
    BY DEF Tick
  <2>4. hook[a].since \in 0..(Interval - 1)
    BY <2>1 DEF HookStates
  <2>5. hook[a].pc \in Busy => hook[a].since + 1 \in 0..(Interval - 1)
    BY <2>3, <2>4, CadenceBounds
  <2> QED BY <2>1, <2>2, <2>3, <2>5 DEF HookStates
<1>5. hook' \in [Agents -> HookStates]
  BY <1>4 DEF Tick
<1>6. InFlight' = InFlight
  BY <1>4 DEF InFlight
<1>7. ASSUME NEW j \in Jobs
      PROVE  /\ job'[j] \in Passes
             /\ job'[j].pc = job[j].pc /\ job'[j].id = job[j].id /\ job'[j].lost = job[j].lost
             /\ job'[j].early = job[j].early /\ ~job'[j].young
  <2>1. job[j] \in Passes /\ job'[j] = [job[j] EXCEPT !.young = FALSE]
    BY DEF IInv, Types, Tick
  <2> QED BY <2>1 DEF Passes
<1>8. job' \in [Jobs -> Passes]
  BY <1>7 DEF Tick
<1>9. Types'
  BY <1>3, <1>5, <1>8 DEF IInv, Types, Tick
<1>10. \A a \in Agents : AloneOK(a)'
  BY <1>4, <1>6 DEF IInv, AloneOK
<1>11. ASSUME NEW a \in Agents
       PROVE  RunOK(a)'
  <2>1. hook[a].pc = "run" => hook[a].pc \in Busy
    BY DEF Busy
  <2>2. ASSUME hook[a].pc = "run"
        PROVE  RunOK(a)'
    <3>1. hook[a].since \in 0..(Interval - 1)
      BY DEF IInv, Types, HookStates
    <3>2. hook'[a].since = hook[a].since + 1
      BY <1>4, <2>1, <2>2
    <3>3. file.alone => file'.age = hook'[a].since
      <4> SUFFICES ASSUME file.alone
                   PROVE  file'.age = hook'[a].since
        OBVIOUS
      <4>1. file.age = hook[a].since
        BY <2>2 DEF IInv, RunOK
      <4>2. file.age < Interval
        BY <4>1, <3>1, CadenceBounds
      <4> QED BY <1>1, <1>2, <1>3, <3>2, <4>1, <4>2
    <3> QED BY <1>3, <1>4, <3>3 DEF IInv, RunOK
  <2> QED BY <1>4, <2>2 DEF RunOK
<1>12. AgeOK'
  <2>1. ASSUME NEW a \in Agents, hook'[a].pc \in Busy, ~hook'[a].crossed
        PROVE  pass' >= hook'[a].since
    <3>1. hook[a].pc \in Busy /\ ~hook[a].crossed
      BY <1>4, <2>1
    <3>2. pass >= hook[a].since /\ hook[a].since \in 0..(Interval - 1)
      BY <3>1 DEF IInv, AgeOK, Types, HookStates
    <3>3. hook'[a].since = hook[a].since + 1 /\ hook[a].since + 1 < Interval
      BY <1>4, <3>1
    <3>4. pass \in 0..Interval /\ pass' \in 0..Interval
      BY <1>2, <1>3 DEF Ages
    <3>5. pass' >= pass /\ (pass < Interval => pass' = pass + 1)
      BY <1>1, <1>2
    <3> QED BY <3>2, <3>3, <3>4, <3>5, CadenceBounds
  <2>2. ASSUME file'.alone
        PROVE  pass' >= file'.age
    <3>1. pass >= file.age
      BY <1>3, <2>2 DEF IInv, AgeOK
    <3>2. pass \in 0..Interval /\ file.age \in 0..Interval
      BY <1>2 DEF Ages
    <3> QED BY <1>2, <1>3, <3>1, <3>2, CadenceBounds DEF Older
  <2> QED BY <2>1, <2>2 DEF AgeOK
<1>13. \A j \in Jobs : YoungOK(j)'
  BY <1>7 DEF IInv, YoungOK
<1>14. NamesOK' /\ NoPassIsLost'
  BY <1>7 DEF IInv, NamesOK, NoPassIsLost
<1> QED BY <1>9, <1>10, <1>11, <1>12, <1>13, <1>14 DEF IInv

\* A turn ends: the hook that gets past the throttle meets the ones in flight.
LEMMA LoadInvariant ==
  ASSUME NEW a \in Agents
  PROVE  IInv /\ Load(a) => IInv'
<1> SUFFICES ASSUME IInv, Load(a)
             PROVE  IInv'
  OBVIOUS
<1>0. PICK met \in BOOLEAN, torn \in BOOLEAN : met = (InFlight # {}) /\ torn = ~file.alone
  OBVIOUS
<1> DEFINE new == [Quiet EXCEPT !.pc = "count", !.state = file, !.crossed = met, !.doubt = torn]
<1>1. /\ hook[a].pc = "idle" /\ file.age = Interval /\ file \in Files
      /\ UNCHANGED <<items, kind, file, job, pass, due, faults>>
  BY DEF Load, IInv, Types
<1>2. /\ new \in HookStates
      /\ new.pc = "count" /\ new.since = 0 /\ new.crossed = (InFlight # {})
      /\ new.doubt = ~file.alone
  <2> DEFINE counting == [Quiet EXCEPT !.pc = "count"]
             loaded == [counting EXCEPT !.state = file]
             crossed == [loaded EXCEPT !.crossed = met]
  <2>3. counting \in HookStates /\ counting.pc = "count" /\ counting.since = 0
    BY InitialValues DEF HookStates, Busy
  <2> HIDE DEF counting
  <2>4. loaded \in HookStates /\ loaded.pc = "count" /\ loaded.since = 0
    BY <1>1, <2>3 DEF HookStates
  <2> HIDE DEF loaded
  <2>5. /\ crossed \in HookStates /\ crossed.pc = "count" /\ crossed.since = 0
        /\ crossed.crossed = met
    BY <1>0, <2>4 DEF HookStates
  <2>6. new = [crossed EXCEPT !.doubt = torn]
    BY DEF crossed, loaded, counting
  <2> HIDE DEF new, crossed
  <2>7. /\ new \in HookStates /\ new.pc = "count" /\ new.since = 0
        /\ new.crossed = met /\ new.doubt = torn
    BY <1>0, <2>5, <2>6 DEF HookStates
  <2> QED BY <1>0, <2>7
<1>3. hook'[a] = new
  BY <1>0 DEF Load
<1>4. ASSUME NEW b \in Agents, b # a
      PROVE  /\ hook'[b] \in HookStates
             /\ hook'[b].pc = hook[b].pc /\ hook'[b].since = hook[b].since
             /\ b \in InFlight => hook'[b].crossed
             /\ b \notin InFlight => hook'[b] = hook[b]
  <2>1. hook[b] \in HookStates
    BY DEF IInv, Types
  <2>2. hook'[b] = IF b \in InFlight THEN [hook[b] EXCEPT !.crossed = TRUE] ELSE hook[b]
    BY <1>4 DEF Load
  <2> QED BY <2>1, <2>2 DEF HookStates
<1>5. hook' \in [Agents -> HookStates]
  BY <1>2, <1>3, <1>4 DEF Load
<1> HIDE DEF new
<1>6. InFlight' = InFlight \cup {a} /\ a \notin InFlight
  <2>1. hook[a].pc \notin Busy /\ hook'[a].pc \in Busy
    BY <1>1, <1>2, <1>3 DEF Busy
  <2> QED BY <1>4, <2>1 DEF InFlight
<1>7. Types'
  BY <1>1, <1>5 DEF IInv, Types
<1>8. ASSUME NEW b \in Agents
      PROVE  AloneOK(b)' /\ RunOK(b)'
  <2>1. CASE b = a
    BY <1>2, <1>3, <1>6, <2>1 DEF AloneOK, RunOK
  <2>2. CASE b # a
    <3>1. b \in InFlight <=> hook[b].pc \in Busy
      BY DEF InFlight
    <3>2. AloneOK(b)'
      BY <1>4, <2>2, <3>1 DEF AloneOK
    <3>3. RunOK(b)'
      BY <1>1, <1>4, <2>2, <3>1 DEF IInv, RunOK, Busy
    <3> QED BY <3>2, <3>3
  <2> QED BY <2>1, <2>2
<1>9. AgeOK'
  <2>1. ASSUME NEW b \in Agents, hook'[b].pc \in Busy, ~hook'[b].crossed
        PROVE  pass' >= hook'[b].since
    <3>1. b = a
      BY <1>4, <2>1 DEF InFlight
    <3> QED BY <1>1, <1>2, <1>3, <3>1, CadenceBounds DEF IInv, Types, Ages
  <2> QED BY <1>1, <2>1 DEF IInv, AgeOK
<1>10. ASSUME NEW j \in Jobs
       PROVE  YoungOK(j)'
  <2>1. ASSUME job[j].young
        PROVE  hook'[a].crossed \/ hook'[a].doubt
    <3>1. pass < Interval
      BY <2>1 DEF IInv, YoungOK
    <3>2. file.alone => pass >= Interval
      BY <1>1 DEF IInv, AgeOK
    <3>3. pass \in 0..Interval
      BY DEF IInv, Types, Ages
    <3>4. ~file.alone
      BY <3>1, <3>2, <3>3, CadenceBounds
    <3> QED BY <1>2, <1>3, <3>4
  <2>2. ASSUME job[j].young
        PROVE  job[j].early
    BY <1>1, <2>2, CadenceBounds DEF IInv, YoungOK
  <2>3. ASSUME job[j].young, NEW b \in InFlight'
        PROVE  hook'[b].crossed \/ hook'[b].doubt
    BY <1>4, <1>6, <2>1, <2>3 DEF InFlight
  <2> QED BY <1>1, <2>2, <2>3 DEF IInv, YoungOK
<1>11. NamesOK' /\ NoPassIsLost'
  BY <1>1 DEF IInv, NamesOK, NoPassIsLost
<1> QED BY <1>7, <1>8, <1>9, <1>10, <1>11 DEF IInv

\* A step of a hook in flight that changes neither the passes nor the history of
\* the last one: it goes on, or ends.
LEMMA HookInvariant ==
  ASSUME IInv, NEW a \in Agents, NEW h \in HookStates,
         hook[a].pc \in Busy,
         hook' = [hook EXCEPT ![a] = h],
         h.pc = "idle" \/ (/\ h.pc \in Busy
                           /\ h.since = hook[a].since /\ h.crossed = hook[a].crossed
                           /\ h.doubt = hook[a].doubt),
         UNCHANGED <<job, pass>>
  PROVE  /\ hook' \in [Agents -> HookStates]
         /\ InFlight' \subseteq InFlight
         /\ \A b \in Agents : AloneOK(b)'
         /\ \A b \in Agents : hook'[b].pc \in Busy /\ ~hook'[b].crossed => pass' >= hook'[b].since
         /\ \A j \in Jobs : YoungOK(j)'
         /\ NamesOK' /\ NoPassIsLost'
<1>1. hook' \in [Agents -> HookStates]
  BY DEF IInv, Types
<1>2. hook'[a] = h /\ \A b \in Agents : b # a => hook'[b] = hook[b]
  BY DEF IInv, Types
<1>3. /\ InFlight' \subseteq InFlight /\ a \in InFlight
      /\ h.pc \in Busy => InFlight' = InFlight
  BY <1>2 DEF InFlight, Busy
<1>4. ASSUME NEW b \in Agents
      PROVE  AloneOK(b)'
  <2>1. CASE b = a
    BY <1>2, <1>3, <2>1 DEF IInv, AloneOK, Busy
  <2>2. CASE b # a
    BY <1>2, <1>3, <2>2 DEF IInv, AloneOK
  <2> QED BY <2>1, <2>2
<1>5. ASSUME NEW b \in Agents, hook'[b].pc \in Busy, ~hook'[b].crossed
      PROVE  pass' >= hook'[b].since
  BY <1>2, <1>5 DEF IInv, AgeOK, Busy
<1>6. ASSUME NEW j \in Jobs
      PROVE  YoungOK(j)'
  <2>1. job[j].young => job[j].early
    BY <1>3 DEF IInv, YoungOK
  <2>2. ASSUME job[j].young, NEW b \in InFlight'
        PROVE  hook'[b].crossed \/ hook'[b].doubt
    <3>1. b \in Agents /\ hook'[b].pc \in Busy
      BY DEF InFlight
    <3>2. hook[b].crossed \/ hook[b].doubt
      BY <1>3, <2>2 DEF IInv, YoungOK
    <3> QED BY <1>2, <3>1, <3>2 DEF Busy
  <2> QED BY <2>1, <2>2 DEF IInv, YoungOK
<1>7. NamesOK' /\ NoPassIsLost'
  BY DEF IInv, NamesOK, NoPassIsLost
<1> QED BY <1>1, <1>3, <1>4, <1>5, <1>6, <1>7

LEMMA CountInvariant ==
  ASSUME NEW a \in Agents
  PROVE  IInv /\ Count(a) => IInv'
<1> SUFFICES ASSUME IInv, Count(a)
             PROVE  IInv'
  OBVIOUS
<1>1. /\ hook[a].pc = "count" /\ hook[a].pc \in Busy
      /\ hook[a] \in HookStates /\ NoFile \in Files /\ Quiet \in HookStates /\ Quiet.pc = "idle"
  BY InitialValues DEF Count, IInv, Types, Busy
<1>2. UNCHANGED <<items, kind, file, job, pass, due>> /\ faults' \in 0..MaxFaults
  BY CadenceBounds DEF Count, IInv, Types
<1>3. PICK h \in HookStates :
        /\ hook' = [hook EXCEPT ![a] = h]
        /\ h.pc = "idle" \/ (/\ h.pc = "truncate"
                             /\ h.since = hook[a].since /\ h.crossed = hook[a].crossed
                             /\ h.doubt = hook[a].doubt)
  <2>1. CASE hook' = [hook EXCEPT ![a] = Quiet]
    BY <1>1, <2>1
  <2>2. CASE hook' = [hook EXCEPT ![a].pc = "truncate", ![a].seen = items,
                                  ![a].go = Gate(hook[a]), ![a].state = NoFile]
    <3> DEFINE g == Gate(hook[a])
               h1 == [hook[a] EXCEPT !.pc = "truncate"]
               h2 == [h1 EXCEPT !.seen = items]
               h3 == [h2 EXCEPT !.go = g]
               h == [h3 EXCEPT !.state = NoFile]
               SameRun(x) == /\ x.since = hook[a].since /\ x.crossed = hook[a].crossed
                             /\ x.doubt = hook[a].doubt /\ x.pc = "truncate"
    <3>1. hook' = [hook EXCEPT ![a] = h]
      BY <2>2 DEF IInv, Types
    <3>2. g \in BOOLEAN
      BY GateIsBoolean
    <3> HIDE DEF g
    <3>3. h1 \in HookStates /\ SameRun(h1)
      BY <1>1 DEF HookStates, Busy
    <3> HIDE DEF h1
    <3>4. h2 \in HookStates /\ SameRun(h2)
      BY <3>3 DEF HookStates, IInv, Types
    <3> HIDE DEF h2
    <3>5. h3 \in HookStates /\ SameRun(h3)
      BY <3>2, <3>4 DEF HookStates
    <3> HIDE DEF h3
    <3>6. h \in HookStates /\ SameRun(h)
      BY <1>1, <3>5 DEF HookStates
    <3> HIDE DEF h
    <3> QED BY <3>1, <3>6
  <2> QED BY <2>1, <2>2 DEF Count
<1>4. /\ hook' \in [Agents -> HookStates]
      /\ \A b \in Agents : AloneOK(b)'
      /\ \A b \in Agents : hook'[b].pc \in Busy /\ ~hook'[b].crossed => pass' >= hook'[b].since
      /\ \A j \in Jobs : YoungOK(j)'
      /\ NamesOK' /\ NoPassIsLost'
  BY <1>1, <1>2, <1>3, HookInvariant DEF Busy
<1>5. Types'
  BY <1>2, <1>4 DEF IInv, Types
<1>6. \A b \in Agents : RunOK(b)'
  BY <1>2, <1>3 DEF IInv, Types, RunOK
<1>7. AgeOK'
  BY <1>2, <1>4 DEF IInv, AgeOK
<1> QED BY <1>4, <1>5, <1>6, <1>7 DEF IInv

LEMMA TruncateInvariant ==
  ASSUME NEW a \in Agents
  PROVE  IInv /\ Truncate(a) => IInv'
<1> SUFFICES ASSUME IInv, Truncate(a)
             PROVE  IInv'
  OBVIOUS
<1>1. /\ hook[a].pc \in Busy /\ file' = NoFile
      /\ UNCHANGED <<items, kind, job, pass, due, faults>>
  BY DEF Truncate, Busy
<1> DEFINE h == [hook[a] EXCEPT !.pc = "save"]
<1>2. hook' = [hook EXCEPT ![a] = h]
  BY DEF Truncate, IInv, Types
<1>3. /\ h \in HookStates /\ h.pc = "save"
      /\ h.since = hook[a].since /\ h.crossed = hook[a].crossed /\ h.doubt = hook[a].doubt
  <2>1. hook[a] \in HookStates
    BY DEF IInv, Types
  <2> QED BY <2>1 DEF HookStates, Busy
<1> HIDE DEF h
<1>4. /\ hook' \in [Agents -> HookStates]
      /\ \A b \in Agents : AloneOK(b)'
      /\ \A b \in Agents : hook'[b].pc \in Busy /\ ~hook'[b].crossed => pass' >= hook'[b].since
      /\ \A j \in Jobs : YoungOK(j)'
      /\ NamesOK' /\ NoPassIsLost'
  BY <1>1, <1>2, <1>3, HookInvariant DEF Busy
<1>5. Types'
  BY <1>1, <1>4, InitialValues DEF IInv, Types
<1>6. ASSUME NEW b \in Agents
      PROVE  RunOK(b)'
  <2>1. ~file'.alone
    BY <1>1, InitialValues
  <2>2. hook'[b].pc = "run" => b # a /\ hook'[b] = hook[b]
    BY <1>2, <1>3 DEF IInv, Types
  <2>3. hook[b].pc = "run" /\ b # a => hook[b].crossed
    BY <1>1 DEF IInv, AloneOK, InFlight, Busy
  <2> QED BY <2>1, <2>2, <2>3 DEF RunOK
<1>7. AgeOK'
  BY <1>1, <1>4, InitialValues DEF AgeOK
<1> QED BY <1>4, <1>5, <1>6, <1>7 DEF IInv

LEMMA SaveInvariant ==
  ASSUME NEW a \in Agents
  PROVE  IInv /\ Save(a) => IInv'
<1> SUFFICES ASSUME IInv, Save(a)
             PROVE  IInv'
  OBVIOUS
<1>1. /\ hook[a].pc \in Busy /\ hook[a] \in HookStates
      /\ UNCHANGED <<items, kind, job, pass, faults>>
  BY DEF Save, AfterSave, Busy, IInv, Types
<1>2. /\ file' \in Files /\ file'.age = hook[a].since /\ file'.alone = ~hook[a].crossed
      /\ hook[a].since \in 0..(Interval - 1)
  <2>1. file' = [there |-> TRUE, age |-> hook[a].since, base |-> hook[a].seen,
                 alone |-> ~hook[a].crossed]
    BY DEF Save, Written
  <2>2. hook[a].since \in 0..(Interval - 1) /\ hook[a].seen \in Counts
    BY <1>1 DEF HookStates
  <2>3. hook[a].since \in Ages
    BY <2>2, CadenceBounds DEF Ages
  <2> QED BY <2>1, <2>2, <2>3 DEF Files
<1>3. PICK h \in HookStates :
        /\ hook' = [hook EXCEPT ![a] = h]
        /\ h.pc = "idle" \/ (/\ h.pc = "run"
                             /\ h.since = hook[a].since /\ h.crossed = hook[a].crossed
                             /\ h.doubt = hook[a].doubt)
  <2>1. CASE hook[a].go
    <3> DEFINE h1 == [hook[a] EXCEPT !.pc = "run"]
               h == [h1 EXCEPT !.seen = Zero]
               SameRun(x) == /\ x.since = hook[a].since /\ x.crossed = hook[a].crossed
                             /\ x.doubt = hook[a].doubt /\ x.pc = "run"
    <3>1. hook' = [hook EXCEPT ![a] = h]
      BY <2>1 DEF Save, AfterSave, IInv, Types
    <3>2. h1 \in HookStates /\ SameRun(h1)
      BY <1>1 DEF HookStates, Busy
    <3> HIDE DEF h1
    <3>3. h \in HookStates /\ SameRun(h)
      BY <3>2, InitialValues DEF HookStates
    <3> HIDE DEF h
    <3> QED BY <3>1, <3>3
  <2>2. CASE ~hook[a].go
    <3>1. hook' = [hook EXCEPT ![a] = Quiet]
      BY <2>2 DEF Save, AfterSave, IInv, Types
    <3> QED BY <3>1, InitialValues
  <2> QED BY <2>1, <2>2
<1>4. /\ hook' \in [Agents -> HookStates]
      /\ \A b \in Agents : AloneOK(b)'
      /\ \A b \in Agents : hook'[b].pc \in Busy /\ ~hook'[b].crossed => pass' >= hook'[b].since
      /\ \A j \in Jobs : YoungOK(j)'
      /\ NamesOK' /\ NoPassIsLost'
  BY <1>1, <1>3, HookInvariant DEF Busy
<1>5. due' \in BOOLEAN
  <2>1. due \in BOOLEAN /\ Overdue(items, file') \in BOOLEAN
    BY OverdueIsBoolean DEF IInv, Types
  <2> QED BY <2>1 DEF Save, AfterSave
<1>6. Types'
  BY <1>1, <1>2, <1>4, <1>5 DEF IInv, Types
<1>7. ASSUME NEW b \in Agents
      PROVE  RunOK(b)'
  <2>1. CASE b = a
    <3>1. hook'[a].pc = "run" => hook'[a].since = hook[a].since /\ hook'[a].crossed = hook[a].crossed
      BY <1>3 DEF IInv, Types
    <3> QED BY <1>2, <2>1, <3>1 DEF RunOK
  <2>2. CASE b # a
    <3>1. hook'[b] = hook[b]
      BY <1>3, <2>2 DEF IInv, Types
    <3>2. hook[b].pc = "run" => hook[a].crossed /\ hook[b].crossed
      BY <1>1, <2>2 DEF IInv, AloneOK, InFlight, Busy
    <3> QED BY <1>2, <3>1, <3>2 DEF RunOK
  <2> QED BY <2>1, <2>2
<1>8. AgeOK'
  <2>1. file'.alone => pass' >= file'.age
    BY <1>1, <1>2 DEF IInv, AgeOK
  <2> QED BY <1>4, <2>1 DEF AgeOK
<1> QED BY <1>4, <1>6, <1>7, <1>8 DEF IInv

LEMMA KillInvariant ==
  ASSUME NEW a \in Agents
  PROVE  IInv /\ Kill(a) => IInv'
<1> SUFFICES ASSUME IInv, Kill(a)
             PROVE  IInv'
  OBVIOUS
<1>1. /\ hook[a].pc \in Busy /\ hook' = [hook EXCEPT ![a] = Quiet]
      /\ faults' \in 0..MaxFaults /\ due' \in BOOLEAN
      /\ UNCHANGED <<items, kind, file, job, pass>>
  <2>1. hook[a].pc \in Busy
    BY DEF Kill, IInv, Types, HookStates
  <2>2. faults' \in 0..MaxFaults
    BY CadenceBounds DEF Kill, IInv, Types
  <2>3. due' \in BOOLEAN
    BY DEF Kill
  <2> QED BY <2>1, <2>2, <2>3 DEF Kill
<1>2. /\ hook' \in [Agents -> HookStates]
      /\ \A b \in Agents : AloneOK(b)'
      /\ \A b \in Agents : hook'[b].pc \in Busy /\ ~hook'[b].crossed => pass' >= hook'[b].since
      /\ \A j \in Jobs : YoungOK(j)'
      /\ NamesOK' /\ NoPassIsLost'
  BY <1>1, InitialValues, HookInvariant
<1>3. Types'
  BY <1>1, <1>2 DEF IInv, Types
<1>4. \A b \in Agents : RunOK(b)'
  BY <1>1, InitialValues DEF IInv, Types, RunOK
<1>5. AgeOK'
  BY <1>1, <1>2 DEF IInv, AgeOK
<1> QED BY <1>2, <1>3, <1>4, <1>5 DEF IInv

\* What ends a hook's run, with a pass started or not.
LEMMA EndInvariant ==
  ASSUME IInv, NEW a \in Agents, hook[a].pc = "run",
         hook' = [hook EXCEPT ![a] = Quiet],
         pass' = hook[a].since,
         UNCHANGED file
  PROVE  /\ hook' \in [Agents -> HookStates]
         /\ InFlight' = InFlight \ {a} /\ a \in InFlight
         /\ \A b \in InFlight' : hook'[b] = hook[b] /\ hook'[b].crossed
         /\ pass' \in Ages /\ pass' < Interval
         /\ \A b \in Agents : AloneOK(b)' /\ RunOK(b)'
         /\ AgeOK'
<1>1. hook' \in [Agents -> HookStates]
  BY InitialValues DEF IInv, Types
<1>2. hook'[a] = Quiet /\ \A b \in Agents : b # a => hook'[b] = hook[b]
  BY DEF IInv, Types
<1>3. hook[a].since \in 0..(Interval - 1)
  BY DEF IInv, Types, HookStates
<1>4. pass' \in Ages /\ pass' < Interval
  BY <1>3, CadenceBounds DEF Ages
<1>5. InFlight' = InFlight \ {a} /\ a \in InFlight
  BY <1>2, InitialValues DEF InFlight, Busy
<1>6. ASSUME NEW b \in InFlight'
      PROVE  hook'[b] = hook[b] /\ hook'[b].crossed
  <2>1. b \in Agents /\ b # a /\ b \in InFlight
    BY <1>5 DEF InFlight
  <2>2. hook[b].crossed
    BY <1>5, <2>1 DEF IInv, AloneOK, InFlight
  <2> QED BY <1>2, <2>1, <2>2
<1>7. ASSUME NEW b \in Agents
      PROVE  AloneOK(b)' /\ RunOK(b)'
  <2>1. AloneOK(b)'
    BY <1>6 DEF AloneOK, InFlight
  <2>2. RunOK(b)'
    BY <1>2, InitialValues DEF IInv, RunOK
  <2> QED BY <2>1, <2>2
<1>8. AgeOK'
  <2>1. file.alone => pass' >= file.age
    BY <1>3, CadenceBounds DEF IInv, RunOK
  <2> QED BY <1>6, <2>1 DEF AgeOK, InFlight
<1> QED BY <1>1, <1>4, <1>5, <1>6, <1>7, <1>8

LEMMA ArchiveInvariant ==
  ASSUME NEW a \in Agents
  PROVE  IInv /\ Archive(a) => IInv'
<1> SUFFICES ASSUME IInv, Archive(a)
             PROVE  IInv'
  OBVIOUS
<1>1. /\ hook' \in [Agents -> HookStates]
      /\ InFlight' = InFlight \ {a} /\ a \in InFlight
      /\ \A b \in InFlight' : hook'[b] = hook[b] /\ hook'[b].crossed
      /\ pass' \in Ages /\ pass' < Interval
      /\ \A b \in Agents : AloneOK(b)' /\ RunOK(b)'
      /\ AgeOK'
  BY EndInvariant DEF Archive
<1>2. UNCHANGED <<items, kind, file, job, due, faults>>
  BY DEF Archive
<1>3. Types'
  BY <1>1, <1>2 DEF IInv, Types
<1>4. \A j \in Jobs : YoungOK(j)'
  BY <1>1, <1>2 DEF IInv, YoungOK
<1>5. NamesOK' /\ NoPassIsLost'
  BY <1>2 DEF IInv, NamesOK, NoPassIsLost
<1> QED BY <1>1, <1>3, <1>4, <1>5 DEF IInv

LEMMA SpawnInvariant ==
  ASSUME NEW a \in Agents
  PROVE  IInv /\ Spawn(a) => IInv'
<1> SUFFICES ASSUME IInv, Spawn(a)
             PROVE  IInv'
  OBVIOUS
<1>1. /\ hook' \in [Agents -> HookStates]
      /\ InFlight' = InFlight \ {a} /\ a \in InFlight
      /\ \A b \in InFlight' : hook'[b] = hook[b] /\ hook'[b].crossed
      /\ pass' \in Ages /\ pass' < Interval
      /\ \A b \in Agents : AloneOK(b)' /\ RunOK(b)'
      /\ AgeOK'
  BY EndInvariant DEF Spawn
<1>2. UNCHANGED <<items, kind, file>> /\ due' \in BOOLEAN /\ faults' \in 0..MaxFaults
  <2>1. due' \in BOOLEAN
    BY OverdueIsBoolean DEF Spawn
  <2>2. faults' \in 0..MaxFaults
    BY CadenceBounds DEF Spawn, IInv, Types
  <2> QED BY <2>1, <2>2 DEF Spawn
<1>3. ASSUME NEW j \in Jobs, job[j].young
      PROVE  job[j].early /\ (hook[a].crossed \/ hook[a].doubt)
  BY <1>1, <1>3 DEF IInv, YoungOK
<1>4. CASE UNCHANGED job
  <2>1. Types'
    BY <1>1, <1>2, <1>4 DEF IInv, Types
  <2>2. \A j \in Jobs : YoungOK(j)'
    BY <1>1, <1>2, <1>3, <1>4 DEF IInv, YoungOK
  <2>3. NamesOK' /\ NoPassIsLost'
    BY <1>4 DEF IInv, NamesOK, NoPassIsLost
  <2> QED BY <1>1, <2>1, <2>2, <2>3 DEF IInv
<1>5. CASE \E j \in Jobs, i \in RunIds :
             /\ job[j].pc = "none"
             /\ job' = [job EXCEPT ![j] = [pc |-> "start", id |-> i, young |-> TRUE, lost |-> FALSE,
                                           early |-> hook[a].crossed \/ hook[a].doubt]]
  <2>1. PICK j \in Jobs, i \in RunIds, e \in BOOLEAN :
          /\ job[j].pc = "none"
          /\ e = (hook[a].crossed \/ hook[a].doubt)
          /\ job' = [job EXCEPT ![j] = [pc |-> "start", id |-> i, young |-> TRUE, lost |-> FALSE,
                                        early |-> e]]
    BY <1>5
  <2>2. /\ i \in Nat
        /\ \A x \in Jobs : job[x].id = i /\ job[x].pc = "start" => job[x].early /\ e
    <3>1. Fresh \in Nat /\ \A x \in Jobs : job[x].id # Fresh
      BY FreshIsNew DEF IInv
    <3>2. CASE i = Fresh
      BY <3>1, <3>2
    <3>3. CASE i # Fresh
      <4>1. PICK y \in Jobs : job[y].young /\ i = job[y].id
        BY <3>3 DEF RunIds
      <4>2. i \in Nat
        BY <4>1 DEF IInv, Types, Passes
      <4>3. e /\ job[y].early
        BY <1>3, <2>1, <4>1
      <4>4. job[y].pc = "start"
        BY <4>1 DEF IInv, YoungOK, Types, Passes
      <4> QED BY <4>1, <4>2, <4>3, <4>4 DEF IInv, NamesOK
    <3> QED BY <3>2, <3>3
  <2>3. [pc |-> "start", id |-> i, young |-> TRUE, lost |-> FALSE, early |-> e] \in Passes
    BY <2>2 DEF Passes
  <2>4. /\ job' \in [Jobs -> Passes]
        /\ job'[j].pc = "start" /\ job'[j].id = i /\ job'[j].young /\ ~job'[j].lost
        /\ job'[j].early = e
        /\ \A x \in Jobs : x # j => job'[x] = job[x]
    BY <2>1, <2>3 DEF IInv, Types
  <2>5. Types'
    BY <1>1, <1>2, <2>4 DEF IInv, Types
  <2>6. ASSUME NEW x \in Jobs
        PROVE  YoungOK(x)'
    <3>1. CASE x = j
      <4>1. ~e => InFlight' = {} /\ file'.age < Interval
        <5> SUFFICES ASSUME ~e
                     PROVE  InFlight' = {} /\ file'.age < Interval
          OBVIOUS
        <5>1. ~hook[a].crossed
          BY <2>1
        <5>2. InFlight = {a}
          BY <1>1, <5>1 DEF IInv, AloneOK, InFlight
        <5>3. file.age = hook[a].since
          BY <5>1 DEF IInv, RunOK, Spawn
        <5>4. hook[a].since \in 0..(Interval - 1)
          BY DEF IInv, Types, HookStates
        <5> QED BY <1>1, <1>2, <5>2, <5>3, <5>4, CadenceBounds
      <4> QED BY <1>1, <2>4, <3>1, <4>1 DEF YoungOK
    <3>2. CASE x # j
      BY <1>1, <1>2, <1>3, <2>4, <3>2 DEF IInv, YoungOK
    <3> QED BY <3>1, <3>2
  <2>7. ASSUME NEW x \in Jobs, x # j, job'[x].pc = "start", job'[x].id = i
        PROVE  job'[x].early /\ e
    BY <2>2, <2>4, <2>7
  <2>8. NamesOK'
    BY <2>4, <2>7 DEF IInv, NamesOK
  <2>9. NoPassIsLost'
    BY <2>4 DEF IInv, NoPassIsLost
  <2> QED BY <1>1, <2>5, <2>6, <2>8, <2>9 DEF IInv
<1> QED BY <1>4, <1>5 DEF Spawn

LEMMA CreateRunInvariant ==
  ASSUME NEW j \in Jobs
  PROVE  IInv /\ CreateRun(j) => IInv'
<1> SUFFICES ASSUME IInv, CreateRun(j)
             PROVE  IInv'
  OBVIOUS
<1>1. UNCHANGED <<items, kind, file, hook, pass, due, faults>> /\ InFlight' = InFlight
  BY DEF CreateRun, InFlight
<1>2. Free \in Passes /\ Free.pc = "none" /\ Free.id = 0 /\ ~Free.young /\ ~Free.lost
  BY DEF Free, Passes
<1>3. ASSUME NEW x \in Jobs
      PROVE  /\ job'[x] \in Passes
             /\ \/ job'[x] = Free
                \/ /\ job'[x].pc = job[x].pc /\ job'[x].id = job[x].id
                   /\ job'[x].young = job[x].young /\ job'[x].early = job[x].early
                   /\ job'[x].lost => job[x].lost \/ (job[x].pc = "start" /\ job[x].early)
  <2>1. job[x] \in Passes
    BY DEF IInv, Types
  <2>2. job'[x] = IF x = j THEN Free
                  ELSE IF job[x].pc = "start" /\ job[x].id = job[j].id /\ ~job[j].lost
                  THEN [job[x] EXCEPT !.lost = TRUE] ELSE job[x]
    BY DEF CreateRun
  <2>3. CASE x # j /\ job[x].pc = "start" /\ job[x].id = job[j].id
    <3>1. job[x].early
      BY <2>3 DEF IInv, NamesOK, CreateRun
    <3> QED BY <2>1, <2>2, <2>3, <3>1 DEF Passes
  <2> QED BY <1>2, <2>1, <2>2, <2>3
<1>4. job' \in [Jobs -> Passes]
  BY <1>3 DEF CreateRun
<1>5. Types'
  BY <1>1, <1>4 DEF IInv, Types
<1>6. \A x \in Jobs : YoungOK(x)'
  BY <1>1, <1>2, <1>3 DEF IInv, YoungOK
<1>7. NamesOK'
  BY <1>2, <1>3 DEF IInv, NamesOK
<1>8. NoPassIsLost'
  BY <1>2, <1>3 DEF IInv, NoPassIsLost
<1>9. (\A a \in Agents : AloneOK(a)' /\ RunOK(a)') /\ AgeOK'
  BY <1>1 DEF IInv, AloneOK, RunOK, AgeOK
<1> QED BY <1>5, <1>6, <1>7, <1>8, <1>9 DEF IInv

LEMMA NextInvariant == IInv /\ [Next]_vars => IInv'
<1> SUFFICES ASSUME IInv, [Next]_vars
             PROVE  IInv'
  OBVIOUS
<1>1. CASE Grow \/ Shrink
  BY <1>1, GraphInvariant
<1>2. CASE Tick
  BY <1>2, TickInvariant
<1>3. ASSUME NEW a \in Agents, HookStep(a) \/ Kill(a)
      PROVE  IInv'
  BY <1>3, LoadInvariant, CountInvariant, TruncateInvariant, SaveInvariant, SpawnInvariant,
     ArchiveInvariant, KillInvariant DEF HookStep
<1>4. ASSUME NEW j \in Jobs, CreateRun(j)
      PROVE  IInv'
  BY <1>4, CreateRunInvariant
<1>5. CASE UNCHANGED vars
  BY <1>5 DEF vars, IInv, Types, AloneOK, RunOK, AgeOK, YoungOK, NamesOK, NoPassIsLost, InFlight
<1> QED BY <1>1, <1>2, <1>3, <1>4, <1>5 DEF Next

-----------------------------------------------------------------------------
(* The theorems.                                                           *)

LEMMA SpecInvariant == Spec => []IInv
<1> QED BY InitInvariant, NextInvariant, PTL DEF Spec

\* The throttle file, the hooks and the passes have the types that load_state,
\* save_state and the hooks give them; a pass that has its directory is no
\* one's namesake any more.
THEOREM TypeCorrect == Spec => []TypeOK
<1>1. IInv => TypeOK
  <2> SUFFICES ASSUME IInv
               PROVE  TypeOK
    OBVIOUS
  <2>1. \A a \in Agents : /\ hook[a].pc \in {"idle"} \cup Busy
                          /\ hook[a].seen \in Counts /\ hook[a].since \in 0..(Interval - 1)
    BY DEF IInv, Types, HookStates
  <2>2. \A j \in Jobs : job[j].pc \in {"none", "start"} /\ (job[j].lost => job[j].pc = "start")
    BY DEF IInv, Types, Passes, YoungOK
  <2> QED BY <2>1, <2>2 DEF IInv, Types, TypeOK, Files
<1> QED BY <1>1, SpecInvariant, PTL

\* Only the end of a turn gets a hook past the throttle.
LEMMA OnlyLoadBegins ==
  ASSUME IInv, [Next]_vars, NEW a \in Agents, hook[a].pc = "idle", hook'[a].pc = "count"
  PROVE  Load(a)
<1>1. hook \in [Agents -> HookStates]
  BY DEF IInv, Types
<1>2. hook'[a] # hook[a]
  OBVIOUS
<1>3. CASE Grow \/ Shrink \/ UNCHANGED vars \/ \E j \in Jobs : CreateRun(j)
  BY <1>2, <1>3 DEF Grow, Shrink, vars, CreateRun
<1>4. CASE Tick
  BY <1>2, <1>4 DEF Tick, Busy
<1>5. ASSUME NEW b \in Agents, b # a, Load(b)
      PROVE  FALSE
  BY <1>2, <1>5 DEF Load, InFlight, Busy
<1>6. ASSUME NEW b \in Agents, Count(b) \/ Truncate(b) \/ Spawn(b) \/ Archive(b) \/ Kill(b)
      PROVE  FALSE
  BY <1>1, <1>2, <1>6 DEF Count, Truncate, Spawn, Archive, Kill
<1>7. ASSUME NEW b \in Agents, Save(b)
      PROVE  FALSE
  BY <1>1, <1>2, <1>7 DEF Save, AfterSave
<1> QED BY <1>3, <1>4, <1>5, <1>6, <1>7 DEF Next, HookStep

\* load_state, the throttle and save_state: a hook that meets no other hook, over
\* a file that a hook alone has written, comes an interval after the last pass,
\* whoever was killed in between and however the graph has changed.
THEOREM ThrottleHolds == Spec => OnePassPerInterval
<1>1. IInv /\ [Next]_vars =>
        [\A a \in Agents :
           hook[a].pc = "idle" /\ hook'[a].pc = "count" /\ ~hook'[a].crossed /\ ~hook'[a].doubt
           => pass = Interval]_vars
  <2> SUFFICES ASSUME IInv, [Next]_vars, NEW a \in Agents,
                      hook[a].pc = "idle", hook'[a].pc = "count",
                      ~hook'[a].crossed, ~hook'[a].doubt
               PROVE  pass = Interval
    OBVIOUS
  <2>1. Load(a)
    BY OnlyLoadBegins
  <2>2. InFlight = {} /\ file.alone /\ file.age = Interval
    <3>1. hook'[a] = [Quiet EXCEPT !.pc = "count", !.state = file,
                                   !.crossed = InFlight # {}, !.doubt = ~file.alone]
      BY <2>1 DEF Load, IInv, Types
    <3>2. /\ hook'[a].crossed = (InFlight # {})
          /\ hook'[a].doubt = ~file.alone
      BY <3>1 DEF Quiet
    <3> QED BY <2>1, <3>2 DEF Load
  <2>3. pass >= Interval /\ pass \in 0..Interval
    BY <2>2 DEF IInv, AgeOK, Types, Ages
  <2> QED BY <2>3, CadenceBounds
<1> QED BY <1>1, SpecInvariant, PTL DEF Spec, OnePassPerInterval

\* new_run_id and create_run: of the passes that get the same run id, and of which
\* all but one are lost, each was started by a hook that ran together with
\* another one or found a torn file.
THEOREM PassesKeepTheirIds == Spec => []NoPassIsLost
<1>1. IInv => NoPassIsLost
  BY DEF IInv
<1> QED BY <1>1, SpecInvariant, PTL
=============================================================================
