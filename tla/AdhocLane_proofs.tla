-------------------------- MODULE AdhocLane_proofs --------------------------
(***************************************************************************)
(* Proofs about the scheduler lane, for every set of issues, cap, blocking *)
(* relation and bound on the faults, in four parts: its typing, what it    *)
(* keeps whatever fails, the life of an issue it implements, and what it   *)
(* keeps while nothing fails.                                              *)
(***************************************************************************)
EXTENDS AdhocLane, SlotScheduler_proofs

-----------------------------------------------------------------------------
(* Typing. *)

\* What a drain selects (_select_buildable) is among what it may build.
LEMMA SelectedBuildable ==
    ASSUME buildable \subseteq Issues
    PROVE  Selected \subseteq buildable
<1> DEFINE cs == {[number |-> i, labels |-> LabelsOf[i]] : i \in buildable}
<1>1. SelectToBuild(cs, Cap) \subseteq cs
  BY DEF SelectToBuild, TakeFirst, PriorityQueue, MainQueue
<1>2. \A c \in cs : c.number \in buildable
  OBVIOUS
<1> HIDE DEF cs
<1>3. Selected = {c.number : c \in SelectToBuild(cs, Cap)}
  BY DEF Selected, cs
<1> QED  BY <1>1, <1>2, <1>3

\* The life a new build takes is free.
LEMMA FreshTyped ==
    ASSUME NEW i \in Issues, \E l \in Lives : task[<<i, l>>] = "none"
    PROVE  /\ FreshTask(i) \in Tasks /\ FreshTask(i)[1] = i
           /\ task[FreshTask(i)] = "none"
<1> DEFINE life == CHOOSE l \in Lives : task[<<i, l>>] = "none"
<1>1. life \in Lives /\ task[<<i, life>>] = "none"
  OBVIOUS
<1>2. FreshTask(i) = <<i, life>>
  BY DEF FreshTask
<1> HIDE DEF life
<1> QED  BY <1>1, <1>2 DEF Tasks

\* A recorded ledger is a ledger.
LEMMA RecordedTyped ==
    ASSUME TypeOK, NEW i \in Issues, NEW s \in RunStates
    PROVE  Recorded(i, s) \in [Issues -> RunStates]
  BY DEF TypeOK, Recorded

\* Listing queues known issues only.
LEMMA ListTyped == TypeOK /\ List => TypeOK'
<1> SUFFICES ASSUME TypeOK, List PROVE TypeOK'
  OBVIOUS
<1>1. ready' \subseteq Issues
  BY DEF List, Page, TypeOK
<1>2. "queued" \in RunStates /\ "gate" \in Stages
  BY DEF RunStates, Stages
<1>3. \A i \in Issues : Recorded(i, "queued")[i] \in RunStates
  BY <1>2, RecordedTyped
<1>4. \A i \in Issues : ledger[i] \in RunStates
  BY DEF TypeOK
<1>5. ledger' \in [Issues -> RunStates]
  BY <1>3, <1>4 DEF List
<1> QED  BY <1>1, <1>2, <1>5
     DEF List, TypeOK, github, builds, history

\* Selecting starts tasks of known issues only.
LEMMA SelectTyped == TypeOK /\ Select => TypeOK'
<1> SUFFICES ASSUME TypeOK, Select PROVE TypeOK'
  OBVIOUS
<1>1. gathered' \subseteq Tasks
  BY SelectedBuildable, FreshTyped DEF Select, TypeOK
<1>2. task' \in [Tasks -> TaskStates]
  BY DEF Select, TypeOK, TaskStates
<1>3. buildable' \subseteq Issues /\ stage' \in Stages
  BY DEF Select, Stages
<1> QED  BY <1>1, <1>2, <1>3
     DEF Select, TypeOK, github, stores, history

\* The pieces actions are made of.
LEMMA LeaveTyped ==
    ASSUME TypeOK, LeaveDrain
    PROVE  /\ stage' \in Stages
           /\ ready' \subseteq Issues /\ prHeads' \subseteq Issues
           /\ stranded' \subseteq Issues /\ buildable' \subseteq Issues
           /\ opening' \subseteq Issues \X Nat
           /\ kick' \in {"idle", "queued", "running"}
  BY DEF TypeOK, LeaveDrain, Stages

\* Opening a PR gives the branch a number.
LEMMA OpenTyped ==
    ASSUME TypeOK, NEW i \in Issues, CreatePr(i)
    PROVE  pr' \in [Issues -> Nat] /\ lastPr' \in Nat /\ pr'[i] \in Nat
  BY DEF TypeOK, CreatePr

\* Recording a PR writes a number and a state.
LEMMA RecordPrTyped ==
    ASSUME TypeOK, NEW i \in Issues, NEW n \in Nat, RecordPr(i, n)
    PROVE  mapped' \in [Issues -> Nat] /\ ledger' \in [Issues -> RunStates]
<1>1. "pr_opened" \in RunStates
  BY DEF RunStates
<1>2. ledger' \in [Issues -> RunStates]
  BY <1>1, RecordedTyped DEF RecordPr
<1>3. mapped' \in [Issues -> Nat]
  BY DEF TypeOK, RecordPr
<1> QED  BY <1>2, <1>3

\* What a task's end leaves of the drain and its builds.
DrainTyped ==
    /\ stage \in Stages
    /\ ready \subseteq Issues /\ prHeads \subseteq Issues
    /\ stranded \subseteq Issues /\ buildable \subseteq Issues
    /\ opening \subseteq Issues \X Nat
    /\ task \in [Tasks -> TaskStates]
    /\ held \in [Tasks -> Nat]
    /\ gathered \subseteq Tasks
    /\ kick \in {"idle", "queued", "running"}

\* A task's return, and its raise, leave the drain well typed.
LEMMA ReturnsTyped ==
    ASSUME TypeOK, NEW t \in Tasks, Returns(t) PROVE DrainTyped'
<1>1. "none" \in TaskStates
  BY DEF TaskStates
<1> QED  BY <1>1 DEF TypeOK, Returns, DrainTyped, plan

\* Likewise when it raises, inside the gather or orphaned.
LEMMA RaisesTyped ==
    ASSUME TypeOK, NEW t \in Tasks, Raises(t) PROVE DrainTyped'
<1>1. "none" \in TaskStates
  BY DEF TaskStates
<1>2. CASE t \in gathered
  BY <1>1, <1>2, LeaveTyped DEF TypeOK, Raises, DrainTyped
<1>3. CASE t \notin gathered
  BY <1>1, <1>3 DEF TypeOK, Raises, DrainTyped, plan
<1> QED  BY <1>2, <1>3

\* Everything but what DrainTyped says.
RestTyped ==
    /\ open \subseteq Issues /\ triggered \subseteq Issues
    /\ hitl \subseteq Issues /\ pushed \subseteq Issues
    /\ merged \subseteq Issues /\ dismissed \subseteq Issues
    /\ conflicted \subseteq Issues
    /\ pr \in [Issues -> Nat] /\ lastPr \in Nat
    /\ reaps \subseteq Nat /\ reaping \subseteq Issues \X Nat
    /\ mapped \in [Issues -> Nat]
    /\ ledger \in [Issues -> RunStates]
    /\ verdict \in [Issues -> Verdicts]
    /\ resumed \subseteq Issues
    /\ fruitless \in Nat /\ mishaps \in Nat

\* The two halves make the type invariant, in this state and in the next.
LEMMA TypeParts == TypeOK <=> DrainTyped /\ RestTyped
  BY DEF TypeOK, DrainTyped, RestTyped

\* In the next state.
LEMMA TypePartsNext == TypeOK' <=> DrainTyped' /\ RestTyped'
  BY DEF TypeOK, DrainTyped, RestTyped

-----------------------------------------------------------------------------
\* Humans and webhooks.
LEMMA HumanTyped ==
    ASSUME TypeOK, NEW i \in Issues, Human(i) PROVE TypeOK'
<1> USE DEF TypeOK, stores, history, plan, builds, github
<1>1. CASE Trigger(i)
  BY <1>1 DEF Trigger, Enqueued
<1>2. CASE Resume(i)
  BY <1>2 DEF Resume
<1>3. CASE Merge(i)
  <2>1. verdict' \in [Issues -> Verdicts]
    BY <1>3 DEF Merge, Verdicts
  <2>2. pr' \in [Issues -> Nat] /\ reaps' \subseteq Nat
    BY <1>3 DEF Merge
  <2> QED  BY <1>3, <2>1, <2>2 DEF Merge
<1>4. CASE Dismiss(i)
  BY <1>4 DEF Dismiss
<1>5. CASE Conflict(i)
  BY <1>5 DEF Conflict, Mishap
<1> QED  BY <1>1, <1>2, <1>3, <1>4, <1>5 DEF Human

\* The reap.
LEMMA ReapTyped == TypeOK /\ Reap => TypeOK'
<1> SUFFICES ASSUME TypeOK, Reap PROVE TypeOK'
  OBVIOUS
<1>1. ASSUME NEW n \in reaps, ReapResolve(n) PROVE TypeOK'
  <2>1. n \in Nat
    BY DEF TypeOK
  <2> QED  BY <1>1, <2>1
           DEF TypeOK, ReapResolve, github, plan, builds, history
<1>2. ASSUME NEW p \in reaping, ReapClose(p[1], p[2]) PROVE TypeOK'
  <2>1. p[1] \in Issues /\ "merged" \in RunStates
    BY DEF TypeOK, RunStates
  <2>2. ledger' \in [Issues -> RunStates]
    BY <1>2, <2>1, RecordedTyped DEF ReapClose
  <2> QED  BY <1>2, <2>2 DEF TypeOK, ReapClose, plan, builds, history
<1>3. ASSUME NEW p \in reaping, ReapRaises(p[1], p[2]) PROVE TypeOK'
  BY <1>3 DEF TypeOK, ReapRaises, Mishap, github, plan, builds
<1> QED  BY <1>1, <1>2, <1>3 DEF Reap

\* Kicks and sweeps.
LEMMA StartTyped == TypeOK /\ (OtherKick \/ Start) => TypeOK'
  BY DEF TypeOK, OtherKick, Enqueued, Start, KickRuns, KickBusy, SweepRuns,
         Stages, github, plan, builds, stores, history

\* The readiness gate and the flight snapshot.
LEMMA SnapshotTyped ==
    TypeOK /\ (Gate \/ SnapshotHeads \/ SnapshotBranches) => TypeOK'
<1> SUFFICES ASSUME TypeOK, Gate \/ SnapshotHeads \/ SnapshotBranches
             PROVE  TypeOK'
  OBVIOUS
<1>1. CASE Gate
  <2>1. ready' \subseteq Issues /\ mishaps' \in Nat /\ stage' \in Stages
    BY <1>1 DEF TypeOK, Gate, Mishap, Stages
  <2> QED  BY <1>1, <2>1 DEF TypeOK, Gate, github, builds, stores
<1>2. CASE SnapshotHeads \/ SnapshotBranches
  BY <1>2 DEF TypeOK, SnapshotHeads, SnapshotBranches, Stages, github, builds,
              stores, history
<1> QED  BY <1>1, <1>2

\* The recovery of stranded branches.
LEMMA RecoverTyped ==
    ASSUME TypeOK, NEW i \in stranded,
           \/ RecoverFound(i) \/ RecoverNone(i) \/ RecoverSync(i)
           \/ RecoverCreate(i) \/ RecoverMissing(i) \/ RecoverRefused(i)
    PROVE  TypeOK'
<1>1. i \in Issues
  BY DEF TypeOK
<1>2. CASE RecoverFound(i)
  <2>1. opening' \subseteq Issues \X Nat
    BY <1>1, <1>2 DEF TypeOK, RecoverFound
  <2> QED  BY <1>2, <2>1 DEF TypeOK, RecoverFound, github, builds, stores,
                             history
<1>3. CASE RecoverNone(i) \/ RecoverSync(i)
  BY <1>3 DEF TypeOK, RecoverNone, RecoverSync, Stages, github, plan, builds,
              stores, history
<1>4. CASE RecoverCreate(i)
  <2>1. pr' \in [Issues -> Nat] /\ lastPr' \in Nat /\ pr'[i] \in Nat
    BY <1>1, <1>4, OpenTyped DEF RecoverCreate
  <2>2. opening' \subseteq Issues \X Nat /\ stage' \in Stages
    BY <1>1, <1>4, <2>1 DEF RecoverCreate, Stages
  <2> QED  BY <1>4, <2>1, <2>2 DEF TypeOK, RecoverCreate, builds, stores,
                                   history
<1>5. CASE RecoverRefused(i)
  BY <1>5, LeaveTyped DEF TypeOK, RecoverRefused, github, builds, history
<1>6. CASE RecoverMissing(i)
  BY <1>1, <1>6 DEF TypeOK, RecoverMissing, Mishap, builds, stores
<1> QED  BY <1>2, <1>3, <1>4, <1>5, <1>6

\* The recovered PR's record.
LEMMA RecordTyped ==
    ASSUME TypeOK, NEW p \in opening, RecoverRecord(p[1], p[2]) PROVE TypeOK'
<1>1. p[1] \in Issues /\ p[2] \in Nat
  BY DEF TypeOK
<1>2. mapped' \in [Issues -> Nat] /\ ledger' \in [Issues -> RunStates]
  BY <1>1, RecordPrTyped DEF RecoverRecord
<1> QED  BY <1>2 DEF TypeOK, RecoverRecord, github, builds, history

\* Every step of the drain.
LEMMA DrainStepTyped == TypeOK /\ Drain => TypeOK'
<1> SUFFICES ASSUME TypeOK, Drain PROVE TypeOK'
  OBVIOUS
<1>1. CASE DrainRaises
  <2>1. mapped' \in [Issues -> Nat]
    BY <1>1 DEF TypeOK, DrainRaises
  <2> QED  BY <1>1, <2>1, LeaveTyped DEF TypeOK, DrainRaises, Mishap, github,
              builds
<1>2. CASE DrainEnds
  BY <1>2, LeaveTyped DEF TypeOK, DrainEnds, github, builds, history
<1> QED  BY <1>1, <1>2, ListTyped, SelectTyped, SnapshotTyped, RecoverTyped,
            RecordTyped DEF Drain

\* The steps of a build task, which change a handful of variables each.
LEMMA MeterTyped ==
    ASSUME TypeOK, NEW t \in Tasks, MeterDeclines(t) \/ MeterAdmits(t)
    PROVE  TypeOK'
<1>1. t[1] \in Issues /\ "building" \in RunStates /\ "build" \in TaskStates
  BY DEF Tasks, RunStates, TaskStates
<1>2. CASE MeterDeclines(t)
  <2>1. RestTyped'
    BY <1>2 DEF TypeOK, RestTyped, MeterDeclines, Fruitless, github
  <2> QED  BY <1>2, <2>1, ReturnsTyped, TypePartsNext DEF MeterDeclines
<1>3. CASE MeterAdmits(t)
  <2>1. ledger' \in [Issues -> RunStates]
    BY <1>1, <1>3, RecordedTyped DEF MeterAdmits
  <2> QED  BY <1>1, <1>3, <2>1
           DEF TypeOK, MeterAdmits, Stores, github, plan, history
<1> QED  BY <1>2, <1>3

\* The container build, up to its push.
LEMMA ContainerTyped ==
    ASSUME TypeOK, NEW t \in Tasks,
           BuildRed(t) \/ BuildGreen(t) \/ PushRejected(t)
    PROVE  TypeOK'
<1>1. /\ t[1] \in Issues /\ "failed" \in RunStates
      /\ "report" \in TaskStates /\ "unreviewed" \in Verdicts
  BY DEF Tasks, RunStates, TaskStates, Verdicts
<1>2. CASE BuildRed(t)
  <2>1. ledger' \in [Issues -> RunStates]
    BY <1>1, <1>2, RecordedTyped DEF BuildRed
  <2>2. RestTyped'
    BY <1>1, <1>2, <2>1 DEF TypeOK, RestTyped, BuildRed, Fruitless, github
  <2> QED  BY <1>2, <2>2, ReturnsTyped, TypePartsNext DEF BuildRed
<1>3. CASE BuildGreen(t)
  BY <1>1, <1>3 DEF TypeOK, BuildGreen, Stores, plan, stores
<1>4. CASE PushRejected(t)
  <2>1. RestTyped'
    BY <1>4 DEF TypeOK, RestTyped, PushRejected, github, history
  <2> QED  BY <1>4, <2>1, RaisesTyped, TypePartsNext DEF PushRejected
<1> QED  BY <1>2, <1>3, <1>4

\* The review gate and the escalation.
LEMMA GateTyped ==
    ASSUME TypeOK, NEW t \in Tasks, NEW outcome \in {"cleared", "blocked"},
           Report(t) \/ Review(t, outcome) \/ Escalate(t)
    PROVE  TypeOK'
<1>1. /\ t[1] \in Issues /\ "escalated" \in RunStates /\ outcome \in Verdicts
      /\ {"review", "open", "escalate"} \subseteq TaskStates
  BY DEF Tasks, RunStates, TaskStates, Verdicts
<1>2. CASE Report(t)
  BY <1>1, <1>2 DEF TypeOK, Report, Stores, github, plan, stores, history
<1>3. CASE Review(t, outcome)
  BY <1>1, <1>3 DEF TypeOK, Review, Stores, github, plan, stores
<1>4. CASE Escalate(t)
  <2>1. ledger' \in [Issues -> RunStates]
    BY <1>1, <1>4, RecordedTyped DEF Escalate
  <2>2. RestTyped'
    BY <1>1, <1>4, <2>1 DEF TypeOK, RestTyped, Escalate, history
  <2> QED  BY <1>4, <2>2, ReturnsTyped, TypePartsNext DEF Escalate
<1> QED  BY <1>2, <1>3, <1>4

\* The PR's opening.
LEMMA OpenPrTyped ==
    ASSUME TypeOK, NEW t \in Tasks,
           \/ OpenFound(t) \/ OpenNone(t) \/ OpenSync(t) \/ OpenCreate(t)
           \/ OpenRefused(t) \/ StagingMissing(t)
    PROVE  TypeOK'
<1>1. t[1] \in Issues /\ {"sync", "create", "record"} \subseteq TaskStates
  BY DEF Tasks, TaskStates
<1>2. CASE OpenFound(t) \/ OpenNone(t) \/ OpenSync(t)
  <2>1. held' \in [Tasks -> Nat]
    BY <1>1, <1>2 DEF TypeOK, OpenFound, OpenNone, OpenSync
  <2> QED  BY <1>1, <1>2, <2>1
           DEF TypeOK, OpenFound, OpenNone, OpenSync, Stores, github, plan,
               stores, history
<1>3. CASE OpenCreate(t)
  <2>1. pr' \in [Issues -> Nat] /\ lastPr' \in Nat /\ pr'[t[1]] \in Nat
    BY <1>1, <1>3, OpenTyped DEF OpenCreate
  <2> QED  BY <1>1, <1>3, <2>1
           DEF TypeOK, OpenCreate, Stores, plan, stores, history
<1>4. CASE OpenRefused(t)
  <2>1. RestTyped'
    BY <1>4 DEF TypeOK, RestTyped, OpenRefused, github, history
  <2> QED  BY <1>4, <2>1, RaisesTyped, TypePartsNext DEF OpenRefused
<1>5. CASE StagingMissing(t)
  <2>1. RestTyped'
    BY <1>1, <1>5 DEF TypeOK, RestTyped, StagingMissing, Mishap
  <2> QED  BY <1>5, <2>1, ReturnsTyped, TypePartsNext DEF StagingMissing
<1> QED  BY <1>2, <1>3, <1>4, <1>5

\* The PR's record.
LEMMA RecordOpenedTyped ==
    ASSUME TypeOK, NEW t \in Tasks, RecordOpened(t) PROVE TypeOK'
<1>1. t[1] \in Issues /\ held[t] \in Nat
  BY DEF TypeOK, Tasks
<1>2. mapped' \in [Issues -> Nat] /\ ledger' \in [Issues -> RunStates]
  BY <1>1, RecordPrTyped DEF RecordOpened
<1>3. RestTyped'
  BY <1>2 DEF TypeOK, RestTyped, RecordOpened, github, history
<1> QED  BY <1>3, ReturnsTyped, TypePartsNext DEF RecordOpened

\* A failing call.
LEMMA TaskRaisesTyped ==
    ASSUME TypeOK, NEW t \in Tasks, TaskRaises(t) PROVE TypeOK'
<1>1. t[1] \in Issues /\ held[t] \in Nat
  BY DEF TypeOK, Tasks
<1>2. hitl' \subseteq Issues /\ mapped' \in [Issues -> Nat]
  BY <1>1 DEF TypeOK, TaskRaises
<1>3. RestTyped'
  BY <1>2 DEF TypeOK, RestTyped, TaskRaises, Mishap
<1> QED  BY <1>3, RaisesTyped, TypePartsNext DEF TaskRaises

\* Every step of a build task.
LEMMA BuildTyped == ASSUME TypeOK, NEW t \in Tasks, Build(t) PROVE TypeOK'
  BY MeterTyped, ContainerTyped, GateTyped, OpenPrTyped, RecordOpenedTyped,
     TaskRaisesTyped DEF Build

\* Timeouts and crashes cancel tasks.
LEMMA WorkerTyped == TypeOK /\ (JobTimeout \/ Crash) => TypeOK'
<1> SUFFICES ASSUME TypeOK, JobTimeout \/ Crash PROVE TypeOK'
  OBVIOUS
<1>1. "none" \in TaskStates /\ "idle" \in Stages
  BY DEF TaskStates, Stages
<1>2. ASSUME NEW ts, Cancelled(ts)
      PROVE  /\ task' \in [Tasks -> TaskStates] /\ held' \in [Tasks -> Nat]
             /\ gathered' \subseteq Tasks
  BY <1>1, <1>2 DEF TypeOK, Cancelled
<1>3. CASE JobTimeout
  <2>1. Cancelled(gathered)
    BY <1>3 DEF JobTimeout
  <2> QED  BY <1>2, <1>3, <2>1, LeaveTyped DEF TypeOK, JobTimeout, Mishap,
                                               github
<1>4. CASE Crash
  <2>1. Cancelled(Tasks)
    BY <1>4 DEF Crash
  <2>2. reaps' \subseteq Nat
    BY <1>4 DEF TypeOK, Crash
  <2> QED  BY <1>1, <1>2, <1>4, <2>1, <2>2 DEF TypeOK, Crash, Mishap, github
<1> QED  BY <1>3, <1>4

\* Every step of the lane.
LEMMA NextTyped == TypeOK /\ [Next]_vars => TypeOK'
<1> SUFFICES ASSUME TypeOK, [Next]_vars PROVE TypeOK'
  OBVIOUS
<1>1. CASE UNCHANGED vars
  BY <1>1 DEF TypeOK, vars, github, plan, builds, stores, history
<1> QED  BY <1>1, HumanTyped, StartTyped, ReapTyped, DrainStepTyped,
            BuildTyped, WorkerTyped DEF Next

\* The initial state.
LEMMA InitTyped == Init => TypeOK
  BY DEF Init, TypeOK, Stages, TaskStates, RunStates, Verdicts

\* Every variable of the lane keeps its type.
THEOREM LaneTyped == Spec => []TypeOK
  BY InitTyped, NextTyped, PTL DEF Spec

-----------------------------------------------------------------------------
(* The run ledger. *)

\* record's upsert lowers no issue's rank.
LEMMA RecordedRises ==
    ASSUME TypeOK, NEW i \in Issues, NEW s \in RunStates, NEW j \in Issues
    PROVE  LifecycleRank(Recorded(i, s)[j]) >= LifecycleRank(ledger[j])
<1>1. /\ LifecycleRank(ledger[j]) \in Nat /\ LifecycleRank(s) \in Nat
      /\ LifecycleRank(ledger[i]) \in Nat
  BY DEF LifecycleRank
<1>2. CASE LifecycleRank(s) >= LifecycleRank(ledger[i])
  <2>1. Recorded(i, s)[j] = IF j = i THEN s ELSE ledger[j]
    BY <1>2 DEF TypeOK, Recorded
  <2> HIDE DEF Recorded
  <2> QED  BY <1>1, <1>2, <2>1
<1>3. CASE ~(LifecycleRank(s) >= LifecycleRank(ledger[i]))
  BY <1>1, <1>3 DEF Recorded
<1> QED  BY <1>2, <1>3

Records == \E i \in Issues, s \in RunStates : ledger' = Recorded(i, s)

\* Every step leaves the ledger alone, records one state, or queues the list.
LEMMA StepRecords ==
    ASSUME TypeOK, [Next]_vars
    PROVE  UNCHANGED ledger \/ Records \/ List
<1>1. {"merged", "pr_opened", "building", "failed", "escalated"}
        \subseteq RunStates
  BY DEF RunStates
<1>2. ASSUME NEW i \in Issues, Human(i) PROVE UNCHANGED ledger
  BY <1>2 DEF Human, Trigger, Resume, Merge, Dismiss, Conflict, stores
<1>3. CASE Reap
  <2>1. ASSUME NEW p \in reaping, ReapClose(p[1], p[2]) PROVE Records
    <3>1. p[1] \in Issues
      BY DEF TypeOK
    <3> QED  BY <1>1, <2>1, <3>1 DEF Records, ReapClose
  <2> QED  BY <1>3, <2>1 DEF Reap, ReapResolve, ReapRaises
<1>4. CASE OtherKick \/ Start
  BY <1>4 DEF OtherKick, Start, KickRuns, KickBusy, SweepRuns, stores
<1>5. CASE Drain
  <2>1. ASSUME NEW p \in opening, RecoverRecord(p[1], p[2]) PROVE Records
    <3>1. p[1] \in Issues
      BY DEF TypeOK
    <3> QED  BY <1>1, <2>1, <3>1 DEF Records, RecoverRecord, RecordPr
  <2> QED  BY <1>5, <2>1
           DEF Drain, Gate, SnapshotHeads, SnapshotBranches, RecoverFound,
               RecoverNone, RecoverSync, RecoverCreate, RecoverMissing,
               RecoverRefused, DrainRaises, Select, DrainEnds, stores
<1>6. ASSUME NEW t \in Tasks, Build(t) PROVE UNCHANGED ledger \/ Records
  <2>1. t[1] \in Issues
    BY DEF Tasks
  <2>2. CASE MeterAdmits(t) \/ BuildRed(t) \/ Escalate(t) \/ RecordOpened(t)
    BY <1>1, <2>1, <2>2
       DEF Records, MeterAdmits, BuildRed, Escalate, RecordOpened, RecordPr
  <2> QED  BY <1>6, <2>2
           DEF Build, MeterDeclines, BuildGreen, PushRejected, Report, Review,
               OpenFound, OpenNone, OpenSync, OpenCreate, OpenRefused,
               StagingMissing, TaskRaises, stores
<1>7. CASE JobTimeout \/ Crash
  BY <1>7 DEF JobTimeout, Crash
<1>8. CASE UNCHANGED vars
  BY <1>8 DEF vars, stores
<1> QED  BY <1>2, <1>3, <1>4, <1>5, <1>6, <1>7, <1>8 DEF Next

\* run_ledger.py: record never lowers an issue's lifecycle rank, and nothing
\* else in the lane writes the ledger.
THEOREM LedgerRises == Spec => LedgerNeverRegresses
<1>1. TypeOK /\ [Next]_vars =>
        \A i \in Issues : LifecycleRank(ledger'[i]) >= LifecycleRank(ledger[i])
  <2> SUFFICES ASSUME TypeOK, [Next]_vars, NEW i \in Issues
               PROVE  LifecycleRank(ledger'[i]) >= LifecycleRank(ledger[i])
    OBVIOUS
  <2>1. LifecycleRank(ledger[i]) \in Nat
    BY DEF LifecycleRank
  <2>2. CASE UNCHANGED ledger
    BY <2>1, <2>2
  <2>3. CASE Records
    BY <2>3, RecordedRises DEF Records
  <2>4. CASE List
    <3>1. "queued" \in RunStates
      BY DEF RunStates
    <3>2. ledger'[i] = IF i \in ready' THEN Recorded(i, "queued")[i]
                                       ELSE ledger[i]
      BY <2>4 DEF List
    <3> QED  BY <2>1, <3>1, <3>2, RecordedRises
  <2> QED  BY <2>2, <2>3, <2>4, StepRecords
<1>2. TypeOK /\ [Next]_vars =>
        [\A i \in Issues :
           LifecycleRank(ledger'[i]) >= LifecycleRank(ledger[i])]_vars
  BY <1>1
<1> QED  BY <1>2, LaneTyped, PTL DEF Spec, LedgerNeverRegresses

-----------------------------------------------------------------------------
(***************************************************************************)
(* What the scheduler lane keeps whatever fails: a PR number only ever     *)
(* names one issue, so the reap closes an issue only after its own PR was  *)
(* merged, and blocked work is built only after its blockers were closed.  *)
(***************************************************************************)

\* Wherever the lane, its stores or GitHub have written down that PR n is the
\* PR of issue i.
Claim(i, n) ==
    /\ n # 0
    /\ \/ pr[i] = n
       \/ mapped[i] = n
       \/ \E t \in Tasks : t[1] = i /\ held[t] = n
       \/ <<i, n>> \in opening
       \/ <<i, n>> \in reaping

\* GitHub gives issue i's branch a new PR number.
GivesNumber(i, n) ==
    /\ lastPr' = lastPr + 1
    /\ n = lastPr'
    /\ pr' = [pr EXCEPT ![i] = lastPr']

-----------------------------------------------------------------------------
(* Claims only spread from one place to another, or start with a number. *)

\* Creating a PR claims its new number.
LEMMA OpenClaims ==
    ASSUME TypeOK, NEW j \in Issues, CreatePr(j),
           NEW i \in Issues, NEW n \in Nat \ {0}, pr'[i] = n
    PROVE  pr[i] = n \/ (i = j /\ GivesNumber(i, n))
  BY DEF TypeOK, CreatePr, GivesNumber

\* Ending a task or a drain drops claims.
LEMMA ReturnDrops ==
    ASSUME TypeOK, NEW t \in Tasks, Returns(t) \/ Raises(t)
    PROVE  /\ opening' \subseteq opening
           /\ \A u \in Tasks : held'[u] \in {0, held[u]}
  BY DEF TypeOK, Returns, Raises, LeaveDrain, plan

\* A human claims nothing new: a merge keeps the number in the queue of reaps.
LEMMA HumanClaims ==
    ASSUME TypeOK, NEW j \in Issues, Human(j),
           NEW i \in Issues, NEW n \in Nat, Claim(i, n)'
    PROVE  Claim(i, n)
<1>1. CASE Trigger(j) \/ Resume(j)
  BY <1>1 DEF Claim, Trigger, Resume, plan, builds, stores
<1>2. CASE Merge(j)
  BY <1>2 DEF TypeOK, Claim, Merge, plan, builds
<1>3. CASE Dismiss(j) \/ Conflict(j)
  BY <1>3 DEF Claim, Dismiss, Conflict, plan, builds, stores
<1> QED  BY <1>1, <1>2, <1>3 DEF Human

\* A reap passes its claim from the row to the job that resolved it.
LEMMA ReapClaims ==
    ASSUME TypeOK, Reap, NEW i \in Issues, NEW n \in Nat, Claim(i, n)'
    PROVE  Claim(i, n)
<1>1. ASSUME NEW m \in reaps, ReapResolve(m) PROVE Claim(i, n)
  BY <1>1 DEF Claim, ReapResolve, github, plan, builds
<1>2. ASSUME NEW p \in reaping, ReapClose(p[1], p[2]) PROVE Claim(i, n)
  BY <1>2 DEF TypeOK, Claim, ReapClose, plan, builds
<1>3. ASSUME NEW p \in reaping, ReapRaises(p[1], p[2]) PROVE Claim(i, n)
  BY <1>3 DEF Claim, ReapRaises, github, plan, builds
<1> QED  BY <1>1, <1>2, <1>3 DEF Reap

\* Starting a drain, or failing to, claims nothing.
LEMMA StartClaims ==
    ASSUME TypeOK, OtherKick \/ Start,
           NEW i \in Issues, NEW n \in Nat, Claim(i, n)'
    PROVE  Claim(i, n)
  BY DEF Claim, OtherKick, Start, KickRuns, KickBusy, SweepRuns, github, plan,
         builds, stores

\* The drain claims what it opens, and the row takes the claim over.
LEMMA DrainClaims ==
    ASSUME TypeOK, Drain, NEW i \in Issues, NEW n \in Nat, Claim(i, n)'
    PROVE  Claim(i, n) \/ GivesNumber(i, n)
<1>1. CASE List \/ Gate \/ SnapshotHeads \/ SnapshotBranches \/ Select
  BY <1>1 DEF Claim, List, Gate, SnapshotHeads, SnapshotBranches, Select,
              github, builds, stores
<1>2. ASSUME NEW j \in stranded, RecoverCreate(j)
      PROVE  Claim(i, n) \/ GivesNumber(i, n)
  <2>1. j \in Issues /\ CreatePr(j)
    BY <1>2 DEF TypeOK, RecoverCreate
  <2>2. CASE pr'[i] = n
    BY <2>1, <2>2, OpenClaims DEF Claim
  <2>3. CASE pr'[i] # n
    <3>1. <<i, n>> \notin opening'
      BY <1>2, <2>3 DEF RecoverCreate
    <3> QED  BY <1>2, <2>3, <3>1 DEF Claim, RecoverCreate, builds, stores
  <2> QED  BY <2>2, <2>3
<1>3. ASSUME NEW p \in opening, RecoverRecord(p[1], p[2]) PROVE Claim(i, n)
  <2>1. p = <<p[1], p[2]>> /\ p[1] \in Issues
    BY DEF TypeOK
  <2>2. mapped'[i] = IF i = p[1] THEN p[2] ELSE mapped[i]
    BY <1>3, <2>1 DEF TypeOK, RecoverRecord, RecordPr
  <2> QED  BY <1>3, <2>1, <2>2 DEF Claim, RecoverRecord, github, builds
<1>4. CASE DrainEnds \/ \E j \in stranded : RecoverRefused(j)
  BY <1>4 DEF Claim, DrainEnds, RecoverRefused, LeaveDrain, github, builds
<1>5. ASSUME NEW j \in stranded,
             \/ RecoverFound(j) \/ RecoverNone(j) \/ RecoverSync(j)
             \/ RecoverMissing(j)
      PROVE  Claim(i, n)
  BY <1>5 DEF Claim, RecoverFound, RecoverNone, RecoverSync, RecoverMissing,
              github, plan, builds, stores
<1>6. CASE DrainRaises
  <2>1. mapped'[i] = mapped[i] \/ <<i, mapped'[i]>> \in opening
    <3>1. ASSUME NEW p \in opening, mapped' = [mapped EXCEPT ![p[1]] = p[2]]
          PROVE  mapped'[i] = mapped[i] \/ <<i, mapped'[i]>> \in opening
      <4>1. p = <<p[1], p[2]>>
        BY DEF TypeOK
      <4> QED  BY <3>1, <4>1 DEF TypeOK
    <3> QED  BY <1>6, <3>1 DEF DrainRaises
  <2> QED  BY <1>6, <2>1 DEF Claim, DrainRaises, LeaveDrain, github, builds
<1> QED  BY <1>1, <1>2, <1>3, <1>4, <1>5, <1>6 DEF Drain

\* So does a build.
LEMMA BuildClaims ==
    ASSUME TypeOK, NEW t \in Tasks, Build(t),
           NEW i \in Issues, NEW n \in Nat, Claim(i, n)'
    PROVE  Claim(i, n) \/ GivesNumber(i, n)
<1>1. t[1] \in Issues
  BY DEF Tasks
<1>2. CASE \/ MeterAdmits(t) \/ BuildGreen(t) \/ Report(t)
           \/ Review(t, "cleared") \/ Review(t, "blocked")
           \/ OpenNone(t) \/ OpenSync(t)
  BY <1>2 DEF Claim, MeterAdmits, BuildGreen, Report, Review, OpenNone,
              OpenSync, github, plan, stores
<1>3. CASE \/ MeterDeclines(t) \/ BuildRed(t) \/ Escalate(t)
           \/ StagingMissing(t)
  BY <1>3, ReturnDrops DEF Claim, MeterDeclines, BuildRed, Escalate,
                           StagingMissing, github
<1>4. CASE PushRejected(t) \/ OpenRefused(t)
  BY <1>4, ReturnDrops DEF Claim, PushRejected, OpenRefused, github
<1>5. CASE OpenFound(t)
  <2>1. \A u \in Tasks : u[1] = i /\ held'[u] = n => held[u] = n \/ pr[i] = n
    BY <1>5 DEF TypeOK, OpenFound
  <2> QED  BY <1>5, <2>1 DEF Claim, OpenFound, github, plan, stores
<1>6. CASE OpenCreate(t)
  <2>1. CASE pr'[i] = n
    BY <1>1, <1>6, <2>1, OpenClaims DEF Claim, OpenCreate
  <2>2. CASE pr'[i] # n
    <3>1. \A u \in Tasks : u[1] = i /\ held'[u] = n => held[u] = n
      BY <1>6, <2>2 DEF TypeOK, OpenCreate
    <3> QED  BY <1>6, <2>2, <3>1 DEF Claim, OpenCreate, plan, stores
  <2> QED  BY <2>1, <2>2
<1>7. CASE RecordOpened(t)
  <2>1. mapped'[i] = IF i = t[1] THEN held[t] ELSE mapped[i]
    BY <1>1, <1>7 DEF TypeOK, RecordOpened, RecordPr
  <2> QED  BY <1>7, <2>1, ReturnDrops DEF Claim, RecordOpened, github
<1>8. CASE TaskRaises(t)
  <2>1. mapped'[i] = mapped[i] \/ (i = t[1] /\ mapped'[i] = held[t])
    BY <1>1, <1>8 DEF TypeOK, TaskRaises
  <2> QED  BY <1>8, <2>1, ReturnDrops DEF Claim, TaskRaises
<1> QED  BY <1>2, <1>3, <1>4, <1>5, <1>6, <1>7, <1>8 DEF Build

\* A timeout or a crash drops claims.
LEMMA WorkerClaims ==
    ASSUME TypeOK, JobTimeout \/ Crash,
           NEW i \in Issues, NEW n \in Nat, Claim(i, n)'
    PROVE  Claim(i, n)
<1>1. \A u \in Tasks : held'[u] \in {0, held[u]}
  BY DEF JobTimeout, Crash, Cancelled
<1> QED  BY <1>1 DEF Claim, JobTimeout, Crash, LeaveDrain, github

\* So a claim is an older claim, or GitHub has just given the number.
LEMMA ClaimsSpread ==
    ASSUME TypeOK, [Next]_vars, NEW i \in Issues, NEW n \in Nat, Claim(i, n)'
    PROVE  Claim(i, n) \/ GivesNumber(i, n)
<1>1. CASE UNCHANGED vars
  BY <1>1 DEF Claim, vars, github, plan, builds, stores
<1> QED  BY <1>1, HumanClaims, ReapClaims, StartClaims, DrainClaims,
            BuildClaims, WorkerClaims DEF Next

-----------------------------------------------------------------------------
(* The other steps of the argument. *)

\* A queued reap names a PR just merged, or one a reap had in hand when the
\* worker crashed.
LEMMA ReapsStep ==
    ASSUME TypeOK, [Next]_vars, NEW n \in reaps'
    PROVE  \/ n \in reaps
           \/ \E j \in Issues : Merge(j) /\ n = pr[j] /\ n # 0
           \/ \E p \in reaping : n = p[2]
<1>1. ASSUME NEW j \in Issues, Human(j)
      PROVE  n \in reaps \/ (Merge(j) /\ n = pr[j] /\ n # 0)
  BY <1>1 DEF Human, Trigger, Resume, Merge, Dismiss, Conflict, stores
<1>2. CASE Reap
  BY <1>2 DEF Reap, ReapResolve, ReapClose, ReapRaises
<1>3. CASE OtherKick \/ Start
  BY <1>3 DEF OtherKick, Start, KickRuns, KickBusy, SweepRuns, stores
<1>4. CASE Drain
  BY <1>4 DEF Drain, List, Gate, SnapshotHeads, SnapshotBranches,
              RecoverFound, RecoverNone, RecoverSync, RecoverCreate,
              RecoverMissing, RecoverRefused, RecoverRecord, DrainRaises,
              Select, DrainEnds, stores
<1>5. ASSUME NEW t \in Tasks, Build(t) PROVE n \in reaps
  BY <1>5 DEF Build, MeterDeclines, MeterAdmits, BuildRed, BuildGreen,
              PushRejected, Report, Review, Escalate, OpenFound, OpenNone,
              OpenSync, OpenCreate, OpenRefused, RecordOpened, StagingMissing,
              TaskRaises, stores
<1>6. CASE JobTimeout \/ Crash
  BY <1>6 DEF JobTimeout, Crash
<1>7. CASE UNCHANGED vars
  BY <1>7 DEF vars, stores
<1> QED  BY <1>1, <1>2, <1>3, <1>4, <1>5, <1>6, <1>7 DEF Next

\* A reap in hand resolved a queued number through a row that holds it.
LEMMA ReapingStep ==
    ASSUME TypeOK, [Next]_vars, NEW p \in reaping'
    PROVE  \/ p \in reaping
           \/ \E i \in Issues : p[1] = i /\ p[2] \in reaps /\ mapped[i] = p[2]
<1>1. ASSUME NEW j \in Issues, Human(j) PROVE p \in reaping
  BY <1>1 DEF Human, Trigger, Resume, Merge, Dismiss, Conflict, stores
<1>2. CASE Reap
  <2>1. ASSUME NEW n \in reaps, ReapResolve(n)
        PROVE  \/ p \in reaping
               \/ \E i \in Issues :
                      p[1] = i /\ p[2] \in reaps /\ mapped[i] = p[2]
    BY <2>1 DEF ReapResolve
  <2> QED  BY <1>2, <2>1 DEF Reap, ReapClose, ReapRaises
<1>3. CASE OtherKick \/ Start
  BY <1>3 DEF OtherKick, Start, KickRuns, KickBusy, SweepRuns, stores
<1>4. CASE Drain
  BY <1>4 DEF Drain, List, Gate, SnapshotHeads, SnapshotBranches,
              RecoverFound, RecoverNone, RecoverSync, RecoverCreate,
              RecoverMissing, RecoverRefused, RecoverRecord, DrainRaises,
              Select, DrainEnds, stores
<1>5. ASSUME NEW t \in Tasks, Build(t) PROVE p \in reaping
  BY <1>5 DEF Build, MeterDeclines, MeterAdmits, BuildRed, BuildGreen,
              PushRejected, Report, Review, Escalate, OpenFound, OpenNone,
              OpenSync, OpenCreate, OpenRefused, RecordOpened, StagingMissing,
              TaskRaises, stores
<1>6. CASE JobTimeout \/ Crash
  BY <1>6 DEF JobTimeout, Crash
<1>7. CASE UNCHANGED vars
  BY <1>7 DEF vars, stores
<1> QED  BY <1>1, <1>2, <1>3, <1>4, <1>5, <1>6, <1>7 DEF Next

\* Faults are counted and never forgotten.
LEMMA FaultsCounted ==
    ASSUME TypeOK, [Next]_vars
    PROVE  mishaps' = mishaps \/ mishaps' = mishaps + 1
<1> USE DEF Mishap
<1>1. ASSUME NEW j \in Issues, Human(j)
      PROVE  mishaps' = mishaps \/ mishaps' = mishaps + 1
  BY <1>1 DEF Human, Trigger, Resume, Merge, Dismiss, Conflict, history
<1>2. CASE Reap \/ OtherKick \/ Start
  BY <1>2 DEF Reap, ReapResolve, ReapClose, ReapRaises, OtherKick, Start,
              KickRuns, KickBusy, SweepRuns, history
<1>3. CASE Drain
  BY <1>3 DEF Drain, List, Gate, SnapshotHeads, SnapshotBranches,
              RecoverFound, RecoverNone, RecoverSync, RecoverCreate,
              RecoverMissing, RecoverRefused, RecoverRecord, DrainRaises,
              Select, DrainEnds, history
<1>4. ASSUME NEW t \in Tasks, Build(t)
      PROVE  mishaps' = mishaps \/ mishaps' = mishaps + 1
  BY <1>4 DEF Build, MeterDeclines, MeterAdmits, BuildRed, BuildGreen,
              PushRejected, Report, Review, Escalate, OpenFound, OpenNone,
              OpenSync, OpenCreate, OpenRefused, RecordOpened, StagingMissing,
              TaskRaises, history
<1>5. CASE JobTimeout \/ Crash
  BY <1>5 DEF JobTimeout, Crash
<1>6. CASE UNCHANGED vars
  BY <1>6 DEF vars, history
<1> QED  BY <1>1, <1>2, <1>3, <1>4, <1>5, <1>6 DEF Next

\* Merges stay merged, PR numbers grow, closed issues stay closed, and only a
\* human or a reap closes one.
LEMMA HistoryStep ==
    ASSUME TypeOK, [Next]_vars
    PROVE  /\ merged \subseteq merged' /\ dismissed \subseteq dismissed'
           /\ lastPr <= lastPr' /\ open' \subseteq open
           /\ \A i \in open \ open' :
                  i \in dismissed' \/ \E p \in reaping : i = p[1]
<1> USE DEF TypeOK
<1>1. ASSUME NEW j \in Issues, CreatePr(j) PROVE lastPr <= lastPr'
  BY <1>1 DEF CreatePr
<1>2. ASSUME NEW j \in Issues, Human(j)
      PROVE  /\ merged \subseteq merged' /\ dismissed \subseteq dismissed'
             /\ lastPr' = lastPr /\ open' \subseteq open
             /\ open \ open' \subseteq dismissed'
  BY <1>2 DEF Human, Trigger, Resume, Merge, Dismiss, Conflict
<1>3. CASE Reap
  <2>1. /\ merged' = merged /\ dismissed' = dismissed
        /\ lastPr' = lastPr /\ open' \subseteq open
    BY <1>3 DEF Reap, ReapResolve, ReapClose, ReapRaises, github
  <2>2. ASSUME NEW i \in open \ open' PROVE \E p \in reaping : i = p[1]
    <3>1. ASSUME NEW p \in reaping, ReapClose(p[1], p[2]) PROVE i = p[1]
      BY <3>1 DEF ReapClose
    <3>2. ASSUME NEW p \in reaping, ReapRaises(p[1], p[2]) PROVE FALSE
      BY <3>2 DEF ReapRaises, github
    <3>3. ASSUME NEW n \in reaps, ReapResolve(n) PROVE FALSE
      BY <3>3 DEF ReapResolve, github
    <3> QED  BY <1>3, <3>1, <3>2, <3>3 DEF Reap
  <2> QED  BY <2>1, <2>2
<1>4. CASE OtherKick \/ Start
  BY <1>4 DEF OtherKick, Start, KickRuns, KickBusy, SweepRuns, github
<1>5. CASE Drain
  <2>1. merged' = merged /\ dismissed' = dismissed /\ open' = open
    BY <1>5 DEF Drain, List, Gate, SnapshotHeads, SnapshotBranches,
                RecoverFound, RecoverNone, RecoverSync, RecoverCreate,
                RecoverMissing, RecoverRefused, RecoverRecord,
                DrainRaises, Select, DrainEnds, github
  <2>2. ASSUME NEW j \in stranded, RecoverCreate(j) PROVE lastPr <= lastPr'
    BY <2>2, <1>1 DEF RecoverCreate
  <2>3. ASSUME NEW j \in stranded,
               \/ RecoverFound(j) \/ RecoverNone(j) \/ RecoverSync(j)
               \/ RecoverMissing(j) \/ RecoverRefused(j)
        PROVE  lastPr' = lastPr
    BY <2>3 DEF RecoverFound, RecoverNone, RecoverSync, RecoverMissing,
                RecoverRefused, github
  <2>4. ASSUME NEW p \in opening, RecoverRecord(p[1], p[2])
        PROVE  lastPr' = lastPr
    BY <2>4 DEF RecoverRecord, github
  <2>5. CASE \/ List \/ Gate \/ SnapshotHeads \/ SnapshotBranches
             \/ DrainRaises \/ Select \/ DrainEnds
    BY <2>5 DEF List, Gate, SnapshotHeads, SnapshotBranches, DrainRaises,
                Select, DrainEnds, github
  <2>6. lastPr <= lastPr'
    BY <1>5, <2>2, <2>3, <2>4, <2>5 DEF Drain
  <2> QED  BY <2>1, <2>6
<1>6. ASSUME NEW t \in Tasks, Build(t)
      PROVE  /\ merged' = merged /\ dismissed' = dismissed
             /\ open' = open /\ lastPr <= lastPr'
  <2>1. CASE OpenCreate(t)
    BY <2>1, <1>1 DEF OpenCreate, Tasks
  <2> QED  BY <1>6, <2>1
           DEF Build, MeterDeclines, MeterAdmits, BuildRed, BuildGreen,
               PushRejected, Report, Review, Escalate, OpenFound, OpenNone,
               OpenSync, OpenRefused, RecordOpened, StagingMissing, TaskRaises,
               github
<1>7. CASE JobTimeout \/ Crash
  BY <1>7 DEF JobTimeout, Crash, github
<1>8. CASE UNCHANGED vars
  BY <1>8 DEF vars, github
<1> QED  BY <1>2, <1>3, <1>4, <1>5, <1>6, <1>7, <1>8 DEF Next

-----------------------------------------------------------------------------
(* The invariant of the merges. *)

ClaimsGiven == \A i \in Issues, n \in Nat : Claim(i, n) => n <= lastPr
OneIssuePerPr ==
    \A i, j \in Issues, n \in Nat : Claim(i, n) /\ Claim(j, n) => i = j
ReapsMerged ==
    \A n \in reaps : /\ n # 0 /\ n <= lastPr
                     /\ \A i \in Issues : Claim(i, n) => i \in merged
ReapingMerged == \A p \in reaping : p[1] \in merged /\ p[2] # 0

MergeInv ==
    /\ ClaimsGiven /\ OneIssuePerPr /\ ReapsMerged /\ ReapingMerged
    /\ ClosedWasMerged

\* MergeInv starts out true ...
LEMMA InitMergeInv == Init => MergeInv
  BY DEF Init, MergeInv, ClaimsGiven, OneIssuePerPr, ReapsMerged,
         ReapingMerged, ClosedWasMerged, Claim

\* ... and every step keeps it.
LEMMA NextMergeInv ==
    ASSUME TypeOK, TypeOK', MergeInv, [Next]_vars PROVE MergeInv'
<1>1. ClaimsGiven'
  <2> SUFFICES ASSUME NEW i \in Issues, NEW n \in Nat, Claim(i, n)'
               PROVE  n <= lastPr'
    BY DEF ClaimsGiven
  <2>1. lastPr \in Nat /\ lastPr' \in Nat /\ lastPr <= lastPr'
    BY HistoryStep DEF TypeOK
  <2>2. Claim(i, n) \/ GivesNumber(i, n)
    BY ClaimsSpread
  <2>3. CASE Claim(i, n)
    BY <2>1, <2>3 DEF MergeInv, ClaimsGiven
  <2> QED  BY <2>1, <2>2, <2>3 DEF GivesNumber
<1>2. ASSUME NEW i \in Issues, NEW j \in Issues, NEW n \in Nat,
             GivesNumber(i, n), Claim(j, n) \/ GivesNumber(j, n)
      PROVE  i = j
  <2>1. n = lastPr + 1 /\ lastPr \in Nat
    BY <1>2 DEF GivesNumber, TypeOK
  <2>2. \A k \in Issues : ~Claim(k, n)
    BY <2>1 DEF MergeInv, ClaimsGiven
  <2>3. pr'[i] = n /\ (i # j => pr'[i] = pr[i])
    BY <1>2, <2>2 DEF GivesNumber, TypeOK
  <2>4. i # j => Claim(i, n)
    BY <2>1, <2>3 DEF Claim
  <2> QED  BY <2>2, <2>4
<1>3. OneIssuePerPr'
  <2> SUFFICES ASSUME NEW i \in Issues, NEW j \in Issues, NEW n \in Nat,
                      Claim(i, n)', Claim(j, n)'
               PROVE  i = j
    BY DEF OneIssuePerPr
  <2>1. /\ Claim(i, n) \/ GivesNumber(i, n)
        /\ Claim(j, n) \/ GivesNumber(j, n)
    BY ClaimsSpread
  <2> QED  BY <2>1, <1>2 DEF MergeInv, OneIssuePerPr
<1>4. ReapsMerged'
  <2> SUFFICES ASSUME NEW n \in reaps'
               PROVE  /\ n # 0 /\ n <= lastPr'
                      /\ \A i \in Issues : Claim(i, n)' => i \in merged'
    BY DEF ReapsMerged
  <2>1. lastPr \in Nat /\ lastPr' \in Nat /\ lastPr <= lastPr' /\ n \in Nat
        /\ merged \subseteq merged'
    BY HistoryStep DEF TypeOK
  <2>2. CASE n \in reaps
    <3>1. n # 0 /\ n <= lastPr
      BY <2>2 DEF MergeInv, ReapsMerged
    <3>2. ASSUME NEW i \in Issues, Claim(i, n)' PROVE i \in merged'
      <4>1. ~GivesNumber(i, n)
        BY <2>1, <3>1 DEF GivesNumber
      <4> QED  BY <2>1, <2>2, <3>2, <4>1, ClaimsSpread DEF MergeInv,
                                                           ReapsMerged
    <3> QED  BY <2>1, <3>1, <3>2
  <2>3. ASSUME NEW j \in Issues, Claim(j, n), j \in merged'
        PROVE  /\ n # 0 /\ n <= lastPr'
               /\ \A i \in Issues : Claim(i, n)' => i \in merged'
    <3>1. n # 0 /\ n <= lastPr
      BY <2>1, <2>3 DEF MergeInv, ClaimsGiven, Claim
    <3>2. ASSUME NEW i \in Issues, Claim(i, n)' PROVE i \in merged'
      <4>1. ~GivesNumber(i, n)
        BY <2>1, <3>1 DEF GivesNumber
      <4>2. i = j
        BY <2>1, <2>3, <3>2, <4>1, ClaimsSpread DEF MergeInv, OneIssuePerPr
      <4> QED  BY <2>3, <4>2
    <3> QED  BY <2>1, <3>1, <3>2
  <2>4. ASSUME NEW j \in Issues, Merge(j), n = pr[j], n # 0
        PROVE  Claim(j, n) /\ j \in merged'
    BY <2>4 DEF Claim, Merge
  <2>5. ASSUME NEW p \in reaping, n = p[2]
        PROVE  p[1] \in Issues /\ Claim(p[1], n) /\ p[1] \in merged'
    <3>1. p[1] \in Issues /\ p = <<p[1], p[2]>>
      BY DEF TypeOK
    <3>2. p[1] \in merged /\ p[2] # 0
      BY DEF MergeInv, ReapingMerged
    <3> QED  BY <2>1, <2>5, <3>1, <3>2 DEF Claim
  <2> QED  BY <2>2, <2>3, <2>4, <2>5, ReapsStep
<1>5. ReapingMerged'
  <2> SUFFICES ASSUME NEW p \in reaping'
               PROVE  p[1] \in merged' /\ p[2] # 0
    BY DEF ReapingMerged
  <2>1. merged \subseteq merged'
    BY HistoryStep
  <2>2. CASE p \in reaping
    BY <2>1, <2>2 DEF MergeInv, ReapingMerged
  <2>3. ASSUME NEW i \in Issues, p[1] = i, p[2] \in reaps, mapped[i] = p[2]
        PROVE  p[1] \in merged' /\ p[2] # 0
    <3>1. p[2] # 0 /\ Claim(i, p[2])
      BY <2>3 DEF MergeInv, ReapsMerged, Claim
    <3> QED  BY <2>1, <2>3, <3>1 DEF MergeInv, ReapsMerged
  <2> QED  BY <2>2, <2>3, ReapingStep
<1>6. ClosedWasMerged'
  <2> SUFFICES ASSUME NEW i \in Issues, i \notin open'
               PROVE  i \in merged' \cup dismissed'
    BY DEF ClosedWasMerged
  <2>1. CASE i \notin open
    BY <2>1, HistoryStep DEF MergeInv, ClosedWasMerged
  <2>2. CASE i \in open
    BY <2>2, HistoryStep DEF MergeInv, ReapingMerged
  <2> QED  BY <2>1, <2>2
<1> QED  BY <1>1, <1>3, <1>4, <1>5, <1>6 DEF MergeInv

\* Whatever fails, every PR number names one issue wherever it is written.
THEOREM MergesResolve == Spec => []MergeInv
  BY InitMergeInv, NextMergeInv, LaneTyped, PTL DEF Spec

\* handoff.py's reap never closes an issue whose own PR was not merged: an
\* issue found closed was merged, or closed by a human.
THEOREM ReapRight == Spec => []ClosedWasMerged
<1>1. MergeInv => ClosedWasMerged
  BY DEF MergeInv
<1> QED  BY <1>1, MergesResolve, PTL

-----------------------------------------------------------------------------
(* Blocked work. *)

\* Whatever a step other than the drain's own does to the plan is to drop it.
PlanDropped ==
    \/ UNCHANGED <<stage, ready, buildable>>
    \/ ready' = {} /\ buildable' = {}

\* Only the drain adds to its plan; the other steps keep or drop it.
LEMMA PlanStep ==
    ASSUME TypeOK, [Next]_vars, ~Drain,
           ~KickRuns, ~SweepRuns
    PROVE  PlanDropped
<1> USE DEF PlanDropped
<1>1. ASSUME NEW j \in Issues, Human(j) PROVE PlanDropped
  BY <1>1 DEF Human, Trigger, Resume, Merge, Dismiss, Conflict, plan
<1>2. CASE Reap \/ OtherKick \/ Start
  BY <1>2 DEF Reap, ReapResolve, ReapClose, ReapRaises, OtherKick, Start,
              KickBusy, plan
<1>3. ASSUME NEW t \in Tasks, Returns(t) \/ Raises(t) PROVE PlanDropped
  BY <1>3 DEF Returns, Raises, LeaveDrain, plan
<1>4. ASSUME NEW t \in Tasks, Build(t) PROVE PlanDropped
  BY <1>3, <1>4
     DEF Build, MeterDeclines, MeterAdmits, BuildRed, BuildGreen, PushRejected,
         Report, Review, Escalate, OpenFound, OpenNone, OpenSync, OpenCreate,
         OpenRefused, RecordOpened, StagingMissing, TaskRaises, plan
<1>5. CASE JobTimeout \/ Crash
  BY <1>5 DEF JobTimeout, Crash, LeaveDrain
<1>6. CASE UNCHANGED vars
  BY <1>6 DEF vars, plan
<1> QED  BY <1>1, <1>2, <1>4, <1>5, <1>6 DEF Next

\* Only a drain's selection starts builds.
LEMMA TasksStep ==
    ASSUME TypeOK, [Next]_vars, NEW t \in Tasks, Alive(t)'
    PROVE  Alive(t) \/ (Select /\ t \in gathered')
<1> USE DEF Alive, TypeOK
<1>1. ASSUME NEW j \in Issues, Human(j) PROVE Alive(t)
  BY <1>1 DEF Human, Trigger, Resume, Merge, Dismiss, Conflict, builds
<1>2. CASE Reap \/ OtherKick \/ Start
  BY <1>2 DEF Reap, ReapResolve, ReapClose, ReapRaises, OtherKick, Start,
              KickRuns, KickBusy, SweepRuns, builds
<1>3. CASE Drain
  <2>1. CASE Select
    BY <2>1 DEF Select
  <2>2. CASE ~Select
    BY <1>3, <2>2
       DEF Drain, List, Gate, SnapshotHeads, SnapshotBranches, RecoverFound,
           RecoverNone, RecoverSync, RecoverCreate, RecoverMissing,
           RecoverRefused, RecoverRecord, DrainRaises, DrainEnds, builds
  <2> QED  BY <2>1, <2>2
<1>4. ASSUME NEW u \in Tasks, Returns(u) \/ Raises(u) PROVE Alive(t)
  BY <1>4 DEF Returns, Raises
<1>5. ASSUME NEW u \in Tasks, NEW st, task[u] # "none", Stores(u, st)
      PROVE  Alive(t)
  BY <1>5 DEF Stores
<1>6. ASSUME NEW u \in Tasks, Build(u) PROVE Alive(t)
  BY <1>4, <1>5, <1>6
     DEF Build, MeterDeclines, MeterAdmits, BuildRed, BuildGreen, PushRejected,
         Report, Review, Escalate, OpenFound, OpenNone, OpenSync, OpenCreate,
         OpenRefused, RecordOpened, StagingMissing, TaskRaises
<1>7. CASE JobTimeout \/ Crash
  BY <1>7 DEF JobTimeout, Crash, Cancelled
<1>8. CASE UNCHANGED vars
  BY <1>8 DEF vars, builds
<1> QED  BY <1>1, <1>2, <1>3, <1>6, <1>7, <1>8 DEF Next

\* What a drain starts, it had found buildable.
LEMMA SelectStarts ==
    ASSUME TypeOK, Select, NEW t \in gathered'
    PROVE  /\ t[1] \in buildable /\ task[t] = "none"
           /\ t = FreshTask(t[1]) /\ t[1] \in Selected
<1>1. PICK i \in Selected : t = FreshTask(i)
  BY DEF Select
<1>2. i \in buildable /\ i \in Issues
  BY SelectedBuildable DEF TypeOK
<1> QED  BY <1>1, <1>2, FreshTyped DEF Select

-----------------------------------------------------------------------------
\* No blocker that was looked up is open: the body's always are, the native
\* ones unless a lookup failed.
Unblocked(i) ==
    /\ (BodyBlockersOf[i] \ {i}) \cap open = {}
    /\ mishaps = 0 => BlockersOf(i) \cap open = {}

BlockersInv ==
    /\ stage \in {"heads", "branches"} => \A i \in ready : Unblocked(i)
    /\ \A i \in buildable : Unblocked(i)
    /\ BuildAfterBlockersClosed

\* BlockersInv starts out true ...
LEMMA InitBlockersInv == Init => BlockersInv
  BY DEF Init, BlockersInv, BuildAfterBlockersClosed, Alive

\* ... and every step keeps it.
LEMMA NextBlockersInv ==
    ASSUME TypeOK, BlockersInv, [Next]_vars PROVE BlockersInv'
<1>1. ASSUME NEW i, Unblocked(i) PROVE Unblocked(i)'
  <2>1. open' \subseteq open /\ (mishaps' = 0 => mishaps = 0)
    BY HistoryStep, FaultsCounted DEF TypeOK
  <2> QED  BY <1>1, <2>1 DEF Unblocked
<1>2. ASSUME NEW t \in Tasks, Alive(t)' PROVE Unblocked(t[1])'
  <2>1. CASE Alive(t)
    BY <1>1, <2>1 DEF BlockersInv, BuildAfterBlockersClosed, Unblocked
  <2>2. CASE Select /\ t \in gathered'
    BY <1>1, <2>2, SelectStarts DEF BlockersInv
  <2> QED  BY <1>2, <2>1, <2>2, TasksStep
<1>3. /\ stage' \in {"heads", "branches"} => \A i \in ready' : Unblocked(i)'
      /\ \A i \in buildable' : Unblocked(i)'
  <2>1. CASE ~Drain /\ ~KickRuns /\ ~SweepRuns
    BY <1>1, <2>1, PlanStep DEF PlanDropped, BlockersInv
  <2>2. CASE KickRuns \/ SweepRuns
    BY <1>1, <2>2 DEF KickRuns, SweepRuns, plan, BlockersInv
  <2>3. CASE Gate
    <3>1. PICK failed \in SUBSET ready, unread \in SUBSET Issues :
            /\ failed \cup unread # {} => Mishap
            /\ ready' = {i \in ready :
                          BlockersRead(i, failed) \cap (open \cup unread) = {}}
      BY <2>3 DEF Gate
    <3>2. ASSUME NEW i \in ready' PROVE Unblocked(i)'
      <4>1. (BodyBlockersOf[i] \ {i}) \cap open = {}
        BY <3>1 DEF BlockersRead, BlockersOf
      <4>2. mishaps' = 0 => BlockersOf(i) \cap open = {}
        BY <3>1 DEF BlockersRead, Mishap, TypeOK
      <4> QED  BY <4>1, <4>2, HistoryStep DEF Unblocked
    <3>3. buildable' = buildable
      BY <2>3 DEF Gate
    <3> QED  BY <1>1, <3>2, <3>3 DEF BlockersInv
  <2>4. CASE List
    BY <1>1, <2>4 DEF List, BlockersInv
  <2>5. CASE SnapshotHeads
    BY <1>1, <2>5 DEF SnapshotHeads, BlockersInv
  <2>6. CASE SnapshotBranches
    BY <1>1, <2>6 DEF SnapshotBranches, BlockersInv
  <2>7. CASE Select \/ DrainEnds \/ DrainRaises
    BY <2>7 DEF Select, DrainEnds, DrainRaises, LeaveDrain
  <2>8. ASSUME NEW i \in stranded,
               \/ RecoverFound(i) \/ RecoverNone(i) \/ RecoverSync(i)
               \/ RecoverCreate(i) \/ RecoverMissing(i) \/ RecoverRefused(i)
        PROVE  \/ /\ UNCHANGED <<ready, buildable>>
                  /\ stage' = stage \/ stage' \in {"sync", "create", "recover"}
               \/ ready' = {} /\ buildable' = {}
    BY <2>8 DEF RecoverFound, RecoverNone, RecoverSync, RecoverCreate,
                RecoverMissing, RecoverRefused, LeaveDrain, plan
  <2>9. ASSUME NEW p \in opening, RecoverRecord(p[1], p[2])
        PROVE  UNCHANGED <<stage, ready, buildable>>
    BY <2>9 DEF RecoverRecord
  <2> QED  BY <1>1, <2>1, <2>2, <2>3, <2>4, <2>5, <2>6, <2>7, <2>8, <2>9
           DEF Drain, BlockersInv
<1> QED  BY <1>2, <1>3 DEF BlockersInv, BuildAfterBlockersClosed, Unblocked

\* readiness.py: whatever fails, and however stale the drain's view, an issue
\* is built only once every blocker its body names was closed; and with no
\* fault, every native one too.
THEOREM BlockersClosedFirst == Spec => []BuildAfterBlockersClosed
<1>1. BlockersInv => BuildAfterBlockersClosed
  BY DEF BlockersInv
<1> QED  BY <1>1, InitBlockersInv, NextBlockersInv, LaneTyped, PTL DEF Spec

-----------------------------------------------------------------------------
(***************************************************************************)
(* Whatever fails, the lane implements IssueLife: every step of the drain, *)
(* its builds, the reap, the humans and the faults is a step of an issue's *)
(* life, or nothing GitHub shows.                                          *)
(*                                                                         *)
(* Three facts carry the argument: builds follow their blockers' closing   *)
(* and the reap closes merged issues (above), and the lane only ever       *)
(* handles issues that were asked for (AskedInv below).                    *)
(***************************************************************************)

\* All that the drain plans with, all that is built and all that is on origin
\* was triggered once.
AskedInv ==
    /\ ready \subseteq triggered /\ stranded \subseteq triggered
    /\ buildable \subseteq triggered /\ pushed \subseteq triggered
    /\ \A t \in Tasks : Alive(t) => t[1] \in triggered

\* A step shows on GitHub only as a step of an issue's life.
Shown == Life!Next \/ UNCHANGED Life!vars

-----------------------------------------------------------------------------
(* AskedInv. *)

\* The trigger label stays: no one takes it off.
LEMMA TriggerStays ==
    ASSUME TypeOK, [Next]_vars PROVE triggered \subseteq triggered'
<1>1. ASSUME NEW i \in Issues, Human(i) PROVE triggered \subseteq triggered'
  BY <1>1 DEF Human, Trigger, Resume, Merge, Dismiss, Conflict
<1>2. CASE Reap \/ OtherKick \/ Start
  BY <1>2 DEF Reap, ReapResolve, ReapClose, ReapRaises, OtherKick, Start,
              KickRuns, KickBusy, SweepRuns, github
<1>3. CASE Drain
  BY <1>3 DEF Drain, List, Gate, SnapshotHeads, SnapshotBranches,
              RecoverFound, RecoverNone, RecoverSync, RecoverCreate,
              RecoverMissing, RecoverRefused, RecoverRecord, DrainRaises,
              Select, DrainEnds, github
<1>4. ASSUME NEW t \in Tasks, Build(t) PROVE triggered \subseteq triggered'
  BY <1>4 DEF Build, MeterDeclines, MeterAdmits, BuildRed, BuildGreen,
              PushRejected, Report, Review, Escalate, OpenFound, OpenNone,
              OpenSync, OpenCreate, OpenRefused, RecordOpened, StagingMissing,
              TaskRaises, github
<1>5. CASE JobTimeout \/ Crash \/ UNCHANGED vars
  BY <1>5 DEF JobTimeout, Crash, vars, github
<1> QED  BY <1>1, <1>2, <1>3, <1>4, <1>5 DEF Next

\* A branch is pushed by a build of its issue.
LEMMA BranchesStep ==
    ASSUME TypeOK, [Next]_vars, NEW i \in pushed'
    PROVE  i \in pushed \/ \E t \in Tasks : Alive(t) /\ t[1] = i
<1>1. ASSUME NEW j \in Issues, Human(j) PROVE i \in pushed
  BY <1>1 DEF Human, Trigger, Resume, Merge, Dismiss, Conflict
<1>2. CASE Reap \/ OtherKick \/ Start
  BY <1>2 DEF Reap, ReapResolve, ReapClose, ReapRaises, OtherKick, Start,
              KickRuns, KickBusy, SweepRuns, github
<1>3. CASE Drain
  BY <1>3 DEF Drain, List, Gate, SnapshotHeads, SnapshotBranches,
              RecoverFound, RecoverNone, RecoverSync, RecoverCreate,
              RecoverMissing, RecoverRefused, RecoverRecord, DrainRaises,
              Select, DrainEnds, github
<1>4. ASSUME NEW t \in Tasks, Build(t)
      PROVE  i \in pushed \/ (Alive(t) /\ t[1] = i)
  BY <1>4 DEF Build, MeterDeclines, MeterAdmits, BuildRed, BuildGreen,
              PushRejected, Report, Review, Escalate, OpenFound, OpenNone,
              OpenSync, OpenCreate, OpenRefused, RecordOpened, StagingMissing,
              TaskRaises, github, Alive
<1>5. CASE JobTimeout \/ Crash \/ UNCHANGED vars
  BY <1>5 DEF JobTimeout, Crash, vars, github
<1> QED  BY <1>1, <1>2, <1>3, <1>4, <1>5 DEF Next

\* A drain plans with what it listed: issues that wear the trigger label.
LEMMA PlansAsked ==
    ASSUME TypeOK, AskedInv, [Next]_vars
    PROVE  ready' \cup stranded' \cup buildable' \subseteq triggered
<1> DEFINE Kept == ready' \cup stranded' \cup buildable' \subseteq
                       ready \cup stranded \cup buildable
<1>1. ASSUME NEW j \in Issues, Human(j) PROVE Kept
  BY <1>1 DEF Human, Trigger, Resume, Merge, Dismiss, Conflict, plan
<1>2. ASSUME Reap \/ OtherKick \/ Start PROVE Kept
  BY <1>2 DEF Reap, ReapResolve, ReapClose, ReapRaises, OtherKick, Start,
              KickRuns, KickBusy, SweepRuns, plan
<1>3. CASE List
  BY <1>3 DEF List, Page, AskedInv
<1>4. ASSUME Gate \/ SnapshotHeads \/ SnapshotBranches PROVE Kept
  BY <1>4 DEF Gate, SnapshotHeads, SnapshotBranches
<1>5. ASSUME NEW j \in stranded,
             \/ RecoverFound(j) \/ RecoverNone(j) \/ RecoverSync(j)
             \/ RecoverCreate(j) \/ RecoverMissing(j) \/ RecoverRefused(j)
      PROVE  Kept
  BY <1>5 DEF RecoverFound, RecoverNone, RecoverSync, RecoverCreate,
              RecoverMissing, RecoverRefused, LeaveDrain, plan
<1>6. ASSUME NEW p \in opening, RecoverRecord(p[1], p[2]) PROVE Kept
  BY <1>6 DEF RecoverRecord
<1>7. ASSUME Select \/ DrainEnds \/ DrainRaises PROVE Kept
  BY <1>7 DEF Select, DrainEnds, DrainRaises, LeaveDrain
<1>8. ASSUME NEW t \in Tasks, Returns(t) \/ Raises(t) PROVE Kept
  BY <1>8 DEF Returns, Raises, LeaveDrain, plan
<1>9. ASSUME NEW t \in Tasks, Build(t) PROVE Kept
  BY <1>8, <1>9
     DEF Build, MeterDeclines, MeterAdmits, BuildRed, BuildGreen, PushRejected,
         Report, Review, Escalate, OpenFound, OpenNone, OpenSync, OpenCreate,
         OpenRefused, RecordOpened, StagingMissing, TaskRaises, plan
<1>10. ASSUME JobTimeout \/ Crash \/ UNCHANGED vars PROVE Kept
  BY <1>10 DEF JobTimeout, Crash, LeaveDrain, vars, plan
<1>11. ASSUME Drain, ~List PROVE Kept
  BY <1>4, <1>5, <1>6, <1>7, <1>11 DEF Drain
<1> QED  BY <1>1, <1>2, <1>3, <1>9, <1>10, <1>11 DEF Next, AskedInv

\* AskedInv starts out true ...
LEMMA InitAskedInv == Init => AskedInv
  BY DEF Init, AskedInv, Alive

\* ... and every step keeps it.
LEMMA NextAskedInv ==
    ASSUME TypeOK, AskedInv, [Next]_vars PROVE AskedInv'
<1>1. triggered \subseteq triggered'
  BY TriggerStays
<1>2. pushed' \subseteq triggered
  BY BranchesStep DEF AskedInv
<1>3. ASSUME NEW t \in Tasks, Alive(t)' PROVE t[1] \in triggered
  BY <1>3, TasksStep, SelectStarts DEF AskedInv
<1> QED  BY <1>1, <1>2, <1>3, PlansAsked DEF AskedInv

-----------------------------------------------------------------------------
(* The steps. *)

\* What leaves GitHub alone does not show.
LEMMA UnseenStep == ASSUME UNCHANGED github PROVE Shown
  BY DEF github, Shown, Life!vars

\* Creating the PR of an asked-for issue's branch is an Offer.
LEMMA OfferShown ==
    ASSUME TypeOK, NEW i \in triggered, CreatePr(i),
           UNCHANGED <<open, triggered, hitl, pushed, merged, dismissed>>
    PROVE  Shown
<1>1. i \in Issues /\ lastPr + 1 # 0 /\ pr' = [pr EXCEPT ![i] = lastPr + 1]
  BY DEF CreatePr, TypeOK
<1>2. {j \in Issues : pr'[j] # 0} = {j \in Issues : pr[j] # 0} \cup {i}
  BY <1>1 DEF TypeOK
<1>3. Life!Offer(i)
  BY <1>2 DEF CreatePr, Life!Offer
<1> QED  BY <1>1, <1>3 DEF Shown, Life!Next

\* Putting hitl on an asked-for issue is an Escalate, unless it is there.
LEMMA EscalateShown ==
    ASSUME TypeOK, NEW i \in triggered, hitl' \in {hitl, hitl \cup {i}},
           UNCHANGED <<open, triggered, pr, pushed, merged, dismissed>>
    PROVE  Shown
<1> i \in Issues
  BY DEF TypeOK
<1>1. CASE hitl' = hitl
  BY <1>1 DEF Shown, Life!vars
<1>2. CASE hitl' # hitl
  <2>1. Life!Escalate(i)
    BY <1>2 DEF Life!Escalate
  <2> QED  BY <2>1 DEF Shown, Life!Next
<1> QED  BY <1>1, <1>2

\* Humans act on the life of an issue itself.
LEMMA HumanShown == ASSUME TypeOK, NEW i \in Issues, Human(i) PROVE Shown
<1>1. CASE Trigger(i)
  <2>1. Life!Ask(i)
    BY <1>1 DEF Trigger, Life!Ask
  <2> QED  BY <2>1 DEF Shown, Life!Next
<1>2. CASE Resume(i)
  <2>1. Life!Resume(i)
    BY <1>2 DEF Resume, Life!Resume
  <2> QED  BY <2>1 DEF Shown, Life!Next
<1>3. CASE Merge(i)
  <2>1. pr[i] # 0 /\ pr' = [pr EXCEPT ![i] = 0]
    BY <1>3 DEF Merge
  <2>2. {j \in Issues : pr'[j] # 0} = {j \in Issues : pr[j] # 0} \ {i}
    BY <2>1 DEF TypeOK
  <2>3. Life!Merge(i)
    BY <1>3, <2>1, <2>2 DEF Merge, Life!Merge
  <2> QED  BY <2>3 DEF Shown, Life!Next
<1>4. CASE Dismiss(i)
  <2>1. Issues \ open' = (Issues \ open) \cup {i}
    BY <1>4 DEF Dismiss, TypeOK
  <2>2. Life!Dismiss(i)
    BY <1>4, <2>1 DEF Dismiss, Life!Dismiss
  <2> QED  BY <2>2 DEF Shown, Life!Next
<1>5. CASE Conflict(i)
  BY <1>5 DEF Conflict, Shown, Life!vars
<1> QED  BY <1>1, <1>2, <1>3, <1>4, <1>5 DEF Human

\* The reap closes what was merged.
LEMMA ReapShown == ASSUME TypeOK, MergeInv, Reap PROVE Shown
<1>1. ASSUME NEW n \in reaps, ReapResolve(n) PROVE Shown
  BY <1>1, UnseenStep DEF ReapResolve
<1>2. ASSUME NEW p \in reaping, ReapRaises(p[1], p[2]) PROVE Shown
  BY <1>2, UnseenStep DEF ReapRaises
<1>3. ASSUME NEW p \in reaping, ReapClose(p[1], p[2]) PROVE Shown
  <2>1. p[1] \in merged /\ p[1] \in Issues
    BY DEF MergeInv, ReapingMerged, TypeOK
  <2>2. CASE p[1] \in open
    <3>1. Issues \ open' = (Issues \ open) \cup {p[1]}
      BY <1>3, <2>1, <2>2 DEF ReapClose, TypeOK
    <3>2. Life!Close(p[1])
      BY <1>3, <2>1, <2>2, <3>1 DEF ReapClose, Life!Close
    <3> QED  BY <2>1, <3>2 DEF Shown, Life!Next
  <2>3. CASE p[1] \notin open
    BY <1>3, <2>3 DEF ReapClose, Shown, Life!vars
  <2> QED  BY <2>2, <2>3
<1> QED  BY <1>1, <1>2, <1>3 DEF Reap

\* The drain opens PRs for stranded branches, or escalates them.
LEMMA DrainShown == ASSUME TypeOK, AskedInv, Drain PROVE Shown
<1>1. ASSUME NEW i \in stranded, RecoverCreate(i) PROVE Shown
  BY <1>1, OfferShown DEF RecoverCreate, AskedInv
<1>2. ASSUME NEW i \in stranded, RecoverMissing(i) PROVE Shown
  BY <1>2, EscalateShown DEF RecoverMissing, AskedInv
<1>3. ASSUME NEW i \in stranded,
             \/ RecoverFound(i) \/ RecoverNone(i) \/ RecoverSync(i)
             \/ RecoverRefused(i)
      PROVE  Shown
  BY <1>3, UnseenStep DEF RecoverFound, RecoverNone, RecoverSync,
                          RecoverRefused
<1>4. ASSUME NEW p \in opening, RecoverRecord(p[1], p[2]) PROVE Shown
  BY <1>4, UnseenStep DEF RecoverRecord
<1>5. CASE \/ List \/ Gate \/ SnapshotHeads \/ SnapshotBranches
           \/ DrainRaises \/ Select \/ DrainEnds
  BY <1>5, UnseenStep
     DEF List, Gate, SnapshotHeads, SnapshotBranches, DrainRaises, Select,
         DrainEnds
<1> QED  BY <1>1, <1>2, <1>3, <1>4, <1>5 DEF Drain

\* A build pushes a branch, opens a PR or escalates, after its blockers.
LEMMA BuildShown ==
    ASSUME TypeOK, AskedInv, BuildAfterBlockersClosed,
           NEW t \in Tasks, Build(t)
    PROVE  Shown
<1>1. CASE BuildGreen(t)
  <2>1. t[1] \in Issues /\ t[1] \in triggered
        /\ BodyBlockersOf[t[1]] \ {t[1]} \subseteq Issues \ open
    BY <1>1, LaneAssumption
       DEF BuildGreen, Alive, AskedInv, BuildAfterBlockersClosed, Tasks
  <2>2. Life!Build(t[1])
    BY <1>1, <2>1 DEF BuildGreen, Life!Build
  <2> QED  BY <2>1, <2>2 DEF Shown, Life!Next
<1>2. CASE OpenCreate(t)
  BY <1>2, OfferShown DEF OpenCreate, Alive, AskedInv
<1>3. CASE Escalate(t) \/ StagingMissing(t) \/ TaskRaises(t)
  <2>1. t[1] \in triggered
    BY <1>3 DEF Escalate, StagingMissing, TaskRaises, Alive, AskedInv
  <2>2. hitl' \in {hitl, hitl \cup {t[1]}}
        /\ UNCHANGED <<open, triggered, pr, pushed, merged, dismissed>>
    BY <1>3 DEF Escalate, StagingMissing, TaskRaises
  <2> QED  BY <2>1, <2>2, EscalateShown
<1>4. CASE \/ MeterDeclines(t) \/ MeterAdmits(t) \/ BuildRed(t)
           \/ PushRejected(t) \/ Report(t) \/ OpenFound(t) \/ OpenNone(t)
           \/ OpenSync(t) \/ OpenRefused(t) \/ RecordOpened(t)
  BY <1>4, UnseenStep
     DEF MeterDeclines, MeterAdmits, BuildRed, PushRejected, Report,
         OpenFound, OpenNone, OpenSync, OpenRefused, RecordOpened
<1>5. ASSUME NEW v, Review(t, v) PROVE Shown
  BY <1>5, UnseenStep DEF Review
<1> QED  BY <1>1, <1>2, <1>3, <1>4, <1>5 DEF Build

\* Every step of the lane is one of an issue's life, or does not show.
LEMMA NextShown ==
    ASSUME TypeOK, MergeInv, AskedInv, BuildAfterBlockersClosed, [Next]_vars
    PROVE  Shown
<1>1. CASE OtherKick \/ Start
  BY <1>1, UnseenStep DEF OtherKick, Start, KickRuns, KickBusy, SweepRuns
<1>2. CASE JobTimeout \/ Crash \/ UNCHANGED vars
  BY <1>2, UnseenStep DEF JobTimeout, Crash, vars
<1> QED  BY <1>1, <1>2, HumanShown, ReapShown, DrainShown, BuildShown DEF Next

\* The lane starts as IssueLife does.
LEMMA InitShown == Init => Life!Init
  BY DEF Init, Life!Init

\* Every issue the lane ever touches is one that was triggered.
LEMMA HandlesAsked == Spec => []AskedInv
  BY InitAskedInv, NextAskedInv, LaneTyped, PTL DEF Spec

\* adhoc_drain.py, pipeline.py and handoff.py together: whatever fails, and
\* however stale the drain's view, GitHub sees the life of an issue that
\* IssueLife lays out.
THEOREM LivesKept == Spec => LivesAsPromised
<1>1. TypeOK /\ MergeInv /\ AskedInv /\ BuildAfterBlockersClosed /\ [Next]_vars
          => [Life!Next]_(Life!vars)
  BY NextShown DEF Shown
<1> QED  BY <1>1, InitShown, LaneTyped, MergesResolve, HandlesAsked,
            BlockersClosedFirst, PTL DEF Spec, LivesAsPromised, Life!Spec

-----------------------------------------------------------------------------
(***************************************************************************)
(* What the scheduler lane keeps while no call fails, no job times out and *)
(* the worker does not crash: one build per issue, and a PR only for code  *)
(* the review gate cleared or a human let through.                         *)
(*                                                                         *)
(* Neither is inductive.  That an open PR is reviewed rests on what the    *)
(* drain may recover: a branch without a PR and without a build is one the *)
(* gate cleared, or of an issue that wears hitl; that rests on every build *)
(* being gathered by the running drain, so that no branch the snapshot     *)
(* finds is still under review; and that on one build per issue.           *)
(***************************************************************************)

\* The gate cleared the branch's code (or its PR was merged), or a human lifted
\* the issue's escalation.
Reviewed(i) == verdict[i] \in {"cleared", "landed"} \/ i \in resumed

\* Every build is awaited by the drain, which does nothing else meanwhile.
NoOrphans == \A t \in Tasks : Alive(t) => t \in gathered
GatherAlone == gathered # {} => stage = "gather"
OnePerGather == \A t, u \in gathered : t[1] = u[1] => t = u

\* A drain's plan lives in the stages that use it.
PlanStages ==
    /\ ready # {} => stage \in {"gate", "heads", "branches"}
    /\ stranded \cup buildable # {} =>
           stage \in {"recover", "sync", "create"}

\* Escalated issues are neither planned nor built.
HitlExcluded ==
    /\ (ready \cup stranded \cup buildable) \cap hitl = {}
    /\ \A t \in Tasks : Alive(t) => t[1] \notin hitl

\* What a drain may build has no branch, and so has a build until it pushes.
BuildableAbsent == buildable \cap pushed = {}
BranchAbsent ==
    \A t \in Tasks : task[t] \in {"meter", "build"} =>
        t[1] \notin pushed /\ pr[t[1]] = 0

\* Between its push and its PR a build has a branch, no PR, and the verdict
\* its state implies.
Cleared == {"open", "sync", "create"}
UnderReview == {"report", "review", "escalate"} \cup Cleared

BranchUnderReview ==
    \A t \in Tasks :
        /\ task[t] \in UnderReview => t[1] \in pushed /\ pr[t[1]] = 0
        /\ task[t] \in Cleared => verdict[t[1]] = "cleared"
        /\ task[t] = "record" => Reviewed(t[1])

PrReviewed == \A i \in Issues : pr[i] # 0 => i \in pushed /\ Reviewed(i)

\* Nobody opens the PR the recovery has looked for and is about to create.
RecoveryUnseen ==
    stage \in {"sync", "create"} =>
        \A i \in stranded : Recovering(i) => pr[i] = 0

\* A branch nobody is building was reviewed, or waits for a human.
IdleBranchReviewed ==
    \A i \in pushed : \/ \E t \in Tasks : t[1] = i /\ Alive(t)
                      \/ Reviewed(i)
                      \/ i \in hitl

CalmInv ==
    /\ conflicted = {}
    /\ NoOrphans /\ GatherAlone /\ OnePerGather
    /\ PlanStages /\ HitlExcluded
    /\ BuildableAbsent /\ BranchAbsent /\ BranchUnderReview
    /\ PrReviewed /\ IdleBranchReviewed /\ RecoveryUnseen

\* What CalmInv speaks of.
calm == <<hitl, pushed, pr, stage, ready, stranded, buildable, opening, task,
          gathered, verdict, resumed, conflicted>>

-----------------------------------------------------------------------------
\* A step that touches nothing CalmInv speaks of keeps it.
LEMMA CalmStutter == CalmInv /\ UNCHANGED calm => CalmInv'
  BY DEF calm, CalmInv, NoOrphans, GatherAlone, OnePerGather, PlanStages,
         HitlExcluded, BuildableAbsent, BranchAbsent, BranchUnderReview,
         PrReviewed, IdleBranchReviewed, RecoveryUnseen, Recovering, Reviewed,
         Alive

\* While the drain plans, no build is alive.
LEMMA PlanningAlone ==
    ASSUME CalmInv, stage # "gather"
    PROVE  gathered = {} /\ \A t \in Tasks : task[t] = "none"
  BY DEF CalmInv, NoOrphans, GatherAlone, Alive

\* Humans: lifting an escalation marks the issue resumed; a merge leaves the
\* branch landed or deleted.
LEMMA HumanCalm ==
    ASSUME TypeOK, CalmInv, NEW i \in Issues, Human(i), ~Conflict(i)
    PROVE  CalmInv'
<1> USE DEF TypeOK, CalmInv
<1>1. CASE Trigger(i) \/ Dismiss(i)
  BY <1>1, CalmStutter DEF Trigger, Dismiss, calm, plan, builds, history
<1>2. CASE Resume(i)
  <2>1. /\ hitl' = hitl \ {i} /\ resumed' = resumed \cup {i}
        /\ UNCHANGED <<pushed, pr, verdict, stage, ready, stranded, buildable,
                       opening, task, gathered, conflicted>>
    BY <1>2 DEF Resume, plan, builds
  <2>2. \A j \in Issues : Reviewed(j) => Reviewed(j)'
    BY <2>1 DEF Reviewed
  <2>3. (NoOrphans /\ GatherAlone /\ OnePerGather /\ PlanStages
          /\ BuildableAbsent /\ BranchAbsent /\ RecoveryUnseen)'
    BY <2>1 DEF NoOrphans, GatherAlone, OnePerGather, PlanStages,
                BuildableAbsent, BranchAbsent, RecoveryUnseen, Recovering,
                Alive
  <2>4. HitlExcluded'
    BY <2>1 DEF HitlExcluded, Alive
  <2>5. (BranchUnderReview /\ PrReviewed)'
    BY <2>1, <2>2 DEF BranchUnderReview, PrReviewed, Tasks
  <2>6. IdleBranchReviewed'
    BY <2>1, <2>2 DEF IdleBranchReviewed, Alive, Reviewed
  <2> QED  BY <2>1, <2>3, <2>4, <2>5, <2>6
<1>3. CASE Merge(i)
  <2>1. /\ pr[i] # 0 /\ pr' = [pr EXCEPT ![i] = 0]
        /\ \/ pushed' = pushed \ {i} /\ verdict' = verdict
           \/ pushed' = pushed /\ verdict' = [verdict EXCEPT ![i] = "landed"]
        /\ conflicted' = {}
        /\ UNCHANGED <<hitl, resumed, stage, ready, stranded, buildable,
                       opening, task, gathered>>
    BY <1>3 DEF Merge, plan, builds
  <2>2. \A j \in Issues : Reviewed(j) => Reviewed(j)'
    BY <2>1 DEF Reviewed
  <2>3. (NoOrphans /\ GatherAlone /\ OnePerGather /\ PlanStages
          /\ HitlExcluded /\ RecoveryUnseen)'
    BY <2>1 DEF NoOrphans, GatherAlone, OnePerGather, PlanStages,
                HitlExcluded, RecoveryUnseen, Recovering, Alive
  <2>4. (BuildableAbsent /\ BranchAbsent)'
    BY <2>1 DEF BuildableAbsent, BranchAbsent, Tasks
  <2>5. \A t \in Tasks : task[t] \in UnderReview => t[1] # i
    BY <2>1 DEF BranchUnderReview
  <2>6. BranchUnderReview'
    BY <2>1, <2>2, <2>5 DEF BranchUnderReview, UnderReview, Cleared, Tasks
  <2>7. PrReviewed'
    BY <2>1, <2>2 DEF PrReviewed
  <2>8. IdleBranchReviewed'
    BY <2>1, <2>2 DEF IdleBranchReviewed, Alive
  <2> QED  BY <2>1, <2>3, <2>4, <2>6, <2>7, <2>8
<1> QED  BY <1>1, <1>2, <1>3 DEF Human

\* The reap and the webhook are such steps.
LEMMA ReapCalm ==
    ASSUME TypeOK, CalmInv, Reap \/ OtherKick PROVE CalmInv'
  BY CalmStutter
     DEF Reap, ReapResolve, ReapClose, ReapRaises, OtherKick, calm, github,
         plan, builds, history

\* A drain starts with an empty plan, or a kick is dropped.
LEMMA StartCalm == ASSUME TypeOK, CalmInv, Start PROVE CalmInv'
<1>1. CASE KickBusy
  BY <1>1, CalmStutter DEF KickBusy, calm, github, plan, builds, history
<1>2. CASE KickRuns \/ SweepRuns
  <2>1. /\ stage = "idle" /\ stage' = "list"
        /\ UNCHANGED <<hitl, pushed, pr, ready, stranded, buildable, task,
                       gathered, verdict, resumed, conflicted>>
    BY <1>2 DEF KickRuns, SweepRuns, github, plan, builds, history
  <2>2. (NoOrphans /\ GatherAlone /\ OnePerGather)'
    BY <2>1 DEF CalmInv, NoOrphans, GatherAlone, OnePerGather, Alive
  <2>3. (PlanStages /\ HitlExcluded /\ RecoveryUnseen)'
    BY <2>1 DEF CalmInv, PlanStages, HitlExcluded, RecoveryUnseen, Alive
  <2>4. (BuildableAbsent /\ BranchAbsent /\ BranchUnderReview)'
    BY <2>1 DEF CalmInv, BuildableAbsent, BranchAbsent, BranchUnderReview,
                Reviewed
  <2>5. (PrReviewed /\ IdleBranchReviewed)'
    BY <2>1 DEF CalmInv, PrReviewed, IdleBranchReviewed, Reviewed, Alive
  <2> QED  BY <2>1, <2>2, <2>3, <2>4, <2>5 DEF CalmInv
<1> QED  BY <1>1, <1>2 DEF Start

-----------------------------------------------------------------------------
(* The drain. *)

\* A planning step changes the plan and the stage only.
Planning ==
    /\ stage # "gather"
    /\ UNCHANGED <<hitl, pushed, pr, task, gathered, verdict, resumed,
                   conflicted>>

\* A planning step that keeps the branches, the PRs and the builds only has
\* to keep what CalmInv says of the plan.
LEMMA PlanningCalm ==
    ASSUME CalmInv, Planning, PlanStages', BuildableAbsent', RecoveryUnseen',
           (ready \cup stranded \cup buildable)' \cap hitl = {}
    PROVE  CalmInv'
<1>1. gathered' = {} /\ \A t \in Tasks : task'[t] = "none"
  BY PlanningAlone DEF Planning
<1>2. (NoOrphans /\ GatherAlone /\ OnePerGather /\ BranchAbsent
        /\ BranchUnderReview)'
  BY <1>1 DEF NoOrphans, GatherAlone, OnePerGather, BranchAbsent,
              BranchUnderReview, UnderReview, Cleared, Alive
<1>3. HitlExcluded'
  BY <1>1 DEF HitlExcluded, Alive, Planning
<1>4. (PrReviewed /\ IdleBranchReviewed)'
  BY DEF Planning, CalmInv, PrReviewed, IdleBranchReviewed, Reviewed, Alive
<1> QED  BY <1>2, <1>3, <1>4 DEF CalmInv, Planning

\* The listing, the gate and the snapshot: no build is alive, so a branch the
\* snapshot misses stays missing.
LEMMA SnapshotCalm ==
    ASSUME TypeOK, CalmInv,
           List \/ Gate \/ SnapshotHeads \/ SnapshotBranches
    PROVE  CalmInv'
<1>1. Planning
  BY DEF Planning, List, Gate, SnapshotHeads, SnapshotBranches, github, builds,
         history
<1>2. stage \notin {"gate", "heads", "branches"} => ready = {}
  BY DEF CalmInv, PlanStages
<1>3. stage \notin {"recover", "sync", "create"} =>
        stranded = {} /\ buildable = {}
  BY DEF CalmInv, PlanStages
<1>4. (PlanStages /\ RecoveryUnseen)'
  BY <1>3 DEF PlanStages, RecoveryUnseen, List, Gate, SnapshotHeads,
              SnapshotBranches
<1>5. BuildableAbsent'
  BY <1>1, <1>3 DEF BuildableAbsent, Planning, List, Gate, SnapshotHeads,
                    SnapshotBranches
<1>6. (ready \cup stranded \cup buildable)' \cap hitl = {}
  BY <1>3 DEF CalmInv, HitlExcluded, List, Page, Gate, SnapshotHeads,
              SnapshotBranches
<1> QED  BY <1>1, <1>4, <1>5, <1>6, PlanningCalm

\* A drain that is not gathering, or has nothing left to gather, may end.
LEMMA LeaveCalm ==
    ASSUME CalmInv, LeaveDrain, gathered = {},
           UNCHANGED <<hitl, pushed, pr, task, gathered, verdict, resumed,
                       conflicted>>
    PROVE  CalmInv'
<1>1. \A t \in Tasks : task'[t] = "none"
  BY DEF CalmInv, NoOrphans, Alive
<1>2. /\ stage' = "idle" /\ ready' = {} /\ stranded' = {} /\ buildable' = {}
      /\ gathered' = {}
  BY DEF LeaveDrain
<1>3. (NoOrphans /\ GatherAlone /\ OnePerGather /\ PlanStages /\ HitlExcluded
        /\ BuildableAbsent /\ BranchAbsent /\ BranchUnderReview
        /\ RecoveryUnseen)'
  BY <1>1, <1>2 DEF NoOrphans, GatherAlone, OnePerGather, PlanStages,
     HitlExcluded, BuildableAbsent, BranchAbsent, BranchUnderReview,
     UnderReview, Cleared, RecoveryUnseen, Alive
<1>4. (PrReviewed /\ IdleBranchReviewed)'
  BY DEF CalmInv, PrReviewed, IdleBranchReviewed, Reviewed, Alive
<1>5. conflicted' = {}
  BY DEF CalmInv
<1> QED  BY <1>3, <1>4, <1>5 DEF CalmInv

\* A drain ends with nothing left to await.
LEMMA EndCalm ==
    ASSUME CalmInv, DrainEnds \/ \E i \in stranded : RecoverRefused(i)
    PROVE  CalmInv'
<1>1. gathered = {}
  BY PlanningAlone DEF DrainEnds, RecoverRefused, Recovering
<1>2. LeaveDrain
  BY DEF DrainEnds, RecoverRefused
<1>3. UNCHANGED <<hitl, pushed, pr, task, gathered, verdict, resumed,
                  conflicted>>
  BY DEF DrainEnds, RecoverRefused, github, builds, history
<1> QED  BY <1>1, <1>2, <1>3, LeaveCalm

\* The recovery looks for a PR of its branch before it creates one.
LEMMA LookCalm ==
    ASSUME TypeOK, CalmInv, NEW i \in stranded,
           RecoverFound(i) \/ RecoverNone(i) \/ RecoverSync(i)
    PROVE  CalmInv'
<1>1. /\ Recovering(i) /\ Planning /\ stage' \in {"recover", "sync", "create"}
      /\ UNCHANGED <<ready, stranded, buildable>>
  BY DEF RecoverFound, RecoverNone, RecoverSync, Recovering, Planning, github,
         plan, builds, history
<1>2. PlanStages'
  BY <1>1 DEF CalmInv, PlanStages, Recovering
<1>3. BuildableAbsent'
  BY <1>1 DEF CalmInv, BuildableAbsent, Planning
<1>4. (ready \cup stranded \cup buildable)' \cap hitl = {}
  BY <1>1 DEF CalmInv, HitlExcluded
<1>5. RecoveryUnseen'
  <2>1. CASE RecoverFound(i)
    BY <2>1 DEF RecoveryUnseen, RecoverFound
  <2>2. CASE RecoverNone(i)
    <3>1. \A j \in stranded : j <= i /\ i <= j => j = i
      BY LaneAssumption DEF TypeOK
    <3>2. pr'[i] = 0 /\ stranded' = stranded
      BY <2>2 DEF RecoverNone, github, plan
    <3>3. \A j \in stranded : Recovering(j)' => j = i
      BY <1>1, <3>1, <3>2 DEF Recovering
    <3> QED  BY <3>2, <3>3 DEF RecoveryUnseen
  <2>3. CASE RecoverSync(i)
    <3>1. /\ RecoveryUnseen /\ stage = "sync"
          /\ UNCHANGED <<pr, stranded, opening>>
      BY <2>3 DEF CalmInv, RecoverSync, github, plan
    <3> QED  BY <3>1 DEF RecoveryUnseen, Recovering
  <2> QED  BY <2>1, <2>2, <2>3
<1> QED  BY <1>1, <1>2, <1>3, <1>4, <1>5, PlanningCalm

\* The recovery opens the PR of a branch nobody is building and no human owes
\* an answer on: one the gate cleared.
LEMMA RecoverCalm ==
    ASSUME TypeOK, CalmInv, NEW i \in stranded, RecoverCreate(i)
    PROVE  CalmInv' /\ Reviewed(i) /\ i \notin hitl
<1>1. /\ stage = "create" /\ stage' = "recover" /\ i \in pushed /\ i \in Issues
      /\ \A j \in Issues : j # i => pr'[j] = pr[j]
      /\ UNCHANGED <<hitl, pushed, ready, stranded, buildable, task, gathered,
                     verdict, resumed, conflicted>>
  BY DEF TypeOK, RecoverCreate, Recovering, CreatePr, builds, history
<1>2. i \notin hitl
  BY DEF CalmInv, HitlExcluded
<1>3. gathered = {} /\ \A t \in Tasks : task[t] = "none"
  BY <1>1, PlanningAlone
<1>4. Reviewed(i)
  BY <1>1, <1>2, <1>3 DEF CalmInv, IdleBranchReviewed, Alive
<1>5. (NoOrphans /\ GatherAlone /\ OnePerGather /\ PlanStages /\ HitlExcluded
        /\ BuildableAbsent /\ RecoveryUnseen)'
  BY <1>1, <1>3 DEF CalmInv, NoOrphans, GatherAlone, OnePerGather, PlanStages,
     HitlExcluded, BuildableAbsent, RecoveryUnseen, Alive
<1>6. (BranchAbsent /\ BranchUnderReview)'
  BY <1>1, <1>3 DEF BranchAbsent, BranchUnderReview, UnderReview, Cleared
<1>7. (PrReviewed /\ IdleBranchReviewed)'
  BY <1>1, <1>4 DEF CalmInv, PrReviewed, IdleBranchReviewed, Reviewed, Alive
<1> QED  BY <1>1, <1>2, <1>4, <1>5, <1>6, <1>7 DEF CalmInv

\* Recording a recovered PR shortens the plan.
LEMMA RecordCalm ==
    ASSUME TypeOK, CalmInv, NEW p \in opening, RecoverRecord(p[1], p[2])
    PROVE  CalmInv'
<1>1. Planning
  BY DEF Planning, RecoverRecord, github, builds, history
<1>2. /\ stage' = stage /\ ready' = ready /\ buildable' = buildable
      /\ stranded' \subseteq stranded /\ pushed' = pushed
  BY DEF RecoverRecord, github
<1>3. (PlanStages /\ BuildableAbsent /\ RecoveryUnseen)'
  BY <1>2 DEF CalmInv, PlanStages, BuildableAbsent, RecoveryUnseen,
              RecoverRecord
<1>4. (ready \cup stranded \cup buildable)' \cap hitl = {}
  BY <1>2 DEF CalmInv, HitlExcluded
<1> QED  BY <1>1, <1>3, <1>4, PlanningCalm

\* Selection starts one fresh build of each chosen issue.
LEMMA SelectCalm == ASSUME TypeOK, CalmInv, Select PROVE CalmInv'
<1>1. /\ stage = "recover" /\ stage' = "gather" /\ stranded' = {}
      /\ buildable' = {} /\ ready' = ready
      /\ UNCHANGED <<hitl, pushed, pr, verdict, resumed, conflicted>>
  BY DEF Select, github, history
<1>2. ready = {}
  BY <1>1 DEF CalmInv, PlanStages
<1>3. \A t \in Tasks : task[t] = "none"
  BY <1>1, PlanningAlone
<1>4. \A t \in Tasks : task'[t] = IF t \in gathered' THEN "meter" ELSE "none"
  BY <1>3 DEF Select
<1>5. \A t \in gathered' : t[1] \in buildable /\ t = FreshTask(t[1])
  BY SelectStarts
<1>6. (NoOrphans /\ GatherAlone /\ OnePerGather /\ PlanStages
        /\ RecoveryUnseen)'
  BY <1>1, <1>2, <1>4, <1>5
     DEF NoOrphans, GatherAlone, OnePerGather, PlanStages, RecoveryUnseen,
         Alive
<1>7. (HitlExcluded /\ BuildableAbsent)'
  BY <1>1, <1>2, <1>4, <1>5
     DEF CalmInv, HitlExcluded, BuildableAbsent, Alive
<1>8. \A t \in gathered' : t[1] \notin pushed /\ pr[t[1]] = 0
  BY <1>5 DEF TypeOK, CalmInv, BuildableAbsent, PrReviewed
<1>9. (BranchAbsent /\ BranchUnderReview)'
  BY <1>1, <1>4, <1>8 DEF BranchAbsent, BranchUnderReview, UnderReview, Cleared
<1>10. (PrReviewed /\ IdleBranchReviewed)'
  BY <1>1, <1>3 DEF CalmInv, PrReviewed, IdleBranchReviewed, Reviewed, Alive
<1> QED  BY <1>1, <1>6, <1>7, <1>9, <1>10 DEF CalmInv

\* The drain as a whole.
LEMMA DrainCalm ==
    ASSUME TypeOK, CalmInv, Drain, mishaps' = mishaps PROVE CalmInv'
<1>1. ~Mishap
  BY DEF Mishap, TypeOK
<1> QED  BY <1>1, SnapshotCalm, EndCalm, LookCalm, RecoverCalm, RecordCalm,
            SelectCalm
         DEF Drain, DrainRaises, RecoverMissing

-----------------------------------------------------------------------------
(* The builds. *)

\* A build alive is gathered, alone on its issue, and the drain plans nothing.
LEMMA BuildAlone ==
    ASSUME CalmInv, NEW t \in Tasks, task[t] # "none"
    PROVE  /\ t \in gathered /\ t[1] \notin hitl
           /\ \A u \in Tasks : task[u] # "none" /\ u[1] = t[1] => u = t
           /\ ready = {} /\ stranded = {} /\ buildable = {}
           /\ stage = "gather"
<1>1. t \in gathered /\ stage = "gather"
  BY DEF CalmInv, NoOrphans, GatherAlone, Alive
<1> QED  BY <1>1 DEF CalmInv, NoOrphans, OnePerGather, PlanStages,
                     HitlExcluded, Alive

\* A build goes on to state s, touching its own issue's branch only.
LEMMA MoveCalm ==
    ASSUME TypeOK, CalmInv,
           NEW t \in Tasks, task[t] # "none",
           NEW s \in TaskStates \ {"none"}, Stores(t, s),
           UNCHANGED <<hitl, stage, ready, stranded, buildable, gathered,
                       conflicted>>,
           \A i \in Issues \ {t[1]} :
               /\ i \in pushed' <=> i \in pushed
               /\ i \in resumed' <=> i \in resumed
               /\ pr'[i] = pr[i] /\ verdict'[i] = verdict[i],
           pushed' \subseteq Issues,
           s \in {"meter", "build"} => t[1] \notin pushed' /\ pr'[t[1]] = 0,
           s \in UnderReview => t[1] \in pushed' /\ pr'[t[1]] = 0,
           s \in Cleared => verdict'[t[1]] = "cleared",
           s = "record" => Reviewed(t[1])',
           pr'[t[1]] # 0 => t[1] \in pushed' /\ Reviewed(t[1])'
    PROVE  CalmInv'
<1>1. \A u \in Tasks : task'[u] = IF u = t THEN s ELSE task[u]
  BY DEF TypeOK, Stores
<1>2. \A u \in Tasks : task[u] # "none" /\ u # t => u[1] \in Issues \ {t[1]}
  BY BuildAlone DEF Tasks
<1>3. \A i \in Issues \ {t[1]} : Reviewed(i)' <=> Reviewed(i)
  BY DEF Reviewed
<1>4. (NoOrphans /\ GatherAlone /\ OnePerGather /\ PlanStages /\ HitlExcluded
        /\ BuildableAbsent /\ RecoveryUnseen)'
  BY <1>1, BuildAlone
     DEF CalmInv, NoOrphans, GatherAlone, OnePerGather, PlanStages,
         HitlExcluded, BuildableAbsent, RecoveryUnseen, Alive
<1>5. BranchAbsent'
  BY <1>1, <1>2 DEF CalmInv, BranchAbsent
<1>6. BranchUnderReview'
  <2> SUFFICES ASSUME NEW u \in Tasks
               PROVE  /\ task'[u] \in UnderReview =>
                             u[1] \in pushed' /\ pr'[u[1]] = 0
                      /\ task'[u] \in Cleared => verdict'[u[1]] = "cleared"
                      /\ task'[u] = "record" => Reviewed(u[1])'
    BY DEF BranchUnderReview, UnderReview, Cleared
  <2>1. CASE u = t
    BY <1>1, <2>1
  <2>2. CASE u # t
    BY <1>1, <1>2, <1>3, <2>2
       DEF CalmInv, BranchUnderReview, UnderReview, Cleared
  <2> QED  BY <2>1, <2>2
<1>7. PrReviewed'
  BY <1>3 DEF CalmInv, PrReviewed
<1>8. IdleBranchReviewed'
  <2> SUFFICES ASSUME NEW i \in pushed'
               PROVE  \/ \E u \in Tasks : u[1] = i /\ task'[u] # "none"
                      \/ Reviewed(i)' \/ i \in hitl
    BY DEF IdleBranchReviewed, Alive
  <2>1. CASE i = t[1]
    BY <1>1, <2>1
  <2>2. CASE i # t[1]
    <3>1. i \in Issues \ {t[1]} /\ i \in pushed
      BY <2>2
    <3> QED  BY <1>1, <1>3, <3>1 DEF CalmInv, IdleBranchReviewed, Alive
  <2> QED  BY <2>1, <2>2
<1>9. conflicted' = {}
  BY DEF CalmInv
<1> QED  BY <1>4, <1>5, <1>6, <1>7, <1>8, <1>9 DEF CalmInv

\* A build returns: its branch, if it has one, was reviewed or awaits a human.
LEMMA ReturnCalm ==
    ASSUME TypeOK, CalmInv, NEW t \in Tasks, task[t] # "none", Returns(t),
           UNCHANGED <<pushed, pr, verdict, resumed, conflicted>>,
           hitl' = hitl \/ hitl' = hitl \cup {t[1]},
           t[1] \in pushed => Reviewed(t[1]) \/ t[1] \in hitl'
    PROVE  CalmInv'
<1>1. /\ \A u \in Tasks : task'[u] = IF u = t THEN "none" ELSE task[u]
      /\ gathered' = gathered \ {t}
      /\ UNCHANGED <<stage, ready, stranded, buildable>>
  BY DEF TypeOK, Returns, plan
<1>2. \A u \in Tasks : task[u] # "none" /\ u # t => u[1] # t[1]
  BY BuildAlone
<1>3. (NoOrphans /\ GatherAlone /\ OnePerGather /\ PlanStages
        /\ BuildableAbsent /\ RecoveryUnseen)'
  BY <1>1, BuildAlone
     DEF CalmInv, NoOrphans, GatherAlone, OnePerGather, PlanStages,
         BuildableAbsent, RecoveryUnseen, Alive
<1>4. HitlExcluded'
  BY <1>1, <1>2, BuildAlone DEF CalmInv, HitlExcluded, Alive
<1>5. (BranchAbsent /\ BranchUnderReview /\ PrReviewed)'
  BY <1>1 DEF CalmInv, BranchAbsent, BranchUnderReview, UnderReview, Cleared,
              PrReviewed, Reviewed
<1>6. IdleBranchReviewed'
  <2> SUFFICES ASSUME NEW i \in pushed
               PROVE  \/ \E u \in Tasks : u[1] = i /\ task'[u] # "none"
                      \/ Reviewed(i) \/ i \in hitl'
    BY DEF IdleBranchReviewed, Alive, Reviewed
  <2>1. CASE i = t[1]
    BY <2>1
  <2>2. CASE i # t[1]
    BY <1>1, <2>2 DEF CalmInv, IdleBranchReviewed, Alive
  <2> QED  BY <2>1, <2>2
<1>7. conflicted' = {}
  BY DEF CalmInv
<1> QED  BY <1>3, <1>4, <1>5, <1>6, <1>7 DEF CalmInv

\* With no fault, a build never finds its branch there before it, nor gone.
LEMMA NeverRefused ==
    ASSUME CalmInv, NEW t \in Tasks
    PROVE  ~PushRejected(t) /\ ~OpenFound(t) /\ ~OpenRefused(t)
<1>1. task[t] \in UnderReview => t[1] \in pushed /\ pr[t[1]] = 0
  BY DEF CalmInv, BranchUnderReview
<1>2. task[t] \in Cleared => verdict[t[1]] # "landed"
  BY DEF CalmInv, BranchUnderReview
<1> QED  BY <1>1, <1>2
         DEF CalmInv, BranchAbsent, UnderReview, Cleared, PushRejected,
             OpenFound, OpenRefused, SyncRefused, CreateRefused

\* A build keeps CalmInv: its branch goes from absent to under review, and is
\* reviewed or escalated when it returns.
LEMMA BuildCalm ==
    ASSUME TypeOK, CalmInv, NEW t \in Tasks, Build(t), mishaps' = mishaps
    PROVE  CalmInv'
<1> DEFINE i == t[1]
<1>1. i \in Issues /\ {"build", "report", "review", "escalate", "open", "sync",
                       "create", "record"} \subseteq TaskStates \ {"none"}
  BY DEF Tasks, TaskStates
<1>2. ~Mishap
  BY DEF Mishap, TypeOK
<1>3. /\ task[t] \in {"meter", "build"} => i \notin pushed /\ pr[i] = 0
      /\ task[t] \in UnderReview => i \in pushed /\ pr[i] = 0
      /\ task[t] \in Cleared => verdict[i] = "cleared"
      /\ task[t] = "record" => Reviewed(i)
      /\ pr[i] # 0 => i \in pushed /\ Reviewed(i)
  BY <1>1 DEF CalmInv, BranchAbsent, BranchUnderReview, PrReviewed
<1>4. CASE MeterDeclines(t) \/ BuildRed(t) \/ RecordOpened(t)
  <2>1. /\ task[t] \in {"meter", "build", "record"} /\ Returns(t)
        /\ UNCHANGED <<pushed, pr, verdict, resumed, hitl, conflicted>>
    BY <1>4 DEF MeterDeclines, BuildRed, RecordOpened, github, history
  <2> QED  BY <1>3, <2>1, ReturnCalm
<1>5. CASE Escalate(t)
  <2>1. /\ task[t] = "escalate" /\ Returns(t) /\ hitl' = hitl \cup {i}
        /\ UNCHANGED <<pushed, pr, verdict, resumed, conflicted>>
    BY <1>5 DEF Escalate, history
  <2> QED  BY <2>1, ReturnCalm
<1>6. CASE MeterAdmits(t)
  <2>1. /\ task[t] = "meter" /\ Stores(t, "build")
        /\ UNCHANGED <<hitl, stage, ready, stranded, buildable, gathered,
                       pushed, pr, verdict, resumed, conflicted>>
    BY <1>6 DEF MeterAdmits, github, plan, history
  <2> QED  BY <1>1, <1>3, <2>1, MoveCalm DEF TypeOK, UnderReview, Cleared
<1>7. CASE BuildGreen(t)
  <2>1. /\ task[t] = "build" /\ Stores(t, "report")
        /\ pushed' = pushed \cup {i} /\ resumed' = resumed \ {i}
        /\ verdict' = [verdict EXCEPT ![i] = "unreviewed"]
        /\ UNCHANGED <<hitl, stage, ready, stranded, buildable, gathered, pr,
                       conflicted>>
    BY <1>7 DEF BuildGreen, plan
  <2> QED  BY <1>1, <1>3, <2>1, MoveCalm DEF TypeOK, UnderReview, Cleared
<1>8. CASE Report(t)
  <2>1. /\ task[t] = "report" /\ Stores(t, "review")
        /\ UNCHANGED <<hitl, stage, ready, stranded, buildable, gathered,
                       pushed, pr, verdict, resumed, conflicted>>
    BY <1>8 DEF Report, github, plan, history
  <2> QED  BY <1>1, <1>3, <2>1, MoveCalm DEF TypeOK, UnderReview, Cleared
<1>9. ASSUME NEW outcome \in {"cleared", "blocked"}, Review(t, outcome)
      PROVE  CalmInv'
  <2> DEFINE s == IF outcome = "cleared" THEN "open" ELSE "escalate"
  <2>1. /\ task[t] = "review" /\ Stores(t, s)
        /\ verdict' = [verdict EXCEPT ![i] = outcome]
        /\ UNCHANGED <<hitl, stage, ready, stranded, buildable, gathered,
                       pushed, pr, resumed, conflicted>>
    BY <1>9 DEF Review, github, plan
  <2>2. s \in {"open", "escalate"} /\ (s = "open" => verdict'[i] = "cleared")
    BY <1>1, <2>1 DEF TypeOK
  <2>3. \A j \in Issues \ {i} : verdict'[j] = verdict[j]
    BY <2>1 DEF TypeOK
  <2> HIDE DEF s
  <2> QED  BY <1>1, <1>3, <2>1, <2>2, <2>3, MoveCalm DEF TypeOK, UnderReview,
                                                         Cleared
<1>10. CASE OpenNone(t) \/ OpenSync(t)
  <2> DEFINE s == IF OpenNone(t) THEN "sync" ELSE "create"
  <2>1. /\ task[t] \in {"open", "sync"} /\ Stores(t, s)
        /\ UNCHANGED <<hitl, stage, ready, stranded, buildable, gathered,
                       pushed, pr, verdict, resumed, conflicted>>
    BY <1>10 DEF OpenNone, OpenSync, github, plan, history
  <2>2. s \in {"sync", "create"}
    OBVIOUS
  <2> HIDE DEF s
  <2> QED  BY <1>1, <1>3, <2>1, <2>2, MoveCalm DEF TypeOK, UnderReview, Cleared
<1>11. CASE OpenCreate(t)
  <2>1. /\ task[t] = "create" /\ Stores(t, "record")
        /\ \A j \in Issues \ {i} : pr'[j] = pr[j]
        /\ UNCHANGED <<hitl, stage, ready, stranded, buildable, gathered,
                       pushed, verdict, resumed, conflicted>>
    BY <1>11 DEF TypeOK, OpenCreate, CreatePr, plan, history
  <2>2. i \in pushed /\ Reviewed(i)'
    BY <1>3, <2>1 DEF Reviewed, UnderReview, Cleared
  <2> QED  BY <1>1, <2>1, <2>2, MoveCalm DEF TypeOK, UnderReview, Cleared
<1> QED  BY <1>2, <1>4, <1>5, <1>6, <1>7, <1>8, <1>9, <1>10, <1>11,
            NeverRefused
         DEF Build, StagingMissing, TaskRaises

-----------------------------------------------------------------------------
(* The theorems. *)

\* Every step that is not a fault keeps the invariant.
LEMMA NextCalm ==
    ASSUME TypeOK, CalmInv, [Next]_vars, mishaps' = mishaps PROVE CalmInv'
<1>1. ~Mishap
  BY DEF Mishap, TypeOK
<1>2. ~JobTimeout /\ ~Crash /\ \A i \in Issues : ~Conflict(i)
  BY <1>1 DEF JobTimeout, Crash, Conflict
<1>3. CASE UNCHANGED vars
  BY <1>3, CalmStutter DEF vars, calm, github, plan, builds, history
<1> QED  BY <1>2, <1>3, HumanCalm, ReapCalm, StartCalm, DrainCalm, BuildCalm
         DEF Next

\* CalmInv starts out true.
LEMMA InitCalm == Init => CalmInv
  BY DEF Init, CalmInv, NoOrphans, GatherAlone, OnePerGather, PlanStages,
         HitlExcluded, BuildableAbsent, BranchAbsent, BranchUnderReview,
         UnderReview, Cleared, PrReviewed, IdleBranchReviewed, RecoveryUnseen,
         Alive

\* The inductive invariant of a lane in which nothing has failed.
THEOREM Calm == Spec => [](mishaps = 0 => CalmInv)
<1>1. Init => (mishaps = 0 => CalmInv)
  BY InitCalm
<1>2. TypeOK /\ (mishaps = 0 => CalmInv) /\ [Next]_vars
        => (mishaps = 0 => CalmInv)'
  <2> SUFFICES ASSUME TypeOK, mishaps = 0 => CalmInv, [Next]_vars, mishaps' = 0
               PROVE  CalmInv'
    OBVIOUS
  <2>1. mishaps' = mishaps
    BY FaultsCounted DEF TypeOK
  <2> QED  BY <2>1, NextCalm
<1> QED  BY <1>1, <1>2, LaneTyped, PTL DEF Spec

\* adhoc_drain.py: no two builds of one issue are ever alive.
THEOREM BuildsUnique == Spec => []OneBuildPerIssue
<1>1. (mishaps = 0 => CalmInv) => OneBuildPerIssue
  BY DEF OneBuildPerIssue, CalmInv, NoOrphans, OnePerGather
<1> QED  BY <1>1, Calm, PTL

\* adhoc_build.py and adhoc_drain.py: every open PR is of code the review gate
\* cleared, or of an issue a human let through.
THEOREM PrsReviewed == Spec => []OpenPrReviewed
<1>1. (mishaps = 0 => CalmInv) => OpenPrReviewed
  BY DEF OpenPrReviewed, CalmInv, PrReviewed, Reviewed
<1> QED  BY <1>1, Calm, PTL

\* pr_opener.py and adhoc_drain.py: with no fault, nobody opens the PR that the
\* recovery or a build has looked for and is about to create.
THEOREM OpenersApart == Spec => []OpenersNeverRace
<1>1. (mishaps = 0 => CalmInv) => OpenersNeverRace
  BY DEF OpenersNeverRace, CalmInv, BranchUnderReview, UnderReview, Cleared,
         RecoveryUnseen
<1> QED  BY <1>1, Calm, PTL

\* pipeline.py: no PR is opened for an issue that waits for a human.
THEOREM EscalatedKeptOut == Spec => EscalatedStaysOut
<1>1. TypeOK /\ (mishaps = 0 => CalmInv) /\ [Next]_vars =>
        (mishaps' = 0 =>
           \A i \in Issues : pr[i] = 0 /\ pr'[i] # 0 => i \notin hitl)
  <2> SUFFICES ASSUME TypeOK, mishaps = 0 => CalmInv, [Next]_vars,
                      mishaps' = 0, NEW i \in Issues, pr[i] = 0, pr'[i] # 0
               PROVE  i \notin hitl
    OBVIOUS
  <2>1. CalmInv
    BY FaultsCounted DEF TypeOK
  <2>2. ASSUME NEW j \in Issues, CreatePr(j) PROVE i = j
    BY <2>2 DEF TypeOK, CreatePr
  <2>3. ASSUME NEW j \in stranded, RecoverCreate(j) PROVE i \notin hitl
    <3>1. j \in Issues /\ CreatePr(j)
      BY <2>3 DEF TypeOK, RecoverCreate
    <3> QED  BY <2>1, <2>2, <2>3, <3>1, RecoverCalm
  <2>4. ASSUME NEW t \in Tasks, OpenCreate(t) PROVE i \notin hitl
    <3>1. t[1] \in Issues /\ CreatePr(t[1]) /\ task[t] # "none"
      BY <2>4 DEF Tasks, OpenCreate
    <3> QED  BY <2>1, <2>2, <2>4, <3>1, BuildAlone
  <2>5. ASSUME NEW j \in Issues, Human(j) PROVE pr'[i] \in {0, pr[i]}
    BY <2>5 DEF TypeOK, Human, Trigger, Resume, Merge, Dismiss, Conflict
  <2>6. CASE Reap \/ OtherKick \/ Start
    BY <2>6 DEF Reap, ReapResolve, ReapClose, ReapRaises, OtherKick, Start,
                KickRuns, KickBusy, SweepRuns, github
  <2>7. CASE Drain
    BY <2>3, <2>7 DEF Drain, List, Gate, SnapshotHeads, SnapshotBranches,
       RecoverFound, RecoverNone, RecoverSync, RecoverMissing, RecoverRefused,
       RecoverRecord, DrainRaises, Select, DrainEnds, github
  <2>8. ASSUME NEW t \in Tasks, Build(t) PROVE i \notin hitl
    BY <2>4, <2>8 DEF Build, MeterDeclines, MeterAdmits, BuildRed, BuildGreen,
       PushRejected, Report, Review, Escalate, OpenFound, OpenNone, OpenSync,
       OpenRefused, RecordOpened, StagingMissing, TaskRaises, github
  <2>9. CASE JobTimeout \/ Crash \/ UNCHANGED vars
    BY <2>9 DEF JobTimeout, Crash, vars, github
  <2> QED  BY <2>5, <2>6, <2>7, <2>8, <2>9 DEF Next
<1>2. TypeOK /\ (mishaps = 0 => CalmInv) /\ [Next]_vars =>
        [mishaps' = 0 =>
           \A i \in Issues : pr[i] = 0 /\ pr'[i] # 0 => i \notin hitl]_vars
  BY <1>1
<1> QED  BY <1>2, Calm, LaneTyped, PTL DEF Spec, EscalatedStaysOut

-----------------------------------------------------------------------------
(* The cap: whatever fails, a drain awaits no more builds than it selected, *)
(* and with no fault no other build is alive.                              *)

\* _select_buildable hands select_to_build a queue, and starts no more issues
\* than the cap.
LEMMA SelectedWithinCap ==
    ASSUME TypeOK, Cap # NoCap
    PROVE  IsFiniteSet(Selected) /\ Cardinality(Selected) <= Cap
<1> DEFINE card(i) == [number |-> i, labels |-> LabelsOf[i]]
           cs == {card(i) : i \in buildable}
           chosen == SelectToBuild(cs, Cap)
           listing == [i \in buildable |-> card(i)]
           back == [i \in Selected |-> card(i)]
<1>1. IsFiniteSet(buildable) /\ buildable \subseteq Issues
  BY LaneAssumption, FS_Subset DEF TypeOK
<1>2. listing \in Surjection(buildable, cs)
  BY DEF Surjection
<1>3. IsFiniteSet(cs)
  <2> HIDE DEF cs, listing
  <2> QED  BY <1>1, <1>2, FS_Surjection
<1>4. cs \subseteq Candidate
  <2>1. \A i \in buildable : i \in Nat /\ LabelsOf[i] \in Seq(Tier)
    BY <1>1, LaneAssumption
  <2> QED  BY <2>1 DEF Candidate
<1>5. Queue(cs)
  <2>1. \A c, d \in cs : c.number = d.number => c = d
    OBVIOUS
  <2> QED  BY <1>3, <1>4, <2>1 DEF Queue
<1>6. /\ chosen \subseteq cs /\ IsFiniteSet(chosen)
      /\ Cardinality(chosen) <= Cap
  <2> HIDE DEF cs
  <2>1. chosen \subseteq cs /\ WithinCap(chosen, Cap)
    BY <1>5, LaneAssumption, SelectionWithinCap
  <2> QED  BY <1>3, <2>1, FS_Subset DEF WithinCap
<1>7. Selected = {c.number : c \in chosen}
  BY DEF Selected
<1>8. \A i \in Selected : card(i) \in chosen
  <2>1. \A c \in cs : c = card(c.number)
    OBVIOUS
  <2> HIDE DEF cs, card, chosen
  <2> QED  BY <1>6, <1>7, <2>1
<1>9. back \in Injection(Selected, chosen)
  <2>1. \A i, j \in Selected : back[i] = back[j] => i = j
    OBVIOUS
  <2>2. back \in [Selected -> chosen]
    BY <1>8
  <2> HIDE DEF back, chosen
  <2> QED  BY <2>1, <2>2 DEF Injection, IsInjective
<1> HIDE DEF chosen, back
<1>10. IsFiniteSet(Selected) /\ Cardinality(Selected) <= Cardinality(chosen)
  BY <1>6, <1>9, FS_Injection
<1>11. /\ Cardinality(Selected) \in Nat /\ Cardinality(chosen) \in Nat
       /\ Cap \in Nat
  BY <1>6, <1>10, LaneAssumption, FS_CardinalityType
<1> QED  BY <1>6, <1>10, <1>11

\* The gather of a drain, whatever becomes of its builds.
GatherWithinCap ==
    Cap # NoCap => IsFiniteSet(gathered) /\ Cardinality(gathered) <= Cap

\* Only the selection adds a build to what a drain awaits.
LEMMA GatherStep ==
    ASSUME TypeOK, [Next]_vars, ~Select PROVE gathered' \subseteq gathered
<1>1. ASSUME NEW i \in Issues, Human(i) PROVE gathered' \subseteq gathered
  BY <1>1 DEF Human, Trigger, Resume, Merge, Dismiss, Conflict, builds
<1>2. CASE Reap \/ OtherKick \/ Start
  BY <1>2 DEF Reap, ReapResolve, ReapClose, ReapRaises, OtherKick, Start,
              KickRuns, KickBusy, SweepRuns, builds
<1>3. CASE Drain
  BY <1>3 DEF Drain, List, Gate, SnapshotHeads, SnapshotBranches,
              RecoverFound, RecoverNone, RecoverSync, RecoverCreate,
     RecoverMissing, RecoverRefused, RecoverRecord, DrainRaises, DrainEnds,
     builds
<1>4. ASSUME NEW t \in Tasks, Returns(t) \/ Raises(t)
      PROVE  gathered' \subseteq gathered
  BY <1>4 DEF Returns, Raises
<1>5. ASSUME NEW t \in Tasks, Build(t) PROVE gathered' \subseteq gathered
  BY <1>4, <1>5 DEF Build, MeterDeclines, MeterAdmits, BuildRed, BuildGreen,
     PushRejected, Report, Review, Escalate, OpenFound, OpenNone, OpenSync,
     OpenCreate, OpenRefused, RecordOpened, StagingMissing, TaskRaises
<1>6. CASE JobTimeout \/ Crash \/ UNCHANGED vars
  BY <1>6 DEF JobTimeout, Crash, Cancelled, vars, builds
<1> QED  BY <1>1, <1>2, <1>3, <1>5, <1>6 DEF Next

\* The selection gathers one build for each issue it chose.
LEMMA SelectGathers ==
    ASSUME TypeOK, Select, Cap # NoCap
    PROVE  IsFiniteSet(gathered') /\ Cardinality(gathered') <= Cap
<1> DEFINE issue == [t \in gathered' |-> t[1]]
<1>1. \A t \in gathered' : t[1] \in Selected /\ t = FreshTask(t[1])
  BY SelectStarts
<1>2. issue \in Injection(gathered', Selected)
  BY <1>1 DEF Injection, IsInjective
<1> HIDE DEF issue
<1>3. IsFiniteSet(Selected) /\ Cardinality(Selected) <= Cap
  BY SelectedWithinCap
<1>4. IsFiniteSet(gathered') /\ Cardinality(gathered') <= Cardinality(Selected)
  BY <1>2, <1>3, FS_Injection
<1>5. /\ Cardinality(gathered') \in Nat /\ Cardinality(Selected) \in Nat
      /\ Cap \in Nat
  BY <1>3, <1>4, LaneAssumption, FS_CardinalityType
<1> QED  BY <1>3, <1>4, <1>5

\* Whatever fails, no drain awaits more builds than the cap.
THEOREM GathersWithinCap == Spec => []GatherWithinCap
<1>1. Init => GatherWithinCap
  BY FS_EmptySet, LaneAssumption DEF Init, GatherWithinCap
<1>2. TypeOK /\ GatherWithinCap /\ [Next]_vars => GatherWithinCap'
  <2> SUFFICES ASSUME TypeOK, GatherWithinCap, [Next]_vars, Cap # NoCap
               PROVE  IsFiniteSet(gathered') /\ Cardinality(gathered') <= Cap
    BY DEF GatherWithinCap
  <2>1. CASE Select
    BY <2>1, SelectGathers
  <2>2. CASE ~Select
    <3>1. /\ gathered' \in SUBSET gathered
          /\ IsFiniteSet(gathered) /\ Cardinality(gathered) <= Cap
      BY <2>2, GatherStep DEF GatherWithinCap
    <3>2. /\ IsFiniteSet(gathered')
          /\ Cardinality(gathered') <= Cardinality(gathered)
      BY <3>1, FS_Subset
    <3>3. /\ Cardinality(gathered') \in Nat /\ Cardinality(gathered) \in Nat
          /\ Cap \in Nat
      BY <3>1, <3>2, LaneAssumption, FS_CardinalityType
    <3> QED  BY <3>1, <3>2, <3>3
  <2> QED  BY <2>1, <2>2
<1> QED  BY <1>1, <1>2, LaneTyped, PTL DEF Spec

\* adhoc_drain.py and scheduler.py: no more builds run at once than
\* max_parallel, because every build alive is one the running drain awaits.
THEOREM BuildsCapped == Spec => []BuildsWithinCap
<1>1. (mishaps = 0 => CalmInv) /\ GatherWithinCap => BuildsWithinCap
  <2> SUFFICES ASSUME CalmInv, GatherWithinCap, Cap # NoCap
               PROVE  Cardinality({t \in Tasks : Alive(t)}) <= Cap
    BY DEF BuildsWithinCap
  <2> DEFINE alive == {t \in Tasks : Alive(t)}
  <2>1. /\ alive \in SUBSET gathered
        /\ IsFiniteSet(gathered) /\ Cardinality(gathered) <= Cap
    BY DEF CalmInv, NoOrphans, GatherWithinCap
  <2> HIDE DEF alive
  <2>2. IsFiniteSet(alive) /\ Cardinality(alive) <= Cardinality(gathered)
    BY <2>1, FS_Subset
  <2>3. /\ Cardinality(alive) \in Nat /\ Cardinality(gathered) \in Nat
        /\ Cap \in Nat
    BY <2>1, <2>2, LaneAssumption, FS_CardinalityType
  <2>4. Cardinality(alive) <= Cap
    BY <2>1, <2>2, <2>3
  <2> QED  BY <2>4 DEF alive
<1> QED  BY <1>1, Calm, GathersWithinCap, PTL

-----------------------------------------------------------------------------
(* The rows of open PRs: with no fault, a PR that was opened is written to *)
(* its row by the one who opened it, before anything can replace it.       *)

\* The recovery opens one PR at a time, of an issue it still has to recover.
OpeningCurrent ==
    /\ \A p \in opening : /\ p[1] \in stranded /\ p[2] # 0
                          /\ p[1] \in merged \/ pr[p[1]] = p[2]
    /\ \A p, q \in opening : p = q

\* A build about to record its PR holds the number of the branch's.
HeldCurrent ==
    \A t \in Tasks : task[t] = "record" =>
        held[t] # 0 /\ (t[1] \in merged \/ pr[t[1]] = held[t])

Rowed(i) ==
    \/ mapped[i] = pr[i]
    \/ <<i, pr[i]>> \in opening
    \/ \E t \in Tasks : t[1] = i /\ task[t] = "record" /\ held[t] = pr[i]

RowsKept == \A i \in Issues \ merged : pr[i] # 0 => Rowed(i)

MappedInv == OpeningCurrent /\ HeldCurrent /\ RowsKept

\* A step that touches neither PRs nor what records them keeps the rows.
LEMMA MappedStutter ==
    /\ MappedInv
    /\ UNCHANGED <<opening, stranded, pr, merged, task, held, mapped>>
    => MappedInv'
  BY DEF MappedInv, OpeningCurrent, HeldCurrent, RowsKept, Rowed

\* A merge takes its issue out of the promise.
LEMMA HumanMapped ==
    ASSUME TypeOK, MappedInv, NEW i \in Issues, Human(i), ~Conflict(i)
    PROVE  MappedInv'
<1>1. CASE Trigger(i) \/ Resume(i) \/ Dismiss(i)
  BY <1>1, MappedStutter DEF Trigger, Resume, Dismiss, plan, builds, stores
<1>2. CASE Merge(i)
  <2>1. /\ merged' = merged \cup {i}
        /\ \A j \in Issues : j # i => pr'[j] = pr[j]
        /\ UNCHANGED <<opening, stranded, task, held, mapped>>
    BY <1>2 DEF TypeOK, Merge, plan, builds
  <2>2. OpeningCurrent'
    BY <2>1 DEF TypeOK, MappedInv, OpeningCurrent
  <2>3. HeldCurrent'
    BY <2>1 DEF MappedInv, HeldCurrent, Tasks
  <2>4. RowsKept'
    BY <2>1 DEF MappedInv, RowsKept, Rowed
  <2> QED  BY <2>2, <2>3, <2>4 DEF MappedInv
<1> QED  BY <1>1, <1>2 DEF Human

\* The reap deletes the rows of merged issues only.
LEMMA ReapMapped ==
    ASSUME TypeOK, MergeInv, MappedInv, Reap \/ OtherKick \/ Start
    PROVE  MappedInv'
<1>1. ASSUME NEW p \in reaping, ReapClose(p[1], p[2]) PROVE MappedInv'
  <2>1. p[1] \in merged
    BY DEF MergeInv, ReapingMerged
  <2>2. /\ \A j \in Issues : j # p[1] => mapped'[j] = mapped[j]
        /\ UNCHANGED <<opening, stranded, pr, merged, task, held>>
    BY <1>1 DEF TypeOK, ReapClose, plan, builds
  <2> QED  BY <2>1, <2>2
           DEF MappedInv, OpeningCurrent, HeldCurrent, RowsKept, Rowed
<1>2. CASE OtherKick \/ Start
  BY <1>2, MappedStutter DEF OtherKick, Start, KickRuns, KickBusy, SweepRuns,
     github, plan, builds, stores
<1>3. ASSUME NEW n \in reaps, ReapResolve(n) PROVE MappedInv'
  BY <1>3, MappedStutter DEF ReapResolve, github, plan, builds
<1>4. ASSUME NEW p \in reaping, ReapRaises(p[1], p[2]) PROVE MappedInv'
  BY <1>4, MappedStutter DEF ReapRaises, github, plan, builds
<1> QED  BY <1>1, <1>2, <1>3, <1>4 DEF Reap

\* The recovery notes the PR it found or opened until it has recorded it.
LEMMA RecoverMapped ==
    ASSUME TypeOK, MappedInv, NEW i \in stranded,
           RecoverFound(i) \/ RecoverCreate(i)
    PROVE  MappedInv'
<1>1. /\ i \in Issues /\ opening = {} /\ opening' = {<<i, pr'[i]>>}
      /\ pr'[i] # 0 /\ \A j \in Issues : pr[j] # 0 => pr'[j] = pr[j]
      /\ \A j \in Issues : j # i => pr'[j] = pr[j]
      /\ UNCHANGED <<stranded, merged, task, held, mapped>>
  BY DEF TypeOK, RecoverFound, RecoverCreate, Recovering, CreatePr, github,
         builds, stores
<1>2. OpeningCurrent'
  BY <1>1 DEF OpeningCurrent
<1>3. HeldCurrent'
  BY <1>1 DEF MappedInv, HeldCurrent, Tasks
<1>4. RowsKept'
  BY <1>1 DEF MappedInv, RowsKept, Rowed
<1> QED  BY <1>2, <1>3, <1>4 DEF MappedInv

\* The recovery writes the row of the PR it opened.
LEMMA RecordMapped ==
    ASSUME TypeOK, MappedInv, NEW p \in opening, RecoverRecord(p[1], p[2])
    PROVE  MappedInv'
<1>1. /\ p[1] \in Issues /\ (p[1] \in merged \/ pr[p[1]] = p[2])
      /\ p = <<p[1], p[2]>> /\ \A q \in opening : q = p
  BY DEF TypeOK, MappedInv, OpeningCurrent
<1>2. /\ mapped' = [mapped EXCEPT ![p[1]] = p[2]] /\ opening' = {}
      /\ UNCHANGED <<pr, merged, task, held>>
  BY DEF RecoverRecord, RecordPr, github, builds
<1>3. (OpeningCurrent /\ HeldCurrent)'
  BY <1>2 DEF MappedInv, OpeningCurrent, HeldCurrent
<1>4. ASSUME NEW i \in Issues \ merged, pr[i] # 0 PROVE Rowed(i)'
  <2>1. Rowed(i)
    BY <1>4 DEF MappedInv, RowsKept
  <2>2. CASE i = p[1]
    BY <1>1, <1>2, <1>4, <2>2 DEF TypeOK, Rowed
  <2>3. CASE i # p[1]
    <3>1. <<i, pr[i]>> \notin opening /\ mapped'[i] = mapped[i]
      BY <1>1, <1>2, <2>3 DEF TypeOK
    <3> QED  BY <1>2, <2>1, <3>1 DEF Rowed
  <2> QED  BY <2>2, <2>3
<1>5. RowsKept'
  BY <1>2, <1>4 DEF RowsKept
<1> QED  BY <1>3, <1>5 DEF MappedInv

\* The rest of the drain has no PR to record: it has none stranded.
LEMMA DrainMapped ==
    ASSUME TypeOK, CalmInv, MappedInv, Drain, mishaps' = mishaps
    PROVE  MappedInv'
<1>1. ~Mishap
  BY DEF Mishap, TypeOK
<1>2. stage \notin {"recover", "sync", "create"} \/ stranded = {}
        => opening = {}
  BY DEF CalmInv, PlanStages, MappedInv, OpeningCurrent
<1>3. CASE List \/ Gate \/ SnapshotHeads
  BY <1>3, MappedStutter DEF List, Gate, SnapshotHeads, github, builds, stores
<1>4. ASSUME opening' = {}, opening = {},
             UNCHANGED <<pr, merged, mapped>>,
             \A t \in Tasks : held'[t] = held[t],
             \A t \in Tasks : task'[t] = "record" <=> task[t] = "record"
      PROVE  MappedInv'
  <2>1. OpeningCurrent'
    BY <1>4 DEF OpeningCurrent
  <2>2. HeldCurrent'
    <3>1. \A t \in Tasks : task'[t] = "record" =>
            held[t] # 0 /\ (t[1] \in merged \/ pr[t[1]] = held[t])
      BY <1>4 DEF MappedInv, HeldCurrent
    <3> QED  BY <1>4, <3>1 DEF HeldCurrent
  <2>3. ASSUME NEW i \in Issues \ merged, pr[i] # 0 PROVE Rowed(i)'
    <3>1. Rowed(i)
      BY <2>3 DEF MappedInv, RowsKept
    <3> QED  BY <1>4, <3>1 DEF Rowed
  <2>4. RowsKept'
    BY <1>4, <2>3 DEF RowsKept
  <2> QED  BY <2>1, <2>2, <2>4 DEF MappedInv
<1>5. CASE SnapshotBranches
  BY <1>2, <1>4, <1>5 DEF SnapshotBranches, github, builds, stores
<1>6. ASSUME NEW i \in stranded, RecoverRefused(i) PROVE MappedInv'
  BY <1>4, <1>6 DEF RecoverRefused, Recovering, LeaveDrain, github, builds
<1>7. CASE DrainEnds
  BY <1>2, <1>4, <1>7 DEF DrainEnds, LeaveDrain, github, builds
<1>8. CASE Select
  <2>1. \A t \in Tasks : task'[t] = "record" <=> task[t] = "record"
    <3>1. \A t \in gathered' : task[t] = "none"
      BY <1>8, SelectStarts
    <3> QED  BY <1>8, <3>1 DEF Select
  <2> QED  BY <1>2, <1>4, <1>8, <2>1 DEF Select, github, stores
<1>9. ASSUME NEW i \in stranded, RecoverNone(i) \/ RecoverSync(i)
      PROVE  MappedInv'
  BY <1>9, MappedStutter DEF RecoverNone, RecoverSync, github, plan, builds,
     stores
<1> QED  BY <1>1, <1>3, <1>5, <1>6, <1>7, <1>8, <1>9, RecoverMapped,
            RecordMapped
         DEF Drain, DrainRaises, RecoverMissing

-----------------------------------------------------------------------------
\* A build that has not opened its PR records nothing by going on or returning.
LEMMA QuietMapped ==
    ASSUME TypeOK, MappedInv, NEW t \in Tasks, task[t] # "record",
           \A u \in Tasks \ {t} : task'[u] = task[u] /\ held'[u] = held[u],
           task'[t] # "record",
           UNCHANGED <<opening, stranded, pr, merged, mapped>>
    PROVE  MappedInv'
<1>1. OpeningCurrent'
  BY DEF MappedInv, OpeningCurrent
<1>2. HeldCurrent'
  BY DEF MappedInv, HeldCurrent
<1>3. RowsKept'
  BY DEF MappedInv, RowsKept, Rowed
<1> QED  BY <1>1, <1>2, <1>3 DEF MappedInv

\* A build holds the number it found or opened until it has recorded it.
LEMMA OpenMapped ==
    ASSUME TypeOK, MappedInv, NEW t \in Tasks, OpenFound(t) \/ OpenCreate(t)
    PROVE  MappedInv'
<1>1. t[1] \in Issues
  BY DEF Tasks
<1>2. /\ task'[t] = "record" /\ held'[t] = pr'[t[1]]
      /\ \A u \in Tasks \ {t} : task'[u] = task[u] /\ held'[u] = held[u]
      /\ pr'[t[1]] # 0 /\ \A j \in Issues : pr[j] # 0 => pr'[j] = pr[j]
      /\ \A j \in Issues : j # t[1] => pr'[j] = pr[j]
      /\ UNCHANGED <<opening, stranded, merged, mapped>>
  BY <1>1 DEF TypeOK, OpenFound, OpenCreate, CreatePr, Stores, github, plan,
              stores
<1>3. OpeningCurrent'
  BY <1>2 DEF TypeOK, MappedInv, OpeningCurrent
<1>4. HeldCurrent'
  BY <1>1, <1>2 DEF MappedInv, HeldCurrent, Tasks
<1>5. RowsKept'
  BY <1>1, <1>2 DEF MappedInv, RowsKept, Rowed
<1> QED  BY <1>3, <1>4, <1>5 DEF MappedInv

\* So does a build.
LEMMA RecordOpenedMapped ==
    ASSUME TypeOK, MappedInv, NEW t \in Tasks, RecordOpened(t)
    PROVE  MappedInv'
<1>1. t[1] \in Issues /\ (t[1] \in merged \/ pr[t[1]] = held[t])
  BY DEF Tasks, RecordOpened, MappedInv, HeldCurrent
<1>2. /\ mapped' = [mapped EXCEPT ![t[1]] = held[t]] /\ task'[t] = "none"
      /\ \A u \in Tasks \ {t} : task'[u] = task[u] /\ held'[u] = held[u]
      /\ UNCHANGED <<opening, stranded, pr, merged>>
  BY DEF TypeOK, RecordOpened, RecordPr, Returns, github, plan
<1>3. (OpeningCurrent /\ HeldCurrent)'
  BY <1>2 DEF MappedInv, OpeningCurrent, HeldCurrent
<1>4. RowsKept'
  BY <1>1, <1>2 DEF TypeOK, MappedInv, RowsKept, Rowed
<1> QED  BY <1>3, <1>4 DEF MappedInv

\* The builds keep the rows.
LEMMA BuildMapped ==
    ASSUME TypeOK, CalmInv, MappedInv, NEW t \in Tasks, Build(t),
           mishaps' = mishaps
    PROVE  MappedInv'
<1>1. ~Mishap
  BY DEF Mishap, TypeOK
<1>2. CASE MeterDeclines(t) \/ BuildRed(t) \/ Escalate(t)
  <2>1. /\ task[t] # "record" /\ Returns(t)
        /\ UNCHANGED <<pr, merged, mapped>>
    BY <1>2 DEF MeterDeclines, BuildRed, Escalate, github
  <2> QED  BY <2>1, QuietMapped DEF TypeOK, Returns, plan
<1>3. ASSUME NEW s, Stores(t, s), s # "record", task[t] # "record",
             UNCHANGED <<pr, merged, plan, held, stores>>
      PROVE  MappedInv'
  BY <1>3, QuietMapped DEF TypeOK, Stores, plan, stores
<1>4. CASE MeterAdmits(t)
  BY <1>4, QuietMapped DEF TypeOK, MeterAdmits, Stores, github, plan
<1>5. CASE BuildGreen(t) \/ Report(t) \/ OpenNone(t) \/ OpenSync(t)
  BY <1>3, <1>5 DEF BuildGreen, Report, OpenNone, OpenSync, github
<1>6. CASE Review(t, "cleared") \/ Review(t, "blocked")
  BY <1>3, <1>6 DEF Review, github
<1> QED  BY <1>1, <1>2, <1>4, <1>5, <1>6, OpenMapped, RecordOpenedMapped,
            NeverRefused
         DEF Build, StagingMissing, TaskRaises

\* Every step that is not a fault keeps the rows.
LEMMA NextMapped ==
    ASSUME TypeOK, MergeInv, CalmInv, MappedInv, [Next]_vars,
           mishaps' = mishaps
    PROVE  MappedInv'
<1>1. ~Mishap
  BY DEF Mishap, TypeOK
<1>2. ~JobTimeout /\ ~Crash /\ \A i \in Issues : ~Conflict(i)
  BY <1>1 DEF JobTimeout, Crash, Conflict
<1>3. CASE UNCHANGED vars
  BY <1>3, MappedStutter DEF vars, github, plan, builds, stores
<1> QED  BY <1>2, <1>3, HumanMapped, ReapMapped, DrainMapped, BuildMapped
         DEF Next

\* run_state.py: with no fault, the open PR of an issue never merged before has
\* its row, or the one who opened it is about to write it.
THEOREM PrsMapped == Spec => []OpenPrMapped
<1> DEFINE Mapped == mishaps = 0 => MappedInv
<1>1. Init => Mapped
  BY DEF Init, MappedInv, OpeningCurrent, HeldCurrent, RowsKept
<1>2. TypeOK /\ MergeInv /\ (mishaps = 0 => CalmInv) /\ Mapped /\ [Next]_vars
        => Mapped'
  <2> SUFFICES ASSUME TypeOK, MergeInv, mishaps = 0 => CalmInv, Mapped,
                      [Next]_vars, mishaps' = 0
               PROVE  MappedInv'
    OBVIOUS
  <2>1. mishaps' = mishaps
    BY FaultsCounted DEF TypeOK
  <2> QED  BY <2>1, NextMapped
<1>3. Mapped => OpenPrMapped
  BY DEF OpenPrMapped, MappedInv, RowsKept, Rowed
<1> QED  BY <1>1, <1>2, <1>3, Calm, MergesResolve, LaneTyped, PTL DEF Spec
=============================================================================
