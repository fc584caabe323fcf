----------------------------- MODULE AdhocLane -----------------------------
(***************************************************************************)
(* The scheduler lane of one repository: the drain of adhoc_drain.py, the  *)
(* build tasks it gathers, the review gate's verdict and the pipeline that *)
(* acts on it, the kick and sweep that start drains, and the merge reap,   *)
(* over GitHub's state of the issues, their issue-<N> branches and PRs.    *)
(*                                                                         *)
(* Every await that another task can run inside is a step boundary: the    *)
(* two queries of a flight snapshot; the look for an open PR, the sync of  *)
(* the branch, the PR's creation and its recording; the push, the report   *)
(* and the gate after it.  A build's container work up to the push changes *)
(* nothing outside the container and is one step.  A task is               *)
(* <<issue, life>>: nothing in the code keys a build by its issue, so one  *)
(* issue may have several builds alive.                                    *)
(***************************************************************************)
EXTENDS SlotScheduler

CONSTANTS
    Issues,        \* issue numbers
    LabelsOf,      \* the priority labels each issue wears
    BodyBlockersOf,    \* the refs of each body's ## Blocked by block
    NativeBlockersOf,  \* GitHub's native blocked-by relations of each
    Cap,           \* config.max_parallel, or NoCap
    PageSize,      \* the --limit of gh issue list
    SweepDue,      \* whether config.cron makes the heartbeat sweep this repo
    Lives,         \* bound: builds of one issue alive at once
    MaxDismissals, \* bound: issues humans close by hand
    MaxClosings,   \* bound: issues so closed, or with a PR they merged
    MaxConflicts,  \* bound: branches that conflict with the target branch
    MaxSetbacks    \* bound: raised calls, conflicts, timeouts, crashes, and
                   \* builds that are declined or red

ASSUME LaneAssumption ==
    /\ Issues \subseteq Nat
    /\ IsFiniteSet(Issues)
    /\ LabelsOf \in [Issues -> Seq(Tier)]
    /\ BodyBlockersOf \in [Issues -> SUBSET Issues]
    /\ NativeBlockersOf \in [Issues -> SUBSET Issues]
    /\ Cap \in Nat
    /\ SweepDue \in BOOLEAN
    /\ Lives \in SUBSET Nat /\ Lives # {}
    /\ PageSize \in Nat
    /\ MaxDismissals \in Nat /\ MaxClosings \in Nat /\ MaxConflicts \in Nat
    /\ MaxSetbacks \in Nat

VARIABLES
    \* GitHub
    open,          \* open issues
    triggered,     \* issues wearing config.trigger_label
    hitl,          \* issues wearing the hitl label
    pushed,        \* issues whose issue-<N> branch exists
    pr,            \* number of the branch's open PR, 0 when there is none
    lastPr,        \* the last PR number GitHub gave out
    merged,        \* issues a PR of which a human has merged
    dismissed,     \* issues a human closed by hand
    conflicted,    \* pushed branches the target branch no longer merges into
    \* the worker process
    stage,         \* where the drain holding the lock is; "idle" when free
    ready,         \* its admitted issues, then those past the readiness gate
    prHeads,       \* the first half of its flight snapshot
    stranded,      \* pushed branches without a PR it still has to recover
    buildable,     \* absent branches it may build
    opening,       \* <<issue, PR>> it has opened but not yet recorded
    task,          \* where each build task is; "none" when there is none
    held,          \* the PR number a task has opened, 0 before
    gathered,      \* the tasks the running drain awaits
    \* Redis and SQLite
    kick,          \* the repo's coalesced drain job
    reaps,         \* PR numbers of the queued merge-reap jobs
    reaping,       \* <<issue, PR>> of the reap jobs that resolved theirs
    mapped,        \* pr_number of the issue's RunStateStore row, 0 without
    ledger,        \* the run-ledger state of each issue
    \* history, read by properties and bounds only
    verdict,       \* the gate's word on the code of the branch, or "landed"
                   \* when a merged PR left the branch behind
    resumed,       \* issues whose hitl label a human removed
    fruitless,     \* builds that pushed nothing: declined, or red
    mishaps        \* faults so far

github  == <<open, triggered, hitl, pushed, pr, lastPr, merged, dismissed,
             conflicted>>
plan    == <<ready, prHeads, stranded, buildable, opening>>
builds  == <<task, held, gathered>>
stores  == <<kick, reaps, reaping, mapped, ledger>>
history == <<verdict, resumed, fruitless, mishaps>>
vars    == <<github, stage, plan, builds, stores, history>>

Tasks == Issues \X Lives
Stages == {"idle", "list", "gate", "heads", "branches", "recover", "sync",
           "create", "gather"}
TaskStates == {"none", "meter", "build", "report", "review", "escalate",
               "open", "sync", "create", "record"}
RunStates == {"none", "queued", "building", "escalated", "pr_opened",
              "failed", "merged"}
Verdicts == {"unreviewed", "cleared", "blocked", "landed"}

TypeOK ==
    /\ open \subseteq Issues /\ triggered \subseteq Issues
    /\ hitl \subseteq Issues /\ pushed \subseteq Issues
    /\ merged \subseteq Issues /\ dismissed \subseteq Issues
    /\ conflicted \subseteq Issues
    /\ pr \in [Issues -> Nat] /\ lastPr \in Nat
    /\ stage \in Stages
    /\ ready \subseteq Issues /\ prHeads \subseteq Issues
    /\ stranded \subseteq Issues /\ buildable \subseteq Issues
    /\ opening \subseteq Issues \X Nat
    /\ task \in [Tasks -> TaskStates]
    /\ held \in [Tasks -> Nat]
    /\ gathered \subseteq Tasks
    /\ kick \in {"idle", "queued", "running"}
    /\ reaps \subseteq Nat /\ reaping \subseteq Issues \X Nat
    /\ mapped \in [Issues -> Nat]
    /\ ledger \in [Issues -> RunStates]
    /\ verdict \in [Issues -> Verdicts]
    /\ resumed \subseteq Issues
    /\ fruitless \in Nat /\ mishaps \in Nat

Init ==
    /\ open = Issues /\ triggered = {} /\ hitl = {}
    /\ pushed = {} /\ merged = {} /\ dismissed = {} /\ conflicted = {}
    /\ pr = [i \in Issues |-> 0] /\ lastPr = 0
    /\ stage = "idle"
    /\ ready = {} /\ prHeads = {} /\ stranded = {} /\ buildable = {}
    /\ opening = {}
    /\ task = [t \in Tasks |-> "none"] /\ held = [t \in Tasks |-> 0]
    /\ gathered = {}
    /\ kick = "idle" /\ reaps = {} /\ reaping = {}
    /\ mapped = [i \in Issues |-> 0]
    /\ ledger = [i \in Issues |-> "none"]
    /\ verdict = [i \in Issues |-> "unreviewed"]
    /\ resumed = {}
    /\ fruitless = 0 /\ mishaps = 0

-----------------------------------------------------------------------------
(* Shared by the drain and its builds. *)

\* _LIFECYCLE_RANK, and RunLedgerStore.record's upsert that never lowers it.
LifecycleRank(s) ==
    IF s \in {"none", "queued"} THEN 0 ELSE IF s = "building" THEN 1 ELSE 2

\* Mutant of Recorded: a plain upsert, without the lifecycle ranks.
RecordedLastWins(i, s) == [ledger EXCEPT ![i] = s]

Recorded(i, s) ==
    IF LifecycleRank(s) >= LifecycleRank(ledger[i])
    THEN [ledger EXCEPT ![i] = s]
    ELSE ledger

SetbacksLeft == mishaps + fruitless < MaxSetbacks

\* One build that ends without a push.
Fruitless == SetbacksLeft /\ fruitless' = fruitless + 1

\* One injected fault.
Mishap == SetbacksLeft /\ mishaps' = mishaps + 1

\* The drain leaves `async with lock`; its arq job, if it was one, is over.
LeaveDrain ==
    /\ stage' = "idle"
    /\ ready' = {} /\ prHeads' = {} /\ stranded' = {} /\ buildable' = {}
    /\ opening' = {}
    /\ kick' = IF kick = "running" THEN "idle" ELSE kick

\* A build task returns to the gather.
Returns(t) ==
    /\ task' = [task EXCEPT ![t] = "none"] /\ held' = [held EXCEPT ![t] = 0]
    /\ gathered' = gathered \ {t}
    /\ UNCHANGED <<stage, plan, kick>>

\* A build task raises.  asyncio.gather hands the first exception to the drain,
\* which leaves its lock, and cancels nothing: the siblings run on unawaited.
Raises(t) ==
    /\ task' = [task EXCEPT ![t] = "none"] /\ held' = [held EXCEPT ![t] = 0]
    /\ IF t \in gathered THEN gathered' = {} /\ LeaveDrain
       ELSE UNCHANGED <<gathered, stage, plan, kick>>

\* open_staging_pr is four calls, and others act between them: whether the
\* target branch is there, whether the branch has an open PR, the merge of the
\* target branch into it, and gh pr create.
\*
\* bring_up_to_date fails: no such branch, or a merge conflict.
SyncRefused(i) == i \notin pushed \/ i \in conflicted

\* gh pr create: GitHub gives the branch the next number.  It refuses a second
\* open PR of a branch.
CreatePr(i) ==
    /\ i \in pushed /\ pr[i] = 0
    /\ lastPr' = lastPr + 1
    /\ pr' = [pr EXCEPT ![i] = lastPr + 1]

\* It refuses a missing branch, too, and may a branch that has been merged.
CreateRefused(i) == i \notin pushed \/ pr[i] # 0 \/ verdict[i] = "landed"

\* Whoever starts to open the branch's PR now may be refused.
NotOpenable(i) == pr[i] = 0 /\ (SyncRefused(i) \/ CreateRefused(i))

\* Mutant of RecordPr: the ledger row, and no reconcile row.
RecordPrInLedgerOnly(i, n) ==
    /\ mapped' = mapped
    /\ ledger' = Recorded(i, "pr_opened")

\* record_pr, then the ledger.
RecordPr(i, n) ==
    /\ mapped' = [mapped EXCEPT ![i] = n]
    /\ ledger' = Recorded(i, "pr_opened")

-----------------------------------------------------------------------------
(* Humans, and the webhook deliveries their acts cause. *)

\* enqueue_adhoc_drain: arq drops a job whose id is queued or running.
Enqueued == IF kick = "idle" THEN "queued" ELSE kick

\* A trigger label arrives (by a human or by the cron lane's promotion).
Trigger(i) ==
    /\ i \in open \ triggered
    /\ triggered' = triggered \cup {i}
    /\ kick' = Enqueued
    /\ UNCHANGED <<open, hitl, pushed, pr, lastPr, merged, dismissed,
                   conflicted, stage, plan, builds, reaps, reaping, mapped,
                   ledger, history>>

\* Any other issue event of _ISSUE_ACTIONS, or POST /api/drain.
OtherKick ==
    /\ kick = "idle"
    /\ kick' = Enqueued
    /\ UNCHANGED <<github, stage, plan, builds, reaps, reaping, mapped, ledger,
                   history>>

\* Removing hitl is the human "resume"; `unlabeled` kicks nothing.
Resume(i) ==
    /\ i \in hitl
    /\ hitl' = hitl \ {i}
    /\ resumed' = resumed \cup {i}
    /\ UNCHANGED <<open, triggered, pushed, pr, lastPr, merged, dismissed,
                   conflicted, stage, plan, builds, stores, verdict, fruitless,
                   mishaps>>

HumansCloseMore == Cardinality(merged \cup dismissed) < MaxClosings

\* A human merges the PR; the repo may delete the head branch; the webhook
\* enqueues the reap.
Merge(i) ==
    /\ pr[i] # 0 /\ HumansCloseMore
    /\ pr' = [pr EXCEPT ![i] = 0]
    /\ merged' = merged \cup {i}
    /\ conflicted' = conflicted \ {i}
    /\ \/ /\ pushed' = pushed \ {i}
          /\ UNCHANGED verdict
       \/ /\ verdict' = [verdict EXCEPT ![i] = "landed"]
          /\ UNCHANGED pushed
    /\ reaps' = reaps \cup {pr[i]}
    /\ UNCHANGED <<open, triggered, hitl, lastPr, dismissed, stage, plan,
                   builds, kick, reaping, mapped, ledger, resumed, fruitless,
                   mishaps>>

\* A human closes the issue by hand; `closed` kicks nothing.
Dismiss(i) ==
    /\ i \in open /\ HumansCloseMore
    /\ Cardinality(dismissed) < MaxDismissals
    /\ open' = open \ {i}
    /\ dismissed' = dismissed \cup {i}
    /\ UNCHANGED <<triggered, hitl, pushed, pr, lastPr, merged, conflicted,
                   stage, plan, builds, stores, history>>

\* What a human lands on the target branch conflicts with a pushed branch.
Conflict(i) ==
    /\ i \in pushed \ conflicted
    /\ Cardinality(conflicted) < MaxConflicts
    /\ Mishap
    /\ conflicted' = conflicted \cup {i}
    /\ UNCHANGED <<open, triggered, hitl, pushed, pr, lastPr, merged,
                   dismissed, stage, plan, builds, stores, verdict, resumed,
                   fruitless>>

-----------------------------------------------------------------------------
(* The merge reap. *)
\* Mutant of ReapResolve: it takes any issue with a row.
ReapResolveAnyRow(n) ==
    /\ n \in reaps
    /\ reaps' = reaps \ {n}
    /\ reaping' = reaping
                    \cup {<<i, n>> : i \in {j \in Issues : mapped[j] # 0}}
    /\ UNCHANGED <<github, stage, plan, builds, kick, mapped, ledger, history>>

\* reap_pr_job resolves the PR number to its issue, or skips an unknown PR.
ReapResolve(n) ==
    /\ n \in reaps
    /\ reaps' = reaps \ {n}
    /\ reaping' = reaping
                    \cup {<<i, n>> : i \in {j \in Issues : mapped[j] = n}}
    /\ UNCHANGED <<github, stage, plan, builds, kick, mapped, ledger, history>>

\* Mutant of ReapClose: it records GitHub's word for the issue.
ReapCloseRecordsClosed(i, n) ==
    /\ <<i, n>> \in reaping
    /\ reaping' = reaping \ {<<i, n>>}
    /\ open' = open \ {i}
    /\ mapped' = [mapped EXCEPT ![i] = 0]
    /\ ledger' = Recorded(i, "closed")
    /\ UNCHANGED <<triggered, hitl, pushed, pr, lastPr, merged, dismissed,
                   conflicted, stage, plan, builds, kick, reaps, history>>

\* reap_pr: close the issue, delete its row, record `merged`.
ReapClose(i, n) ==
    /\ <<i, n>> \in reaping
    /\ reaping' = reaping \ {<<i, n>>}
    /\ open' = open \ {i}
    /\ mapped' = [mapped EXCEPT ![i] = 0]
    /\ ledger' = Recorded(i, "merged")
    /\ UNCHANGED <<triggered, hitl, pushed, pr, lastPr, merged, dismissed,
                   conflicted, stage, plan, builds, kick, reaps, history>>

\* Closing the issue raises; arq does not retry a failed job.
ReapRaises(i, n) ==
    /\ <<i, n>> \in reaping
    /\ Mishap
    /\ reaping' = reaping \ {<<i, n>>}
    /\ UNCHANGED <<github, stage, plan, builds, kick, reaps, mapped, ledger,
                   verdict, resumed, fruitless>>

-----------------------------------------------------------------------------
(* The drain: run_adhoc_drain under its lock. *)
\* Mutant of KickRuns: the drain starts without the lock.
KickRunsUnlocked ==
    /\ kick = "queued"
    /\ kick' = "running" /\ stage' = "list"
    /\ UNCHANGED <<github, plan, builds, reaps, reaping, mapped, ledger,
                   history>>

\* run_adhoc_drain_job takes the lock.
KickRuns ==
    /\ kick = "queued" /\ stage = "idle"
    /\ kick' = "running" /\ stage' = "list"
    /\ UNCHANGED <<github, plan, builds, reaps, reaping, mapped, ledger,
                   history>>

\* The lock is held: AdhocDrainBusyError is swallowed and the job is done.
KickBusy ==
    /\ kick = "queued" /\ stage # "idle"
    /\ kick' = "idle"
    /\ UNCHANGED <<github, stage, plan, builds, reaps, reaping, mapped, ledger,
                   history>>

\* The heartbeat sweeps the repo; a busy lock makes the sweep a no-op.
SweepRuns ==
    /\ SweepDue /\ stage = "idle"
    /\ stage' = "list"
    /\ UNCHANGED <<github, plan, builds, stores, history>>

\* gh issue list: the newest PageSize of the open issues wearing the label.
Page ==
    LET wearing == open \cap triggered
    IN  {i \in wearing : Cardinality({j \in wearing : j > i}) < PageSize}

\* Mutant of List: is_admissible forgets the hitl label.
ListEscalatedToo ==
    /\ stage = "list"
    /\ ready' = Page
    /\ ledger' = [i \in Issues |-> IF i \in ready'
                                  THEN Recorded(i, "queued")[i] ELSE ledger[i]]
    /\ stage' = "gate"
    /\ UNCHANGED <<github, prHeads, stranded, buildable, opening, builds, kick,
                   reaps, reaping, mapped, history>>

\* list_ready, is_admissible, and the `queued` rows.
List ==
    /\ stage = "list"
    /\ ready' = Page \ hitl
    /\ ledger' = [i \in Issues |-> IF i \in ready'
                                  THEN Recorded(i, "queued")[i] ELSE ledger[i]]
    /\ stage' = "gate"
    /\ UNCHANGED <<github, prHeads, stranded, buildable, opening, builds, kick,
                   reaps, reaping, mapped, history>>

\* An issue never blocks itself.
BlockersOf(i) == (BodyBlockersOf[i] \cup NativeBlockersOf[i]) \ {i}

\* native_blockers answers a failed lookup with no blockers.
BlockersRead(i, failed) ==
    IF i \in failed THEN BodyBlockersOf[i] \ {i} ELSE BlockersOf(i)

\* Mutant of Gate: only blockers that are ready themselves count.
GateAmongReady ==
    /\ stage = "gate"
    /\ ready' = {i \in ready : BlockersOf(i) \cap ready = {}}
    /\ stage' = "heads"
    /\ UNCHANGED <<github, prHeads, stranded, buildable, opening, builds,
                   stores, history>>

\* resolve_ready.  A native lookup that fails hides blockers (failed), and
\* is_closed reads a blocker it cannot look up as open (unread).
Gate ==
    /\ stage = "gate"
    /\ \E failed \in SUBSET ready, unread \in SUBSET Issues :
           /\ IF failed \cup unread = {} THEN UNCHANGED mishaps ELSE Mishap
           /\ ready' = {i \in ready :
                           BlockersRead(i, failed) \cap (open \cup unread) = {}}
    /\ stage' = "heads"
    /\ UNCHANGED <<github, prHeads, stranded, buildable, opening, builds,
                   stores, verdict, resumed, fruitless>>

\* flight_snapshot's first query.
SnapshotHeads ==
    /\ stage = "heads"
    /\ prHeads' = {i \in Issues : pr[i] # 0}
    /\ stage' = "branches"
    /\ UNCHANGED <<github, ready, stranded, buildable, opening, builds, stores,
                   history>>

\* Mutant of SnapshotBranches: a branch without a PR counts as in flight.
SnapshotBranchesForgetful ==
    /\ stage = "branches"
    /\ stranded' = {}
    /\ buildable' = ready \ pushed
    /\ ready' = {} /\ prHeads' = {}
    /\ stage' = "recover"
    /\ UNCHANGED <<github, opening, builds, stores, history>>

\* Its second query, state_for and _partition_candidates.
SnapshotBranches ==
    /\ stage = "branches"
    /\ stranded' = (ready \cap pushed) \ prHeads
    /\ buildable' = ready \ pushed
    /\ ready' = {} /\ prHeads' = {}
    /\ stage' = "recover"
    /\ UNCHANGED <<github, opening, builds, stores, history>>

\* _open_stranded_prs takes the issues in the order gh listed them, and runs
\* process_adhoc_pr with no gate.
Recovering(i) ==
    /\ stage \in {"recover", "sync", "create"} /\ opening = {}
    /\ i \in stranded
    /\ \A j \in stranded : j <= i

\* existing_open_pr finds a PR, and nothing more is to be opened ...
RecoverFound(i) ==
    /\ Recovering(i) /\ stage = "recover"
    /\ pr[i] # 0
    /\ opening' = {<<i, pr[i]>>}
    /\ UNCHANGED <<github, stage, ready, prHeads, stranded, buildable, builds,
                   stores, history>>

\* ... or none.
RecoverNone(i) ==
    /\ Recovering(i) /\ stage = "recover"
    /\ pr[i] = 0
    /\ stage' = "sync"
    /\ UNCHANGED <<github, plan, builds, stores, history>>

RecoverSync(i) ==
    /\ Recovering(i) /\ stage = "sync"
    /\ ~SyncRefused(i)
    /\ stage' = "create"
    /\ UNCHANGED <<github, plan, builds, stores, history>>

RecoverCreate(i) ==
    /\ Recovering(i) /\ stage = "create"
    /\ CreatePr(i)
    /\ opening' = {<<i, pr'[i]>>}
    /\ stage' = "recover"
    /\ UNCHANGED <<open, triggered, hitl, pushed, merged, dismissed,
                   conflicted, ready, prHeads, stranded, buildable, builds,
                   stores, history>>

RecoverRecord(i, n) ==
    /\ stage = "recover" /\ <<i, n>> \in opening
    /\ RecordPr(i, n)
    /\ stranded' = stranded \ {i} /\ opening' = {}
    /\ UNCHANGED <<github, stage, ready, prHeads, buildable, builds, kick,
                   reaps, reaping, history>>

\* staging_exists answers no: hitl instead of a PR, and on to the next.
RecoverMissing(i) ==
    /\ Recovering(i) /\ stage = "recover"
    /\ Mishap
    /\ hitl' = hitl \cup {i}
    /\ stranded' = stranded \ {i}
    /\ UNCHANGED <<open, triggered, pushed, pr, lastPr, merged, dismissed,
                   conflicted, stage, ready, prHeads, buildable, opening,
                   builds, stores, verdict, resumed, fruitless>>

\* GitHub refuses the sync or the PR: the raise ends the whole drain, before
\* any build.
RecoverRefused(i) ==
    /\ Recovering(i)
    /\ \/ stage = "sync" /\ SyncRefused(i)
       \/ stage = "create" /\ CreateRefused(i)
    /\ LeaveDrain
    /\ UNCHANGED <<github, builds, reaps, reaping, mapped, ledger, history>>

\* A gh or store call of the drain itself raises; record_pr may have landed.
DrainRaises ==
    /\ stage \in Stages \ {"idle", "gather"}
    /\ Mishap
    /\ \/ UNCHANGED mapped
       \/ \E p \in opening : mapped' = [mapped EXCEPT ![p[1]] = p[2]]
    /\ LeaveDrain
    /\ UNCHANGED <<github, builds, reaps, reaping, ledger, verdict, resumed,
                   fruitless>>

\* _select_buildable, and the gather of one task per selected issue.
Selected ==
    {c.number : c \in SelectToBuild(
        {[number |-> i, labels |-> LabelsOf[i]] : i \in buildable}, Cap)}

FreshTask(i) ==
    <<i, CHOOSE l \in Lives : task[<<i, l>>] = "none">>

Select ==
    /\ stage = "recover" /\ stranded = {}
    /\ Selected # {}
    /\ \A i \in Selected : \E l \in Lives : task[<<i, l>>] = "none"
    /\ gathered' = {FreshTask(i) : i \in Selected}
    /\ task' = [t \in Tasks |-> IF t \in gathered' THEN "meter" ELSE task[t]]
    /\ buildable' = {}
    /\ stage' = "gather"
    /\ UNCHANGED <<github, ready, prHeads, stranded, opening, held, stores,
                   history>>

\* Mutant of DrainEnds: the drain starts its builds and does not await them.
DrainEndsAtOnce ==
    /\ \/ stage = "recover" /\ stranded = {} /\ Selected = {}
       \/ stage = "gather"
    /\ LeaveDrain
    /\ UNCHANGED <<github, builds, reaps, reaping, mapped, ledger, history>>

\* Nothing to build, or every gathered build has returned.
DrainEnds ==
    /\ \/ stage = "recover" /\ stranded = {} /\ Selected = {}
       \/ stage = "gather" /\ gathered = {}
    /\ LeaveDrain
    /\ UNCHANGED <<github, builds, reaps, reaping, mapped, ledger, history>>

-----------------------------------------------------------------------------
(* One build task: build_one, build_adhoc_issue and process_adhoc_pr. *)

Stores(t, s) == task' = [task EXCEPT ![t] = s]

\* meter_adhoc declines: the build is skipped.
MeterDeclines(t) ==
    /\ task[t] = "meter" /\ Fruitless
    /\ Returns(t)
    /\ UNCHANGED <<github, reaps, reaping, mapped, ledger, verdict, resumed,
                   mishaps>>

MeterAdmits(t) ==
    /\ task[t] = "meter"
    /\ Stores(t, "build")
    /\ ledger' = Recorded(t[1], "building")
    /\ UNCHANGED <<github, stage, plan, held, gathered, kick, reaps, reaping,
                   mapped, history>>

\* The done-check is red: nothing is pushed, the result is not passed, and the
\* pipeline records `failed`.
BuildRed(t) ==
    /\ task[t] = "build" /\ Fruitless
    /\ ledger' = Recorded(t[1], "failed")
    /\ Returns(t)
    /\ UNCHANGED <<github, reaps, reaping, mapped, verdict, resumed, mishaps>>

\* The done-check is green and push_branch creates the branch.
BuildGreen(t) ==
    /\ task[t] = "build" /\ t[1] \notin pushed
    /\ Stores(t, "report")
    /\ pushed' = pushed \cup {t[1]}
    /\ verdict' = [verdict EXCEPT ![t[1]] = "unreviewed"]
    /\ resumed' = resumed \ {t[1]}
    /\ UNCHANGED <<open, triggered, hitl, pr, lastPr, merged, dismissed,
                   conflicted, stage, plan, held, gathered, stores, fruitless,
                   mishaps>>

\* The branch exists already with other commits: git push, never forced, is
\* rejected and push_branch raises.
PushRejected(t) ==
    /\ task[t] = "build" /\ t[1] \in pushed
    /\ Raises(t)
    /\ UNCHANGED <<github, reaps, reaping, mapped, ledger, history>>

\* The done-check report is posted; the review gate starts.
Report(t) ==
    /\ task[t] = "report"
    /\ Stores(t, "review")
    /\ UNCHANGED <<github, stage, plan, held, gathered, stores, history>>

\* _run_review_gate: cleared goes on to the PR, blocked to the escalation.
Review(t, outcome) ==
    /\ task[t] = "review"
    /\ verdict' = [verdict EXCEPT ![t[1]] = outcome]
    /\ Stores(t, IF outcome = "cleared" THEN "open" ELSE "escalate")
    /\ UNCHANGED <<github, stage, plan, held, gathered, stores, resumed,
                   fruitless, mishaps>>

\* Mutant of Escalate: the comment is posted, the hitl label forgotten.
EscalateUnlabelled(t) ==
    /\ task[t] = "escalate"
    /\ ledger' = Recorded(t[1], "escalated")
    /\ Returns(t)
    /\ UNCHANGED <<github, reaps, reaping, mapped, history>>

\* _escalate_blocking: the comment, the hitl label, the ledger.
Escalate(t) ==
    /\ task[t] = "escalate"
    /\ hitl' = hitl \cup {t[1]}
    /\ ledger' = Recorded(t[1], "escalated")
    /\ Returns(t)
    /\ UNCHANGED <<open, triggered, pushed, pr, lastPr, merged, dismissed,
                   conflicted, reaps, reaping, mapped, history>>

\* _file_backlog, then open_staging_pr: an open PR is taken as it is.
OpenFound(t) ==
    /\ task[t] = "open"
    /\ pr[t[1]] # 0
    /\ held' = [held EXCEPT ![t] = pr[t[1]]]
    /\ Stores(t, "record")
    /\ UNCHANGED <<github, stage, plan, gathered, stores, history>>

OpenNone(t) ==
    /\ task[t] = "open"
    /\ pr[t[1]] = 0
    /\ Stores(t, "sync")
    /\ UNCHANGED <<github, stage, plan, held, gathered, stores, history>>

OpenSync(t) ==
    /\ task[t] = "sync" /\ ~SyncRefused(t[1])
    /\ Stores(t, "create")
    /\ UNCHANGED <<github, stage, plan, held, gathered, stores, history>>

OpenCreate(t) ==
    /\ task[t] = "create"
    /\ CreatePr(t[1])
    /\ held' = [held EXCEPT ![t] = pr'[t[1]]]
    /\ Stores(t, "record")
    /\ UNCHANGED <<open, triggered, hitl, pushed, merged, dismissed,
                   conflicted, stage, plan, gathered, stores, history>>

\* GitHub refuses the sync, or the PR: another opened one after the look, or
\* one of the branch was merged meanwhile.
OpenRefused(t) ==
    /\ \/ task[t] = "sync" /\ SyncRefused(t[1])
       \/ task[t] = "create" /\ CreateRefused(t[1])
    /\ Raises(t)
    /\ UNCHANGED <<github, reaps, reaping, mapped, ledger, history>>

RecordOpened(t) ==
    /\ task[t] = "record"
    /\ RecordPr(t[1], held[t])
    /\ Returns(t)
    /\ UNCHANGED <<github, reaps, reaping, history>>

\* A call of the task raises; the gate alone turns its errors into a verdict.
\* The hitl label or the PR row may have landed before the raise.
TaskRaises(t) ==
    /\ task[t] \in TaskStates \ {"none", "review"}
    /\ Mishap
    /\ \/ UNCHANGED <<hitl, mapped>>
       \/ task[t] = "escalate" /\ hitl' = hitl \cup {t[1]} /\ UNCHANGED mapped
       \/ /\ task[t] = "record"
          /\ mapped' = [mapped EXCEPT ![t[1]] = held[t]]
          /\ UNCHANGED hitl
    /\ Raises(t)
    /\ UNCHANGED <<open, triggered, pushed, pr, lastPr, merged, dismissed,
                   conflicted, reaps, reaping, ledger, verdict, resumed,
                   fruitless>>

\* staging_exists answers no (the branch is missing, or the query failed):
\* hitl instead of a PR, and no terminal ledger state.
StagingMissing(t) ==
    /\ task[t] = "open"
    /\ Mishap
    /\ hitl' = hitl \cup {t[1]}
    /\ Returns(t)
    /\ UNCHANGED <<open, triggered, pushed, pr, lastPr, merged, dismissed,
                   conflicted, reaps, reaping, mapped, ledger, verdict,
                   resumed, fruitless>>

-----------------------------------------------------------------------------
(* The worker process. *)

Cancelled(ts) ==
    /\ task' = [t \in Tasks |-> IF t \in ts THEN "none" ELSE task[t]]
    /\ held' = [t \in Tasks |-> IF t \in ts THEN 0 ELSE held[t]]
    /\ gathered' = {}

\* arq's job_timeout cancels the drain and, through gather, its builds; a
\* timed-out job is not run again.
JobTimeout ==
    /\ stage # "idle"
    /\ Mishap
    /\ Cancelled(gathered)
    /\ LeaveDrain
    /\ UNCHANGED <<github, reaps, reaping, mapped, ledger, verdict, resumed,
                   fruitless>>

\* The worker dies and restarts: its lock and tasks are gone, arq runs the
\* jobs it had started again.
Crash ==
    /\ Mishap
    /\ Cancelled(Tasks)
    /\ stage' = "idle"
    /\ ready' = {} /\ prHeads' = {} /\ stranded' = {} /\ buildable' = {}
    /\ opening' = {}
    /\ kick' = IF kick = "running" THEN "queued" ELSE kick
    /\ reaps' = reaps \cup {p[2] : p \in reaping}
    /\ reaping' = {}
    /\ UNCHANGED <<github, mapped, ledger, verdict, resumed,
                   fruitless>>

-----------------------------------------------------------------------------
Human(i) ==
    Trigger(i) \/ Resume(i) \/ Merge(i) \/ Dismiss(i) \/ Conflict(i)

Reap == \/ \E n \in reaps : ReapResolve(n)
        \/ \E p \in reaping : ReapClose(p[1], p[2]) \/ ReapRaises(p[1], p[2])

Start == KickRuns \/ KickBusy \/ SweepRuns

Drain ==
    \/ List \/ Gate \/ SnapshotHeads \/ SnapshotBranches
    \/ \E i \in stranded :
           \/ RecoverFound(i) \/ RecoverNone(i) \/ RecoverSync(i)
           \/ RecoverCreate(i) \/ RecoverMissing(i) \/ RecoverRefused(i)
    \/ \E p \in opening : RecoverRecord(p[1], p[2])
    \/ DrainRaises \/ Select \/ DrainEnds

Build(t) ==
    \/ MeterDeclines(t) \/ MeterAdmits(t)
    \/ BuildRed(t) \/ BuildGreen(t) \/ PushRejected(t)
    \/ Report(t)
    \/ Review(t, "cleared") \/ Review(t, "blocked")
    \/ Escalate(t)
    \/ OpenFound(t) \/ OpenNone(t) \/ OpenSync(t) \/ OpenCreate(t)
    \/ OpenRefused(t) \/ RecordOpened(t)
    \/ StagingMissing(t) \/ TaskRaises(t)

Next ==
    \/ \E i \in Issues : Human(i)
    \/ OtherKick
    \/ Reap
    \/ Start
    \/ Drain
    \/ \E t \in Tasks : Build(t)
    \/ JobTimeout \/ Crash

Spec == Init /\ [][Next]_vars

\* asyncio resumes every runnable task, arq starts every queued job and the
\* heartbeat fires every quarter of an hour.  Humans owe nothing.
Fairness ==
    /\ WF_vars(KickRuns) /\ WF_vars(KickBusy) /\ WF_vars(SweepRuns)
    /\ WF_vars(Drain /\ UNCHANGED mishaps)
    /\ \A t \in Tasks : WF_vars(Build(t) /\ UNCHANGED mishaps)
    /\ WF_vars(Reap /\ UNCHANGED mishaps)

FairSpec == Spec /\ Fairness

-----------------------------------------------------------------------------
(* Safety. *)

Alive(t) == task[t] # "none"

\* What a drain listing now would find ready.
Schedulable(i) ==
    i \in (open \cap triggered) \ hitl /\ BlockersOf(i) \cap open = {}

\* With no fault, only one build of an issue is ever alive, although no code
\* keys builds by issue: the drain lock, the gather and the flight snapshot
\* (adhoc_drain.py) keep it so together.
OneBuildPerIssue ==
    mishaps = 0 =>
        \A t, u \in Tasks : Alive(t) /\ Alive(u) /\ t[1] = u[1] => t = u

\* With no fault, no more builds run at once than max_parallel.
BuildsWithinCap ==
    mishaps = 0 /\ Cap # NoCap => Cardinality({t \in Tasks : Alive(t)}) <= Cap

\* An issue is built only once every blocker its body names was closed, by a
\* merge or by hand, whatever fails and however stale the drain's view; and
\* with no fault, every native blocker too (resolve_ready).
BuildAfterBlockersClosed ==
    \A t \in Tasks : Alive(t) =>
        /\ (BodyBlockersOf[t[1]] \ {t[1]}) \cap open = {}
        /\ mishaps = 0 => BlockersOf(t[1]) \cap open = {}

\* With no fault, every open PR is of code the review gate cleared, or of an
\* issue whose escalation a human lifted by removing hitl (pipeline.py and
\* the stranded recovery of adhoc_drain.py).
OpenPrReviewed ==
    mishaps = 0 =>
        \A i \in Issues : pr[i] # 0 =>
            verdict[i] \in {"cleared", "landed"} \/ i \in resumed

\* With no fault, an open PR of an issue never merged before has its row in
\* RunStateStore, or the one who opened it is about to write it.
OpenPrMapped ==
    mishaps = 0 =>
        \A i \in Issues \ merged : pr[i] # 0 =>
            \/ mapped[i] = pr[i]
            \/ <<i, pr[i]>> \in opening
            \/ \E t \in Tasks :
                   t[1] = i /\ task[t] = "record" /\ held[t] = pr[i]

\* Whatever fails, an issue no human closed is closed only once its own PR was
\* merged: the reap never resolves a PR number to the wrong issue.
ClosedWasMerged ==
    \A i \in Issues : i \notin open => i \in merged \cup dismissed

\* With no fault, a PR is never opened for an issue that wears hitl.
EscalatedStaysOut ==
    [][mishaps' = 0 =>
         \A i \in Issues : pr[i] = 0 /\ pr'[i] # 0 => i \notin hitl]_vars

\* With no fault, whoever has looked for the branch's open PR and found none
\* still finds none when it creates one, although nothing holds the branch
\* between the calls of open_staging_pr: no two openers ever race, and none is
\* refused for a PR it did not see.
OpenersNeverRace ==
    mishaps = 0 =>
        /\ \A t \in Tasks : task[t] \in {"sync", "create"} => pr[t[1]] = 0
        /\ stage \in {"sync", "create"} =>
               \A i \in stranded : Recovering(i) => pr[i] = 0

Life == INSTANCE IssueLife WITH
    asked <- triggered, branched <- pushed,
    offered <- {i \in Issues : pr[i] # 0},
    waiting <- hitl, closed <- Issues \ open, byHand <- dismissed

\* Whatever fails, and in whatever order drains, builds, reaps and humans act,
\* GitHub sees the life of an issue that IssueLife lays out.
LivesAsPromised == Life!Spec

\* The run-ledger never moves an issue back in its lifecycle.
LedgerNeverRegresses ==
    [][\A i \in Issues :
         LifecycleRank(ledger'[i]) >= LifecycleRank(ledger[i])]_vars

-----------------------------------------------------------------------------
(* What the source says of itself and a run refutes. *)

\* adhoc_build.py: the gate is fail-closed "instead of ever shipping unreviewed
\* work".
NeverShipsUnreviewed ==
    \A i \in Issues : pr[i] # 0 =>
        verdict[i] \in {"cleared", "landed"} \/ i \in resumed

\* adhoc_drain.py: "two drains for the same repo never overlap": while a drain
\* runs, every build alive is its own.
DrainsNeverOverlap ==
    stage # "idle" => \A t \in Tasks : Alive(t) => t \in gathered

\* reconcile.py: the PR number is recorded "so a later merge webhook can
\* resolve the PR back to the issue it closes": no reap job skips its PR as
\* unknown.
MergeResolves ==
    [][\A n \in reaps :
         ReapResolve(n) => \E i \in Issues : mapped[i] = n]_vars

\* readiness.py: "an open - or unresolvable - blocker keeps the issue out of
\* scheduling until it closes": no build runs while a blocker of its issue,
\* native or not, is open.
NeverBuiltBlocked ==
    \A t \in Tasks : Alive(t) => BlockersOf(t[1]) \cap open = {}

\* adhoc_drain.py, of every drain: "recover every stranded issue".  A pushed
\* branch that can be opened gets its PR, whatever becomes of the others.
StrandedRecovered ==
    \A i \in Issues :
        Schedulable(i) /\ i \in pushed /\ ~NotOpenable(i)
            ~> pr[i] # 0 \/ i \in merged \/ i \in hitl \/ NotOpenable(i)

-----------------------------------------------------------------------------
(* Liveness. *)

Settled(i) ==
    \/ pr[i] # 0 \/ i \in merged \/ i \in hitl \/ ledger[i] = "failed"
    \/ i \notin open

\* The recovery of this branch may be refused, and that ends every drain that
\* lists its issue before anything is built (StrandedRecovered, above).
Poisons(i) == Schedulable(i) /\ i \in pushed /\ NotOpenable(i)

\* The lane is stateless and heals itself: wherever a finite number of calls
\* raised, jobs timed out or workers died, a schedulable issue comes to an open
\* PR, a human's attention, a reported failure or its end - unless a branch
\* whose recovery is refused stays in the drains' way.
ReadyWorkSettles ==
    <>[](\A i \in Issues : ~Poisons(i)) =>
        \A i \in Issues : Schedulable(i) ~> Settled(i)
=============================================================================
