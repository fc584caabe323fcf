# A TLA+ model of the retinue worker

Retinue is a worker that builds GitHub issues.  An issue that wears a repo's trigger label is built in a
container by a coding agent, checked, reviewed by a gate of other agents and offered as a pull request; a
human merges the PR, and the worker closes the issue.  Everything runs in one asyncio process: coroutines
interleave at every `await`, GitHub is the only queue, and three stores (Redis jobs, a run-state table, a
spend ledger) outlive a restart.  This directory models that process in TLA+, checks it with TLC and proves
the properties that matter most with TLAPS.

## Inventory

| component (src/retinue) | state it keeps | operations | what must hold |
|---|---|---|---|
| Slot scheduler: `scheduler`, `repo_config` | none; tiers and `max_parallel` from the repo's config | `tier_of`, `partition_queues`, `select_to_build` | cap, reserved slot, rank order, no wasted slot |
| Scheduler drain: `adhoc_drain`, `readiness`, `single_run` | the per-repo lock; what it has listed and snapshotted | list, readiness gate, flight snapshot, recover stranded branches, select, meter and gather builds | one build per issue, blockers first, every issue is eventually settled |
| Build and gate: `adhoc_build`, `container_build`, `reviewer` | the container and its clone; the pushed branch | build, done-check, push, report, review passes, verdict | no PR without a cleared gate; what is shipped is what was reviewed; review-fix chains end |
| PR pipeline: `pipeline`, `pr_opener`, `notify` | the PR on GitHub | escalate (comment, `hitl`), file nits, bring up to date, open or reuse the PR, record it | one PR per branch, recorded, not for escalated issues |
| Merge reap and run state: `handoff`, `reconcile`, `run_ledger` | PR number per issue; coarse lifecycle per issue | `record_pr`, `round_for_pr`, close, delete row; ranked upsert | close only what was merged; never move back |
| Worker, queue, webhook, API: `worker`, `queue`, `webhook`, `api` | one coalesced drain job per repo, reap jobs | kick, run or swallow as busy, reap, timeout, restart | no kick's work is lost for good |
| Budget: `budget` | the rolling 24 h ledger in SQLite | `gate`, `meter_adhoc`, `record_charge`, `window_frees_at` | metered charges land only where they fit; a deferral names the right instant |
| Heartbeat and cron lane: `heartbeat`, `cron`, `wiring`, `vocab`, `issues` | tick number, per-repo cron lock, the backlog on GitHub | sweep due repos, promote one backlog issue per repo and beat | every repo swept, low priority drains, one promotion per issue |
| Routing and classifier: `routing`, `level`, `classifier`, `messages_api` | the issue's `level:` labels | read the labels, ask the classifier (one retry), label, charge, comment | the level is the table's; rebuilds agree; asked once and paid once |
| GitHub App: `github_app` | token cache | mint and reuse installation tokens; page installations and repositories; fetch files | a token outlives its use; no repo is missed or starved |
| Container runtime: `container`, `done_check` | Docker's containers | ensure the image, create, start, run, remove | every container is removed |
| Seams: `gh`, `db` | none | subprocess, SQLite connection | I/O; a failing call is a fault of the caller |
| Settings, roles, assembly: `config`, `roles`, `app` | none | parse, look up model and effort, wire | no state |
| Retry store: `impl_retry` | a counter | none called by a drain | not modelled |

How they meet: the webhook and the API enqueue the drain job; the job and the heartbeat start the same drain
under one per-repo lock; the drain gathers builds; a build pushes a branch, runs the gate and calls the
pipeline; the pipeline opens a PR and records it; the merge webhook enqueues the reap, which reads that
record.  The cron tick turns a backlog label into a trigger label, whose webhook kicks the drain.  All lanes
charge one ledger.

What is hard: every call may raise; `asyncio.gather` cancels nothing when one build raises; arq cancels a job
at its timeout, at any `await`, and does not rerun it; a restart forgets locks and tasks; two GitHub queries
are two instants; a label event may be lost, or coalesced with a kick that came too late.  `PROJECT.json`
lists these hazards at their lines, each with the properties that would catch it.

## Modules

| module | models | reads as |
|---|---|---|
| `SlotScheduler` | `scheduler.py`, the tier functions of `repo_config.py` | operators only; a tier is its index, `None` the index after the last |
| `SchedulerPasses` | the drain's use of it, pass after pass | arrivals, relabelling, `Pass(cap)` |
| `AdhocLane` | one repo's lane, from label to closed issue | extends `SlotScheduler`; one action per step between two awaits |
| `BuildPromise` | the phases of a build task that `AdhocLane` relies on | the abstract specification |
| `GatedBuild` | the container lifecycle, the review gate with its fix pass, the filing of nits | one build at a time over a whole review-fix chain; implements `BuildPromise` (`KeepsPromise`) |
| `SpendWindow` | the sums over the 24 h window | operators shared by the next two |
| `SpendCap` | what the ledger promises: a metered charge lands atomically, only while it fits | the abstract specification |
| `RollingBudget` | `budget.py`, await by await, several lanes | implements `SpendCap` (`LandsWithinCap`) |
| `CronLane` | `heartbeat.py`, `cron.py`, their locks | several beats over several repos; drains reduced to held / listed / free |
| `CronMatch` | `cron_due` and its helpers | operators; beside them the crontab reading they are checked against |
| `Sweep` | `installed_repositories`, the config fetch, `enumerate_repos` | one beat over listings that change; extends `CronMatch` |
| `BuildResources` | the token cache, the container runtime, the lifecycle of `build_issue_in_container` | several builds of a repo; time is counted in ticks |
| `Routing` | `_resolve_adhoc_level` down to the classifier's transport | one issue, build after build, with humans at its labels and the table |
| `IssueLife` | the life of an issue as GitHub shows it | the abstract specification `AdhocLane` implements (`LivesAsPromised`) |
| `MC*` | definitions that give the constants small values | |
| `AdhocLane_proofs`, `SlotScheduler_proofs`, `SchedulerPasses_proofs`, `Heartbeat_proofs`, `RollingBudget_proofs`, `GatedBuild_proofs`, `BuildResources_proofs`, `Routing_proofs` | theorems | |

**AdhocLane.**  The variables are grouped as in the module: GitHub (`open`, `triggered`, `hitl`, `pushed`,
`pr`, `merged`, `dismissed`, `conflicted`), the worker (`stage` of the drain that holds the lock, its working
sets, the build tasks), the stores (`kick` is the coalesced arq job, `reaps` the reap jobs, `mapped` the
run-state row, `ledger` the run ledger) and history (`verdict`, `resumed` and the counters of the bounds).
The drain's stages follow `run_adhoc_drain`: `List`, `Gate` (readiness), `SnapshotHeads` and
`SnapshotBranches` (the two queries of one snapshot), the recovery of stranded branches one by one, `Select`,
and the gather, which ends when every task has returned.  A task is `<<issue, life>>` because nothing in the
code keys a build by its issue: that at most one is alive is a property (`OneBuildPerIssue`), not an
assumption.  `Raises` is the heart of the failure model: the first exception ends the drain and frees its
lock, and the siblings run on.  A container's work up to the push changes nothing outside it and is one step
with three outcomes (`BuildRed`, `BuildGreen`, `PushRejected`).  `open_staging_pr` is four calls: the two
looks (`OpenFound`, `OpenNone`, and `StagingMissing` for a target branch that is not there), the merge of the
target branch (`OpenSync`) and `gh pr create` (`OpenCreate`); the recovery of stranded branches runs the same
four (`RecoverFound` to `RecoverCreate`).  Nothing is held between them, and it is GitHub that refuses a
second PR of a branch (`OpenRefused`, `RecoverRefused`).  `Gate` reads an issue's blockers from two sources,
its body and GitHub's native relations; a native lookup that fails hides them, as in the code, and a blocker
counts as cleared when it is closed, by a merge or by hand (`Dismiss`).  `TaskRaises`, `DrainRaises`,
`ReapRaises`, `RecoverMissing`, `StagingMissing`, `JobTimeout`, `Crash` and `Conflict` are the faults; where a
call may have taken effect before it raised, both outcomes are allowed.

**GatedBuild.**  `stage` is the await the task is in, from `prepare` (container, clone, planner) over
`implement`, `landed` (the hollow guard), `check`, `push` and `report` into the gate (`review`, `fix`,
`recheck`, `repush`, `rereview`) and out through `teardown` to `escalate`, or to `file`, `open`, `sync` and
`create`.  The code is numbered by the edits made to it: `tree` is the working tree the done-check runs over,
`head` the commits the push and the review take, `pushed` what is on origin, `seen` what the reviewer diffed
last, and `synced` says whether the target branch was merged on top of it on origin after that
(`bring_up_to_date`).  An agent may commit all, part or none of its edits (`Edits`).  A body is the sequence
of depth markers in it: `Depth` reads the last, `Stamped` appends one below a text that may quote others.
`Raises`, `Cancelled` and `GateRaises` fail at any stage; a push or an issue create that fails may have
landed.  Its stages map onto the task states of `AdhocLane` (`Phase`), which is what makes the four steps of a
task there enough.

**RollingBudget.**  Each lane is at one of the awaits of a governor call: the instant is stamped first, the
write lock awaited next (`Begin`), then the check, the insert and the commit; `RecordSpend` is the
classifier's charge, which asks nobody.  `Abort` is an exception or a cancellation at any of them but one: the
BEGIN is awaited outside the `try`, and a task cancelled there (`BeginCancelled`) leaves the transaction open.
From then on every metered charge raises (`BeginRaises`) and what the classifier records is lost at the next
`Restart`; `leaked` is where the ledger will be cut.

**CronLane.**  `Begin` is `heartbeat_tick`: it advances the tick number and decides, at one instant, which
repos are due.  `Visits`, `SweepTakes`, `SweepBusy`, `TickLists`, `GateAdmits`, `Promote` follow the loop of
`run_heartbeat`; a beat waits for the drain it started, so beats overlap.  `Promote` is `Trigger` of
`AdhocLane`, and its sweep is `SweepRuns` there: `MissedIsSwept` is the reason for that action's fairness.

**IssueLife.**  `AdhocLane` maps `triggered` to `asked`, `pushed` to `branched`, the domain of open PRs to
`offered`, `hitl` to `waiting`.  Drains, snapshots, ledgers, queues and faults are gone; what is left is that
code appears only for an issue that was asked for, on closed blockers (the native ones as long as no lookup
failed), and that an issue is closed once, for its own merged PR or by a human.  A raise, a timeout or a crash
of the lane is a stutter here.

**Sweep.**  `request` is what the beat awaits: a page of installations, the mint of a token for the next
one, a page of its repositories, a repo's config.  GitHub's listings are sequences that gain at the end and
close up behind what leaves, while they are paged; entries the parsers skip are `Odd`.  `Kept` and `LastPage`
keep apart what a page holds and what is kept of it.  `FetchOptedIn`, `FetchOptedOut` and `FetchUndecodable`
are the outcomes of one fetch; `FetchGone` is the mint refused for a repo that has left
since it was listed, unless a cached token still serves (`OptedOut` for a private repo, and a public one is
read as before).  Nothing in the enumeration is caught, so a failing request is `Abandon`.  A
cadence is a sequence of fields, a field a set of terms, a term what its text parses to; `CronDue` follows
the code's ranges and remainders, `Names` lists the values of every field one by one, as the docstrings lay
them out: a term whose base leaves the bounds of its field lists nothing.  The two agree on cadences that keep
to their bounds (`Bounded`); `OutOfBoundsSilent` is about the others.

**BuildResources.**  `stage` follows a build from the token (`ask`, `resolve`, `mint`, `store`) over the
container (`image`, `create`, `start`) to the work inside (`clone`, `work`, `push`, once more for the review
gate's fix) and `destroy`.  `cached` and `left` are what tokens have left.  The cache has no lock: two builds
may mint at once and store in either order.  `Unwind` is Python's `finally`, which begins after `start`
returned.  A `Drain` starts several builds at once and waits for them (`Bound`); an exception that gets out
of one (`Escapes`) ends the drain and leaves the others `orphaned`: they run on beside the next drain, no
timeout ends them, and `age`, which `JobTimeout` bounds, is that of the drain in hand.

**Routing.**  `stage` follows the hop: the facts, the classifier's attempts, the label, the charge, the
comment.  `config` is the table the drain has read and `table` what the file holds by now.  Each call has the
failures the code gives it: `Disappoints` is retried, `LabelFails` and `NoSuchLabel` are swallowed, `Raises`
falls back to the default level, `Garbled` (a body that is no JSON) passes the classifier and falls back too.

## Runs

| run | instance | shows |
|---|---|---|
| `SchedulerPasses` | 3 issues, 2 tiers and none, `max_parallel` in {none, 1, 2, 3} chosen per pass | `BatchWithinCap`, `BatchReservesSlot`, `BatchRankClosed`, `BatchWorkConserving` |
| `AdhocLane_lane` | 2 free issues, cap 2, 2 lives, 1 merge, 1 fault, conflict, red or declined build | with no fault: `OneBuildPerIssue`, `BuildsWithinCap`, `OpenPrReviewed`, `OpenPrMapped`, `OpenersNeverRace`, `EscalatedStaysOut`; with one: `LedgerNeverRegresses` |
| `AdhocLane_lives` | 3 issues, 1 blocking 2 in its body and 3 natively, cap 1, 1 issue merged or closed by hand, 1 fault, conflict, red or declined build, fair | `BuildAfterBlockersClosed`, `ClosedWasMerged`, refinement `LivesAsPromised`, `ReadyWorkSettles` |
| `RollingBudget_lanes` | 2 lanes and the classifier, window 2, 4 rows, cancellations and restarts anywhere | `MeteredWithinCap`, `DeferKeepsWord`, refinement `LandsWithinCap` |
| `CronLane_beats` | 2 beats, 2 repos, 2 issues, quota 2, 1 setback, fair | `PromotesFromBacklog`, `LowDrains`, `MissedIsSwept` |
| `GatedBuild_chain` | 2 issues, one of which quotes a marker, depth cap 3, up to 2 nits a review, findings that quote a marker, 2 faults, fair | `OpenedWasReviewed`, `DepthBelowCap`, `PushFollowsGreen`, `ChainsEnd`, refinement `KeepsPromise` |
| `Sweep_beats` | 3 installations (one still to come), 4 repos, pages of 2, 2 changes, 1 fault, a table of cadences, 4 instants, fair | `ListsInstalled`, `FiresWhenNamed`, `SoundReposVisited` |
| `BuildResources_jobs` | drains of up to 2 builds, a token of 4 ticks, skew 1, job timeout 2, 2 faults, fair | `HandedOutFresh`, `MintedLastsJob`, `ContainersTornDown`, `VerdictsKeepComing` |
| `Routing_hop` | 2 tables and none, 4 level names, 4 edits, 2 faults | `LevelDeclared`, `RebuildsAgree`, `ClassifierCharged`, `ClassifiedOnce` |
| `AdhocLane_unreviewed`, `AdhocLane_poisoned`, `Sweep_malformed` | as small as the case allows | statements of the source that the code does not keep; see Findings |

Each module states its type invariant, `TypeOK`; `AdhocLane_lane` and `GatedBuild_chain` check it
with the rest, and TLC confirms the others when they are added to the cfg of their run.

**Bounds.**  Two issues are enough for one to disturb, block, outrank or hide the other, and two lives for a
build and its orphaned predecessor; a third of either only repeats the pair.  A third issue comes in where a
body and a native blocker are to be told apart, and where a stranded branch may stand in the way of another
issue once the blocker of both is closed.  Cap 2 makes the reserved slot bite and lets two builds run side by
side; cap 1 makes one wait for the other.  One merge reaches the whole reap and the branch a merge leaves
behind.  Faults are bounded by a counter, not by place: any step of any actor may be the one that fails; two
of them, where the state space allows, cover a fault during the recovery from another, and one in the lane
already orphans builds, strands branches and has a conflict meet a branch under review.  Quota and slots of 2
make every other tick a quota tick and every other beat due for the second repo.  A bound appears in the guard
of the action it limits and is named after it (`MaxDismissals`, `MaxClosings`, `MaxConflicts`, `MaxMishaps`,
`MaxSetbacks`, `MaxRows`, `MaxTime`, `MaxLabels`, `MaxNits`, `MaxChanges`, `MaxFaults`, `MaxEdits`).  In
`GatedBuild` a depth cap of 3, the default, gives a chain an origin, two hops and a cut; two nits make it
branch and let the filing fail between them; red and hollow builds count as faults, for the issue waits again
after them.

In `Sweep` a page of two makes a full last page, a full page with a skipped entry and a page boundary that
moves all happen with five entries; each cadence of the table has one field that is not `*`, since
the fields of `cron_due` are independent conjuncts (two, with the minute, for the weekday), and each kind of
term stands below, at and above the instants' values, at both ends of its range.  In `BuildResources` the
job timeout is half a token's life, as the defaults are (30 minutes, an hour), and the skew one tick; a mint
whose two requests span more than one tick is excluded, which is the assumption that GitHub answers within a
skew.  The code bounds the timeout only by `> 0`, and so does the module: `MintedLastsJob` holds for a timeout
shorter than a token's life, and only for builds that no sibling's exception has orphaned.  In
`Routing` one level has no label in the repo and one label is of no level; the smaller table makes a label
the larger one declares unknown.

`MaxSetbacks` of `AdhocLane` stands for something the code lacks: a red build keeps its label and is rebuilt
by every drain, and at cap 1 (or at cap 2 with main-queue work only) a lower-ranked issue waits for as long as
it stays red.  That of `CronLane` likewise: the quota floor has no memory, so a quota tick that defers or
meets another beat's lock is lost, and if every one is, low-priority work never drains.  Both liveness
properties speak of the time after these have stopped.  `LowDrains` has the whole backlog on the page of its
run, so the newest-200 listing hides nothing, and `MissedIsSwept` allows one late beat; were every beat late,
nothing would be swept.

Two liveness properties name what can prevent them for ever.  `ReadyWorkSettles` supposes that in the end no
branch is left whose recovery is refused: such a branch ends every drain before anything is built, which
`AdhocLane_poisoned` shows.  It is about the lane alone, and takes the budget as declining finitely often; a
transaction left open in the ledger makes every build raise until the worker restarts.  `VerdictsKeepComing`
allows for refused orphans: with three builds TLC finds a loop in which the exception of a refused build
orphans one with a token just minted, which works until it is refused in its turn.

**Fairness.**  `AdhocLane!Fairness` lets arq start a queued job, asyncio resume each task and the heartbeat
sweep the repo (weak fairness of each task's own fault-free steps); an infinite run of faults is excluded by
their bounds.  `CronLane!Fairness` is the same for beats and drains, and arq firing the heartbeat on its
minutes.  `Sweep!SweepFairSpec` has arq fire the heartbeat and GitHub answer; `BuildResources!FairSpec` is
weak fairness of each build's own steps (a call that would hang is one of its bounded faults, for the job's
timeout ends it); time itself is not fair.  `GatedBuild!FairSpec` is weak fairness of a build's own steps and
of the drain that takes the next issue.  Humans, kicks, merges and label removals are never fair: a property
that needs one says so.  Deadlock is checked in every run but `GatedBuild`'s, which ends when no issue waits;
elsewhere a sweep, a kick or a beat is always possible.

## Proofs

The proofs hold for every set of issues, blocking relation, cap, number of lanes and bound.

- `AdhocLane_proofs`, in five parts:
  - `LaneTyped` (type correctness) and `LedgerRises`, a fact of single steps: only `Recorded` writes the ledger.
  - Whatever fails, `MergesResolve`, an inductive invariant.  A PR number is written in six places (`pr`,
    `opening`, `held`, `mapped`, `reaps`, `reaping`); each number names at most one issue wherever it stands
    and is at most `lastPr`, and the numbers the reap holds belong to merged issues.  `ReapRight`
    (`ClosedWasMerged`) follows from it.  `BlockersClosedFirst` (`BuildAfterBlockersClosed`) is an invariant
    of its own, over all the sets an issue passes through between the readiness gate and its build: it was let
    through only when the blockers read were closed, and no issue is opened again, so the conclusion survives
    however stale the drain's view is when the build starts.
  - `LivesKept`, the refinement of `IssueLife`.  It rests on `BlockersClosedFirst` for the build step, on
    `ReapRight` for the close, and on an invariant of its own: whatever is listed, gathered, pushed, opened or
    recorded was asked for.
  - With no fault, `BuildsUnique`, `OpenersApart`, `PrsReviewed` and `EscalatedKeptOut`.  The invariant
    relates the drain's stage to the tasks: outside the gather no task is alive, inside it every one is
    gathered and its branch is absent until it pushes; a pushed branch without a PR is a build's own, a
    blocked verdict that wears `hitl`, a landed one, or one a human resumed.
  - The cap and the rows.  `GathersWithinCap` holds whatever fails: only the selection adds to the gather, and
    it chose within the cap (`SelectionWithinCap`).  `BuildsCapped` adds that with no fault every build alive
    is gathered, which a drain that raised and left its builds running would break.  `PrsMapped` follows an
    open PR from its opening to its row.
- `SlotScheduler_proofs`: what `select_to_build` promises of every finite queue of different numbers and every
  cap: `SelectionWithinCap`, `SelectionReservesSlot`, `SelectionRankClosed`, `SelectionWorkConserving`.
  `Before` is a strict total order on such a queue, so ranks are different numbers and a cut of length k holds
  at most k, exactly k when there are as many; the rest is arithmetic over the two cuts.
- `SchedulerPasses_proofs`: the same four of every pass.  The invariant is that each pass is offered such a
  queue, whatever arrived and was relabelled since the one before.
- `Heartbeat_proofs`, of `CronLane`: `CronTyped`, `OneTickPerRepo`, `PromotesListed`, `BacklogOnce`, `PromotedLeaves`.
  `TickInv` says that beats tick a repo one at a time, that a tick's pick is of its repo and still in the
  backlog unless a human took it, and that a backlog holds its own repo's issues, so that the edit of one beat
  never touches the pick of another.  Lemmas say what `RemoveAt`, `Without`, `Visible` and `Pick` return.
  `CadenceRead` is about `CronMatch`: for every cadence that keeps to its bounds and every instant the matcher
  and the reading agree.
- `Heartbeat_proofs`, of `Sweep` (whose `SweepInit`, `SweepNext`, `SweepSpec`, `SweepTypeOK` bear its name so that
  one module can extend both):
  - `FiresNamed`: the drain of a repo fires exactly when its cadence, kept to its bounds, names the instant of
    the beat.  It is `CadenceRead` and the place at which `FetchOptedIn` files its repo: what fired before has
    smaller places.
  - `SweepListsInstalled`: unless an entry leaves a listing, an enumeration ends with every repo that was
    installed when it began, each once.  The property speaks of one step, the invariant `PagingInv` of all
    before it: the offset of the next page is within the listing; what the pages asked for keep is listed, each
    once; what is owed is listed, or on the pages to come, or with the installations to come (`PagesApps`,
    `PagesRepos`); and GitHub lists everything once (`ListedOnce`), of which what comes is new.  `PageIs` and
    `KeptIs` say what a page holds and what is kept of it, so that the last page, recognised by its raw length,
    leaves nothing behind.
  - `SweepTyped`, type correctness.
  - `Dropping` takes an entry out of a listing, one entry at a time.  That it leaves the others, each once
    (`DroppingLeaves`), is an induction over the listing, done with a set of numbers (`Numbers`) and the
    least element the library's `WFMin` gives its complement.
- `RollingBudget_proofs`: `BudgetTyped`, `ImplementsCap` (the refinement of `SpendCap`), `LanesWithinCap` and
  `DefersTruly`.  The invariant says that the write lock has one holder, that what a lane has checked still
  holds when it inserts, and that inside a transaction left open nothing metered lands, so that a restart loses
  none of it.  `DefersTruly` needs no lock: the window that starts at an instant holds what is newer
  than it, so the first instant that frees enough is where the walk over the charges stops.

- `GatedBuild_proofs`: `BuildTyped`, `ShipsReviewed`, `ChainsStayShallow`, `PushesFollowGreen` and the refinement
  `BuildKeepsPromise`.  The invariant `Handover` says for each stage how `pushed`, `head`, `seen` and the
  verdict are related, which is what lets the second review speak for the re-pushed branch and a failing gate
  leave the branch pushed; `Shallow` adds the body being built to the waiting ones, since a failed build gives
  its issue back.  Two lemmas about `Depth` and `Stamped` carry the depth over the text of a finding.

- `BuildResources_proofs`: `TokensFresh`, `MintsLast` and `TornDown`.  The invariant is one statement per
  build: a token on its way from a mint has seen one tick at most (`Fresh`), what a minted token has left and
  what its job has run add up to a life (`Lasting`), and where in its life a build has a container
  (`Contained`).  A step of one build leaves the statement of every other alone, or orphans the other
  (`OthersKept`), although they share the cache: no part of it speaks of what is cached, which is why the
  missing lock does no harm.
- `Routing_proofs`: `DeclaredAlways`, `BuildsAgree`, `ChargedOnce`, `AskedOnce`.  `Agreed` carries what the
  labels say from the facts to the build, `Spent` the requests and charges, and `Landed` ties a label that
  means something to the table the next drain reads.

The assumptions on the constants are the named `ASSUME`s of the modules; TLC evaluates them in every run.

The assumption of `Sweep` is GitHub's: a listing has an installation or a repository once, and a repository is
of one installation.

Only model-checked: the liveness properties (`ReadyWorkSettles`, `LowDrains`, `MissedIsSwept`, `ChainsEnd`,
`SoundReposVisited`, `VerdictsKeepComing`), fairness and ENABLED being beyond the prover.  Every invariant,
action property and refinement a passing run checks is proved.

## Findings

Each is a sentence of the source that a run refutes; `PROJECT.json` quotes it with its line.

- `NeverShipsUnreviewed`: the branch is pushed before the gate, and whatever dies between push and verdict
  leaves a branch the next drain opens without one.
- `StrandedRecovered`: a stranded branch in conflict ends every drain before the others are recovered.
- `MalformedDropped`: a `retinue.yml` that is no UTF-8 text ends every beat at the enumeration, and no repo is
  swept.

The modules state six more sentences of the source that the code does not keep.  They have no run of their
own; TLC refutes each when it is added to the cfg named here.

- `AdhocLane!DrainsNeverOverlap` (`adhoc_drain.py:529`; `AdhocLane_lane`): a build that raises frees the lock
  under its siblings.
- `AdhocLane!MergeResolves` (`reconcile.py:5`; `AdhocLane_lane`): a PR merged between its creation and
  `record_pr` is unknown to the reap, and nothing closes its issue.
- `AdhocLane!NeverBuiltBlocked` (`readiness.py:11`; `AdhocLane_lives`): a failed lookup of the native blockers
  reads as no blockers, and the issue is built.
- `GatedBuild!PushedWasGreen` (`pipeline.py:600`; `GatedBuild_chain`): the done-check passes over the working
  tree, the push takes the commits; an agent that leaves edits uncommitted gets code pushed that no check has
  run over.
- `Routing!ClassifierMetered` (`routing.py:133`, `classifier.py:155`; `Routing_hop`): a classifier answer whose
  body is no JSON is neither retried nor charged, nor explained on the issue.
- `Sweep!OutOfBoundsSilent` (`heartbeat.py:170`; `Sweep_beats`): a range that leaves the bounds of its field is
  matched as it is written.

Seen while modelling and not turned into runs: a kick swallowed as busy after the running drain has listed is
not covered by that drain (`worker.py:146` says it is; the next kick or sweep covers it); the listing is one
page of 200 issues, newest first, which escalated and in-flight issues fill too; a container whose start fails
after its creation is left behind, and one that a restart orphans is never looked for; the reviewer is shown
the first 8000 characters of a diff; `retry_cap` bounds only review-fix chains, not red builds; a critical
arrival waits for the running drain although a slot is free, because the drain selects once; `record_charge`
may take the window over the cap; a quota tick that defers is lost; nothing creates the `level:` labels, and
without them every build asks the classifier again; a repository that leaves a listing while it is paged may
hide another until the next beat; a cadence whose minutes are not quarter-hours is never due; the image pull
and the container's start come between a token and the clone it is for, and the skew is a minute.

## Abstractions, and what is not modelled

- One repo in `AdhocLane`; repos share only the budget, whose decisions are nondeterministic there
  (`MeterAdmits`, `MeterDeclines`) and exact in `RollingBudget`.
- The gate is one step with its verdict in `AdhocLane` and pass by pass in `GatedBuild`; prompts, payloads and
  the parsing of findings are data.  In `AdhocLane` filing nits,
  the push notification and the ledger's best-effort writes are folded into the step they belong to; a
  swallowed failure of them changes nothing the properties read.
- The semaphore of the gather never blocks, the selection being within the cap, and is left out.
- A missing secret or an unparsable command makes a build raise; that it would raise again is not modelled.
- GitHub lists issues newest first (an assumption on `gh`), and a merge may keep or delete the head branch.
  Whether a PR of a landed branch may be opened is GitHub's refusal (`CreateRefused`).
- A human may lift `hitl`, but does not add it while a build runs: `EscalatedStaysOut` is about the program's
  own escalations.  Closing an issue by hand is modelled, opening one again is not.
- A cancelled task does not kill the `gh` child it was waiting for (`gh.py:115`): its last edit may land after
  the task is gone.  In `AdhocLane` and `GatedBuild` the calls whose landing matters may land or not when they
  are cut off; in `CronLane` an edit cut off has not landed.
- `GatedBuild` runs one build at a time: builds of a chain share nothing but the issues they file.  A failing
  container command counts as raised, which the code makes of it; a nit's promotion by the cron tick is left
  to `CronLane`, and the recovery of a branch pushed by a failed build to `AdhocLane`.
- Not modelled: reopening an issue, closing a PR unmerged, taking the trigger label off, a human resolving a
  conflict on the branch, a PR kept open by the reap, a config change within a drain.  A priority label of a
  backlog issue does not change, and no age outweighs a step of severity.
- `Sweep` has one beat, overlapping beats sharing nothing in the enumeration; which of its requests failed is
  left out.  A 404 and a config `load_repo_config` rejects are one outcome.  Day-of-month and day-of-week both
  have to match in `cron_due`, and in the reading it is checked against; a crontab takes either.
- `BuildResources` has one repo, whose token cache entries are independent of other repos'.  Tokens are read
  at the start of a build; the drain's own token, for its `gh` calls, is asked for in the same way and is
  not followed further.  Pulling the image is part of one step.
- `Routing` charges a classification once, the retry included, as the code does.  It leaves out what a level
  selects (model and effort per role, `roles`), which is a lookup, and the prompt.
  `PerIssueImplementerRouter` has no caller in the worker and is not modelled.
- `RollingBudget` has metering enabled, and integer instants; zero-amount promotions use `gate`, builds
  `meter_adhoc`, the classifier `record_charge`, as the callers do.

## Plan

1. Done: the scheduler, the lane with its faults and its refinement of `IssueLife`, the gated build and the
   budget with their refinements, the cron lane, the sweep with the cadence matcher, the resources of builds,
   the routing hop; proofs of all their safety and action properties and of the refinements.
2. The page limit of the issue listing and the other hazards without a property need a statement the code
   makes about them first; it makes none.
