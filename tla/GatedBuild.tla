----------------------------- MODULE GatedBuild -----------------------------
(***************************************************************************)
(* The inside of one build task, which AdhocLane takes in four steps: the  *)
(* container lifecycle of container_build.py, the in-session review gate   *)
(* of adhoc_build.py with its one fix pass, and the pipeline's use of the  *)
(* verdict, one await a step.  Backlog nits come back as builds of their   *)
(* own, so the module runs a whole review-fix chain, one build at a time.  *)
(*                                                                         *)
(* The agents edit the container's working tree and commit to issue-<N>;   *)
(* the done-check runs over the tree, the push and the review's diff take  *)
(* the commits.  States of the code are numbered by the edits made.        *)
(***************************************************************************)
EXTENDS Integers, Sequences

CONSTANTS
    RetryCap,    \* config.retry_cap
    Origins,     \* bodies of the hand-filed issues, as their depth markers
    Quotes,      \* depth markers the text of a review finding may quote
    MaxNits,     \* bound: sub-threshold findings of one review
    MaxMishaps   \* bound: raises, cancellations, crashes, red, hollow builds

ASSUME BuildAssumption ==
    /\ RetryCap \in Nat /\ MaxNits \in Nat /\ MaxMishaps \in Nat
    /\ Origins \subseteq Seq(Nat)
    /\ Quotes \subseteq Seq(Nat)

VARIABLES
    waiting,   \* how many open issues with each body wait for their build
    body,      \* the body of the issue being built
    stage,     \* the await its task is in
    tree,      \* the working tree of the container
    head,      \* the commits of the local issue-<N>, 0 when there are none
    green,     \* the trees this build's done-checks passed
    pushed,    \* the commits pushed to origin's issue-<N>, 0 without it
    synced,    \* whether it has the target branch's changes merged in, too
    seen,      \* the commits the reviewer last diffed
    verdict,   \* ReviewGateOutcome: cleared, or blocked
    nits,      \* its backlog findings that are still to be filed
    mishaps,   \* faults so far
    cancels    \* those that were cancellations or crashes

code   == <<tree, head, green, pushed, synced>>
gate   == <<seen, verdict, nits>>
faults == <<mishaps, cancels>>
vars   == <<waiting, body, stage, code, gate, faults>>

InGate == {"review", "fix", "recheck", "repush", "rereview"}
Outside == {"prepare", "implement", "landed", "check", "push", "report",
            "teardown", "escalate", "file", "open", "sync", "create"}
Stages == {"idle"} \cup Outside \cup InGate

\* IssueDraft: the finding's text and, below it, the depth marker.
Stamped(text, depth) == Append(text, depth)
Bodies == Origins \cup {Stamped(q, d) : q \in Quotes, d \in 1..RetryCap}
Findings == UNION {[1..n -> Quotes] : n \in 0..MaxNits}

TypeOK ==
    /\ waiting \in [Bodies -> Nat] /\ body \in Bodies
    /\ stage \in Stages
    /\ tree \in Nat /\ head \in Nat /\ pushed \in Nat /\ seen \in Nat
    /\ green \subseteq Nat /\ synced \in BOOLEAN
    /\ verdict \in {"none", "cleared", "blocked"}
    /\ nits \in Seq(Quotes)
    /\ mishaps \in Nat /\ cancels \in Nat

Init ==
    /\ waiting = [b \in Bodies |-> IF b \in Origins THEN 1 ELSE 0]
    /\ body \in Origins
    /\ stage = "idle"
    /\ tree = 0 /\ head = 0 /\ green = {} /\ pushed = 0
    /\ synced = FALSE
    /\ seen = 0 /\ verdict = "none" /\ nits = <<>>
    /\ mishaps = 0 /\ cancels = 0

-----------------------------------------------------------------------------
Goes(s) == stage' = s

\* One injected fault.
Mishap == mishaps < MaxMishaps /\ mishaps' = mishaps + 1

\* Mutant of Depth: the first marker wins.
DepthFirst(b) == IF b = <<>> THEN 0 ELSE b[1]

\* parse_chain_depth: the last marker wins, a body without one is an origin.
Depth(b) == IF b = <<>> THEN 0 ELSE b[Len(b)]

\* Mutant of AtCap: the chain runs one hop too far.
AtCapLate == Depth(body) + 1 > RetryCap

AtCap == Depth(body) + 1 >= RetryCap

\* An agent's run: it commits all its edits, some of them, or none.
Edits ==
    \/ head' = tree + 1 /\ tree' = tree + 1
    \/ head' = tree + 1 /\ tree' = tree + 2
    \/ head' = head /\ tree' \in {tree, tree + 1}

\* The build is over without a PR.  While nothing is on origin the issue is
\* ready as before; a pushed branch is left to the drain's recovery.
Over ==
    /\ Goes("idle")
    /\ waiting' = IF pushed' = 0 THEN [waiting EXCEPT ![body] = @ + 1]
                  ELSE waiting
    /\ UNCHANGED <<body, tree, head, green, gate>>

-----------------------------------------------------------------------------
(* build_issue_in_container up to the report. *)

Fresh ==
    /\ tree' = 0 /\ head' = 0 /\ green' = {} /\ pushed' = 0
    /\ synced' = FALSE
    /\ seen' = 0 /\ verdict' = "none" /\ nits' = <<>>

\* Mutant of Take: an issue another build has taken is built again.
TakeStale(b) ==
    /\ stage = "idle"
    /\ waiting' = [waiting EXCEPT ![b] = @ - 1]
    /\ body' = b
    /\ Goes("prepare")
    /\ Fresh
    /\ UNCHANGED faults

\* The drain builds an issue, reading its depth from the fetched body.
Take(b) ==
    /\ stage = "idle" /\ waiting[b] > 0
    /\ waiting' = [waiting EXCEPT ![b] = @ - 1]
    /\ body' = b
    /\ Goes("prepare")
    /\ Fresh
    /\ UNCHANGED faults

\* Secrets, container, clone, branch, planner and its plan file.
Prepare ==
    /\ stage = "prepare" /\ Goes("implement")
    /\ UNCHANGED <<waiting, body, code, gate, faults>>

Implement ==
    /\ stage = "implement" /\ Goes("landed")
    /\ Edits
    /\ IF head' = 0 THEN Mishap ELSE UNCHANGED mishaps
    /\ UNCHANGED <<waiting, body, green, pushed, synced, gate, cancels>>

CommitsLanded ==
    /\ stage = "landed" /\ head # 0 /\ Goes("check")
    /\ UNCHANGED <<waiting, body, code, gate, faults>>

\* ensure_commits_landed raises.
Hollow ==
    /\ stage = "landed" /\ head = 0
    /\ UNCHANGED <<pushed, synced, faults>>
    /\ Over

CheckGreen ==
    /\ stage = "check" /\ Goes("push")
    /\ green' = green \cup {tree}
    /\ UNCHANGED <<waiting, body, tree, head, pushed, synced, gate, faults>>

\* A red build is reported and pushes nothing; the pipeline opens no PR.
CheckRed ==
    /\ stage = "check"
    /\ UNCHANGED <<pushed, synced, cancels>>
    /\ Mishap /\ Over

Push ==
    /\ stage = "push" /\ Goes("report")
    /\ pushed' = head
    /\ UNCHANGED <<waiting, body, tree, head, green, synced, gate, faults>>

Report ==
    /\ stage = "report" /\ Goes("review")
    /\ UNCHANGED <<waiting, body, code, gate, faults>>

-----------------------------------------------------------------------------
(* _review_gate_pass, and _run_review_gate around it. *)

Judged(v, backlog) == Goes("teardown") /\ verdict' = v /\ nits' = backlog

\* Nothing at or above HIGH: whatever is below becomes the backlog.
ReviewClears(backlog) ==
    /\ stage = "review"
    /\ seen' = head
    /\ Judged("cleared", backlog)
    /\ UNCHANGED <<waiting, body, code, faults>>

\* A blocking finding: all findings become the plan of one fix pass.
ReviewFinds ==
    /\ stage = "review" /\ Goes("fix")
    /\ seen' = head
    /\ UNCHANGED <<waiting, body, code, verdict, nits, faults>>

Fix ==
    /\ stage = "fix" /\ Goes("recheck")
    /\ Edits
    /\ UNCHANGED <<waiting, body, green, pushed, synced, gate, faults>>

RecheckGreen ==
    /\ stage = "recheck" /\ Goes("repush")
    /\ green' = green \cup {tree}
    /\ UNCHANGED <<waiting, body, tree, head, pushed, synced, gate, faults>>

\* Mutant of RecheckRed: the fix is pushed although it regressed.
RecheckRedPushes ==
    /\ stage = "recheck" /\ Goes("repush")
    /\ UNCHANGED <<waiting, body, code, gate, faults>>

\* The fix regressed: it is not pushed.
RecheckRed ==
    /\ stage = "recheck"
    /\ Judged("blocked", <<>>)
    /\ UNCHANGED <<waiting, body, code, seen, faults>>

\* Mutant of Repush: the fix is taken for reviewed.
RepushClears ==
    /\ stage = "repush"
    /\ pushed' = head
    /\ Judged("cleared", <<>>)
    /\ UNCHANGED <<waiting, body, tree, head, green, synced, seen, faults>>

Repush ==
    /\ stage = "repush" /\ Goes("rereview")
    /\ pushed' = head
    /\ UNCHANGED <<waiting, body, tree, head, green, synced, gate, faults>>

\* The second review: only what survives in the fixed diff counts.
Rereview(v, backlog) ==
    /\ stage = "rereview"
    /\ seen' = head
    /\ Judged(v, backlog)
    /\ UNCHANGED <<waiting, body, code, faults>>

\* Mutant of GateRaises: the exception ends the build.
GateRaisesThrough ==
    /\ stage \in InGate
    /\ UNCHANGED <<pushed, synced, cancels>>
    /\ Mishap /\ Over

\* Any exception of the gate is a blocking outcome; a push that raised may
\* have landed.
GateRaises ==
    /\ stage \in InGate
    /\ pushed' \in IF stage = "repush" THEN {pushed, head} ELSE {pushed}
    /\ Judged("blocked", <<>>)
    /\ UNCHANGED <<waiting, body, tree, head, green, synced, seen, faults>>

-----------------------------------------------------------------------------
(* Teardown, and process_adhoc_pr. *)

Teardown ==
    /\ stage = "teardown"
    /\ Goes(IF verdict = "blocked" THEN "escalate" ELSE "file")
    /\ UNCHANGED <<waiting, body, code, gate, faults>>

\* The notification and the hitl label: the issue is a human's now.
Escalate ==
    /\ stage = "escalate" /\ Goes("idle")
    /\ UNCHANGED <<waiting, body, code, gate, faults>>

Filed == [waiting EXCEPT ![Stamped(Head(nits), Depth(body) + 1)] = @ + 1]

\* One nit becomes a backlog issue, which a cron tick promotes later.
FileNit ==
    /\ stage = "file" /\ nits # <<>> /\ ~AtCap
    /\ waiting' = Filed
    /\ nits' = Tail(nits)
    /\ UNCHANGED <<body, stage, code, seen, verdict, faults>>

CutChain ==
    /\ stage = "file" /\ nits # <<>> /\ AtCap
    /\ nits' = <<>>
    /\ UNCHANGED <<waiting, body, stage, code, seen, verdict, faults>>

FiledAll ==
    /\ stage = "file" /\ nits = <<>> /\ Goes("open")
    /\ UNCHANGED <<waiting, body, code, gate, faults>>

\* open_staging_pr escalates for want of the target branch, or takes a PR the
\* branch has already ...
NothingToOpen ==
    /\ stage = "open" /\ Goes("idle")
    /\ UNCHANGED <<waiting, body, code, gate, faults>>

\* ... or there is none.
OpenNone ==
    /\ stage = "open" /\ Goes("sync")
    /\ UNCHANGED <<waiting, body, code, gate, faults>>

\* bring_up_to_date merges the target branch into the branch on origin, which
\* changes it unless the target has not moved since the clone.
Sync ==
    /\ stage = "sync" /\ Goes("create")
    /\ synced' \in BOOLEAN
    /\ UNCHANGED <<waiting, body, tree, head, green, pushed, gate, faults>>

OpenPr ==
    /\ stage = "create" /\ Goes("idle")
    /\ UNCHANGED <<waiting, body, code, gate, faults>>

-----------------------------------------------------------------------------
(* Failures. *)

\* What the call under way may have done before it failed.
MayHavePushed ==
    /\ pushed' \in IF stage \in {"push", "repush"} THEN {pushed, head}
                   ELSE {pushed}
    /\ synced' \in IF stage = "sync" THEN BOOLEAN ELSE {synced}

\* An issue create that failed may have landed too.
FilingFails ==
    /\ stage = "file" /\ nits # <<>> /\ ~AtCap
    /\ Mishap
    /\ waiting' \in {waiting, Filed}
    /\ Goes("idle")
    /\ UNCHANGED <<body, code, gate>>

\* A call outside the gate raises and ends the task.
Raises ==
    \/ /\ stage \in Outside \ {"file"}
       /\ Mishap /\ MayHavePushed /\ Over
       /\ UNCHANGED cancels
    \/ FilingFails /\ UNCHANGED cancels

\* The job's timeout, or a crash of the worker; no handler catches either.
Cancelled ==
    /\ \/ /\ stage \in (Outside \cup InGate) \ {"file"}
          /\ Mishap /\ MayHavePushed /\ Over
       \/ FilingFails
    /\ cancels' = cancels + 1

-----------------------------------------------------------------------------
Lifecycle ==
    \/ \E b \in Bodies : Take(b)
    \/ Prepare \/ Implement \/ CommitsLanded \/ Hollow
    \/ CheckGreen \/ CheckRed \/ Push \/ Report

Gate ==
    \/ \E backlog \in Findings : ReviewClears(backlog)
    \/ ReviewFinds \/ Fix \/ RecheckGreen \/ RecheckRed \/ Repush
    \/ \E backlog \in Findings : Rereview("cleared", backlog)
    \/ Rereview("blocked", <<>>)
    \/ GateRaises

Pipeline ==
    \/ Teardown \/ Escalate \/ FileNit \/ CutChain \/ FiledAll
    \/ NothingToOpen \/ OpenNone \/ Sync \/ OpenPr

Next == Lifecycle \/ Gate \/ Pipeline \/ Raises \/ Cancelled

Spec == Init /\ [][Next]_vars

\* Awaits end, and drains come: heartbeat and cron tick for ever.
FairSpec == Spec /\ WF_vars(Lifecycle \/ Gate \/ Pipeline)
-----------------------------------------------------------------------------
(* Properties. *)

\* Nits are filed from, and a PR is opened for, the very commits the reviewer
\* diffed last and found nothing blocking in, whichever agent left edits
\* uncommitted and whether or not a fix pass came between.  Only the target
\* branch's own changes come on top, which nobody reviews or checks again
\* (bring_up_to_date), and never on top of anything else: a branch left behind
\* with them in it, which the drain's recovery opens unasked, was cleared too.
Opening == {"file", "open", "sync", "create"}

OpenedWasReviewed ==
    stage \in Opening \/ synced => verdict = "cleared" /\ seen = pushed

\* No filed review fix is deeper than the configured cap allows, whatever
\* markers the findings quote.
DepthBelowCap ==
    \A b \in Bodies \ Origins : waiting[b] > 0 => Depth(b) < RetryCap

\* A push moves the branch on origin only while the working tree is one a
\* done-check of this build has passed: a regressed fix never replaces the
\* green branch.
PushFollowsGreen == [][pushed' \notin {pushed, 0} => tree \in green]_vars

\* The review-fix chain of every issue comes to its end: no cycle of nits
\* begetting nits outlives the depth cap.
ChainsEnd == <>[](stage = "idle" /\ \A b \in Bodies : waiting[b] = 0)

Phase ==
    CASE stage \in {"prepare", "implement", "landed", "check", "push"} ->
             "build"
      [] stage \in InGate -> "review"
      [] stage = "teardown" ->
             IF verdict = "blocked" THEN "escalate" ELSE "open"
      [] stage \in Opening -> "open"
      [] stage \in {"idle", "report", "escalate"} -> stage

Promise == INSTANCE BuildPromise WITH phase <- Phase, branch <- pushed # 0

\* The task keeps to the phases AdhocLane gives it: nothing on origin before
\* the first green push, a verdict from the gate unless it is cancelled, and
\* no other way from the push to the PR.
KeepsPromise == Promise!Spec

\* push_branch runs "only when the done-check is green" and the branch it
\* leaves is "provably green": the commits on origin are ones it passed.
PushedWasGreen == pushed # 0 => pushed \in green
=============================================================================
