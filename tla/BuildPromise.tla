---------------------------- MODULE BuildPromise ----------------------------
(***************************************************************************)
(* What a build promises to the drain that started it, as AdhocLane uses   *)
(* it: nothing is on origin before the phase "report", the review gate is  *)
(* left with a verdict or through a cancellation, never by an exception,   *)
(* and the verdict alone decides between the PR and the escalation.        *)
(***************************************************************************)
EXTENDS Naturals

VARIABLES
    phase,     \* where the build is, the task states of AdhocLane ("open" for
               \* all the calls that open the PR)
    branch,    \* whether its issue-<N> branch is on origin
    verdict,   \* what the gate said of it
    cancels    \* tasks cancelled or killed so far

vars == <<phase, branch, verdict, cancels>>

Init == phase = "idle" /\ branch = FALSE /\ verdict = "none" /\ cancels = 0

Begin ==
    /\ phase = "idle" /\ phase' = "build"
    /\ branch' = FALSE /\ verdict' = "none" /\ UNCHANGED cancels

Green ==
    /\ phase = "build" /\ phase' = "report"
    /\ branch' = TRUE /\ UNCHANGED <<verdict, cancels>>

Reported ==
    /\ phase = "report" /\ phase' = "review"
    /\ UNCHANGED <<branch, verdict, cancels>>

Judge ==
    /\ phase = "review"
    /\ \/ verdict' = "cleared" /\ phase' = "open"
       \/ verdict' = "blocked" /\ phase' = "escalate"
    /\ UNCHANGED <<branch, cancels>>

Done ==
    /\ phase \in {"escalate", "open"} /\ phase' = "idle"
    /\ UNCHANGED <<branch, verdict, cancels>>

\* A push that raises may have landed all the same.
Ends ==
    /\ phase' = "idle"
    /\ branch' \in IF phase = "build" THEN BOOLEAN ELSE {branch}
    /\ UNCHANGED verdict

Fails == phase \in {"build", "report", "escalate", "open"} /\ Ends
         /\ UNCHANGED cancels

Cancelled == phase # "idle" /\ Ends /\ cancels' = cancels + 1

Next ==
    \/ Begin \/ Green \/ Reported \/ Judge \/ Done \/ Fails \/ Cancelled

Spec == Init /\ [][Next]_vars
=============================================================================
