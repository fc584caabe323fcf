----------------------------- MODULE IssueLife -----------------------------
(***************************************************************************)
(* What the ad-hoc lane promises of an issue, as GitHub shows it: asked    *)
(* for, its branch, its pull request, the human it may wait for, its end.  *)
(* There are no drains, queues, snapshots or ledgers here, and no faults:  *)
(* whatever strikes the lane, an issue moves by these steps only.          *)
(* AdhocLane implements this module.                                       *)
(***************************************************************************)
CONSTANTS
    Issues,
    BodyBlockersOf     \* the issues each one's body names as its blockers

VARIABLES
    asked,         \* issues wearing the trigger label
    branched,      \* issues whose branch is on origin
    offered,       \* issues with an open pull request
    waiting,       \* issues wearing hitl
    merged,        \* issues a pull request of which was merged
    byHand,        \* issues a human closed
    closed

vars == <<asked, branched, offered, waiting, merged, byHand, closed>>

Init ==
    /\ asked = {} /\ branched = {} /\ offered = {}
    /\ waiting = {} /\ merged = {} /\ byHand = {} /\ closed = {}

Ask(i) ==
    /\ i \notin asked \cup closed
    /\ asked' = asked \cup {i}
    /\ UNCHANGED <<branched, offered, waiting, merged, byHand, closed>>

\* Code appears only for an issue that was asked for, on a branch that is not
\* there, and after the blockers its body names are closed.
Build(i) ==
    /\ i \in asked \ branched
    /\ BodyBlockersOf[i] \ {i} \subseteq closed
    /\ branched' = branched \cup {i}
    /\ UNCHANGED <<asked, offered, waiting, merged, byHand, closed>>

Offer(i) ==
    /\ i \in (asked \cap branched) \ offered
    /\ offered' = offered \cup {i}
    /\ UNCHANGED <<asked, branched, waiting, merged, byHand, closed>>

\* The lane stops at a human, who lets it go on.
Escalate(i) ==
    /\ i \in asked \ waiting
    /\ waiting' = waiting \cup {i}
    /\ UNCHANGED <<asked, branched, offered, merged, byHand, closed>>

Resume(i) ==
    /\ i \in waiting
    /\ waiting' = waiting \ {i}
    /\ UNCHANGED <<asked, branched, offered, merged, byHand, closed>>

\* The branch may stay behind.
Merge(i) ==
    /\ i \in offered
    /\ offered' = offered \ {i}
    /\ merged' = merged \cup {i}
    /\ branched' \in {branched, branched \ {i}}
    /\ UNCHANGED <<asked, waiting, byHand, closed>>

\* The program closes an issue once, for its own merged pull request.
Close(i) ==
    /\ i \in merged \ closed
    /\ closed' = closed \cup {i}
    /\ UNCHANGED <<asked, branched, offered, waiting, merged, byHand>>

\* Humans close what they like.
Dismiss(i) ==
    /\ i \notin closed
    /\ closed' = closed \cup {i}
    /\ byHand' = byHand \cup {i}
    /\ UNCHANGED <<asked, branched, offered, waiting, merged>>

Next ==
    \E i \in Issues :
        \/ Ask(i) \/ Build(i) \/ Offer(i) \/ Escalate(i) \/ Resume(i)
        \/ Merge(i) \/ Close(i) \/ Dismiss(i)

Spec == Init /\ [][Next]_vars
=============================================================================
