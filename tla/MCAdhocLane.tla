---------------------------- MODULE MCAdhocLane ----------------------------
(* Small instances of the lane: issue 1 is ordinary work, issue 2 critical. *)
EXTENDS AdhocLane

MCLabels == [i \in Issues |-> IF i = 2 THEN <<0>> ELSE <<>>]

\* No issue is blocked.
MCFree == [i \in Issues |-> {}]

\* The body of issue 2 names issue 1; every body also names its own issue.
MCBody == [i \in Issues |-> IF i = 2 THEN {1, 2} ELSE {i}]

\* GitHub's relations say that issue 1 blocks issue 3, and no body does.
MCNative == [i \in Issues |-> IF i = 3 THEN {1} ELSE {}]
=============================================================================
