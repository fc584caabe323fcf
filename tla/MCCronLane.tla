----------------------------- MODULE MCCronLane -----------------------------
(* Two repos: the first is due at every heartbeat and has a low and a high    *)
(* backlog issue, the second is due at every other one.                       *)
EXTENDS CronLane

MCRepoOf == [i \in Issues |-> 1]
MCSeverityOf == [i \in Issues |-> IF i = 1 THEN LOW ELSE MEDIUM + 1]
MCDueAt == [r \in Repos |-> IF r = 2 THEN {0} ELSE 0 .. Slots - 1]
=============================================================================
