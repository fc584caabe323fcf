------------------------------ MODULE Routing ------------------------------
(***************************************************************************)
(* How a build finds its routing level: _resolve_adhoc_level (pipeline.py) *)
(* over resolve_issue_level (routing.py), resolve_level (level.py) and the *)
(* classifier, await by await, for one issue and its build after build     *)
(* (one at a time: AdhocLane).  Humans relabel the issue and edit the      *)
(* routing table meanwhile.                                                *)
(*                                                                         *)
(* A level label is the name behind its `level:`.  The build itself is a   *)
(* single state.                                                           *)
(***************************************************************************)
EXTENDS Naturals, FiniteSets

CONSTANTS
    Names,         \* what a level label or a table may name
    RepoLabels,    \* the names the repo has a level label for
    Tables,        \* routing tables retinue.yml may hold
    NoTable,
    NoLevel,
    MaxEdits,      \* bound: labels and tables edited by humans
    MaxFaults      \* bound: calls that raise, jobs that are cancelled

\* RoutingConfig's validators: the default is one of the levels.
ASSUME RoutingAssumption ==
    /\ RepoLabels \subseteq Names
    /\ Tables \subseteq [levels : SUBSET Names, default : Names]
    /\ \A t \in Tables : t.default \in t.levels
    /\ NoTable \notin Tables /\ NoLevel \notin Names
    /\ MaxEdits \in Nat /\ MaxFaults \in Nat

VARIABLES
    labels,     \* level labels the issue wears
    table,      \* what retinue.yml holds
    \* the build
    stage,      \* the await it is in
    config,     \* the table its drain has read
    attempt,    \* of the classifier
    level,      \* resolved so far
    failed,     \* whether no attempt gave a level
    \* history
    calls,      \* classifier requests of this build
    charges,    \* charges it recorded for them
    garbled,    \* whether one was answered with no JSON
    landed,     \* the label a build gave the issue, while it means something
    quiet,      \* no fault in this build, and no edit since its drain began
    edits, faults

build   == <<stage, config, attempt, level, failed>>
history == <<calls, charges, garbled, landed, quiet>>
vars    == <<labels, table, build, history, edits, faults>>

Hop    == {"facts", "classify", "label", "charge", "comment"}
Stages == {"idle", "building"} \cup Hop

TypeOK ==
    /\ labels \subseteq RepoLabels
    /\ table \in Tables \cup {NoTable} /\ config \in Tables \cup {NoTable}
    /\ stage \in Stages
    /\ attempt \in 1 .. 2
    /\ level \in Names \cup {NoLevel}
    /\ failed \in BOOLEAN /\ garbled \in BOOLEAN /\ quiet \in BOOLEAN
    /\ calls \in 0 .. 2 /\ charges \in 0 .. 1
    /\ landed \in Names \cup {NoLevel}
    /\ edits \in 0 .. MaxEdits /\ faults \in 0 .. MaxFaults

Init ==
    /\ labels = {}
    /\ table \in Tables \cup {NoTable}
    /\ stage = "idle" /\ config = NoTable /\ attempt = 1
    /\ level = NoLevel /\ failed = FALSE
    /\ calls = 0 /\ charges = 0 /\ garbled = FALSE
    /\ landed = NoLevel /\ quiet = TRUE
    /\ edits = 0 /\ faults = 0

-----------------------------------------------------------------------------
(* Humans. *)

Edit == edits < MaxEdits /\ edits' = edits + 1 /\ quiet' = FALSE

AddLabel(n) ==
    /\ n \in RepoLabels \ labels /\ Edit
    /\ labels' = labels \cup {n}
    /\ UNCHANGED <<table, build, calls, charges, garbled, landed, faults>>

RemoveLabel(n) ==
    /\ n \in labels /\ Edit
    /\ labels' = labels \ {n}
    /\ landed' = IF n = landed THEN NoLevel ELSE landed
    /\ UNCHANGED <<table, build, calls, charges, garbled, faults>>

EditTable(t) ==
    /\ t # table /\ Edit
    /\ table' = t
    /\ landed' = NoLevel
    /\ UNCHANGED <<labels, build, calls, charges, garbled, faults>>

-----------------------------------------------------------------------------
(* The hop. *)

\* A drain that has read t selects the issue.  Without a table every role runs
\* the registry's model.
Select(t) ==
    /\ stage = "idle" /\ t = table
    /\ config' = t
    /\ stage' = IF t = NoTable THEN "building" ELSE "facts"
    /\ attempt' = 1 /\ level' = NoLevel /\ failed' = FALSE
    /\ calls' = 0 /\ charges' = 0 /\ garbled' = FALSE /\ quiet' = TRUE
    /\ UNCHANGED <<labels, table, landed, edits, faults>>

\* Mutant of Known: any level label counts, in the table or not.
KnownOrNot(worn) == worn

\* _known_level_labels
Known(worn) == worn \cap config.levels

\* Mutant of Facts: a known label decides only if it is the one label worn.
FactsUnfiltered ==
    /\ stage = "facts"
    /\ IF Cardinality(labels) = 1 /\ Known(labels) # {}
       THEN level' \in Known(labels) /\ stage' = "building"
       ELSE stage' = "classify" /\ UNCHANGED level
    /\ UNCHANGED <<labels, table, config, attempt, failed, history, edits, faults>>

\* gh issue view, and resolve_level up to the classifier's first request.
Facts ==
    /\ stage = "facts"
    /\ \/ /\ Known(labels) = {}
          /\ stage' = "classify" /\ UNCHANGED level
       \/ /\ Cardinality(Known(labels)) = 1
          /\ level' \in Known(labels) /\ stage' = "building"
       \/ /\ Cardinality(Known(labels)) > 1
          /\ level' = config.default /\ stage' = "building"
    /\ UNCHANGED <<labels, table, config, attempt, failed, history, edits, faults>>

\* A level of the table.
Answers(n) ==
    /\ stage = "classify" /\ n \in config.levels
    /\ level' = n /\ stage' = "label"
    /\ calls' = calls + 1
    /\ UNCHANGED <<labels, table, config, attempt, failed, charges, garbled,
                   landed, quiet, edits, faults>>

LastAttempt == attempt = 2

\* No answer, no 200, or a level that is not the table's: one retry.
Disappoints ==
    /\ stage = "classify"
    /\ calls' = calls + 1
    /\ \/ /\ ~LastAttempt
          /\ attempt' = attempt + 1
          /\ UNCHANGED <<stage, level, failed>>
       \/ /\ LastAttempt
          /\ level' = config.default /\ failed' = TRUE /\ stage' = "charge"
          /\ UNCHANGED attempt
    /\ UNCHANGED <<labels, table, config, charges, garbled, landed, quiet,
                   edits, faults>>

\* What _resolve_adhoc_level makes of an exception.
FallBack == stage' = "building" /\ level' = config.default

\* The answer's body is not JSON: HttpxTransport raises a ValueError, which the
\* classifier does not catch.
Garbled ==
    /\ stage = "classify"
    /\ FallBack
    /\ calls' = calls + 1 /\ garbled' = TRUE
    /\ UNCHANGED <<labels, table, config, attempt, failed, charges, landed,
                   quiet, edits, faults>>

\* Mutant of Label: the label of the default level is added.
LabelDefault ==
    /\ stage = "label" /\ config.default \in RepoLabels
    /\ labels' = labels \cup {config.default}
    /\ landed' = IF table = config THEN config.default ELSE NoLevel
    /\ stage' = "charge"
    /\ UNCHANGED <<table, config, attempt, level, failed, calls, charges,
                   garbled, quiet, edits, faults>>

\* gh issue edit --add-label
Label ==
    /\ stage = "label" /\ level \in RepoLabels
    /\ labels' = labels \cup {level}
    /\ landed' = IF table = config THEN level ELSE NoLevel
    /\ stage' = "charge"
    /\ UNCHANGED <<table, config, attempt, level, failed, calls, charges,
                   garbled, quiet, edits, faults>>

\* The repo has no such label; _apply_label swallows the error.
NoSuchLabel ==
    /\ stage = "label" /\ level \notin RepoLabels
    /\ stage' = "charge"
    /\ UNCHANGED <<labels, table, config, attempt, level, failed, history,
                   edits, faults>>

\* Mutant of Charge: a classification that failed is not charged.
ChargeSuccesses ==
    /\ stage = "charge"
    /\ charges' = IF failed THEN charges ELSE charges + 1
    /\ stage' = IF failed THEN "comment" ELSE "building"
    /\ UNCHANGED <<labels, table, config, attempt, level, failed, calls,
                   garbled, landed, quiet, edits, faults>>

\* record_charge
Charge ==
    /\ stage = "charge"
    /\ charges' = charges + 1
    /\ stage' = IF failed THEN "comment" ELSE "building"
    /\ UNCHANGED <<labels, table, config, attempt, level, failed, calls,
                   garbled, landed, quiet, edits, faults>>

Comment ==
    /\ stage = "comment"
    /\ stage' = "building"
    /\ UNCHANGED <<labels, table, config, attempt, level, failed, history,
                   edits, faults>>

\* A PR, a red done-check or an escalation: whatever it came to, the issue may
\* be built again.
Built ==
    /\ stage = "building"
    /\ stage' = "idle"
    /\ UNCHANGED <<labels, table, config, attempt, level, failed, history,
                   edits, faults>>

-----------------------------------------------------------------------------
(* Failures. *)

Fault == faults < MaxFaults /\ faults' = faults + 1 /\ quiet' = FALSE

\* gh or SQLite fails.
Raises ==
    /\ stage \in {"facts", "charge", "comment"} /\ Fault
    /\ FallBack
    /\ UNCHANGED <<labels, table, config, attempt, failed, calls, charges,
                   garbled, landed, edits>>

\* gh fails to label, and the label may be there all the same.
LabelFails ==
    /\ stage = "label" /\ Fault
    /\ stage' = "charge"
    /\ labels' \in {labels, labels \cup ({level} \cap RepoLabels)}
    /\ UNCHANGED <<table, config, attempt, level, failed, calls, charges,
                   garbled, landed, edits>>

\* The job times out or the worker stops.
Cancelled ==
    /\ stage \in Hop /\ Fault
    /\ stage' = "idle"
    /\ UNCHANGED <<labels, table, config, attempt, level, failed, calls,
                   charges, garbled, landed, edits>>

-----------------------------------------------------------------------------
Human ==
    \/ \E n \in RepoLabels : AddLabel(n) \/ RemoveLabel(n)
    \/ \E t \in Tables \cup {NoTable} : EditTable(t)

Resolve ==
    \/ \E t \in Tables \cup {NoTable} : Select(t)
    \/ Facts
    \/ \E n \in Names : Answers(n)
    \/ Disappoints \/ Garbled
    \/ Label \/ NoSuchLabel \/ Charge \/ Comment \/ Built

Next == Human \/ Resolve \/ Raises \/ LabelFails \/ Cancelled

Spec == Init /\ [][Next]_vars

-----------------------------------------------------------------------------
\* "Always one of the table's declared levels" (resolve_issue_level), of the
\* table the drain has read, whatever the labels, the classifier and the
\* failures on the way; and no level without a table.
LevelDeclared ==
    stage = "building" =>
        IF config = NoTable THEN level = NoLevel ELSE level \in config.levels

\* What level.py says of the labels alone: the level without a classifier, if
\* there is one.
Named(n) ==
    \/ labels \cap config.levels = {n}
    \/ Cardinality(labels \cap config.levels) > 1 /\ n = config.default

\* A build that nobody and nothing disturbed, and whose classifier did not fail
\* it, leaves its level on the issue: the next one runs at the same.
RebuildsAgree ==
    stage = "building" /\ config # NoTable /\ quiet /\ ~failed /\ ~garbled
            /\ level \in RepoLabels =>
        Named(level)

\* Once a build's label is on the issue, no later build asks the classifier,
\* until a human removes that label or edits the table, whatever others the
\* issue comes to wear.
ClassifiedOnce ==
    [][stage # "classify" /\ stage' = "classify" => landed = NoLevel]_vars

\* A build whose classifier was asked has paid for it once, whether it got a
\* level or not, and one whose classifier was not has paid nothing.
ClassifierCharged ==
    stage = "building" /\ quiet /\ ~garbled => charges = IF calls > 0 THEN 1 ELSE 0

\* routing.py: "meters each classifier call that actually ran"; classifier.py:
\* "never raise".
ClassifierMetered ==
    stage = "building" /\ quiet /\ calls > 0 => charges > 0
=============================================================================
