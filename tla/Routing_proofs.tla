--------------------------- MODULE Routing_proofs ---------------------------
(***************************************************************************)
(* The routing hop, for any table, any labels and any number of edits and  *)
(* failures: a build's level is one its table declares, rebuilds agree,    *)
(* and the classifier is asked once and paid once.                         *)
(***************************************************************************)
EXTENDS Routing, FiniteSetTheorems, TLAPS

-----------------------------------------------------------------------------
(* The inductive invariant. *)

\* What a build in the hop has read and spent so far.
Typed ==
    /\ labels \subseteq RepoLabels /\ IsFiniteSet(labels)
    /\ table \in Tables \cup {NoTable} /\ config \in Tables \cup {NoTable}
    /\ stage \in Stages
    /\ attempt \in 1 .. 2
    /\ stage \in Hop => config \in Tables

\* The level is chosen before the label, out of the table that was read.
Chosen ==
    /\ stage \in {"label", "charge", "comment"} => level \in config.levels
    /\ stage = "building" =>
          IF config = NoTable THEN level = NoLevel ELSE level \in config.levels

\* The charge follows the requests.
Spent ==
    /\ stage = "facts" => calls = 0 /\ attempt = 1
    /\ stage = "classify" => calls = attempt - 1
    /\ stage \in {"label", "charge", "comment"} => calls \in 1 .. 2
    /\ stage \in {"facts", "classify", "label", "charge"} => charges = 0
    /\ stage = "comment" => charges = 1
    /\ stage = "building" /\ quiet = TRUE /\ garbled = FALSE =>
          /\ calls \in 0 .. 2
          /\ charges = IF calls > 0 THEN 1 ELSE 0

\* Undisturbed, a build is classified while no label is known, and leaves the
\* label of its level behind.
Agreed ==
    /\ stage \in {"classify", "label"} /\ quiet = TRUE =>
          labels \cap config.levels = {} /\ failed = FALSE
    /\ stage = "facts" => failed = FALSE /\ garbled = FALSE
    /\ stage = "charge" /\ quiet = TRUE /\ failed = FALSE /\ level \in RepoLabels =>
          labels \cap config.levels = {level}
    /\ stage = "comment" => failed = TRUE
    /\ stage = "building" /\ config # NoTable /\ quiet = TRUE /\ failed = FALSE
            /\ garbled = FALSE /\ level \in RepoLabels => Named(level)

\* A label that means something is worn, and the table declares it; the drain
\* that is about to look at it has read that table.
Landed ==
    /\ landed # NoLevel =>
          table \in Tables /\ landed \in table.levels /\ landed \in labels
    /\ stage = "facts" /\ landed # NoLevel => config = table

Inv == Typed /\ Chosen /\ Spent /\ Agreed /\ Landed

-----------------------------------------------------------------------------
(* Its steps. *)

LEMMA InvInit == Init => Inv
<1> SUFFICES ASSUME Init PROVE Inv
  OBVIOUS
<1>1. IsFiniteSet({})
  BY FS_EmptySet
<1> QED
  BY <1>1, RoutingAssumption
     DEF Init, Inv, Typed, Chosen, Spent, Agreed, Landed, Stages, Hop

\* A human's edit is an end to quiet, and to a label's meaning if it takes the
\* label off or changes the table.
LEMMA HumanStep == Inv /\ Human => Inv'
<1> SUFFICES ASSUME Inv, Human PROVE Inv'
  OBVIOUS
<1> USE RoutingAssumption DEF Inv, Edit, build
<1>1. ASSUME NEW n \in RepoLabels, AddLabel(n) PROVE Inv'
  <2>1. IsFiniteSet(labels \cup {n})
    BY FS_AddElement DEF Typed
  <2> QED  BY <1>1, <2>1 DEF AddLabel, Typed, Chosen, Spent, Agreed, Landed
<1>2. ASSUME NEW n \in RepoLabels, RemoveLabel(n) PROVE Inv'
  <2>1. IsFiniteSet(labels \ {n})
    BY FS_RemoveElement DEF Typed
  <2> QED  BY <1>2, <2>1 DEF RemoveLabel, Typed, Chosen, Spent, Agreed, Landed
<1>3. ASSUME NEW t \in Tables \cup {NoTable}, EditTable(t) PROVE Inv'
  BY <1>3 DEF EditTable, Typed, Chosen, Spent, Agreed, Landed
<1> QED  BY <1>1, <1>2, <1>3 DEF Human

\* One known label: it is the only one.
LEMMA OnlyOne ==
    ASSUME NEW S, NEW n \in S, Cardinality(S) = 1, IsFiniteSet(S)
    PROVE  S = {n}
<1>1. PICK x : S = {x}
  BY FS_Singleton
<1> QED  BY <1>1

\* The labels decide, or the classifier is asked because none is known.
LEMMA FactsStep == Inv /\ Facts => Inv'
<1> SUFFICES ASSUME Inv, Facts PROVE Inv'
  OBVIOUS
<1>1. config \in Tables /\ config.levels \subseteq Names
        /\ config.default \in config.levels /\ config # NoTable
        /\ NoLevel \notin Names
  BY RoutingAssumption DEF Inv, Typed, Facts, Hop
<1>2. IsFiniteSet(Known(labels))
  BY FS_Subset DEF Inv, Typed, Known
<1>3. UNCHANGED <<labels, table, config, attempt, failed, history>>
        /\ stage' \in {"classify", "building"}
  BY DEF Facts
<1>4. Typed' /\ Landed'
  BY <1>1, <1>3 DEF Inv, Typed, Landed, Stages, Hop, history
<1>5. Chosen'
  BY <1>1 DEF Facts, Chosen, Known
<1>6. Spent'
  BY <1>3 DEF Inv, Facts, Spent, history
<1>7. Agreed'
  <2>1. CASE Known(labels) = {}
    <3>1. stage' = "classify" /\ stage = "facts"
      BY <2>1, FS_EmptySet DEF Facts
    <3> QED  BY <1>3, <2>1, <3>1 DEF Inv, Agreed, Known
  <2>2. CASE Cardinality(Known(labels)) = 1
    <3>1. level' \in Known(labels) /\ stage' = "building"
      BY <2>2, <1>2, FS_EmptySet DEF Facts
    <3>2. Known(labels) = {level'}
      BY <2>2, <3>1, <1>2, OnlyOne
    <3> QED  BY <1>3, <3>1, <3>2 DEF Agreed, Named, Known
  <2>3. CASE Cardinality(Known(labels)) > 1
    <3>1. level' = config.default /\ stage' = "building"
      BY <2>3, <1>2, FS_EmptySet DEF Facts
    <3> QED  BY <1>3, <2>3, <3>1 DEF Agreed, Named, Known
  <2> QED  BY <2>1, <2>2, <2>3 DEF Facts
<1> QED  BY <1>4, <1>5, <1>6, <1>7 DEF Inv

\* A drain selects the issue, and its build ends.
LEMMA BuildStep ==
    ASSUME Inv, (\E t \in Tables \cup {NoTable} : Select(t)) \/ Built
    PROVE  Inv'
<1> USE RoutingAssumption DEF Inv, Stages, Hop
<1>1. ASSUME NEW t \in Tables \cup {NoTable}, Select(t) PROVE Inv'
  BY <1>1 DEF Select, Typed, Chosen, Spent, Agreed, Landed
<1>2. CASE Built
  BY <1>2 DEF Built, history, Typed, Chosen, Spent, Agreed, Landed
<1> QED  BY <1>1, <1>2

\* The classifier's answers, and their absence.
LEMMA ClassifierStep ==
    ASSUME Inv, (\E n \in Names : Answers(n)) \/ Disappoints \/ Garbled
    PROVE  Inv'
<1> USE RoutingAssumption DEF Inv, Stages, Hop
<1>1. ASSUME NEW n \in Names, Answers(n) PROVE Inv'
  BY <1>1 DEF Answers, Typed, Chosen, Spent, Agreed, Landed
<1>2. CASE Disappoints
  <2>1. Typed' /\ Landed'
    BY <1>2 DEF Disappoints, LastAttempt, Typed, Landed
  <2>2. Chosen'
    BY <1>2 DEF Disappoints, Typed, Chosen
  <2>3. Spent'
    BY <1>2 DEF Disappoints, LastAttempt, Typed, Spent
  <2>4. Agreed'
    BY <1>2 DEF Disappoints, Agreed
  <2> QED  BY <2>1, <2>2, <2>3, <2>4
<1>3. CASE Garbled
  BY <1>3 DEF Garbled, FallBack, Typed, Chosen, Spent, Agreed, Landed
<1> QED  BY <1>1, <1>2, <1>3

\* The label, the charge and the comment.
LEMMA AfterStep ==
    ASSUME Inv, Label \/ NoSuchLabel \/ Charge \/ Comment PROVE Inv'
<1> USE RoutingAssumption DEF Inv, Stages, Hop
<1>1. CASE Label
  <2>1. IsFiniteSet(labels \cup {level})
    BY FS_AddElement DEF Typed
  <2>2. Typed' /\ Chosen' /\ Spent'
    BY <1>1, <2>1 DEF Label, Typed, Chosen, Spent
  <2>3. Agreed'
    BY <1>1 DEF Label, Chosen, Agreed
  <2>4. Landed'
    BY <1>1 DEF Label, Typed, Chosen, Landed
  <2> QED  BY <2>2, <2>3, <2>4
<1>2. CASE NoSuchLabel
  BY <1>2 DEF NoSuchLabel, history, Typed, Chosen, Spent, Agreed, Landed
<1>3. CASE Charge
  <2>1. Typed' /\ Landed' /\ Chosen'
    BY <1>3 DEF Charge, Typed, Chosen, Landed
  <2>2. Spent'
    BY <1>3 DEF Charge, Spent
  <2>3. Agreed'
    BY <1>3 DEF Charge, Agreed, Named
  <2> QED  BY <2>1, <2>2, <2>3
<1>4. CASE Comment
  BY <1>4 DEF Comment, history, Typed, Chosen, Spent, Agreed, Landed
<1> QED  BY <1>1, <1>2, <1>3, <1>4

\* A failure is an end to quiet; the level is the default or stays.
LEMMA FaultStep ==
    ASSUME Inv, Raises \/ LabelFails \/ Cancelled PROVE Inv'
<1> USE RoutingAssumption DEF Inv, Stages, Hop, Fault
<1>1. CASE Raises
  BY <1>1 DEF Raises, FallBack, Typed, Chosen, Spent, Agreed, Landed
<1>2. CASE LabelFails
  <2>1. IsFiniteSet(labels')
    <3>1. IsFiniteSet({level} \cap RepoLabels)
      BY FS_Singleton, FS_Subset
    <3>2. IsFiniteSet(labels)
      BY DEF Typed
    <3>3. IsFiniteSet(labels \cup ({level} \cap RepoLabels))
      BY <3>1, <3>2, FS_Union
    <3>4. labels' \in {labels, labels \cup ({level} \cap RepoLabels)}
      BY <1>2 DEF LabelFails
    <3> QED  BY <3>2, <3>3, <3>4
  <2> QED  BY <1>2, <2>1 DEF LabelFails, Typed, Chosen, Spent, Agreed, Landed
<1>3. CASE Cancelled
  BY <1>3 DEF Cancelled, Typed, Chosen, Spent, Agreed, Landed
<1> QED  BY <1>1, <1>2, <1>3

LEMMA InvStep == Inv /\ [Next]_vars => Inv'
<1>1. Inv /\ UNCHANGED vars => Inv'
  BY DEF vars, build, history, Inv, Typed, Chosen, Spent, Agreed, Landed, Named
<1> QED
  BY <1>1, HumanStep, FactsStep, BuildStep, ClassifierStep, AfterStep, FaultStep
     DEF Next, Resolve

LEMMA InvHolds == Spec => []Inv
<1> QED  BY InvInit, InvStep, PTL DEF Spec

-----------------------------------------------------------------------------
(* The theorems. *)

\* resolve_issue_level: "always one of the table's declared levels", of the
\* table the drain has read, on every path to the build.
THEOREM DeclaredAlways == Spec => []LevelDeclared
<1>1. Inv => LevelDeclared
  BY DEF Inv, Chosen, LevelDeclared
<1> QED  BY <1>1, InvHolds, PTL

\* routing.py's charge: once for a build that asked the classifier, with or
\* without an answer, and never for one that did not.
THEOREM ChargedOnce == Spec => []ClassifierCharged
<1>1. Inv => ClassifierCharged
  BY DEF Inv, Spent, ClassifierCharged
<1> QED  BY <1>1, InvHolds, PTL

\* The level a build ran at is the level its labels name from then on.
THEOREM BuildsAgree == Spec => []RebuildsAgree
<1>1. Inv => RebuildsAgree
  BY DEF Inv, Agreed, RebuildsAgree
<1> QED  BY <1>1, InvHolds, PTL

\* Once a label has landed the classifier is asked no more, whatever labels are
\* added.
THEOREM AskedOnce == Spec => ClassifiedOnce
<1> DEFINE Once == stage # "classify" /\ stage' = "classify" => landed = NoLevel
<1>1. ASSUME Inv, [Next]_vars PROVE Once
  <2>1. CASE Facts
    BY <1>1, <2>1, RoutingAssumption DEF Inv, Landed, Facts, Known
  <2>2. CASE Human \/ UNCHANGED vars
    BY <2>2 DEF Human, AddLabel, RemoveLabel, EditTable, build, vars
  <2>3. CASE (\E t \in Tables \cup {NoTable} : Select(t)) \/ Built
    BY <2>3 DEF Select, Built
  <2>4. CASE (\E n \in Names : Answers(n)) \/ Disappoints \/ Garbled
    BY <2>4 DEF Answers, Disappoints, Garbled, FallBack
  <2>5. CASE Label \/ NoSuchLabel \/ Charge \/ Comment
    BY <2>5 DEF Label, NoSuchLabel, Charge, Comment
  <2>6. CASE Raises \/ LabelFails \/ Cancelled
    BY <2>6 DEF Raises, LabelFails, Cancelled, FallBack
  <2> QED  BY <1>1, <2>1, <2>2, <2>3, <2>4, <2>5, <2>6 DEF Next, Resolve
<1>2. Inv /\ [Next]_vars => [Once]_vars
  BY <1>1
<1> QED  BY <1>2, InvHolds, PTL DEF Spec, ClassifiedOnce
=============================================================================
