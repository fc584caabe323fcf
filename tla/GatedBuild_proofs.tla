------------------------- MODULE GatedBuild_proofs -------------------------
(***************************************************************************)
(* Theorems of GatedBuild, for every depth cap, every set of hand-filed    *)
(* issues and of texts a finding may quote, any number of nits and any     *)
(* number of faults.                                                       *)
(***************************************************************************)
EXTENDS GatedBuild, TLAPS

\* The commits on origin, the commits the reviewer saw and the verdict, as the
\* stages hand them on.
Handover ==
    /\ stage \in {"prepare", "implement", "landed", "check", "push"} =>
           pushed = 0 /\ verdict = "none"
    /\ stage \in {"check", "push"} => head # 0
    /\ stage \in {"push", "repush"} => tree \in green
    /\ stage \in {"report", "review", "rereview"} => pushed = head
    /\ stage \in {"report", "teardown", "escalate"} \cup Opening \cup InGate
           => pushed # 0
    /\ stage \in InGate => head # 0
    /\ stage = "teardown" =>
           \/ verdict = "blocked"
           \/ verdict = "cleared" /\ seen = pushed
    /\ stage = "escalate" => verdict = "blocked"
    /\ stage \in Opening \/ synced => verdict = "cleared" /\ seen = pushed
    /\ stage \notin {"create", "idle"} => ~synced

\* The issue being built may go back to the waiting ones.
Shallow ==
    /\ DepthBelowCap
    /\ body \in Bodies \ Origins => Depth(body) < RetryCap

Inv == TypeOK /\ Handover /\ Shallow

-----------------------------------------------------------------------------
\* The depth read back from any body is a number, and from a filed nit the one
\* its marker was given, whatever its text quotes.
LEMMA DepthTyped ==
    ASSUME NEW b \in Bodies
    PROVE  Depth(b) \in Nat
<1>1. Bodies \subseteq Seq(Nat)
  BY BuildAssumption DEF Bodies, Stamped
<1>2. b \in Seq(Nat)
  BY <1>1
<1>3. CASE b = <<>>
  BY <1>3 DEF Depth
<1>4. CASE b # <<>>
  <2>1. Len(b) \in 1..Len(b)
    BY <1>2, <1>4
  <2>2. b[Len(b)] \in Nat
    BY <1>2, <2>1
  <2>. QED BY <1>4, <2>2 DEF Depth
<1>. QED BY <1>3, <1>4

\* The marker stamped last is the one that is read.
LEMMA DepthOfStamped ==
    ASSUME NEW q \in Quotes, NEW d \in Nat
    PROVE  Depth(Stamped(q, d)) = d
<1>1. q \in Seq(Nat)
  BY BuildAssumption
<1>2. /\ Append(q, d) # <<>>
      /\ Len(Append(q, d)) = Len(q) + 1
      /\ Append(q, d)[Len(q) + 1] = d
  BY <1>1
<1>. QED BY <1>2 DEF Depth, Stamped

\* A reviewer's report is a sequence of texts.
LEMMA FindingsTyped == Findings \subseteq Seq(Quotes)
BY DEF Findings

\* A nit that is filed is a body of its own, below the cap.
LEMMA NitFiled ==
    ASSUME TypeOK, nits # <<>>, ~AtCap
    PROVE  LET b == Stamped(Head(nits), Depth(body) + 1)
           IN  /\ b \in Bodies
               /\ Depth(b) < RetryCap
               /\ Filed \in [Bodies -> Nat]
               /\ \A c \in Bodies : Filed[c] # waiting[c] => c = b
<1>. DEFINE q == Head(nits)
            d == Depth(body) + 1
            b == Stamped(q, d)
<1>1. q \in Quotes
  BY DEF TypeOK
<1>2. Depth(body) \in Nat
  BY DepthTyped DEF TypeOK
<1>3. d \in 1..RetryCap /\ d < RetryCap
  BY <1>2, BuildAssumption DEF AtCap
<1>4. b \in Bodies
  BY <1>1, <1>3 DEF Bodies
<1>5. Depth(b) = d
  BY <1>1, <1>2, DepthOfStamped
<1>6. Filed \in [Bodies -> Nat]
  BY <1>4 DEF Filed, TypeOK
<1>7. \A c \in Bodies : Filed[c] # waiting[c] => c = b
  BY <1>4 DEF Filed, TypeOK
<1>. QED BY <1>3, <1>4, <1>5, <1>6, <1>7

-----------------------------------------------------------------------------
LEMMA InitInv == Init => Inv
<1>. SUFFICES ASSUME Init PROVE Inv
  OBVIOUS
<1>1. Origins \subseteq Bodies
  BY DEF Bodies
<1>2. TypeOK
  <2>1. synced \in BOOLEAN
    BY DEF Init
  <2>2. nits \in Seq(Quotes) /\ waiting \in [Bodies -> Nat] /\ body \in Bodies
    BY <1>1 DEF Init
  <2>. QED BY <2>1, <2>2 DEF Init, TypeOK, Stages
<1>3. Handover
  BY DEF Init, Handover, InGate, Opening
<1>4. Shallow
  BY DEF Init, Shallow, DepthBelowCap
<1>. QED BY <1>2, <1>3, <1>4 DEF Inv

\* Every step keeps the types.
LEMMA TypedStep == TypeOK /\ [Next]_vars => TypeOK'
<1>. SUFFICES ASSUME TypeOK, [Next]_vars PROVE TypeOK'
  OBVIOUS
<1>. USE DEF TypeOK, Stages, Outside, InGate, Goes
<1>1. ASSUME NEW b \in Bodies, Take(b) PROVE TypeOK'
  <2>1. synced' \in BOOLEAN
    BY <1>1 DEF Take, Fresh
  <2>2. nits' \in Seq(Quotes) /\ waiting' \in [Bodies -> Nat]
    BY <1>1 DEF Take, Fresh
  <2>. QED BY <1>1, <2>1, <2>2 DEF Take, Fresh, faults
<1>2. CASE Prepare
  BY <1>2 DEF Prepare, code, gate, faults
<1>3. CASE Implement
  BY <1>3 DEF Implement, Edits, Mishap, gate
<1>4. CASE CommitsLanded
  BY <1>4 DEF CommitsLanded, code, gate, faults
<1>5. CASE Hollow
  BY <1>5 DEF Hollow, Over, gate, faults
<1>6. CASE CheckGreen
  BY <1>6 DEF CheckGreen, gate, faults
<1>7. CASE CheckRed
  BY <1>7 DEF CheckRed, Mishap, Over, gate
<1>8. CASE Push
  BY <1>8 DEF Push, gate, faults
<1>9. CASE Report
  BY <1>9 DEF Report, code, gate, faults
<1>10. ASSUME NEW backlog \in Findings, ReviewClears(backlog) PROVE TypeOK'
  BY <1>10, FindingsTyped DEF ReviewClears, Judged, code, faults
<1>11. CASE ReviewFinds
  BY <1>11 DEF ReviewFinds, code, faults
<1>12. CASE Fix
  BY <1>12 DEF Fix, Edits, gate, faults
<1>13. CASE RecheckGreen
  BY <1>13 DEF RecheckGreen, gate, faults
<1>14. CASE RecheckRed
  BY <1>14 DEF RecheckRed, Judged, code, faults
<1>15. CASE Repush
  BY <1>15 DEF Repush, gate, faults
<1>16. ASSUME NEW backlog \in Seq(Quotes), NEW v \in {"cleared", "blocked"},
              Rereview(v, backlog)
       PROVE  TypeOK'
  BY <1>16 DEF Rereview, Judged, code, faults
<1>17. CASE GateRaises
  BY <1>17 DEF GateRaises, Judged, faults
<1>18. CASE Teardown
  BY <1>18 DEF Teardown, code, gate, faults
<1>19. CASE Escalate
  BY <1>19 DEF Escalate, code, gate, faults
<1>20. CASE FileNit
  BY <1>20, NitFiled DEF FileNit, code, faults
<1>21. CASE CutChain
  BY <1>21 DEF CutChain, code, faults
<1>22. CASE FiledAll
  BY <1>22 DEF FiledAll, code, gate, faults
<1>23. CASE NothingToOpen \/ OpenNone \/ Sync \/ OpenPr
  BY <1>23 DEF NothingToOpen, OpenNone, Sync, OpenPr, code, gate, faults
<1>24. ASSUME FilingFails, cancels' \in Nat PROVE TypeOK'
  BY <1>24, NitFiled DEF FilingFails, Mishap, code, gate
<1>25. ASSUME Mishap, MayHavePushed, Over, cancels' \in Nat PROVE TypeOK'
  BY <1>25 DEF Mishap, MayHavePushed, Over, gate
<1>26. CASE Raises
  BY <1>24, <1>25, <1>26 DEF Raises
<1>27. CASE Cancelled
  BY <1>24, <1>25, <1>27 DEF Cancelled
<1>28. CASE UNCHANGED vars
  BY <1>28 DEF vars, code, gate, faults
<1>29. <<>> \in Seq(Quotes)
  OBVIOUS
<1>. QED
  BY <1>1, <1>2, <1>3, <1>4, <1>5, <1>6, <1>7, <1>8, <1>9, <1>10, <1>11, <1>12,
     <1>13, <1>14, <1>15, <1>16, <1>17, <1>18, <1>19, <1>20, <1>21, <1>22,
     <1>23, <1>26, <1>27, <1>28, <1>29, FindingsTyped
     DEF Next, Lifecycle, Gate, Pipeline

\* Every step hands the commits and the verdict on as Handover says.
LEMMA HandoverStep == TypeOK /\ Handover /\ [Next]_vars => Handover'
<1>. SUFFICES ASSUME TypeOK, Handover, [Next]_vars PROVE Handover'
  OBVIOUS
<1>. USE DEF TypeOK, Handover, Stages, Outside, InGate, Opening, Goes
<1>1. ASSUME NEW b \in Bodies, Take(b) PROVE Handover'
  BY <1>1 DEF Take, Fresh
<1>2. CASE Prepare
  BY <1>2 DEF Prepare, code, gate
<1>3. CASE Implement
  BY <1>3 DEF Implement, gate
<1>4. CASE CommitsLanded
  BY <1>4 DEF CommitsLanded, code, gate
<1>5. CASE NothingToOpen \/ OpenNone \/ Sync \/ OpenPr
  BY <1>5 DEF NothingToOpen, OpenNone, Sync, OpenPr, code, gate
<1>6. CASE CheckGreen
  BY <1>6 DEF CheckGreen, gate
<1>7. CASE Push
  BY <1>7 DEF Push, gate
<1>8. CASE Report
  BY <1>8 DEF Report, code, gate
<1>9. ASSUME NEW backlog \in Findings, ReviewClears(backlog) PROVE Handover'
  BY <1>9 DEF ReviewClears, Judged, code
<1>10. CASE ReviewFinds
  BY <1>10 DEF ReviewFinds, code
<1>11. CASE Fix
  BY <1>11 DEF Fix, Edits, gate
<1>12. CASE RecheckGreen
  BY <1>12 DEF RecheckGreen, gate
<1>13. CASE RecheckRed
  BY <1>13 DEF RecheckRed, Judged, code
<1>14. CASE Repush
  BY <1>14 DEF Repush, gate
<1>15. ASSUME NEW backlog \in Seq(Quotes), NEW v \in {"cleared", "blocked"},
              Rereview(v, backlog)
       PROVE  Handover'
  BY <1>15 DEF Rereview, Judged, code
<1>16. CASE GateRaises
  BY <1>16 DEF GateRaises, Judged
<1>17. CASE Teardown
  BY <1>17 DEF Teardown, code, gate
<1>18. ASSUME Over, UNCHANGED <<pushed, synced>> \/ MayHavePushed
       PROVE  Handover'
  BY <1>18 DEF Over, MayHavePushed, gate
<1>19. CASE FileNit \/ CutChain
  BY <1>19 DEF FileNit, CutChain, code
<1>20. CASE FiledAll
  BY <1>20 DEF FiledAll, code, gate
<1>21. CASE Hollow \/ CheckRed \/ Raises \/ Cancelled
  <2>1. ASSUME FilingFails PROVE Handover'
    BY <2>1 DEF FilingFails, code, gate
  <2>. QED BY <1>18, <1>21, <2>1 DEF Hollow, CheckRed, Raises, Cancelled
<1>22. CASE Escalate \/ UNCHANGED vars
  BY <1>22 DEF Escalate, vars, code, gate
<1>23. <<>> \in Seq(Quotes)
  OBVIOUS
<1>. QED
  BY <1>1, <1>2, <1>3, <1>4, <1>5, <1>6, <1>7, <1>8, <1>9, <1>10, <1>11,
     <1>12, <1>13, <1>14, <1>15, <1>16, <1>17, <1>19, <1>20, <1>21, <1>22,
     <1>23, FindingsTyped
     DEF Next, Lifecycle, Gate, Pipeline

\* A body comes to wait only by being filed below the cap, or by a build that
\* gives its own issue back.
LEMMA ShallowStep == TypeOK /\ Shallow /\ [Next]_vars => Shallow'
<1>. SUFFICES ASSUME TypeOK, Shallow, [Next]_vars PROVE Shallow'
  OBVIOUS
<1>. USE DEF Shallow, DepthBelowCap
<1>1. ASSUME NEW b \in Bodies, Take(b) PROVE Shallow'
  <2>1. waiting[b] > 0 /\ body' = b
    BY <1>1 DEF Take
  <2>2. \A c \in Bodies : waiting'[c] > 0 => waiting[c] > 0
    BY <1>1 DEF Take, TypeOK
  <2>. QED BY <2>1, <2>2 DEF Depth
<1>2. ASSUME UNCHANGED <<waiting, body>> PROVE Shallow'
  BY <1>2
<1>3. ASSUME Over PROVE Shallow'
  <2>1. body' = body
    BY <1>3 DEF Over
  <2>2. \A c \in Bodies : waiting'[c] > 0 => waiting[c] > 0 \/ c = body
    BY <1>3 DEF Over, TypeOK
  <2>. QED BY <2>1, <2>2
<1>4. ASSUME waiting' = Filed, nits # <<>>, ~AtCap, body' = body
      PROVE  Shallow'
  BY <1>4, NitFiled
<1>5. CASE Hollow \/ CheckRed
  BY <1>3, <1>5 DEF Hollow, CheckRed
<1>6. CASE FileNit
  BY <1>4, <1>6 DEF FileNit
<1>7. ASSUME FilingFails PROVE Shallow'
  BY <1>2, <1>4, <1>7 DEF FilingFails
<1>8. CASE Raises \/ Cancelled
  BY <1>3, <1>7, <1>8 DEF Raises, Cancelled
<1>9. CASE Prepare \/ Implement \/ CommitsLanded \/ CheckGreen \/ Push \/ Report
  BY <1>2, <1>9 DEF Prepare, Implement, CommitsLanded, CheckGreen, Push, Report
<1>10. CASE Gate
  BY <1>2, <1>10
     DEF Gate, ReviewClears, ReviewFinds, Fix, RecheckGreen, RecheckRed, Repush,
         Rereview, GateRaises
<1>11. CASE \/ Teardown \/ Escalate \/ CutChain \/ FiledAll
            \/ NothingToOpen \/ OpenNone \/ Sync \/ OpenPr
  BY <1>2, <1>11
     DEF Teardown, Escalate, CutChain, FiledAll, NothingToOpen, OpenNone, Sync,
         OpenPr
<1>12. CASE UNCHANGED vars
  BY <1>2, <1>12 DEF vars
<1>. QED
  BY <1>1, <1>5, <1>6, <1>8, <1>9, <1>10, <1>11, <1>12
     DEF Next, Lifecycle, Pipeline

-----------------------------------------------------------------------------
\* The types, the handover of the commits and the depths, at every step.
THEOREM BuildInvariant == Spec => []Inv
<1>1. Inv /\ [Next]_vars => Inv'
  BY TypedStep, HandoverStep, ShallowStep DEF Inv
<1>. QED BY InitInv, <1>1, PTL DEF Spec

\* The build, its branch and its gate keep their types: no pass of the agents,
\* fault or retry takes one of them where the code has no branch for it.
THEOREM BuildTyped == Spec => []TypeOK
<1>1. Inv => TypeOK
  BY DEF Inv
<1>. QED BY BuildInvariant, <1>1, PTL

\* adhoc_build.py, pr_opener.py: whatever the agents leave uncommitted and
\* wherever the gate's passes fail, the agents' commits a PR is opened for are
\* those the reviewer cleared, and the target branch's changes are only ever
\* merged on top of such commits.
THEOREM ShipsReviewed == Spec => []OpenedWasReviewed
<1>1. Inv => OpenedWasReviewed
  BY DEF Inv, Handover, OpenedWasReviewed
<1>. QED BY BuildInvariant, <1>1, PTL

\* No review fix is filed at or beyond the depth cap, whatever its text quotes.
THEOREM ChainsStayShallow == Spec => []DepthBelowCap
<1>1. Inv => DepthBelowCap
  BY DEF Inv, Shallow
<1>. QED BY BuildInvariant, <1>1, PTL

\* A push moves the branch on origin only over a tree a done-check passed.
THEOREM PushesFollowGreen == Spec => PushFollowsGreen
<1>1. Inv /\ [Next]_vars => [pushed' \notin {pushed, 0} => tree \in green]_vars
  <2>. SUFFICES ASSUME Inv, Next PROVE pushed' \notin {pushed, 0} => tree \in green
    OBVIOUS
  <2>1. CASE stage \in {"push", "repush"}
    BY <2>1 DEF Inv, Handover
  <2>2. CASE stage \notin {"push", "repush"}
    <3>1. CASE Lifecycle
      BY <2>2, <3>1
         DEF Lifecycle, Take, Fresh, Prepare, Implement, CommitsLanded, Hollow,
             CheckGreen, CheckRed, Push, Report, code
    <3>2. CASE Gate
      BY <2>2, <3>2
         DEF Gate, ReviewClears, ReviewFinds, Fix, RecheckGreen, RecheckRed,
             Repush, Rereview, GateRaises, code
    <3>3. CASE Pipeline
      BY <3>3
         DEF Pipeline, Teardown, Escalate, FileNit, CutChain, FiledAll,
             NothingToOpen, OpenNone, Sync, OpenPr, code
    <3>4. CASE Raises \/ Cancelled
      BY <2>2, <3>4 DEF Raises, Cancelled, FilingFails, MayHavePushed, code
    <3>. QED BY <3>1, <3>2, <3>3, <3>4 DEF Next
  <2>. QED BY <2>1, <2>2
<1>. QED BY BuildInvariant, <1>1, PTL DEF Spec, PushFollowsGreen

-----------------------------------------------------------------------------
\* Every step of the task is a step of the promise, or none.
LEMMA PromiseStep == Inv /\ Inv' /\ [Next]_vars => [Promise!Next]_(Promise!vars)
<1>. SUFFICES ASSUME Inv, Inv', [Next]_vars
              PROVE  [Promise!Next]_(Promise!vars)
  OBVIOUS
<1>. USE DEF Inv, Handover, Phase, InGate, Outside, Opening, Goes,
             Promise!Next, Promise!vars
<1>1. ASSUME NEW b \in Bodies, Take(b) PROVE Promise!Begin
  BY <1>1 DEF Take, Fresh, faults, Promise!Begin
<1>2. ASSUME Phase' = Phase, (pushed # 0)' = (pushed # 0),
             UNCHANGED <<verdict, cancels>>
      PROVE  UNCHANGED Promise!vars
  BY <1>2
<1>3. CASE Prepare \/ Implement \/ CommitsLanded \/ CheckGreen
  BY <1>3 DEF Prepare, Implement, CommitsLanded, CheckGreen, code, gate, faults
<1>4. CASE Hollow \/ CheckRed
  BY <1>4 DEF Hollow, CheckRed, Over, gate, faults, Promise!Fails, Promise!Ends
<1>5. CASE Push
  BY <1>5 DEF Push, gate, faults, Promise!Green
<1>6. CASE Report
  BY <1>6 DEF Report, code, gate, faults, Promise!Reported
<1>7. ASSUME NEW backlog, ReviewClears(backlog) PROVE Promise!Judge
  BY <1>7 DEF ReviewClears, Judged, code, faults, Promise!Judge
<1>8. CASE ReviewFinds \/ Fix \/ RecheckGreen
  BY <1>8 DEF ReviewFinds, Fix, RecheckGreen, code, gate, faults
<1>9. CASE RecheckRed
  BY <1>9 DEF RecheckRed, Judged, code, faults, Promise!Judge
<1>10. CASE Repush
  BY <1>10 DEF Repush, gate, faults
<1>11. ASSUME NEW v \in {"cleared", "blocked"}, NEW backlog,
              Rereview(v, backlog)
       PROVE  Promise!Judge
  BY <1>11 DEF Rereview, Judged, code, faults, Promise!Judge
<1>12. CASE GateRaises
  BY <1>12 DEF GateRaises, Judged, faults, Promise!Judge
<1>13. CASE Teardown
  BY <1>13 DEF Teardown, code, gate, faults
<1>14. CASE Escalate \/ NothingToOpen \/ OpenPr
  BY <1>14 DEF Escalate, NothingToOpen, OpenPr, code, gate, faults,
               Promise!Done
<1>15. CASE FileNit \/ CutChain \/ FiledAll \/ OpenNone \/ Sync
  BY <1>15 DEF FileNit, CutChain, FiledAll, OpenNone, Sync, code, gate, faults
<1>16. ASSUME FilingFails \/ (stage \in Outside \cup InGate /\ MayHavePushed /\ Over)
       PROVE  Promise!Ends /\ Phase # "idle" /\ (stage \notin InGate => Phase # "review")
  BY <1>16 DEF FilingFails, MayHavePushed, Over, code, gate, Promise!Ends
<1>17. CASE Raises
  BY <1>16, <1>17 DEF Raises, FilingFails, Promise!Fails
<1>18. CASE Cancelled
  BY <1>16, <1>18 DEF Cancelled, Promise!Cancelled
<1>19. CASE UNCHANGED vars
  BY <1>19 DEF vars, code, gate, faults
<1>. QED
  BY <1>1, <1>3, <1>4, <1>5, <1>6, <1>7, <1>8, <1>9, <1>10, <1>11, <1>12, <1>13,
     <1>14, <1>15, <1>17, <1>18, <1>19
     DEF Next, Lifecycle, Gate, Pipeline

\* The build with its gate implements the task AdhocLane schedules.
THEOREM BuildKeepsPromise == Spec => KeepsPromise
<1>1. Init => Promise!Init
  BY DEF Init, Promise!Init, Phase, InGate
<1>. QED
  BY BuildInvariant, PromiseStep, <1>1, PTL
     DEF Spec, KeepsPromise, Promise!Spec
=============================================================================
