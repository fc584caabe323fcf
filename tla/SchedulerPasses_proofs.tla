----------------------- MODULE SchedulerPasses_proofs -----------------------
(***************************************************************************)
(* The promises of select_to_build hold of every pass a drain makes: what  *)
(* a pass is offered is a queue however issues arrive, are relabelled and  *)
(* come back, so the theorems about selections apply.                      *)
(***************************************************************************)
EXTENDS SchedulerPasses, SlotScheduler_proofs

\* The issues waiting and those offered are queues, and the last batch is the
\* selection from what was offered under the cap that was read.
PassesInv ==
    /\ Queue(waiting)
    /\ Queue(offered)
    /\ limit \in Caps
    /\ chosen = SelectToBuild(offered, limit)

\* A cap is a number, NoCap included.
LEMMA CapsNumbers == \A cap \in Caps : cap \in Nat
  BY PassesAssumption

\* An issue joins the queue once: the listing has it once.
LEMMA ArriveQueues ==
    ASSUME PassesInv, NEW n \in Numbers, NEW label \in Tier, Arrive(n, <<label>>)
    PROVE  PassesInv'
<1> DEFINE c == [number |-> n, labels |-> <<label>>]
<1>1. c \in Candidate /\ c.number = n
  <2>1. n \in Nat /\ <<label>> \in Seq(Tier)
    BY PassesAssumption
  <2> QED  BY <2>1 DEF Candidate
<1>2. /\ waiting' = waiting \cup {c} /\ \A d \in waiting : d.number # n
      /\ UNCHANGED <<offered, chosen, limit>>
  BY DEF Arrive
<1> HIDE DEF c
<1>3. IsFiniteSet(waiting')
  BY <1>2, FS_AddElement DEF PassesInv, Queue
<1>4. Queue(waiting')
  BY <1>1, <1>2, <1>3 DEF PassesInv, Queue
<1> QED  BY <1>2, <1>4 DEF PassesInv

\* A label added to a waiting issue leaves its number and its place.
LEMMA RelabelQueues ==
    ASSUME PassesInv, NEW c \in waiting, NEW label \in Added, Relabel(c, label)
    PROVE  PassesInv'
<1> DEFINE d == [c EXCEPT !.labels = Append(@, label)]
<1>1. c \in Candidate
  BY DEF PassesInv, Queue
<1>2. d \in Candidate /\ d.number = c.number
  <2>1. label \in Tier
    BY PassesAssumption
  <2>2. c.labels \in Seq(Tier)
    BY <1>1 DEF Candidate
  <2>3. Append(c.labels, label) \in Seq(Tier)
    BY <2>1, <2>2
  <2> QED  BY <1>1, <2>3 DEF Candidate
<1>3. /\ waiting' = (waiting \ {c}) \cup {d}
      /\ UNCHANGED <<offered, chosen, limit>>
  BY DEF Relabel
<1> HIDE DEF d
<1>4. IsFiniteSet(waiting')
  BY <1>3, FS_RemoveElement, FS_AddElement DEF PassesInv, Queue
<1>5. \A e \in waiting \ {c} : e.number # d.number
  BY <1>2 DEF PassesInv, Queue
<1>6. Queue(waiting')
  BY <1>2, <1>3, <1>4, <1>5 DEF PassesInv, Queue
<1> QED  BY <1>3, <1>6 DEF PassesInv

\* A pass offers what waits, and leaves a part of it.
LEMMA PassQueues ==
    ASSUME PassesInv, NEW cap \in Caps, Pass(cap) PROVE PassesInv'
<1>1. Queue(offered') /\ limit' \in Caps
      /\ chosen' = SelectToBuild(offered', limit')
  BY DEF PassesInv, Pass
<1>2. waiting' \in SUBSET waiting
  BY DEF Pass
<1>3. Queue(waiting')
  BY <1>2, PartQueue DEF PassesInv
<1> QED  BY <1>1, <1>3 DEF PassesInv

\* Every pass is made over a queue: the inductive invariant.
THEOREM PassesOverQueues == Spec => []PassesInv
<1>1. Init => PassesInv
  BY PassesAssumption, FS_EmptySet
     DEF Init, PassesInv, Queue, SelectToBuild, NoCap
<1>2. PassesInv /\ [Next]_vars => PassesInv'
  <2> SUFFICES ASSUME PassesInv, [Next]_vars PROVE PassesInv'
    OBVIOUS
  <2>1. CASE UNCHANGED vars
    BY <2>1 DEF vars, PassesInv
  <2> QED  BY <2>1, ArriveQueues, RelabelQueues, PassQueues DEF Next
<1> QED  BY <1>1, <1>2, PTL DEF Spec

\* The variables keep their types.
THEOREM PassesTyped == Spec => []TypeOK
<1>1. PassesInv => TypeOK
  BY SelectionWithinCap, CapsNumbers DEF PassesInv, Queue, TypeOK
<1> QED  BY <1>1, PassesOverQueues, PTL

\* scheduler.py: no pass starts more issues than max_parallel.
THEOREM PassesWithinCap == Spec => []BatchWithinCap
<1>1. PassesInv => BatchWithinCap
  BY SelectionWithinCap, CapsNumbers DEF PassesInv, BatchWithinCap
<1> QED  BY <1>1, PassesOverQueues, PTL

\* scheduler.py: no pass fills every slot with main work, given two or more.
THEOREM PassesReserveSlot == Spec => []BatchReservesSlot
<1>1. PassesInv => BatchReservesSlot
  BY SelectionReservesSlot, CapsNumbers DEF PassesInv, BatchReservesSlot
<1> QED  BY <1>1, PassesOverQueues, PTL

\* scheduler.py: no pass leaves an issue waiting that outranks one it starts.
THEOREM PassesRankClosed == Spec => []BatchRankClosed
<1>1. PassesInv => BatchRankClosed
  BY SelectionRankClosed, CapsNumbers DEF PassesInv, BatchRankClosed
<1> QED  BY <1>1, PassesOverQueues, PTL

\* scheduler.py: no pass leaves a slot idle that work waits for, but the
\* reserved one.
THEOREM PassesWorkConserving == Spec => []BatchWorkConserving
<1>1. PassesInv => BatchWorkConserving
  BY SelectionWorkConserving, CapsNumbers DEF PassesInv, BatchWorkConserving
<1> QED  BY <1>1, PassesOverQueues, PTL
=============================================================================
