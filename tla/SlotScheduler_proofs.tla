------------------------ MODULE SlotScheduler_proofs ------------------------
(***************************************************************************)
(* What select_to_build does with every candidate set and every cap.       *)
(*                                                                         *)
(* A queue is a finite set of candidates with different numbers, as one    *)
(* listing of GitHub's gives them.  Before orders it strictly, so the rank *)
(* of a candidate, which is how many come before it, is different for each *)
(* of them and TakeFirst takes exactly the slots it is given, or all.      *)
(***************************************************************************)
EXTENDS SlotScheduler, FiniteSetTheorems, TLAPS

\* A queue as partition_queues and select_to_build are handed one.
Queue(q) ==
    /\ q \subseteq Candidate
    /\ IsFiniteSet(q)
    /\ \A c, d \in q : c.number = d.number => c = d

Ahead(q, c) == {d \in q : Before(d, c)}

-----------------------------------------------------------------------------
(* The order. *)

\* Among finite sets some set includes no other properly.
LEMMA SmallestSet ==
    ASSUME NEW U, IsFiniteSet(U), NEW F \in SUBSET (SUBSET U), F # {}
    PROVE  \E A \in F : \A B \in F : B \subseteq A => B = A
<1>1. IsWellFoundedOn(StrictSubsetOrdering(U), SUBSET U)
  BY FS_StrictSubsetOrderingWellFounded, FS_FiniteSubsetsOfFinite
<1>2. PICK A \in F : \A B \in F : <<B, A>> \notin StrictSubsetOrdering(U)
  BY <1>1, WFMin
<1> QED  BY <1>2 DEF StrictSubsetOrdering

\* A label list has a first one of any kind it has.
LEMMA FirstIndex ==
    ASSUME NEW n \in Nat, NEW S \in SUBSET (1..n), S # {}
    PROVE  \E k \in S : \A j \in S : k <= j
<1> DEFINE U == 1..n
           F == {1..k : k \in S}
<1>1. IsFiniteSet(U)
  BY FS_Interval
<1>2. F \in SUBSET (SUBSET U) /\ F # {}
  <2>1. \A k \in S : 1..k \subseteq 1..n
    OBVIOUS
  <2> QED  BY <2>1
<1>3. PICK A \in F : \A B \in F : B \subseteq A => B = A
  <2> HIDE DEF U, F
  <2> QED  BY <1>1, <1>2, SmallestSet
<1>4. PICK k \in S : A = 1..k
  BY <1>3
<1>5. ASSUME NEW j \in S PROVE k <= j
  <2>1. CASE j < k
    <3>1. 1..j \subseteq 1..k /\ k \in 1..k /\ k \notin 1..j
      BY <2>1
    <3> QED  BY <1>3, <1>4, <3>1
  <2> QED  BY <2>1
<1> QED  BY <1>5

\* RepoConfig.tier_of answers a tier, or none.
LEMMA TierOfTyped ==
    ASSUME NEW labels \in Seq(Tier)
    PROVE  TierOf(labels) \in Tier /\ TierOf(labels) \in Int
<1> DEFINE naming == {k \in DOMAIN labels : labels[k] # Untiered}
<1>1. Tier \subseteq Int /\ Untiered \in Tier
  BY TiersAssumption DEF Tier, Untiered
<1>2. CASE naming = {}
  BY <1>1, <1>2 DEF TierOf
<1>3. CASE naming # {}
  <2> DEFINE first == CHOOSE k \in naming : \A j \in naming : k <= j
  <2>1. naming \in SUBSET (1..Len(labels)) /\ Len(labels) \in Nat
    OBVIOUS
  <2>2. \E k \in naming : \A j \in naming : k <= j
    <3> HIDE DEF naming
    <3> QED  BY <1>3, <2>1, FirstIndex
  <2>3. first \in 1..Len(labels)
    BY <2>1, <2>2
  <2>4. TierOf(labels) = labels[first]
    BY <1>3 DEF TierOf
  <2> HIDE DEF first
  <2>5. labels[first] \in Tier
    BY <2>3
  <2> QED  BY <1>1, <2>4, <2>5
<1> QED  BY <1>2, <1>3

\* _rank_key orders candidates strictly, and totally those of different
\* numbers.
LEMMA BeforeOrders ==
    ASSUME NEW c \in Candidate, NEW d \in Candidate, NEW e \in Candidate
    PROVE  /\ ~Before(c, c)
           /\ Before(c, d) => ~Before(d, c)
           /\ Before(c, d) /\ Before(d, e) => Before(c, e)
           /\ c.number # d.number => Before(c, d) \/ Before(d, c)
<1>1. \A x \in Candidate : TierOf(x.labels) \in Int /\ x.number \in Int
  BY TierOfTyped DEF Candidate
<1> QED  BY <1>1 DEF Before

\* What a queue gives the rest of the proofs.
LEMMA QueueOrdered ==
    ASSUME NEW q, Queue(q), NEW c \in q, NEW d \in q
    PROVE  /\ c = d \/ Before(c, d) \/ Before(d, c)
           /\ Before(c, d) =>
                /\ Ahead(q, c) \subseteq Ahead(q, d)
                /\ c \in Ahead(q, d) /\ c \notin Ahead(q, c)
  BY BeforeOrders DEF Queue, Ahead

\* Any part of a queue is one.
LEMMA PartQueue ==
    ASSUME NEW q, Queue(q), NEW p \in SUBSET q PROVE Queue(p)
  BY FS_Subset DEF Queue

-----------------------------------------------------------------------------
(* The first k of a queue. *)

\* A candidate's rank is a number, and larger than that of those before it.
LEMMA RanksGrow ==
    ASSUME NEW q, Queue(q), NEW c \in q
    PROVE  /\ Cardinality(Ahead(q, c)) \in Nat
           /\ \A d \in q : Before(d, c) =>
                Cardinality(Ahead(q, d)) < Cardinality(Ahead(q, c))
<1>1. \A d \in q : IsFiniteSet(Ahead(q, d)) /\ Cardinality(Ahead(q, d)) \in Nat
  BY FS_Subset, FS_CardinalityType DEF Queue, Ahead
<1>2. ASSUME NEW d \in q, Before(d, c)
      PROVE  Cardinality(Ahead(q, d)) < Cardinality(Ahead(q, c))
  <2>1. /\ Ahead(q, d) \in SUBSET Ahead(q, c) /\ Ahead(q, d) # Ahead(q, c)
    BY <1>2, QueueOrdered
  <2>2. /\ Cardinality(Ahead(q, d)) <= Cardinality(Ahead(q, c))
        /\ Cardinality(Ahead(q, d)) # Cardinality(Ahead(q, c))
    BY <1>1, <2>1, FS_Subset
  <2> QED  BY <1>1, <2>2
<1> QED  BY <1>1, <1>2

\* The queue is cut along the order: nothing left is before anything taken.
LEMMA CutClosed ==
    ASSUME NEW q, Queue(q), NEW k \in Nat,
           NEW c \in TakeFirst(q, k), NEW d \in q \ TakeFirst(q, k)
    PROVE  ~Before(d, c)
<1>1. /\ c \in q /\ d \in q
      /\ Cardinality(Ahead(q, c)) < k /\ ~(Cardinality(Ahead(q, d)) < k)
  BY DEF TakeFirst, Ahead
<1> QED  BY <1>1, RanksGrow

\* No more than k are taken: their ranks are different numbers below k.
LEMMA CutWithin ==
    ASSUME NEW q, Queue(q), NEW k \in Nat
    PROVE  /\ TakeFirst(q, k) \subseteq q
           /\ IsFiniteSet(TakeFirst(q, k))
           /\ Cardinality(TakeFirst(q, k)) \in 0..k
<1> DEFINE taken == TakeFirst(q, k)
           rank == [c \in taken |-> Cardinality(Ahead(q, c))]
<1>1. taken \subseteq q /\ \A c \in taken : Cardinality(Ahead(q, c)) < k
  BY DEF TakeFirst, Ahead
<1>2. IsFiniteSet(taken) /\ Cardinality(taken) \in Nat
  BY <1>1, FS_Subset, FS_CardinalityType DEF Queue
<1>3. \A c \in taken : Cardinality(Ahead(q, c)) \in 0..(k-1)
  BY <1>1, RanksGrow
<1>4. ASSUME NEW c \in taken, NEW d \in taken, rank[c] = rank[d] PROVE c = d
  <2>1. Cardinality(Ahead(q, c)) = Cardinality(Ahead(q, d))
    BY <1>4
  <2>2. /\ Before(c, d) => Cardinality(Ahead(q, c)) < Cardinality(Ahead(q, d))
        /\ Before(d, c) => Cardinality(Ahead(q, d)) < Cardinality(Ahead(q, c))
    BY <1>1, RanksGrow
  <2>3. Cardinality(Ahead(q, c)) \in Int
    BY <1>3
  <2>4. ~Before(c, d) /\ ~Before(d, c)
    BY <2>1, <2>2, <2>3
  <2> QED  BY <1>1, <2>4, QueueOrdered
<1>5. rank \in Injection(taken, 0..(k-1))
  BY <1>3, <1>4 DEF Injection, IsInjective
<1>6. IsFiniteSet(0..(k-1)) /\ Cardinality(0..(k-1)) = k
  BY FS_Interval
<1> HIDE DEF taken, rank
<1>7. Cardinality(taken) <= k
  BY <1>5, <1>6, FS_Injection
<1> QED  BY <1>1, <1>2, <1>7 DEF taken

\* What is not empty has a first candidate.
LEMMA FirstOfQueue ==
    ASSUME NEW q, Queue(q), q # {}
    PROVE  \E c \in q : \A d \in q : ~Before(d, c)
<1> DEFINE F == {Ahead(q, c) : c \in q}
<1>1. F \in SUBSET (SUBSET q) /\ F # {} /\ IsFiniteSet(q)
  <2>1. \A c \in q : Ahead(q, c) \subseteq q
    BY DEF Ahead
  <2> QED  BY <2>1 DEF Queue
<1>2. PICK A \in F : \A B \in F : B \subseteq A => B = A
  <2> HIDE DEF F
  <2> QED  BY <1>1, SmallestSet
<1>3. PICK c \in q : A = Ahead(q, c)
  BY <1>2
<1>4. ASSUME NEW d \in q, Before(d, c) PROVE FALSE
  <2>1. Ahead(q, d) \subseteq Ahead(q, c) /\ Ahead(q, d) # Ahead(q, c)
    BY <1>4, QueueOrdered
  <2> QED  BY <1>2, <1>3, <2>1
<1> QED  BY <1>4

\* When something is left, all k slots were filled: all that comes before the
\* first one left was taken.
LEMMA CutFills ==
    ASSUME NEW q, Queue(q), NEW k \in Nat, TakeFirst(q, k) # q
    PROVE  Cardinality(TakeFirst(q, k)) = k
<1> DEFINE left == q \ TakeFirst(q, k)
<1>1. left # {} /\ left \in SUBSET q /\ IsFiniteSet(TakeFirst(q, k))
      /\ Cardinality(TakeFirst(q, k)) \in 0..k
  BY CutWithin
<1>2. PICK c \in left : \A d \in left : ~Before(d, c)
  BY <1>1, PartQueue, FirstOfQueue
<1>3. Ahead(q, c) \in SUBSET TakeFirst(q, k)
  BY <1>2 DEF Ahead
<1>4. ~(Cardinality(Ahead(q, c)) < k) /\ Cardinality(Ahead(q, c)) \in Nat
  BY <1>2, RanksGrow DEF TakeFirst, Ahead
<1>5. Cardinality(Ahead(q, c)) <= Cardinality(TakeFirst(q, k))
  BY <1>1, <1>3, FS_Subset
<1> QED  BY <1>1, <1>4, <1>5

-----------------------------------------------------------------------------
(* The two queues, and the selection. *)

\* partition_queues splits a queue in two, and all priority work ranks ahead of
\* all main work, because the priority tiers are a top prefix of the tiers.
LEMMA TwoQueues ==
    ASSUME NEW q, Queue(q)
    PROVE  /\ Queue(PriorityQueue(q)) /\ Queue(MainQueue(q))
           /\ q = PriorityQueue(q) \cup MainQueue(q)
           /\ PriorityQueue(q) \cap MainQueue(q) = {}
           /\ \A c \in PriorityQueue(q), d \in MainQueue(q) : Before(c, d)
<1>1. /\ PriorityQueue(q) \in SUBSET q /\ MainQueue(q) \in SUBSET q
      /\ q = PriorityQueue(q) \cup MainQueue(q)
      /\ PriorityQueue(q) \cap MainQueue(q) = {}
  BY DEF PriorityQueue, MainQueue
<1>2. \A x \in q : TierOf(x.labels) \in Int
  BY TierOfTyped DEF Queue, Candidate
<1>3. NumPriority \in Int
  BY TiersAssumption
<1>4. \A c \in PriorityQueue(q), d \in MainQueue(q) : Before(c, d)
  BY <1>2, <1>3 DEF PriorityQueue, MainQueue, IsPriority, Before
<1> QED  BY <1>1, <1>4, PartQueue

\* The slots select_to_build gives each queue, with two slots or more.
PriorityTake(q, cap) == TakeFirst(PriorityQueue(q), cap)
MainCap(q, cap) == Least(cap - 1, cap - Cardinality(PriorityTake(q, cap)))
MainTake(q, cap) == TakeFirst(MainQueue(q), MainCap(q, cap))

\* With two slots or more the selection is these two cuts, within the cap.
LEMMA SelectionSplits ==
    ASSUME NEW q, Queue(q), NEW cap \in Nat, cap >= 2
    PROVE  /\ SelectToBuild(q, cap) = PriorityTake(q, cap) \cup MainTake(q, cap)
           /\ PriorityTake(q, cap) \subseteq PriorityQueue(q)
           /\ MainTake(q, cap) \subseteq MainQueue(q)
           /\ Cardinality(PriorityTake(q, cap)) \in 0..cap
           /\ MainCap(q, cap) \in 0..(cap - 1)
           /\ MainCap(q, cap) <= cap - Cardinality(PriorityTake(q, cap))
           /\ Cardinality(MainTake(q, cap)) \in 0..MainCap(q, cap)
           /\ Cardinality(SelectToBuild(q, cap)) =
                Cardinality(PriorityTake(q, cap)) + Cardinality(MainTake(q, cap))
<1>1. Queue(PriorityQueue(q)) /\ Queue(MainQueue(q))
  BY TwoQueues
<1>2. /\ PriorityTake(q, cap) \subseteq PriorityQueue(q)
      /\ IsFiniteSet(PriorityTake(q, cap))
      /\ Cardinality(PriorityTake(q, cap)) \in 0..cap
  BY <1>1, CutWithin DEF PriorityTake
<1>3. /\ MainCap(q, cap) \in 0..(cap - 1)
      /\ MainCap(q, cap) <= cap - Cardinality(PriorityTake(q, cap))
  BY <1>2 DEF MainCap, Least
<1>4. /\ MainTake(q, cap) \subseteq MainQueue(q)
      /\ IsFiniteSet(MainTake(q, cap))
      /\ Cardinality(MainTake(q, cap)) \in 0..MainCap(q, cap)
  <2>1. MainCap(q, cap) \in Nat
    BY <1>3
  <2> QED  BY <1>1, <2>1, CutWithin DEF MainTake
<1>5. SelectToBuild(q, cap) = PriorityTake(q, cap) \cup MainTake(q, cap)
  BY DEF SelectToBuild, PriorityTake, MainTake, MainCap, NoCap
<1>6. PriorityTake(q, cap) \cap MainTake(q, cap) = {}
  BY <1>2, <1>4, TwoQueues
<1>7. Cardinality(PriorityTake(q, cap) \cup MainTake(q, cap)) =
        Cardinality(PriorityTake(q, cap)) + Cardinality(MainTake(q, cap))
  <2>1. Cardinality(PriorityTake(q, cap) \cup MainTake(q, cap)) =
          Cardinality(PriorityTake(q, cap)) + Cardinality(MainTake(q, cap)) - 0
    BY <1>2, <1>4, <1>6, FS_Union, FS_EmptySet
  <2> QED  BY <1>2, <1>3, <1>4, <2>1
<1> QED  BY <1>2, <1>3, <1>4, <1>5, <1>7

\* The three ways select_to_build goes.
LEMMA CapCases ==
    ASSUME NEW q, NEW cap \in Nat
    PROVE  \/ cap = NoCap /\ SelectToBuild(q, cap) = q
           \/ cap = 1 /\ SelectToBuild(q, cap) = TakeFirst(q, 1)
           \/ cap >= 2
  BY DEF SelectToBuild, NoCap

\* scheduler.py: a selection is made among the candidates, and fills no more
\* slots than there are.
THEOREM SelectionWithinCap ==
    ASSUME NEW q, Queue(q), NEW cap \in Nat
    PROVE  /\ SelectToBuild(q, cap) \subseteq q
           /\ WithinCap(SelectToBuild(q, cap), cap)
<1>1. CASE cap = NoCap /\ SelectToBuild(q, cap) = q
  BY <1>1 DEF WithinCap
<1>2. CASE cap = 1 /\ SelectToBuild(q, cap) = TakeFirst(q, 1)
  BY <1>2, CutWithin DEF WithinCap
<1>3. CASE cap >= 2
  <2>1. Cardinality(SelectToBuild(q, cap)) <= cap
    BY <1>3, SelectionSplits
  <2> QED  BY <1>3, <2>1, SelectionSplits, TwoQueues DEF WithinCap
<1> QED  BY <1>1, <1>2, <1>3, CapCases

\* scheduler.py's reserved slot: main work is given all slots but one at most.
THEOREM SelectionReservesSlot ==
    ASSUME NEW q, Queue(q), NEW cap \in Nat
    PROVE  SlotReserved(SelectToBuild(q, cap), cap)
<1> SUFFICES ASSUME cap >= 2
             PROVE  Cardinality(MainQueue(SelectToBuild(q, cap))) <= cap - 1
  BY DEF SlotReserved
<1>1. MainQueue(SelectToBuild(q, cap)) = MainTake(q, cap)
  BY SelectionSplits DEF MainQueue, PriorityQueue
<1> QED  BY <1>1, SelectionSplits

\* scheduler.py's two ranked queues, priority first: nothing left waiting
\* outranks anything started.
THEOREM SelectionRankClosed ==
    ASSUME NEW q, Queue(q), NEW cap \in Nat
    PROVE  RankClosed(q, SelectToBuild(q, cap))
<1> DEFINE chosen == SelectToBuild(q, cap)
<1> SUFFICES ASSUME NEW c \in chosen, NEW d \in q \ chosen
             PROVE  ~Before(d, c)
  BY DEF RankClosed
<1>1. CASE cap = NoCap /\ chosen = q
  BY <1>1
<1>2. CASE cap = 1 /\ chosen = TakeFirst(q, 1)
  BY <1>2, CutClosed
<1>3. CASE cap >= 2
  <2>1. /\ chosen = PriorityTake(q, cap) \cup MainTake(q, cap)
        /\ PriorityTake(q, cap) \subseteq PriorityQueue(q)
        /\ MainTake(q, cap) \subseteq MainQueue(q)
    BY <1>3, SelectionSplits
  <2>2. Queue(PriorityQueue(q)) /\ Queue(MainQueue(q))
    BY TwoQueues
  <2>3. CASE c \in PriorityTake(q, cap) /\ d \in PriorityQueue(q)
    BY <2>1, <2>2, <2>3, CutClosed DEF PriorityTake
  <2>4. CASE c \in PriorityTake(q, cap) /\ d \in MainQueue(q)
    <3>1. Before(c, d) /\ c \in Candidate /\ d \in Candidate
      BY <2>1, <2>4, TwoQueues DEF Queue
    <3> QED  BY <3>1, BeforeOrders
  <2>5. CASE c \in MainTake(q, cap) /\ d \in MainQueue(q)
    <3>1. MainCap(q, cap) \in Nat
      BY <1>3, SelectionSplits
    <3> QED  BY <2>1, <2>2, <2>5, <3>1, CutClosed DEF MainTake
  <2>6. CASE c \in MainTake(q, cap) /\ d \in PriorityQueue(q)
    <3>1. PriorityTake(q, cap) # PriorityQueue(q)
      BY <2>1, <2>6
    <3>2. Cardinality(PriorityTake(q, cap)) = cap
      BY <2>2, <3>1, CutFills DEF PriorityTake
    <3>3. Cardinality(MainTake(q, cap)) = 0
      BY <1>3, <3>2, SelectionSplits
    <3>4. IsFiniteSet(MainTake(q, cap))
      BY <2>1, <2>2, FS_Subset DEF Queue
    <3> QED  BY <2>6, <3>3, <3>4, FS_EmptySet
  <2> QED  BY <2>1, <2>3, <2>4, <2>5, <2>6, TwoQueues
<1> QED  BY <1>1, <1>2, <1>3, CapCases

\* scheduler.py: a candidate is left for want of a slot only, the reserved one
\* aside, and a priority one only when every slot is filled.
THEOREM SelectionWorkConserving ==
    ASSUME NEW q, Queue(q), NEW cap \in Nat
    PROVE  WorkConserving(q, SelectToBuild(q, cap), cap)
<1> DEFINE chosen == SelectToBuild(q, cap)
           spare == IF cap >= 2 THEN 1 ELSE 0
<1> SUFFICES ASSUME NEW c \in q \ chosen
             PROVE  /\ cap # NoCap
                    /\ Cardinality(chosen) >= cap - spare
                    /\ IsPriority(c) => Cardinality(chosen) = cap
  BY DEF WorkConserving
<1>1. CASE cap = NoCap /\ chosen = q
  BY <1>1
<1>2. CASE cap = 1 /\ chosen = TakeFirst(q, 1)
  <2>1. Cardinality(chosen) = 1
    BY <1>2, CutFills
  <2> HIDE DEF chosen
  <2> QED  BY <1>2, <2>1 DEF NoCap
<1>3. CASE cap >= 2
  <2>1. /\ chosen = PriorityTake(q, cap) \cup MainTake(q, cap)
        /\ Cardinality(chosen) =
             Cardinality(PriorityTake(q, cap)) + Cardinality(MainTake(q, cap))
        /\ Cardinality(PriorityTake(q, cap)) \in 0..cap
        /\ Cardinality(MainTake(q, cap)) \in 0..MainCap(q, cap)
        /\ MainCap(q, cap) \in 0..(cap - 1)
        /\ MainCap(q, cap) <= cap - Cardinality(PriorityTake(q, cap))
    BY <1>3, SelectionSplits
  <2>2. Queue(PriorityQueue(q)) /\ Queue(MainQueue(q))
    BY TwoQueues
  <2> HIDE DEF chosen
  <2>3. CASE c \in PriorityQueue(q)
    <3>1. Cardinality(PriorityTake(q, cap)) = cap
      BY <2>1, <2>2, <2>3, CutFills DEF PriorityTake
    <3>2. Cardinality(chosen) = cap
      BY <2>1, <3>1
    <3> QED  BY <1>3, <3>2 DEF NoCap
  <2>4. CASE c \in MainQueue(q)
    <3>1. Cardinality(MainTake(q, cap)) = MainCap(q, cap)
      BY <2>1, <2>2, <2>4, CutFills DEF MainTake
    <3>2. Cardinality(chosen) >= cap - 1
      BY <2>1, <3>1 DEF MainCap, Least
    <3>3. ~IsPriority(c)
      BY <2>4 DEF MainQueue, PriorityQueue
    <3> QED  BY <1>3, <3>2, <3>3 DEF NoCap
  <2> QED  BY <2>3, <2>4, TwoQueues
<1> QED  BY <1>1, <1>2, <1>3, CapCases
=============================================================================
