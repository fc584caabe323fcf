--------------------------- MODULE SlotScheduler ---------------------------
(***************************************************************************)
(* The queue model of retinue/scheduler.py with the tier vocabulary of     *)
(* retinue/repo_config.py: which ready issues a drain pass starts.         *)
(*                                                                         *)
(* A severity tier is its index in config.severity_tiers, so tier_rank is  *)
(* the identity; Untiered = Len(severity_tiers) stands for None and ranks  *)
(* last.  A label is the tier it names, or Untiered when it names none (an *)
(* unknown tier, another label).  The queues are sets ordered by Before,   *)
(* which is total on candidates with different numbers.                    *)
(***************************************************************************)
EXTENDS Integers, Sequences, FiniteSets

CONSTANTS
    NumTiers,      \* Len(config.severity_tiers)
    NumPriority    \* Len(config.priority_tiers)

\* severity_tiers is not empty; priority_tiers is a (possibly empty) top prefix.
ASSUME TiersAssumption ==
    /\ NumTiers \in Nat \ {0}
    /\ NumPriority \in 0..NumTiers

Untiered == NumTiers
Tier == 0..NumTiers

\* max_parallel is a positive integer or None.
NoCap == 0

Candidate == [number : Nat, labels : Seq(Tier)]

\* RepoConfig.tier_of: the first label, in GitHub's order, that names a tier.
TierOf(labels) ==
    LET naming == {k \in DOMAIN labels : labels[k] # Untiered}
    IN  IF naming = {} THEN Untiered
        ELSE labels[CHOOSE k \in naming : \A j \in naming : k <= j]

\* RepoConfig.is_priority_tier: membership in the prefix; never for None.
IsPriority(c) == TierOf(c.labels) < NumPriority

\* _rank_key: (tier_rank, number), compared lexicographically.
Before(c, d) ==
    \/ TierOf(c.labels) < TierOf(d.labels)
    \/ TierOf(c.labels) = TierOf(d.labels) /\ c.number < d.number

\* queue[:k] of a queue sorted by _rank_key.
TakeFirst(queue, k) ==
    {c \in queue : Cardinality({d \in queue : Before(d, c)}) < k}

\* partition_queues.
PriorityQueue(candidates) == {c \in candidates : IsPriority(c)}
MainQueue(candidates) == candidates \ PriorityQueue(candidates)

Least(m, n) == IF m < n THEN m ELSE n

\* Mutants of SelectToBuild: no reserved slot; a slot reserved even when
\* priority work took it; one slot too many at cap 1; main-queue work first.
SelectNoReserve(candidates, cap) ==
    LET pTake == TakeFirst(PriorityQueue(candidates), cap)
    IN  pTake \cup TakeFirst(MainQueue(candidates), cap - Cardinality(pTake))

SelectReserveTwice(candidates, cap) ==
    LET pTake == TakeFirst(PriorityQueue(candidates), cap - 1)
    IN  pTake \cup TakeFirst(MainQueue(candidates), cap - 1 - Cardinality(pTake))

SelectOverCap(candidates, cap) ==
    TakeFirst(PriorityQueue(candidates), cap)
        \cup TakeFirst(MainQueue(candidates), cap)

SelectMainFirst(candidates, cap) ==
    LET mTake == TakeFirst(MainQueue(candidates), cap - 1)
    IN  mTake \cup TakeFirst(PriorityQueue(candidates), cap - Cardinality(mTake))

SelectByNumber(candidates, cap) ==
    {c \in candidates : Cardinality({d \in candidates : d.number < c.number}) < cap}

\* select_to_build.  At cap 1 both queues are cut as one list, which TakeFirst
\* of the whole candidate set is because every priority tier ranks ahead of
\* every main one.
SelectToBuild(candidates, cap) ==
    LET pTake     == TakeFirst(PriorityQueue(candidates), cap)
        remaining == cap - Cardinality(pTake)
        mainCap   == Least(cap - 1, remaining)
    IN  IF cap = NoCap THEN candidates
        ELSE IF cap = 1 THEN TakeFirst(candidates, 1)
        ELSE pTake \cup TakeFirst(MainQueue(candidates), mainCap)

-----------------------------------------------------------------------------
(* What a selection promises, whatever the pass. *)

\* A pass starts no more builds than the cap.
WithinCap(chosen, cap) == cap # NoCap => Cardinality(chosen) <= cap

\* With two slots or more, main-queue work leaves one of them.
SlotReserved(chosen, cap) ==
    cap >= 2 => Cardinality(MainQueue(chosen)) <= cap - 1

\* Nothing left behind outranks something chosen.
RankClosed(candidates, chosen) ==
    \A c \in chosen, d \in candidates \ chosen : ~Before(d, c)

\* Work is left behind only for want of slots; main work may also be left for
\* the reserved slot, and for that one only.
WorkConserving(candidates, chosen, cap) ==
    LET left == candidates \ chosen
    IN  left # {} =>
          /\ cap # NoCap
          /\ Cardinality(chosen) >= cap - (IF cap >= 2 THEN 1 ELSE 0)
          /\ (\E c \in left : IsPriority(c)) => Cardinality(chosen) = cap
=============================================================================
