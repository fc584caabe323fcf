-------------------------- MODULE SchedulerPasses --------------------------
(***************************************************************************)
(* Successive scheduler passes over one repo, the way the drain drives     *)
(* select_to_build: arrivals collect while nothing is built, a pass picks  *)
(* its batch from what is waiting, and the picked issues leave.  A human   *)
(* may relabel a waiting issue between passes; labels are only appended,   *)
(* as GitHub lists them.  Every drain fetches the repo's config anew, so   *)
(* max_parallel may differ from pass to pass.                              *)
(***************************************************************************)
EXTENDS SlotScheduler

CONSTANTS
    Numbers,      \* issue numbers that may arrive
    Caps,         \* the values config.max_parallel takes; NoCap is None
    Added,        \* the labels a human adds to a waiting issue
    MaxLabels     \* bound on the labels an issue wears

ASSUME PassesAssumption ==
    /\ Numbers \subseteq Nat
    /\ Caps \subseteq Nat
    /\ NoCap \in Caps
    /\ Added \subseteq Tier
    /\ MaxLabels \in Nat

VARIABLES
    waiting,      \* the ready candidates of the next pass
    offered,      \* the candidates of the pass just made
    chosen,       \* what it selected
    limit         \* the max_parallel it read

vars == <<waiting, offered, chosen, limit>>

TypeOK ==
    /\ waiting \subseteq Candidate
    /\ offered \subseteq Candidate
    /\ chosen \subseteq offered
    /\ limit \in Caps

Init ==
    /\ waiting = {}
    /\ offered = {}
    /\ chosen = {}
    /\ limit = NoCap

\* An issue becomes ready, for the first time or again after a red build.
Arrive(n, labels) ==
    /\ \A c \in waiting : c.number # n
    /\ waiting' = waiting \cup {[number |-> n, labels |-> labels]}
    /\ UNCHANGED <<offered, chosen, limit>>

Relabel(c, label) ==
    /\ Len(c.labels) < MaxLabels
    /\ waiting' = (waiting \ {c})
                    \cup {[c EXCEPT !.labels = Append(@, label)]}
    /\ UNCHANGED <<offered, chosen, limit>>

Pass(cap) ==
    /\ waiting # {}
    /\ offered' = waiting
    /\ limit' = cap
    /\ chosen' = SelectToBuild(waiting, cap)
    /\ waiting' = waiting \ chosen'

Next ==
    \/ \E n \in Numbers, label \in Tier : Arrive(n, <<label>>)
    \/ \E c \in waiting, label \in Added : Relabel(c, label)
    \/ \E cap \in Caps : Pass(cap)

Spec == Init /\ [][Next]_vars

-----------------------------------------------------------------------------
\* scheduler.select_to_build: the batch of a pass never exceeds max_parallel.
BatchWithinCap == WithinCap(chosen, limit)

\* scheduler.py's reserved slot: main-queue issues never fill every slot.
BatchReservesSlot == SlotReserved(chosen, limit)

\* Both queues are ranked by (tier, number) and priority drains first, so no
\* issue a pass leaves waiting outranks one it starts.
BatchRankClosed == RankClosed(offered, chosen)

\* A pass leaves work waiting only when slots ran out, the reserved slot aside.
BatchWorkConserving == WorkConserving(offered, chosen, limit)
=============================================================================
