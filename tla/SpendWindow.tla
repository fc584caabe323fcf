---------------------------- MODULE SpendWindow ----------------------------
(***************************************************************************)
(* The arithmetic of the rolling-24h budget of retinue/budget.py: what a   *)
(* ledger's rows add up to inside the trailing window, and whether one     *)
(* more charge fits under the cap.                                         *)
(*                                                                         *)
(* Money is counted in hundredths of a build, the unit of the flat charges *)
(* at the end of budget.py; time in ticks.  spend_entries is append-only   *)
(* with an autoincrement id: a sequence.                                   *)
(***************************************************************************)
EXTENDS Integers, Sequences, FiniteSets

CONSTANTS
    Cap,        \* BudgetLedger.cap(), of a service whose metering is enabled
    Window      \* the 24 hours

ASSUME WindowAssumption ==
    /\ Cap \in Nat
    /\ Window \in Nat

\* Charges checked against the cap before they land, and all of them.
Metered == {"build", "promotion"}
Kind == Metered \cup {"classifier"}

\* ADHOC_DRAIN_ESTIMATED_AMOUNT, CRON_PROMOTION_ESTIMATED_AMOUNT and
\* CLASSIFIER_ESTIMATED_AMOUNT: 1.0, 0.0 and 0.01 builds.
Amount(k) ==
    IF k = "build" THEN 100 ELSE IF k = "promotion" THEN 0 ELSE 1

Entry == [at : Nat, kind : Kind]

\* _trailing_within: the rows with spent_at > now - 24h, and their sum.
Trailing(log, t) == {n \in DOMAIN log : log[n].at > t - Window}
OfKind(log, ns, k) == {n \in ns : log[n].kind = k}
SpendOf(log, ns) ==
    100 * Cardinality(OfKind(log, ns, "build"))
        + Cardinality(OfKind(log, ns, "classifier"))

\* try_record_if_within_cap's comparison.
Fits(log, t, k) == SpendOf(log, Trailing(log, t)) + Amount(k) <= Cap

\* The builds of the window alone stay within the cap.
BuildsFit(log, t) ==
    100 * Cardinality(OfKind(log, Trailing(log, t), "build")) <= Cap
=============================================================================
