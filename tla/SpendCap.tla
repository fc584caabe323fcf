------------------------------ MODULE SpendCap ------------------------------
(***************************************************************************)
(* What the budget of retinue/budget.py promises its lanes, whatever its   *)
(* transactions look like: charges are appended one at a time, and a       *)
(* metered charge only lands while the trailing window has room for it.    *)
(* The last charges may be forgotten again, but no metered one.            *)
(***************************************************************************)
EXTENDS SpendWindow

VARIABLES
    now,        \* the clock
    rows        \* spend_entries

Init == now \in Nat /\ rows = <<>>

Tick == now' \in Nat /\ now' > now /\ UNCHANGED rows

\* A charge lands, stamped no later than now; a metered one only if it fits.
Land(e) ==
    /\ e \in Entry /\ e.at <= now
    /\ e.kind \in Metered => Fits(rows, now, e.kind)
    /\ rows' = Append(rows, e)
    /\ UNCHANGED now

Landed == rows'[Len(rows')]

\* A restart loses what was recorded inside a transaction left open.
Forget(n) ==
    /\ \A m \in n + 1 .. Len(rows) : rows[m].kind \notin Metered
    /\ rows' = SubSeq(rows, 1, n)
    /\ UNCHANGED now

Next ==
    \/ Tick
    \/ rows' # <<>> /\ Land(Landed)
    \/ \E n \in 0 .. Len(rows) : Forget(n)

Spec == Init /\ [][Next]_<<now, rows>>

-----------------------------------------------------------------------------
\* The builds charged in any trailing 24 hours stay within the cap, whatever
\* the classifier charges recorded beside them come to (budget.py).
MeteredWithinCap == BuildsFit(rows, now)
=============================================================================
