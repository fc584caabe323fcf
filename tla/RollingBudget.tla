--------------------------- MODULE RollingBudget ---------------------------
(***************************************************************************)
(* The ledger of retinue/budget.py as its lanes run it: several asyncio    *)
(* tasks share one BudgetLedger over one SQLite file.  A charge reads its  *)
(* timestamp before it waits for the lock; the check and the insert run in *)
(* one BEGIN IMMEDIATE transaction, await by await; a refused gate reads   *)
(* the ledger once more to say when the window frees.  A task cancelled at *)
(* the BEGIN leaves the connection inside a transaction that only a        *)
(* restart ends.                                                           *)
(***************************************************************************)
EXTENDS SpendWindow

CONSTANTS
    Lanes,          \* tasks that charge: builds, cron ticks, classifier calls
    Classifies,     \* whether the repo declares a routing table
    MaxTime,        \* bound on the clock
    MaxRows         \* bound on the ledger

ASSUME BudgetAssumption ==
    /\ Classifies \in BOOLEAN
    /\ MaxTime \in Nat
    /\ MaxRows \in Nat
    /\ "nobody" \notin Lanes

VARIABLES
    now,            \* the clock
    rows,           \* spend_entries
    step,           \* where each lane is in its call
    kind,           \* what it charges for
    stamp,          \* the timestamp it read
    until,          \* the defer_until of its last gate, or Unknown
    writer,         \* who holds the store lock and the SQLite write lock
    leaked          \* rows before the transaction left open, or Unknown

vars == <<now, rows, step, kind, stamp, until, writer, leaked>>

Steps == {"idle", "waiting", "begun", "admitting", "refused"}

\* No defer_until: the gate admitted, or found no charge in the window.  Also: no
\* transaction has been left open.
Unknown == 0 - 1

TypeOK ==
    /\ now \in Nat
    /\ rows \in Seq(Entry)
    /\ step \in [Lanes -> Steps]
    /\ kind \in [Lanes -> Kind]
    /\ stamp \in [Lanes -> Nat]
    /\ until \in [Lanes -> Nat \cup {Unknown}]
    /\ writer \in Lanes \cup {"nobody"}
    /\ leaked \in Nat \cup {Unknown}

Init ==
    /\ now = 0
    /\ rows = <<>>
    /\ step = [l \in Lanes |-> "idle"]
    /\ kind = [l \in Lanes |-> "build"]
    /\ stamp = [l \in Lanes |-> 0]
    /\ until = [l \in Lanes |-> Unknown]
    /\ writer = "nobody"
    /\ leaked = Unknown

\* The call is over and its locals are gone.
Returns(l) ==
    /\ step' = [step EXCEPT ![l] = "idle"]
    /\ kind' = [kind EXCEPT ![l] = "build"]
    /\ stamp' = [stamp EXCEPT ![l] = 0]

\* meter_adhoc, gate or record_charge: the stamp is read before the lock.
Ask(l, k) ==
    /\ step[l] = "idle"
    /\ k = "classifier" => Classifies
    /\ step' = [step EXCEPT ![l] = "waiting"]
    /\ kind' = [kind EXCEPT ![l] = k]
    /\ stamp' = [stamp EXCEPT ![l] = now]
    /\ until' = [until EXCEPT ![l] = Unknown]
    /\ UNCHANGED <<now, rows, writer, leaked>>

\* Mutant of Begin: a deferred BEGIN, which takes no write lock.
BeginDeferred(l) ==
    /\ step[l] = "waiting" /\ kind[l] \in Metered /\ leaked = Unknown
    /\ step' = [step EXCEPT ![l] = "begun"]
    /\ UNCHANGED <<now, rows, kind, stamp, until, writer, leaked>>

\* The store lock, then BEGIN IMMEDIATE.
Begin(l) ==
    /\ step[l] = "waiting" /\ kind[l] \in Metered
    /\ writer = "nobody" /\ leaked = Unknown
    /\ writer' = l
    /\ step' = [step EXCEPT ![l] = "begun"]
    /\ UNCHANGED <<now, rows, kind, stamp, until, leaked>>

\* Cancelled at the BEGIN, which the database thread runs all the same: the await
\* is before the try, and nothing rolls back.
BeginCancelled(l) ==
    /\ step[l] = "waiting" /\ kind[l] \in Metered
    /\ writer = "nobody" /\ leaked = Unknown
    /\ leaked' = Len(rows)
    /\ Returns(l)
    /\ UNCHANGED <<now, rows, until, writer>>

\* A BEGIN inside the transaction left open raises.
BeginRaises(l) ==
    /\ step[l] = "waiting" /\ kind[l] \in Metered
    /\ writer = "nobody" /\ leaked # Unknown
    /\ Returns(l)
    /\ UNCHANGED <<now, rows, until, writer, leaked>>

\* Mutant of CheckFits: the charge itself is left out of the comparison.
CheckFitsBefore(l) ==
    /\ step[l] = "begun"
    /\ SpendOf(rows, Trailing(rows, now)) <= Cap
    /\ step' = [step EXCEPT ![l] = "admitting"]
    /\ UNCHANGED <<now, rows, kind, stamp, until, writer, leaked>>

\* The trailing sum is read and the charge fits.
CheckFits(l) ==
    /\ step[l] = "begun"
    /\ Fits(rows, now, kind[l])
    /\ step' = [step EXCEPT ![l] = "admitting"]
    /\ UNCHANGED <<now, rows, kind, stamp, until, writer, leaked>>

\* It does not: rollback.  A declined build is over; a gate goes on to ask when
\* the window frees, and reads the clock before it waits for the lock.
CheckRefuses(l) ==
    /\ step[l] = "begun"
    /\ ~Fits(rows, now, kind[l])
    /\ writer' = "nobody"
    /\ IF kind[l] = "promotion"
       THEN /\ step' = [step EXCEPT ![l] = "refused"]
            /\ stamp' = [stamp EXCEPT ![l] = now]
            /\ UNCHANGED kind
       ELSE Returns(l)
    /\ UNCHANGED <<now, rows, until, leaked>>

Insert(l) ==
    /\ Len(rows) < MaxRows
    /\ rows' = Append(rows, [at |-> stamp[l], kind |-> kind[l]])
    /\ Returns(l)
    /\ UNCHANGED <<now, until, leaked>>

\* INSERT and COMMIT.
Commit(l) ==
    /\ step[l] = "admitting"
    /\ Insert(l)
    /\ writer' = "nobody"

\* record_spend: an unconditional insert under the store lock; autocommitted, but
\* for a transaction left open.
RecordSpend(l) ==
    /\ step[l] = "waiting" /\ kind[l] = "classifier"
    /\ writer = "nobody"
    /\ Insert(l)
    /\ UNCHANGED writer

\* An exception or a cancellation at any other await: the transaction, if there
\* is one, is rolled back.  A COMMIT or an insert cancelled too late lands.
Abort(l) ==
    /\ step[l] # "idle"
    /\ writer' = IF writer = l THEN "nobody" ELSE writer
    /\ Returns(l)
    /\ UNCHANGED <<now, rows, until, leaked>>

\* Mutant of FreesAt: the instant of the oldest charge, as if it were enough.
FreesAtOldest(t, k) ==
    LET instants == {rows[n].at : n \in Trailing(rows, t)}
    IN  IF instants = {} THEN Unknown
        ELSE Window + CHOOSE s \in instants : \A u \in instants : s <= u

\* window_frees_at walks the charges in the window oldest first: freeing those
\* up to and including an instant leaves those after it.
FreesAt(t, k) ==
    LET charges  == Trailing(rows, t)
        instants == {rows[n].at : n \in charges}
        After(s) == {n \in charges : rows[n].at > s}
        enough   == {s \in instants :
                       SpendOf(rows, After(s)) + Amount(k) <= Cap}
    IN  CASE charges = {} -> Unknown
          [] charges # {} /\ enough = {} ->
               Window + CHOOSE s \in instants : \A u \in instants : u <= s
          [] OTHER ->
               Window + CHOOSE s \in enough : \A u \in enough : s <= u

Defer(l) ==
    /\ step[l] = "refused"
    /\ writer = "nobody"
    /\ until' = [until EXCEPT ![l] = FreesAt(stamp[l], kind[l])]
    /\ Returns(l)
    /\ UNCHANGED <<now, rows, writer, leaked>>

Pass ==
    /\ now < MaxTime
    /\ now' = now + 1
    /\ UNCHANGED <<rows, step, kind, stamp, until, writer, leaked>>

\* The worker restarts: calls are over, and SQLite rolls back what is open.
Restart ==
    /\ rows' = IF leaked = Unknown THEN rows ELSE SubSeq(rows, 1, leaked)
    /\ step' = [l \in Lanes |-> "idle"]
    /\ kind' = [l \in Lanes |-> "build"]
    /\ stamp' = [l \in Lanes |-> 0]
    /\ writer' = "nobody"
    /\ leaked' = Unknown
    /\ UNCHANGED <<now, until>>

Call(l) ==
    \/ \E k \in Kind : Ask(l, k)
    \/ Begin(l) \/ BeginCancelled(l) \/ BeginRaises(l)
    \/ CheckFits(l) \/ CheckRefuses(l) \/ Commit(l)
    \/ RecordSpend(l) \/ Abort(l) \/ Defer(l)

Next == Pass \/ Restart \/ \E l \in Lanes : Call(l)

Spec == Init /\ [][Next]_vars

-----------------------------------------------------------------------------
Promise == INSTANCE SpendCap

\* The ledger keeps SpendCap's promise: each transaction lands its charge as
\* one step that fits when it lands, not only when it was checked.
LandsWithinCap == Promise!Spec

\* budget.py's cap over the builds of any trailing 24 hours, however the lanes
\* interleave, abort, leave a transaction open, and wait with an old stamp.
MeteredWithinCap == BuildsFit(rows, now)

\* window_frees_at: a deferred gate is told an instant at which its charge fits
\* if nothing more lands, and the first such unless it fits already.
DeferKeepsWord ==
    [][\A l \in Lanes :
         Defer(l) /\ until'[l] # Unknown /\ Amount(kind[l]) <= Cap =>
           /\ Fits(rows, until'[l], kind[l])
           /\ Fits(rows, now, kind[l])
                \/ \A t \in now .. until'[l] - 1 : ~Fits(rows, t, kind[l])]_vars
=============================================================================
