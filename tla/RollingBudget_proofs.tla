------------------------ MODULE RollingBudget_proofs ------------------------
(***************************************************************************)
(* The ledger of budget.py implements SpendCap: an admission checked under *)
(* the lock still fits when it commits, so every charge lands as one step  *)
(* of the promise and the builds of any trailing window stay within the    *)
(* cap, for any number of lanes and any cap, window and bounds.  Inside a  *)
(* transaction left open nothing metered lands (LeakInv), so the restart   *)
(* that rolls it back forgets no build.                                    *)
(*                                                                         *)
(* And window_frees_at tells a deferred gate the truth: the walk over the  *)
(* charges in the window stops at the first instant that frees enough,     *)
(* since of any rows of a ledger one is the oldest and one the newest.     *)
(***************************************************************************)
EXTENDS RollingBudget, FiniteSetTheorems, TLAPS

-----------------------------------------------------------------------------
(* The trailing window: what it sums, and that waiting only makes room. *)

\* A ledger has finitely many rows, so the rows of a kind can be counted.
LEMMA Countable ==
    ASSUME NEW log \in Seq(Entry), NEW ns \in SUBSET DOMAIN log, NEW k
    PROVE  /\ IsFiniteSet(OfKind(log, ns, k))
           /\ Cardinality(OfKind(log, ns, k)) \in Nat
<1>1. IsFiniteSet(DOMAIN log)
  <2>1. DOMAIN log = 1..Len(log) /\ Len(log) \in Nat
    OBVIOUS
  <2> QED  BY <2>1, FS_Interval
<1>2. OfKind(log, ns, k) \subseteq DOMAIN log
  BY DEF OfKind
<1> QED  BY <1>1, <1>2, FS_Subset, FS_CardinalityType

\* Fewer rows never cost more.
LEMMA CountMonotone ==
    ASSUME NEW log \in Seq(Entry), NEW ns \in SUBSET DOMAIN log,
           NEW ms \in SUBSET ns, NEW k
    PROVE  Cardinality(OfKind(log, ms, k)) <= Cardinality(OfKind(log, ns, k))
<1>1. OfKind(log, ms, k) \subseteq OfKind(log, ns, k)
  BY DEF OfKind
<1> QED  BY <1>1, Countable, FS_Subset

\* The window only rolls forward: charges leave it and none comes back.
LEMMA TrailingShrinks ==
    ASSUME NEW log \in Seq(Entry), NEW t \in Int, NEW u \in Int, t <= u
    PROVE  /\ Trailing(log, u) \subseteq Trailing(log, t)
           /\ Trailing(log, t) \subseteq DOMAIN log
<1>1. ASSUME NEW n \in DOMAIN log PROVE log[n].at \in Nat
  <2>1. log[n] \in Entry
    OBVIOUS
  <2> QED  BY <2>1 DEF Entry
<1> QED  BY <1>1, WindowAssumption DEF Trailing

\* A charge that fits still fits later, if nothing lands meanwhile.
LEMMA FitsLater ==
    ASSUME NEW log \in Seq(Entry), NEW t \in Int, NEW u \in Int, t <= u,
           NEW k \in Kind, Fits(log, t, k)
    PROVE  Fits(log, u, k)
<1> DEFINE A == Trailing(log, t)
           B == Trailing(log, u)
<1>1. B \subseteq A /\ A \subseteq DOMAIN log
  BY TrailingShrinks
<1>2. /\ Cardinality(OfKind(log, B, "build")) <= Cardinality(OfKind(log, A, "build"))
      /\ Cardinality(OfKind(log, B, "classifier"))
            <= Cardinality(OfKind(log, A, "classifier"))
  BY <1>1, CountMonotone
<1>3. /\ Cardinality(OfKind(log, A, "build")) \in Nat
      /\ Cardinality(OfKind(log, A, "classifier")) \in Nat
      /\ Cardinality(OfKind(log, B, "build")) \in Nat
      /\ Cardinality(OfKind(log, B, "classifier")) \in Nat
  BY <1>1, Countable
<1>4. Amount(k) \in Int
  BY DEF Amount, Kind, Metered
<1> HIDE DEF A, B
<1> QED  BY <1>2, <1>3, <1>4, WindowAssumption DEF Fits, SpendOf, A, B

\* The clock moves: the builds of the window can only become fewer.
LEMMA BuildsFitLater ==
    ASSUME NEW log \in Seq(Entry), NEW t \in Int, NEW u \in Int, t <= u,
           BuildsFit(log, t)
    PROVE  BuildsFit(log, u)
<1>1. /\ Trailing(log, u) \subseteq Trailing(log, t)
      /\ Trailing(log, t) \subseteq DOMAIN log
  BY TrailingShrinks
<1>2. Cardinality(OfKind(log, Trailing(log, u), "build"))
        <= Cardinality(OfKind(log, Trailing(log, t), "build"))
  BY <1>1, CountMonotone
<1>3. /\ Cardinality(OfKind(log, Trailing(log, u), "build")) \in Nat
      /\ Cardinality(OfKind(log, Trailing(log, t), "build")) \in Nat
  BY <1>1, Countable
<1> QED  BY <1>2, <1>3, WindowAssumption DEF BuildsFit

\* A charge lands: a build adds one to the count and was checked to fit, and
\* the other kinds are not counted.
LEMMA BuildsFitAppend ==
    ASSUME NEW log \in Seq(Entry), NEW t \in Int, BuildsFit(log, t),
           NEW e \in Entry, e.kind \in Metered => Fits(log, t, e.kind)
    PROVE  BuildsFit(Append(log, e), t)
<1> DEFINE T == Trailing(log, t)
           B == OfKind(log, T, "build")
           U == Trailing(Append(log, e), t)
           D == OfKind(Append(log, e), U, "build")
           n == Len(log) + 1
<1>1. /\ Append(log, e) \in Seq(Entry)
      /\ DOMAIN Append(log, e) = DOMAIN log \cup {n}
      /\ \A m \in DOMAIN log : Append(log, e)[m] = log[m]
      /\ Append(log, e)[n] = e
  OBVIOUS
<1>2. D \subseteq IF e.kind = "build" THEN B \cup {n} ELSE B
  BY <1>1 DEF Trailing, OfKind
<1>3. T \subseteq DOMAIN log /\ U \subseteq DOMAIN Append(log, e)
  BY DEF Trailing
<1>4. /\ IsFiniteSet(B) /\ Cardinality(B) \in Nat
      /\ IsFiniteSet(D) /\ Cardinality(D) \in Nat
      /\ Cardinality(OfKind(log, T, "classifier")) \in Nat
  BY <1>1, <1>3, Countable
<1>5. CASE e.kind = "build"
  <2>1. 100 * Cardinality(B) + Cardinality(OfKind(log, T, "classifier")) + 100
          <= Cap
    BY <1>5 DEF Fits, SpendOf, Amount, Metered
  <2>2. IsFiniteSet(B \cup {n})
    BY <1>4, FS_AddElement
  <2>3. Cardinality(B \cup {n})
          = IF n \in B THEN Cardinality(B) ELSE Cardinality(B) + 1
    BY <1>4, FS_AddElement
  <2>4. Cardinality(D) <= Cardinality(B \cup {n})
    BY <1>2, <1>5, <2>2, FS_Subset
  <2>5. 100 * Cardinality(D) <= Cap
    <3> HIDE DEF B, D, n, T
    <3> QED  BY <1>4, <2>1, <2>3, <2>4, WindowAssumption
  <2> QED  BY <2>5 DEF BuildsFit
<1>6. CASE e.kind # "build"
  <2>1. Cardinality(D) <= Cardinality(B)
    BY <1>2, <1>4, <1>6, FS_Subset
  <2>2. 100 * Cardinality(B) <= Cap
    BY DEF BuildsFit
  <2>3. 100 * Cardinality(D) <= Cap
    <3> HIDE DEF B, D
    <3> QED  BY <1>4, <2>1, <2>2, WindowAssumption
  <2> QED  BY <2>3 DEF BuildsFit
<1> QED  BY <1>5, <1>6

\* A ledger that loses its last rows: no more builds are left in its window.
LEMMA BuildsFitPrefix ==
    ASSUME NEW log \in Seq(Entry), NEW t \in Int, BuildsFit(log, t),
           NEW n \in 0 .. Len(log)
    PROVE  BuildsFit(SubSeq(log, 1, n), t)
<1> DEFINE short == SubSeq(log, 1, n)
           B == OfKind(log, Trailing(log, t), "build")
           D == OfKind(short, Trailing(short, t), "build")
<1>1. /\ short \in Seq(Entry) /\ DOMAIN short = 1 .. n
      /\ DOMAIN log = 1 .. Len(log) /\ Len(log) \in Nat
      /\ \A m \in 1 .. n : short[m] = log[m]
  OBVIOUS
<1>2. D \subseteq B
  BY <1>1 DEF OfKind, Trailing
<1>3. /\ IsFiniteSet(B) /\ Cardinality(B) \in Nat /\ Cardinality(D) \in Nat
  <2>1. Trailing(log, t) \subseteq DOMAIN log /\ Trailing(short, t) \subseteq DOMAIN short
    BY DEF Trailing
  <2> QED  BY <1>1, <2>1, Countable
<1>4. Cardinality(D) <= Cardinality(B)
  BY <1>2, <1>3, FS_Subset
<1>5. 100 * Cardinality(B) <= Cap
  BY DEF BuildsFit
<1>6. 100 * Cardinality(D) <= Cap
  <2> HIDE DEF B, D
  <2> QED  BY <1>3, <1>4, <1>5, WindowAssumption
<1> QED  BY <1>6 DEF BuildsFit

\* An empty ledger.
LEMMA BuildsFitEmpty == ASSUME NEW t PROVE BuildsFit(<<>>, t)
<1>1. OfKind(<<>>, Trailing(<<>>, t), "build") = {}
  BY DEF OfKind, Trailing
<1> QED  BY <1>1, FS_EmptySet, WindowAssumption DEF BuildsFit

-----------------------------------------------------------------------------
(* The lock. *)

\* TypeOK without `until`, which no other variable depends on: what the
\* refinement needs to know.
LedgerOK ==
    /\ now \in Nat
    /\ rows \in Seq(Entry)
    /\ step \in [Lanes -> Steps]
    /\ kind \in [Lanes -> Kind]
    /\ stamp \in [Lanes -> Nat]

\* A lane inside its transaction holds the lock, and one that may insert was
\* checked against the rows that are there now.
LockInv ==
    \A l \in Lanes :
        /\ stamp[l] <= now
        /\ step[l] \in {"begun", "admitting"} => writer = l /\ kind[l] \in Metered
        /\ step[l] = "admitting" => Fits(rows, now, kind[l])

BudgetInv == LedgerOK /\ LockInv

\* Inside a transaction left open no lane begins another, and what lands is not
\* metered.
LeakInv ==
    leaked = Unknown
    \/ /\ leaked \in 0 .. Len(rows)
       /\ \A n \in leaked + 1 .. Len(rows) : rows[n].kind \notin Metered
       /\ \A l \in Lanes : step[l] \notin {"begun", "admitting"}

\* An idle ledger satisfies both.
LEMMA InitBudgetInv == Init => BudgetInv /\ LeakInv
  BY DEF Init, BudgetInv, LedgerOK, LockInv, LeakInv, Entry, Steps, Kind, Metered

\* Time passes: an admission that was checked fits all the more.
LEMMA PassKeepsInv == BudgetInv /\ Pass => BudgetInv'
<1> SUFFICES ASSUME BudgetInv, Pass PROVE BudgetInv'
  OBVIOUS
<1> USE DEF BudgetInv, LedgerOK, Pass
<1>1. LedgerOK'
  OBVIOUS
<1>2. ASSUME NEW l \in Lanes, step[l] = "admitting"
      PROVE  Fits(rows, now', kind[l])
  BY <1>2, FitsLater DEF LockInv
<1>3. LockInv'
  BY <1>2 DEF LockInv
<1> QED  BY <1>1, <1>3

\* A step of a call that inserts nothing.
QuietCall(l) ==
    \/ \E k \in Kind : Ask(l, k)
    \/ Begin(l) \/ BeginCancelled(l) \/ BeginRaises(l)
    \/ CheckFits(l) \/ CheckRefuses(l) \/ Abort(l) \/ Defer(l)

\* A call that returns leaves the lanes' locals well typed.
LEMMA ReturnsTyped ==
    ASSUME LedgerOK, NEW l \in Lanes, Returns(l)
    PROVE  /\ step' \in [Lanes -> Steps]
           /\ kind' \in [Lanes -> Kind]
           /\ stamp' \in [Lanes -> Nat]
<1>1. "idle" \in Steps /\ "build" \in Kind
  BY DEF Steps, Kind, Metered
<1> QED  BY <1>1 DEF LedgerOK, Returns

\* Steps that insert nothing keep it: a lane enters its transaction only while
\* no other is inside one.
LEMMA QuietKeepsInv ==
    ASSUME BudgetInv, NEW l \in Lanes, QuietCall(l) PROVE BudgetInv'
<1> USE DEF BudgetInv, LedgerOK
<1>1. now' = now /\ rows' = rows
  BY DEF QuietCall, Ask, Begin, BeginCancelled, BeginRaises, CheckFits,
         CheckRefuses, Abort, Defer, Returns
<1>2. ASSUME NEW k \in Kind, Ask(l, k) PROVE BudgetInv'
  <2>1. LedgerOK'
    BY <1>1, <1>2 DEF Ask, Steps
  <2>2. LockInv'
    BY <1>1, <1>2 DEF Ask, LockInv
  <2> QED  BY <2>1, <2>2
<1>3. CASE Begin(l)
  <2>1. LedgerOK'
    BY <1>1, <1>3 DEF Begin, Steps
  <2>2. LockInv'
    BY <1>1, <1>3, BudgetAssumption DEF Begin, LockInv
  <2> QED  BY <2>1, <2>2
<1>4. CASE CheckFits(l)
  <2>1. LedgerOK'
    BY <1>1, <1>4 DEF CheckFits, Steps
  <2>2. LockInv'
    BY <1>1, <1>4 DEF CheckFits, LockInv
  <2> QED  BY <2>1, <2>2
<1>5. CASE CheckRefuses(l)
  <2>1. LedgerOK'
    <3>1. CASE kind[l] = "promotion"
      BY <1>1, <1>5, <3>1 DEF CheckRefuses, Steps
    <3>2. CASE kind[l] # "promotion"
      BY <1>1, <1>5, <3>2, ReturnsTyped DEF CheckRefuses
    <3> QED  BY <3>1, <3>2
  <2>2. LockInv'
    BY <1>1, <1>5, BudgetAssumption DEF CheckRefuses, Returns, LockInv
  <2> QED  BY <2>1, <2>2
<1>6. CASE Abort(l)
  <2>1. LedgerOK'
    BY <1>1, <1>6, ReturnsTyped DEF Abort
  <2>2. LockInv'
    BY <1>1, <1>6 DEF Abort, Returns, LockInv
  <2> QED  BY <2>1, <2>2
<1>7. CASE Defer(l)
  <2>1. LedgerOK'
    BY <1>1, <1>7, ReturnsTyped DEF Defer
  <2>2. LockInv'
    BY <1>1, <1>7 DEF Defer, Returns, LockInv
  <2> QED  BY <2>1, <2>2
<1>8. CASE BeginCancelled(l) \/ BeginRaises(l)
  <2>1. LedgerOK'
    BY <1>1, <1>8, ReturnsTyped DEF BeginCancelled, BeginRaises
  <2>2. LockInv'
    <3>1. Returns(l) /\ writer' = writer
      BY <1>8 DEF BeginCancelled, BeginRaises
    <3>2. ASSUME NEW m \in Lanes
          PROVE  \/ stamp'[m] = 0 /\ step'[m] = "idle"
                 \/ /\ stamp'[m] = stamp[m] /\ step'[m] = step[m]
                    /\ kind'[m] = kind[m]
      BY <3>1 DEF Returns
    <3> QED  BY <1>1, <3>1, <3>2 DEF LockInv
  <2> QED  BY <2>1, <2>2
<1> QED  BY <1>2, <1>3, <1>4, <1>5, <1>6, <1>7, <1>8 DEF QuietCall

\* A charge is inserted while no other lane is inside its transaction.
LEMMA InsertKeepsInv ==
    ASSUME BudgetInv, NEW l \in Lanes, Commit(l) \/ RecordSpend(l)
    PROVE  BudgetInv'
<1> USE DEF BudgetInv, LedgerOK
<1>1. LedgerOK'
  <2>1. now' = now
    BY DEF Commit, RecordSpend, Insert
  <2>2. rows' \in Seq(Entry)
    <3>1. [at |-> stamp[l], kind |-> kind[l]] \in Entry
      BY DEF Entry
    <3>2. rows' = Append(rows, [at |-> stamp[l], kind |-> kind[l]])
      BY DEF Commit, RecordSpend, Insert
    <3> QED  BY <3>1, <3>2
  <2>3. Returns(l)
    BY DEF Commit, RecordSpend, Insert
  <2> QED  BY <2>1, <2>2, <2>3, ReturnsTyped
<1>2. \A m \in Lanes \ {l} : step[m] \notin {"begun", "admitting"}
  BY BudgetAssumption DEF Commit, RecordSpend, LockInv
<1>3. ASSUME NEW m \in Lanes
      PROVE  /\ stamp'[m] <= now'
             /\ step'[m] \notin {"begun", "admitting"}
  BY <1>2 DEF Commit, RecordSpend, Insert, Returns, LockInv
<1>4. LockInv'
  BY <1>3 DEF LockInv
<1> QED  BY <1>1, <1>4

\* A restart ends every call, and keeps what was there before the transaction left
\* open.
LEMMA RestartForgets ==
    ASSUME BudgetInv, LeakInv, Restart
    PROVE  /\ BudgetInv'
           /\ \E n \in 0 .. Len(rows) :
                /\ rows' = SubSeq(rows, 1, n)
                /\ \A m \in n + 1 .. Len(rows) : rows[m].kind \notin Metered
<1>1. rows \in Seq(Entry) /\ Len(rows) \in Nat /\ rows = SubSeq(rows, 1, Len(rows))
  BY DEF BudgetInv, LedgerOK
<1>2. PICK n \in 0 .. Len(rows) :
        /\ rows' = SubSeq(rows, 1, n)
        /\ \A m \in n + 1 .. Len(rows) : rows[m].kind \notin Metered
  <2>1. CASE leaked = Unknown
    <3>1. rows' = SubSeq(rows, 1, Len(rows)) /\ Len(rows) \in 0 .. Len(rows)
      BY <1>1, <2>1 DEF Restart
    <3>2. Len(rows) + 1 .. Len(rows) = {}
      BY <1>1
    <3> QED  BY <3>1, <3>2
  <2>2. CASE leaked # Unknown
    BY <2>2 DEF Restart, LeakInv
  <2> QED  BY <2>1, <2>2
<1>3. rows' \in Seq(Entry)
  BY <1>1, <1>2
<1>4. now' = now /\ now \in Nat
  BY DEF Restart, BudgetInv, LedgerOK
<1>5. LedgerOK' /\ LockInv'
  BY <1>3, <1>4 DEF Restart, LedgerOK, LockInv, Steps, Kind, Metered
<1> QED  BY <1>2, <1>5 DEF BudgetInv

\* Every step keeps it.
LEMMA NextKeepsInv == BudgetInv /\ LeakInv /\ [Next]_vars => BudgetInv'
<1> SUFFICES ASSUME BudgetInv, LeakInv, [Next]_vars PROVE BudgetInv'
  OBVIOUS
<1>1. CASE Pass
  BY <1>1, PassKeepsInv
<1>2. ASSUME NEW l \in Lanes, Call(l) PROVE BudgetInv'
  BY <1>2, QuietKeepsInv, InsertKeepsInv DEF Call, QuietCall
<1>3. CASE Restart
  BY <1>3, RestartForgets
<1>4. CASE UNCHANGED vars
  BY <1>4 DEF vars, BudgetInv, LedgerOK, LockInv
<1> QED  BY <1>1, <1>2, <1>3, <1>4 DEF Next

\* A transaction is left open while no other is under way, and from then on only
\* record_spend appends.
LEMMA NextKeepsLeak == BudgetInv /\ LeakInv /\ [Next]_vars => LeakInv'
<1> SUFFICES ASSUME BudgetInv, LeakInv, [Next]_vars PROVE LeakInv'
  OBVIOUS
<1> USE DEF LeakInv
<1>1. CASE Pass \/ UNCHANGED vars
  BY <1>1 DEF Pass, vars
<1>2. CASE Restart
  BY <1>2 DEF Restart
<1>3. ASSUME NEW l \in Lanes, Call(l) PROVE LeakInv'
  <2>0. rows \in Seq(Entry) /\ Len(rows) \in Nat /\ step \in [Lanes -> Steps]
    BY DEF BudgetInv, LedgerOK
  <2>1. CASE (\E k \in Kind : Ask(l, k)) \/ BeginRaises(l) \/ Defer(l)
    BY <2>0, <2>1 DEF Ask, BeginRaises, Defer, Returns
  <2>2. CASE Begin(l)
    BY <2>2 DEF Begin
  <2>3. CASE BeginCancelled(l)
    <3>1. \A m \in Lanes : step[m] \notin {"begun", "admitting"}
      BY <2>3, BudgetAssumption DEF BeginCancelled, BudgetInv, LockInv
    <3>2. leaked' = Len(rows) /\ rows' = rows
      BY <2>3 DEF BeginCancelled
    <3>3. \A m \in Lanes : step'[m] \notin {"begun", "admitting"}
      BY <2>0, <2>3, <3>1 DEF BeginCancelled, Returns
    <3>4. leaked' \in 0 .. Len(rows') /\ leaked' + 1 .. Len(rows') = {}
      BY <2>0, <3>2
    <3> QED  BY <3>3, <3>4
  <2>4. CASE CheckFits(l) \/ CheckRefuses(l)
    BY <2>4 DEF CheckFits, CheckRefuses
  <2>5. CASE Commit(l)
    BY <2>5 DEF Commit, Insert
  <2>6. CASE RecordSpend(l)
    <3> DEFINE e == [at |-> stamp[l], kind |-> kind[l]]
    <3>1. /\ rows' = Append(rows, e) /\ e.kind \notin Metered /\ leaked' = leaked
          /\ e \in Entry
      BY <2>6 DEF RecordSpend, Insert, Metered, Entry, BudgetInv, LedgerOK
    <3>2. \A m \in Lanes : step'[m] = step[m] \/ step'[m] = "idle"
      BY <2>0, <2>6 DEF RecordSpend, Insert, Returns
    <3> HIDE DEF e
    <3>3. /\ Len(rows') = Len(rows) + 1
          /\ \A n \in 1 .. Len(rows) : rows'[n] = rows[n]
          /\ rows'[Len(rows) + 1] = e
      BY <2>0, <3>1
    <3> QED  BY <2>0, <3>1, <3>2, <3>3
  <2>7. CASE Abort(l)
    BY <2>0, <2>7 DEF Abort, Returns
  <2> QED  BY <1>3, <2>1, <2>2, <2>3, <2>4, <2>5, <2>6, <2>7 DEF Call
<1> QED  BY <1>1, <1>2, <1>3 DEF Next

\* budget.py: between a lane's check and its commit, the rows it checked are the
\* rows it commits to; nothing metered lands in a transaction left open.
THEOREM Lock == Spec => [](BudgetInv /\ LeakInv)
  BY InitBudgetInv, NextKeepsInv, NextKeepsLeak, PTL DEF Spec

-----------------------------------------------------------------------------
\* The promise's arithmetic is the ledger's own.
LEMMA SameArithmetic ==
    /\ Promise!Entry = Entry
    /\ Promise!Metered = Metered
    /\ \A t, k : Promise!Fits(rows, t, k) <=> Fits(rows, t, k)
<1>1. Promise!Metered = Metered
  BY DEF Promise!Metered, Metered
<1>2. Promise!Entry = Entry
  BY <1>1 DEF Promise!Entry, Entry, Promise!Kind, Kind
<1>3. ASSUME NEW t, NEW k PROVE Promise!Fits(rows, t, k) <=> Fits(rows, t, k)
  BY DEF Promise!Fits, Fits, Promise!SpendOf, SpendOf, Promise!OfKind, OfKind,
         Promise!Trailing, Trailing, Promise!Amount, Amount,
         Promise!Cardinality, Cardinality
<1> QED  BY <1>1, <1>2, <1>3

\* The steps of the promise, as steps of the ledger: an insert lands a charge.
LEMMA InsertLands ==
    ASSUME BudgetInv, NEW l \in Lanes, Commit(l) \/ RecordSpend(l)
    PROVE  Promise!Next
<1> DEFINE e == [at |-> stamp[l], kind |-> kind[l]]
<1> USE DEF BudgetInv, LedgerOK
<1>1. e \in Entry /\ e.at <= now /\ e.kind = kind[l]
  BY DEF Entry, LockInv
<1>2. rows' = Append(rows, e) /\ now' = now
  BY DEF Commit, RecordSpend, Insert
<1>3. rows' # <<>> /\ rows'[Len(rows')] = e
  <2> HIDE DEF e
  <2> QED  BY <1>1, <1>2
<1>4. e.kind \in Metered => Fits(rows, now, e.kind)
  BY <1>1 DEF Commit, RecordSpend, LockInv, Metered
<1>5. Promise!Land(e)
  BY <1>1, <1>2, <1>4, SameArithmetic DEF Promise!Land
<1> QED  BY <1>3, <1>5 DEF Promise!Next, Promise!Landed

\* Every step of the ledger is a step of the promise or leaves it unchanged.
LEMMA StepLands ==
    BudgetInv /\ LeakInv /\ [Next]_vars => [Promise!Next]_<<now, rows>>
<1> SUFFICES ASSUME BudgetInv, LeakInv, [Next]_vars
             PROVE  Promise!Next \/ UNCHANGED <<now, rows>>
  OBVIOUS
<1>1. CASE Pass
  <2>1. Promise!Tick
    BY <1>1 DEF BudgetInv, LedgerOK, Pass, Promise!Tick
  <2> QED  BY <2>1 DEF Promise!Next
<1>2. ASSUME NEW l \in Lanes, Call(l)
      PROVE  Promise!Next \/ UNCHANGED <<now, rows>>
  <2>1. CASE Commit(l) \/ RecordSpend(l)
    BY <2>1, InsertLands
  <2>2. CASE QuietCall(l)
    BY <2>2 DEF QuietCall, Ask, Begin, BeginCancelled, BeginRaises, CheckFits,
                CheckRefuses, Abort, Defer, Returns
  <2> QED  BY <1>2, <2>1, <2>2 DEF Call, QuietCall
<1>3. CASE Restart
  <2>1. PICK n \in 0 .. Len(rows) :
          /\ rows' = SubSeq(rows, 1, n)
          /\ \A m \in n + 1 .. Len(rows) : rows[m].kind \notin Metered
    BY <1>3, RestartForgets
  <2>2. Promise!Forget(n)
    BY <1>3, <2>1, SameArithmetic DEF Promise!Forget, Restart
  <2> QED  BY <2>2 DEF Promise!Next
<1>4. CASE UNCHANGED vars
  BY <1>4 DEF vars
<1> QED  BY <1>1, <1>2, <1>3, <1>4 DEF Next

\* budget.py: whatever the lanes do, charges land one at a time, and a metered
\* one only while it fits under the cap.
THEOREM ImplementsCap == Spec => LandsWithinCap
<1>1. Init => Promise!Init
  BY DEF Init, Promise!Init
<1> QED  BY <1>1, Lock, StepLands, PTL DEF Spec, LandsWithinCap, Promise!Spec

\* budget.py's cap, for the ledger itself: the builds charged in any trailing
\* 24 hours stay within it.
THEOREM LanesWithinCap == Spec => []MeteredWithinCap
<1>1. Init => MeteredWithinCap
  BY BuildsFitEmpty DEF Init, MeteredWithinCap
<1>2. MeteredWithinCap /\ BudgetInv /\ LeakInv /\ [Next]_vars => MeteredWithinCap'
  <2> SUFFICES ASSUME MeteredWithinCap, BudgetInv, LeakInv, [Next]_vars
               PROVE  MeteredWithinCap'
    OBVIOUS
  <2> USE DEF MeteredWithinCap
  <2>1. CASE Pass
    BY <2>1, BuildsFitLater DEF Pass, BudgetInv, LedgerOK
  <2>2. ASSUME NEW l \in Lanes, Commit(l) \/ RecordSpend(l)
        PROVE  MeteredWithinCap'
    <3> DEFINE e == [at |-> stamp[l], kind |-> kind[l]]
    <3>1. e \in Entry /\ e.kind = kind[l]
      BY DEF Entry, BudgetInv, LedgerOK
    <3>2. rows' = Append(rows, e) /\ now' = now
      BY <2>2 DEF Commit, RecordSpend, Insert
    <3>3. e.kind \in Metered => Fits(rows, now, e.kind)
      BY <2>2, <3>1 DEF Commit, RecordSpend, BudgetInv, LockInv, Metered
    <3> HIDE DEF e
    <3> QED  BY <3>1, <3>2, <3>3, BuildsFitAppend DEF BudgetInv, LedgerOK
  <2>3. CASE UNCHANGED <<now, rows>>
    BY <2>3
  <2>4. ASSUME NEW l \in Lanes, QuietCall(l) PROVE UNCHANGED <<now, rows>>
    BY <2>4 DEF QuietCall, Ask, Begin, BeginCancelled, BeginRaises, CheckFits,
                CheckRefuses, Abort, Defer, Returns
  <2>5. CASE Restart
    <3>1. PICK n \in 0 .. Len(rows) :
            /\ rows' = SubSeq(rows, 1, n)
            /\ \A m \in n + 1 .. Len(rows) : rows[m].kind \notin Metered
      BY <2>5, RestartForgets
    <3>2. now' = now
      BY <2>5 DEF Restart
    <3>3. BuildsFit(SubSeq(rows, 1, n), now)
      BY BuildsFitPrefix DEF BudgetInv, LedgerOK
    <3> QED  BY <3>1, <3>2, <3>3
  <2>6. CASE UNCHANGED vars
    BY <2>6 DEF vars
  <2> QED  BY <2>1, <2>2, <2>3, <2>4, <2>5, <2>6 DEF Next, Call, QuietCall
<1> QED  BY <1>1, <1>2, Lock, PTL DEF Spec

-----------------------------------------------------------------------------
(* When the window frees. *)

\* Among finite sets some set includes no other properly.
LEMMA LeastSet ==
    ASSUME NEW U, IsFiniteSet(U), NEW F \in SUBSET (SUBSET U), F # {}
    PROVE  \E A \in F : \A B \in F : B \subseteq A => B = A
<1>1. IsWellFoundedOn(StrictSubsetOrdering(U), SUBSET U)
  BY FS_StrictSubsetOrderingWellFounded, FS_FiniteSubsetsOfFinite
<1>2. PICK A \in F : \A B \in F : <<B, A>> \notin StrictSubsetOrdering(U)
  BY <1>1, WFMin
<1> QED  BY <1>2 DEF StrictSubsetOrdering

\* Of some rows of a ledger one is the newest, and one the oldest.
LEMMA NewestAndOldest ==
    ASSUME NEW log \in Seq(Entry), NEW ns \in SUBSET DOMAIN log, ns # {}
    PROVE  /\ \E n \in ns : \A m \in ns : log[m].at <= log[n].at
           /\ \E n \in ns : \A m \in ns : log[n].at <= log[m].at
<1> DEFINE newer(n) == {m \in ns : log[m].at > log[n].at}
           older(n) == {m \in ns : log[m].at < log[n].at}
           N == {newer(n) : n \in ns}
           O == {older(n) : n \in ns}
<1>1. IsFiniteSet(ns)
  <2>1. DOMAIN log = 1..Len(log) /\ Len(log) \in Nat
    OBVIOUS
  <2>2. IsFiniteSet(DOMAIN log)
    BY <2>1, FS_Interval
  <2> QED  BY <2>2, FS_Subset
<1>2. \A n \in ns : log[n].at \in Nat
  <2>1. \A n \in ns : log[n] \in Entry
    OBVIOUS
  <2> QED  BY <2>1 DEF Entry
<1>3. N \in SUBSET (SUBSET ns) /\ N # {} /\ O \in SUBSET (SUBSET ns) /\ O # {}
  OBVIOUS
<1>4. \E n \in ns : \A m \in ns : log[m].at <= log[n].at
  <2>1. PICK A \in N : \A B \in N : B \subseteq A => B = A
    <3> HIDE DEF N
    <3> QED  BY <1>1, <1>3, LeastSet
  <2>2. PICK n \in ns : A = newer(n)
    BY <2>1
  <2>3. ASSUME NEW m \in ns, log[m].at > log[n].at PROVE FALSE
    <3>1. newer(m) \subseteq newer(n) /\ m \in newer(n) /\ m \notin newer(m)
      BY <1>2, <2>3
    <3>2. newer(m) \in N
      OBVIOUS
    <3> QED  BY <2>1, <2>2, <3>1, <3>2
  <2>4. \A m \in ns : log[m].at <= log[n].at
    <3> HIDE DEF newer, older, N, O
    <3> QED  BY <1>2, <2>3
  <2> QED  BY <2>4
<1>5. \E n \in ns : \A m \in ns : log[n].at <= log[m].at
  <2>1. PICK A \in O : \A B \in O : B \subseteq A => B = A
    <3> HIDE DEF O
    <3> QED  BY <1>1, <1>3, LeastSet
  <2>2. PICK n \in ns : A = older(n)
    BY <2>1
  <2>3. ASSUME NEW m \in ns, log[m].at < log[n].at PROVE FALSE
    <3>1. older(m) \subseteq older(n) /\ m \in older(n) /\ m \notin older(m)
      BY <1>2, <2>3
    <3>2. older(m) \in O
      OBVIOUS
    <3> QED  BY <2>1, <2>2, <3>1, <3>2
  <2>4. \A m \in ns : log[n].at <= log[m].at
    <3> HIDE DEF newer, older, N, O
    <3> QED  BY <1>2, <2>3
  <2> QED  BY <2>4
<1> QED  BY <1>4, <1>5

\* The instants window_frees_at walks, and those that free enough.
Instants(t) == {rows[n].at : n \in Trailing(rows, t)}
After(t, s) == {n \in Trailing(rows, t) : rows[n].at > s}
Enough(t, k) ==
    {s \in Instants(t) : SpendOf(rows, After(t, s)) + Amount(k) <= Cap}

\* A window from now on holds what is newer than its start.
LEMMA WindowAt ==
    ASSUME LedgerOK, NEW t \in Nat, NEW s \in Int, t - Window <= s
    PROVE  /\ Trailing(rows, Window + s) = After(t, s)
           /\ \A k : Fits(rows, Window + s, k)
                <=> SpendOf(rows, After(t, s)) + Amount(k) <= Cap
<1>1. \A n \in DOMAIN rows : rows[n].at \in Nat
  <2>1. \A n \in DOMAIN rows : rows[n] \in Entry
    BY DEF LedgerOK
  <2> QED  BY <2>1 DEF Entry
<1>2. (Window + s) - Window = s /\ Window \in Nat
  BY WindowAssumption
<1>3. Trailing(rows, Window + s) = After(t, s)
  BY <1>1, <1>2 DEF Trailing, After
<1> QED  BY <1>3 DEF Fits

\* With every charge gone, whatever fits alone fits.
LEMMA NothingSpent ==
    ASSUME NEW log, NEW k \in Kind, Amount(k) <= Cap
    PROVE  SpendOf(log, {}) + Amount(k) <= Cap
<1>1. OfKind(log, {}, "build") = {} /\ OfKind(log, {}, "classifier") = {}
  BY DEF OfKind
<1>2. Cardinality({}) = 0
  BY FS_EmptySet
<1>3. Amount(k) \in Nat
  BY DEF Amount
<1>4. SpendOf(log, {}) = 100 * 0 + 0
  BY <1>1, <1>2 DEF SpendOf
<1> QED  BY <1>3, <1>4

\* window_frees_at answers with the oldest instant that frees enough.
LEMMA FreesAtIs ==
    ASSUME LedgerOK, NEW t \in Nat, NEW k \in Kind, Amount(k) <= Cap,
           Trailing(rows, t) # {}
    PROVE  \E s \in Enough(t, k) :
             FreesAt(t, k) = Window + s /\ \A u \in Enough(t, k) : s <= u
<1> DEFINE T == Trailing(rows, t)
<1>1. rows \in Seq(Entry) /\ T \in SUBSET DOMAIN rows /\ T # {}
  BY DEF LedgerOK, Trailing
<1>2. \A n \in DOMAIN rows : rows[n].at \in Nat
  <2>1. \A n \in DOMAIN rows : rows[n] \in Entry
    BY DEF LedgerOK
  <2> QED  BY <2>1 DEF Entry
<1>3. Enough(t, k) # {}
  <2>1. PICK n \in T : \A m \in T : rows[m].at <= rows[n].at
    BY <1>1, NewestAndOldest
  <2>2. After(t, rows[n].at) = {}
    BY <1>1, <1>2, <2>1 DEF After
  <2> QED  BY <2>1, <2>2, NothingSpent DEF Enough, Instants
<1>4. \E s \in Enough(t, k) : \A u \in Enough(t, k) : s <= u
  <2> DEFINE ns == {n \in T : rows[n].at \in Enough(t, k)}
  <2>1. ns \in SUBSET DOMAIN rows /\ ns # {}
    BY <1>1, <1>3 DEF Enough, Instants
  <2>2. PICK n \in ns : \A m \in ns : rows[n].at <= rows[m].at
    <3> HIDE DEF ns
    <3> QED  BY <1>1, <2>1, NewestAndOldest
  <2>3. \A u \in Enough(t, k) : \E m \in ns : u = rows[m].at
    BY DEF Enough, Instants
  <2> QED  BY <2>2, <2>3
<1>5. FreesAt(t, k) =
        Window + CHOOSE s \in Enough(t, k) : \A u \in Enough(t, k) : s <= u
  BY <1>1, <1>3 DEF FreesAt, Enough, Instants, After
<1> QED  BY <1>4, <1>5

\* The charge fits at that instant, and at none before it unless it fits now.
LEMMA FreesAtFirst ==
    ASSUME LedgerOK, NEW t \in Nat, NEW k \in Kind, Amount(k) <= Cap,
           Trailing(rows, t) # {}
    PROVE  /\ Fits(rows, FreesAt(t, k), k)
           /\ \/ Fits(rows, t, k)
              \/ \A u \in t .. FreesAt(t, k) - 1 : ~Fits(rows, u, k)
<1> DEFINE T == Trailing(rows, t)
<1>1. PICK s \in Enough(t, k) :
        FreesAt(t, k) = Window + s /\ \A u \in Enough(t, k) : s <= u
  BY FreesAtIs
<1>2. rows \in Seq(Entry) /\ T \in SUBSET DOMAIN rows /\ Window \in Nat
  BY WindowAssumption DEF LedgerOK, Trailing
<1>3. \A n \in DOMAIN rows : rows[n].at \in Nat
  <2>1. \A n \in DOMAIN rows : rows[n] \in Entry
    BY DEF LedgerOK
  <2> QED  BY <2>1 DEF Entry
<1>4. \A v \in Instants(t) : v \in Nat /\ t - Window <= v
  BY <1>2, <1>3 DEF Instants, Trailing
<1>5. Fits(rows, Window + s, k)
  <2>1. s \in Int /\ t - Window <= s
    BY <1>4 DEF Enough
  <2>2. SpendOf(rows, After(t, s)) + Amount(k) <= Cap
    BY DEF Enough
  <2> QED  BY <2>1, <2>2, WindowAt
<1>6. ASSUME NEW u \in t .. (Window + s) - 1, ~Fits(rows, t, k)
      PROVE  ~Fits(rows, u, k)
  <2> DEFINE w == u - Window
             gone == {n \in T : rows[n].at <= w}
  <2>1. /\ w \in Int /\ t - Window <= w /\ u = Window + w
        /\ s \in Nat /\ w < s /\ t = Window + (t - Window)
    BY <1>1, <1>2, <1>4 DEF Enough
  <2>2. Fits(rows, u, k) <=> SpendOf(rows, After(t, w)) + Amount(k) <= Cap
    BY <2>1, WindowAt
  <2>3. CASE gone = {}
    <3>1. After(t, w) = T
      BY <1>2, <1>3, <2>1, <2>3 DEF After
    <3> QED  BY <1>6, <2>2, <3>1 DEF Fits
  <2>4. CASE gone # {}
    <3>1. PICK n \in gone : \A m \in gone : rows[m].at <= rows[n].at
      <4>1. gone \in SUBSET DOMAIN rows
        BY <1>2
      <4> HIDE DEF gone
      <4> QED  BY <1>2, <2>4, <4>1, NewestAndOldest
    <3> DEFINE v == rows[n].at
    <3>2. v \in Instants(t) /\ v \in Nat /\ v <= w
      BY <1>4, <3>1 DEF Instants
    <3>3. \A m \in T : rows[m].at > v <=> rows[m].at > w
      BY <1>2, <1>3, <2>1, <3>1, <3>2
    <3>4. After(t, v) = After(t, w)
      BY <3>3 DEF After
    <3>5. v \notin Enough(t, k)
      BY <1>1, <2>1, <3>2
    <3> QED  BY <2>2, <3>2, <3>4, <3>5 DEF Enough
  <2> QED  BY <2>3, <2>4
<1> QED  BY <1>1, <1>5, <1>6

\* The answer is an instant, or none.
LEMMA FreesAtTyped ==
    ASSUME LedgerOK, NEW t \in Nat, NEW k
    PROVE  FreesAt(t, k) \in Nat \cup {Unknown}
<1> DEFINE T == Trailing(rows, t)
<1>1. rows \in Seq(Entry) /\ T \in SUBSET DOMAIN rows /\ Window \in Nat
  BY WindowAssumption DEF LedgerOK, Trailing
<1>2. \A n \in DOMAIN rows : rows[n].at \in Nat
  <2>1. \A n \in DOMAIN rows : rows[n] \in Entry
    BY DEF LedgerOK
  <2> QED  BY <2>1 DEF Entry
<1>3. CASE T = {}
  BY <1>3 DEF FreesAt
<1>4. CASE T # {} /\ Enough(t, k) = {}
  <2> DEFINE last == CHOOSE s \in Instants(t) : \A u \in Instants(t) : u <= s
  <2>1. PICK n \in T : \A m \in T : rows[m].at <= rows[n].at
    BY <1>1, <1>4, NewestAndOldest
  <2>2. rows[n].at \in Instants(t) /\ \A u \in Instants(t) : u <= rows[n].at
    BY <2>1 DEF Instants
  <2>3. last \in Instants(t)
    BY <2>2
  <2>4. last \in Nat
    BY <1>1, <1>2, <2>3 DEF Instants
  <2>5. FreesAt(t, k) = Window + last
    BY <1>4 DEF FreesAt, Enough, Instants, After
  <2> HIDE DEF last
  <2> QED  BY <1>1, <2>4, <2>5
<1>5. CASE T # {} /\ Enough(t, k) # {}
  <2> DEFINE ns == {n \in T : rows[n].at \in Enough(t, k)}
             first == CHOOSE s \in Enough(t, k) : \A u \in Enough(t, k) : s <= u
  <2>1. ns \in SUBSET DOMAIN rows /\ ns # {}
    BY <1>1, <1>5 DEF Enough, Instants
  <2>2. PICK n \in ns : \A m \in ns : rows[n].at <= rows[m].at
    <3> HIDE DEF ns
    <3> QED  BY <1>1, <2>1, NewestAndOldest
  <2>3. \A u \in Enough(t, k) : \E m \in ns : u = rows[m].at
    BY DEF Enough, Instants
  <2>4. first \in Enough(t, k)
    BY <2>2, <2>3
  <2>5. first \in Nat
    BY <1>1, <1>2, <2>4 DEF Enough, Instants
  <2>6. FreesAt(t, k) = Window + first
    BY <1>5 DEF FreesAt, Enough, Instants, After
  <2> HIDE DEF first
  <2> QED  BY <1>1, <2>5, <2>6
<1> QED  BY <1>3, <1>4, <1>5

\* What LedgerOK leaves out of TypeOK.
AnswersOK ==
    /\ until \in [Lanes -> Nat \cup {Unknown}]
    /\ writer \in Lanes \cup {"nobody"}

\* Only a deferral writes an answer.
LEMMA AnswersStep == BudgetInv /\ AnswersOK /\ [Next]_vars => AnswersOK'
<1> SUFFICES ASSUME BudgetInv, AnswersOK, [Next]_vars PROVE AnswersOK'
  OBVIOUS
<1> USE DEF AnswersOK
<1>1. CASE Pass \/ Restart \/ UNCHANGED vars
  BY <1>1 DEF Pass, Restart, vars
<1>2. ASSUME NEW l \in Lanes, Call(l) PROVE AnswersOK'
  <2>1. CASE \E k \in Kind : Ask(l, k)
    BY <2>1 DEF Ask
  <2>2. CASE \/ Begin(l) \/ BeginCancelled(l) \/ BeginRaises(l)
             \/ CheckFits(l) \/ CheckRefuses(l)
    BY <2>2 DEF Begin, BeginCancelled, BeginRaises, CheckFits, CheckRefuses
  <2>3. CASE Commit(l) \/ RecordSpend(l) \/ Abort(l)
    BY <2>3 DEF Commit, RecordSpend, Abort, Insert
  <2>4. CASE Defer(l)
    <3>1. FreesAt(stamp[l], kind[l]) \in Nat \cup {Unknown}
      BY FreesAtTyped DEF BudgetInv, LedgerOK
    <3> QED  BY <2>4, <3>1 DEF Defer
  <2> QED  BY <1>2, <2>1, <2>2, <2>3, <2>4 DEF Call
<1> QED  BY <1>1, <1>2 DEF Next

\* The ledger, its lanes and the answers of their gates keep their types.
THEOREM BudgetTyped == Spec => []TypeOK
<1>1. Init => AnswersOK
  BY DEF Init, AnswersOK
<1>2. BudgetInv /\ LeakInv /\ AnswersOK => TypeOK
  BY DEF BudgetInv, LedgerOK, LeakInv, AnswersOK, TypeOK
<1>3. BudgetInv /\ LeakInv /\ AnswersOK /\ [Next]_vars
        => (BudgetInv /\ LeakInv /\ AnswersOK)'
  BY NextKeepsInv, NextKeepsLeak, AnswersStep
<1> QED  BY <1>1, <1>2, <1>3, InitBudgetInv, PTL DEF Spec

\* budget.py, window_frees_at: a deferred gate is told the first instant at
\* which its charge fits if nothing more lands, whatever the ledger holds and
\* however many charges landed between the refusal and the answer.
THEOREM DefersTruly == Spec => DeferKeepsWord
<1>1. Init => AnswersOK
  BY DEF Init, AnswersOK
<1>2. ASSUME BudgetInv, AnswersOK, NEW l \in Lanes, Defer(l),
             until'[l] # Unknown, Amount(kind[l]) <= Cap
      PROVE  /\ Fits(rows, until'[l], kind[l])
             /\ Fits(rows, now, kind[l])
                  \/ \A t \in now .. until'[l] - 1 : ~Fits(rows, t, kind[l])
  <2>1. until'[l] = FreesAt(stamp[l], kind[l])
    BY <1>2 DEF Defer, AnswersOK
  <2>2. Trailing(rows, stamp[l]) # {}
    BY <1>2, <2>1 DEF FreesAt
  <2>3. /\ now \in Nat /\ stamp[l] \in Nat /\ stamp[l] <= now
        /\ kind[l] \in Kind /\ rows \in Seq(Entry) /\ LedgerOK
    BY <1>2 DEF BudgetInv, LedgerOK, LockInv
  <2>4. /\ Fits(rows, until'[l], kind[l])
        /\ \/ Fits(rows, stamp[l], kind[l])
           \/ \A u \in stamp[l] .. until'[l] - 1 : ~Fits(rows, u, kind[l])
    BY <1>2, <2>1, <2>2, <2>3, FreesAtFirst
  <2>5. Fits(rows, stamp[l], kind[l]) => Fits(rows, now, kind[l])
    BY <2>3, FitsLater
  <2>6. until'[l] \in Nat
    BY <1>2, <2>1, <2>3, FreesAtTyped
  <2> QED  BY <2>3, <2>4, <2>5, <2>6
<1>3. BudgetInv /\ AnswersOK /\ [Next]_vars =>
        [\A l \in Lanes :
           Defer(l) /\ until'[l] # Unknown /\ Amount(kind[l]) <= Cap =>
             /\ Fits(rows, until'[l], kind[l])
             /\ Fits(rows, now, kind[l])
                  \/ \A t \in now .. until'[l] - 1 : ~Fits(rows, t, kind[l])]_vars
  BY <1>2
<1>4. BudgetInv /\ LeakInv /\ AnswersOK /\ [Next]_vars
        => (BudgetInv /\ LeakInv /\ AnswersOK)'
  BY NextKeepsInv, NextKeepsLeak, AnswersStep
<1> QED  BY <1>1, <1>3, <1>4, InitBudgetInv, PTL DEF Spec, DeferKeepsWord
=============================================================================
