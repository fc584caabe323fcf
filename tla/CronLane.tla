------------------------------ MODULE CronLane ------------------------------
(***************************************************************************)
(* The worker-global heartbeat of heartbeat.py and the backlog cron lane   *)
(* of cron.py it drives: every quarter of an hour a beat visits the repos  *)
(* in order, fires each due repo's safety-net drain and waits for it, then *)
(* promotes one backlog issue of the repo into the scheduler's queue.  A   *)
(* drain may outlast the quarter, so beats overlap: they, and the drains   *)
(* that kicks start, meet at the per-repo locks.                           *)
(*                                                                         *)
(* The drain itself is AdhocLane; here it is held, has listed, or is free. *)
(* The token mint and target-branch lookup before a lock are part of       *)
(* taking it; their failures are SweepRaises and TickRaises.               *)
(***************************************************************************)
EXTENDS Integers, SequencesExt

CONSTANTS
    NumRepos,      \* opted-in repos, 1 .. NumRepos in enumeration order
    Issues,        \* backlog issues, of any repo
    RepoOf,        \* the repo of each
    SeverityOf,    \* the vocab.Severity its priority label parses to
    DueAt,         \* the slots of the hour each repo's config.cron matches
    Slots,         \* heartbeats in an hour
    QuotaEvery,    \* bind_cron_tick's quota_every
    PageSize,      \* the --limit of gh issue list
    Beats,         \* bound: heartbeats under way at once
    MaxSetbacks    \* bound: faults, late beats, deferrals and lock collisions

Repos == 1 .. NumRepos

\* vocab.Severity, LOW the default of an issue without a priority label.
LOW == 1
MEDIUM == 2
CRITICAL == 4

ASSUME CronAssumption ==
    /\ NumRepos \in Nat \ {0}
    /\ RepoOf \in [Issues -> Repos]
    /\ SeverityOf \in [Issues -> LOW .. CRITICAL]
    /\ Slots \in Nat \ {0}
    /\ DueAt \in [Repos -> SUBSET (0 .. Slots - 1)]
    /\ QuotaEvery \in Nat \ {0}
    /\ PageSize \in Nat \ {0}
    /\ MaxSetbacks \in Nat

VARIABLES
    \* GitHub
    backlog,       \* each repo's issues wearing `backlog`, oldest first
    missed,        \* repos with work labelled while the webhook was missed
    \* the worker process
    slot,          \* the quarter of the hour of the next heartbeat
    tick,          \* ctx["heartbeat_tick_number"], modulo QuotaEvery
    drain,         \* each repo's drain: "free", "list" or "build"
    stage,         \* what each beat is doing at its repo
    at,            \* that repo, 0 between beats
    due,           \* the repos due at its instant it has not passed yet
    quota,         \* whether its tick is a quota tick
    pick,          \* the issue its cron tick has picked, 0 before
    \* history
    withdrawn,     \* beats whose pick a human took out of the backlog since
    setbacks       \* faults, late beats, deferrals and collisions so far

beats == <<stage, at, due, quota, pick, withdrawn>>
vars  == <<backlog, missed, slot, tick, drain, beats, setbacks>>

\* "sweep": before a due repo's drain; "drain": awaiting the one it started;
\* "tick": before the cron tick; "gate" and "promote": in it, under its lock.
StageNames == {"off", "sweep", "drain", "tick", "gate", "promote"}

TypeOK ==
    /\ backlog \in [Repos -> Seq(Issues)]
    /\ missed \subseteq Repos
    /\ slot \in 0 .. Slots - 1
    /\ tick \in 0 .. QuotaEvery - 1
    /\ drain \in [Repos -> {"free", "list", "build"}]
    /\ stage \in [Beats -> StageNames]
    /\ at \in [Beats -> Repos \cup {0}]
    /\ due \in [Beats -> SUBSET Repos]
    /\ quota \in [Beats -> BOOLEAN]
    /\ pick \in [Beats -> Issues \cup {0}]
    /\ withdrawn \subseteq Beats
    /\ setbacks \in 0 .. MaxSetbacks

InBacklog(i) == \E k \in DOMAIN backlog[RepoOf[i]] : backlog[RepoOf[i]][k] = i

Init ==
    /\ backlog = [r \in Repos |-> <<>>]
    /\ missed = {}
    /\ slot = 0 /\ tick = 0
    /\ drain = [r \in Repos |-> "free"]
    /\ stage = [b \in Beats |-> "off"] /\ at = [b \in Beats |-> 0]
    /\ due = [b \in Beats |-> {}] /\ quota = [b \in Beats |-> FALSE]
    /\ pick = [b \in Beats |-> 0]
    /\ withdrawn = {} /\ setbacks = 0

Setback == setbacks < MaxSetbacks /\ setbacks' = setbacks + 1

\* The locks.  A drain no beat awaits was started by a kick.
Awaits(b, r)   == stage[b] = "drain" /\ at[b] = r
CronHeld(r)    == \E b \in Beats : at[b] = r /\ stage[b] \in {"gate", "promote"}

\* A backlog has an issue once: File puts in it what is not there.
Without(s, i) ==
    IF \E k \in DOMAIN s : s[k] = i
    THEN RemoveAt(s, CHOOSE k \in DOMAIN s : s[k] = i)
    ELSE s

-----------------------------------------------------------------------------
(* Humans, the review gate that files nits, and kicked drains. *)

\* A nit is filed at the end of the backlog.
File(i) ==
    /\ ~InBacklog(i)
    /\ backlog' = [backlog EXCEPT ![RepoOf[i]] = Append(@, i)]
    /\ UNCHANGED <<missed, slot, tick, drain, beats, setbacks>>

\* A human closes it, or takes its backlog label off.
Withdraw(i) ==
    /\ InBacklog(i)
    /\ backlog' = [backlog EXCEPT ![RepoOf[i]] = Without(@, i)]
    /\ withdrawn' = withdrawn \cup {b \in Beats : pick[b] = i}
    /\ UNCHANGED <<missed, slot, tick, drain, stage, at, due, quota, pick,
                   setbacks>>

\* An issue gets the trigger label and the webhook delivery is lost.
Missed(r) ==
    /\ r \notin missed
    /\ missed' = missed \cup {r}
    /\ UNCHANGED <<backlog, slot, tick, drain, beats, setbacks>>

\* run_adhoc_drain_job finds the drain lock free.
KickTakes(r) ==
    /\ drain[r] = "free"
    /\ drain' = [drain EXCEPT ![r] = "list"]
    /\ UNCHANGED <<backlog, missed, slot, tick, beats, setbacks>>

-----------------------------------------------------------------------------
(* One beat: heartbeat_tick and run_heartbeat. *)

NextTick == (tick + 1) % QuotaEvery

\* The beat is over: run_heartbeat returned or raised.
Over(b) ==
    /\ stage' = [stage EXCEPT ![b] = "off"] /\ at' = [at EXCEPT ![b] = 0]
    /\ due' = [due EXCEPT ![b] = {}] /\ quota' = [quota EXCEPT ![b] = FALSE]
    /\ pick' = [pick EXCEPT ![b] = 0] /\ withdrawn' = withdrawn \ {b}

\* The beat comes to repo r: cron_due decides whether to fire its drain.
Visits(b, r, dueRepos) ==
    /\ stage' = [stage EXCEPT ![b] = IF r \in dueRepos THEN "sweep" ELSE "tick"]
    /\ at' = [at EXCEPT ![b] = r]

\* The tick of its repo is over, raised or not (_safe_cron_tick): on to the
\* next repo.
NextRepo(b) ==
    IF at[b] = NumRepos THEN Over(b)
    ELSE /\ Visits(b, at[b] + 1, due[b])
         /\ pick' = [pick EXCEPT ![b] = 0] /\ withdrawn' = withdrawn \ {b}
         /\ UNCHANGED <<due, quota>>

Moves(b, s) == stage' = [stage EXCEPT ![b] = s]

\* The drain of its repo is over, raised or not (_safe_drain): on to the tick.
ToTick(b) ==
    /\ Moves(b, "tick")
    /\ due' = [due EXCEPT ![b] = @ \ {at[b]}]
    /\ UNCHANGED <<at, quota, pick, withdrawn>>

\* arq starts the job on its minute: the tick number, the instant and the
\* repos are read.
Begin(b) ==
    /\ stage[b] = "off"
    /\ tick' = NextTick
    /\ slot' = (slot + 1) % Slots
    /\ due' = [due EXCEPT ![b] = {r \in Repos : slot \in DueAt[r]}]
    /\ Visits(b, 1, due'[b])
    /\ quota' = [quota EXCEPT ![b] = NextTick = 0]
    /\ UNCHANGED <<backlog, missed, drain, pick, withdrawn, setbacks>>

\* The worker is at its job limit and starts the beat a minute or more late:
\* no cadence matches the instant it reads.
BeginLate(b) ==
    /\ stage[b] = "off"
    /\ Setback
    /\ tick' = NextTick
    /\ slot' = (slot + 1) % Slots
    /\ Visits(b, 1, {})
    /\ quota' = [quota EXCEPT ![b] = NextTick = 0]
    /\ UNCHANGED <<backlog, missed, drain, due, pick, withdrawn>>

\* enumerate_repos raises, for one repo or for all: the beat visits none.
EnumerateRaises(b) ==
    /\ stage[b] = "off"
    /\ Setback
    /\ tick' = NextTick
    /\ slot' = (slot + 1) % Slots
    /\ UNCHANGED <<backlog, missed, drain, beats>>

SweepTakes(b) ==
    /\ stage[b] = "sweep"
    /\ drain[at[b]] = "free"
    /\ drain' = [drain EXCEPT ![at[b]] = "list"]
    /\ Moves(b, "drain")
    /\ UNCHANGED <<backlog, missed, slot, tick, at, due, quota, pick,
                   withdrawn, setbacks>>

\* Mutant of SweepBusy: the busy error is not swallowed and ends the beat.
SweepBusyEndsBeat(b) ==
    /\ stage[b] = "sweep"
    /\ drain[at[b]] # "free"
    /\ Over(b)
    /\ UNCHANGED <<backlog, missed, slot, tick, drain, setbacks>>

\* AdhocDrainBusyError is logged and swallowed.
SweepBusy(b) ==
    /\ stage[b] = "sweep"
    /\ drain[at[b]] # "free"
    /\ ToTick(b)
    /\ UNCHANGED <<backlog, missed, slot, tick, drain, setbacks>>

\* A call before the drain's lock raises.
SweepRaises(b) ==
    /\ stage[b] = "sweep"
    /\ Setback
    /\ ToTick(b)
    /\ UNCHANGED <<backlog, missed, slot, tick, drain>>

\* A drain leaves its lock; the beat that awaits it, if one does, goes on.
LeaveDrain(r) ==
    /\ drain' = [drain EXCEPT ![r] = "free"]
    /\ IF \E b \in Beats : Awaits(b, r)
       THEN ToTick(CHOOSE b \in Beats : Awaits(b, r))
       ELSE UNCHANGED beats

\* The drain lists the repo's ready work, the missed work included.
DrainLists(r) ==
    /\ drain[r] = "list"
    /\ drain' = [drain EXCEPT ![r] = "build"]
    /\ missed' = missed \ {r}
    /\ UNCHANGED <<backlog, slot, tick, beats, setbacks>>

DrainEnds(r) ==
    /\ drain[r] = "build"
    /\ LeaveDrain(r)
    /\ UNCHANGED <<backlog, missed, slot, tick, setbacks>>

DrainRaises(r) ==
    /\ drain[r] # "free"
    /\ Setback
    /\ LeaveDrain(r)
    /\ UNCHANGED <<backlog, missed, slot, tick>>

-----------------------------------------------------------------------------
(* Its cron tick at the repo: run_cron_tick under the repo's CronLock. *)

\* Another beat ticks the repo: CronBusyError is swallowed, the tick is lost.
TickBusy(b) ==
    /\ stage[b] = "tick" /\ CronHeld(at[b])
    /\ Setback
    /\ NextRepo(b)
    /\ UNCHANGED <<backlog, missed, slot, tick, drain>>

\* gh issue list gives the newest PageSize.
Visible(r) ==
    LET n == Len(backlog[r])
    IN  IF n <= PageSize THEN backlog[r] ELSE SubSeq(backlog[r], n - PageSize + 1, n)

\* Mutant of Pick: there is no quota floor.
PickNoFloor(seen, isQuota) ==
    CHOOSE k \in DOMAIN seen : \A j \in DOMAIN seen :
        \/ SeverityOf[seen[j]] < SeverityOf[seen[k]]
        \/ SeverityOf[seen[j]] = SeverityOf[seen[k]] /\ k <= j

\* _pick_issue: the oldest low-priority issue on a quota tick that sees one,
\* else the most severe, the oldest of those (_weighted_score: no age outweighs
\* a step of severity).
Pick(seen, isQuota) ==
    LET low    == {k \in DOMAIN seen : SeverityOf[seen[k]] < MEDIUM}
        worst  == {k \in DOMAIN seen : \A j \in DOMAIN seen :
                      SeverityOf[seen[j]] <= SeverityOf[seen[k]]}
        ranked == IF isQuota /\ low # {} THEN low ELSE worst
    IN  CHOOSE k \in ranked : \A j \in ranked : k <= j

\* list_backlog; an empty backlog is IDLE.  The pick is a function of what was
\* listed, so it is made here.
TakesPick(b) ==
    LET seen == Visible(at[b])
    IN  IF seen = <<>> THEN NextRepo(b)
        ELSE /\ pick' = [pick EXCEPT ![b] = seen[Pick(seen, quota[b])]]
             /\ Moves(b, "gate")
             /\ UNCHANGED <<at, due, quota, withdrawn>>

\* Mutant of TickLists: the tick runs without the lock.
TickListsUnlocked(b) ==
    /\ stage[b] = "tick"
    /\ TakesPick(b)
    /\ UNCHANGED <<backlog, missed, slot, tick, drain, setbacks>>

TickLists(b) ==
    /\ stage[b] = "tick" /\ ~CronHeld(at[b])
    /\ TakesPick(b)
    /\ UNCHANGED <<backlog, missed, slot, tick, drain, setbacks>>

GateAdmits(b) ==
    /\ stage[b] = "gate"
    /\ Moves(b, "promote")
    /\ UNCHANGED <<backlog, missed, slot, tick, drain, at, due, quota, pick,
                   withdrawn, setbacks>>

\* The shared budget is spent: DEFERRED, nothing is picked.
GateDefers(b) ==
    /\ stage[b] = "gate"
    /\ Setback
    /\ NextRepo(b)
    /\ UNCHANGED <<backlog, missed, slot, tick, drain>>

\* promote: one gh issue edit swaps `backlog` for the trigger label.
Promote(b) ==
    /\ stage[b] = "promote"
    /\ backlog' = [backlog EXCEPT ![at[b]] = Without(@, pick[b])]
    /\ NextRepo(b)
    /\ UNCHANGED <<missed, slot, tick, drain, setbacks>>

\* A call of the tick raises; the edit may have landed all the same.
TickRaises(b) ==
    /\ stage[b] \in {"tick", "gate", "promote"}
    /\ Setback
    /\ \/ UNCHANGED backlog
       \/ /\ stage[b] = "promote"
          /\ backlog' = [backlog EXCEPT ![at[b]] = Without(@, pick[b])]
    /\ NextRepo(b)
    /\ UNCHANGED <<missed, slot, tick, drain>>

-----------------------------------------------------------------------------
(* The worker process. *)

\* arq's job_timeout cancels the beat, and the drain it awaits: CancelledError
\* is no Exception, so no per-repo handler stops it.
Timeout(b) ==
    /\ stage[b] # "off"
    /\ Setback
    /\ drain' = IF stage[b] = "drain" THEN [drain EXCEPT ![at[b]] = "free"]
                ELSE drain
    /\ \/ UNCHANGED backlog
       \/ /\ stage[b] = "promote"
          /\ backlog' = [backlog EXCEPT ![at[b]] = Without(@, pick[b])]
    /\ Over(b)
    /\ UNCHANGED <<missed, slot, tick>>

\* The worker restarts, some heartbeats later: locks and beats are gone, and
\* the tick number starts over.
Crash ==
    /\ Setback
    /\ slot' \in 0 .. Slots - 1
    /\ tick' = 0
    /\ drain' = [r \in Repos |-> "free"]
    /\ stage' = [b \in Beats |-> "off"] /\ at' = [b \in Beats |-> 0]
    /\ due' = [b \in Beats |-> {}] /\ quota' = [b \in Beats |-> FALSE]
    /\ pick' = [b \in Beats |-> 0] /\ withdrawn' = {}
    /\ UNCHANGED <<backlog, missed>>

-----------------------------------------------------------------------------
Beat(b) ==
    \/ SweepTakes(b) \/ SweepBusy(b) \/ SweepRaises(b)
    \/ TickLists(b) \/ TickBusy(b)
    \/ GateAdmits(b) \/ GateDefers(b) \/ Promote(b) \/ TickRaises(b)

Drain(r) == DrainLists(r) \/ DrainEnds(r) \/ DrainRaises(r)

Next ==
    \/ \E i \in Issues : File(i) \/ Withdraw(i)
    \/ \E r \in Repos : Missed(r) \/ KickTakes(r)
    \/ \E b \in Beats : Begin(b) \/ BeginLate(b) \/ EnumerateRaises(b)
    \/ \E b \in Beats : Beat(b)
    \/ \E r \in Repos : Drain(r)
    \/ \E b \in Beats : Timeout(b)
    \/ Crash

Spec == Init /\ [][Next]_vars

\* arq fires the heartbeat on its minutes, asyncio resumes every task, and a
\* drain ends.  Kicks and humans owe nothing.
Fairness ==
    /\ WF_vars(\E b \in Beats : Begin(b))
    /\ \A b \in Beats : WF_vars(Beat(b) /\ UNCHANGED setbacks)
    /\ \A r \in Repos : WF_vars(Drain(r) /\ UNCHANGED setbacks)

FairSpec == Spec /\ Fairness

-----------------------------------------------------------------------------
\* run_cron_tick lists and edits under one lock so that "at most one cron run
\* executes at a time": a promotion swaps the labels of an issue that still is
\* in the backlog, unless a human has just taken it out; no other beat has.
PromotesFromBacklog ==
    [][\A b \in Beats :
         Promote(b) => InBacklog(pick[b]) \/ b \in withdrawn]_vars

\* cron.py's quota floor: the low-priority items "provably drain", however
\* steady the stream of severe ones, once the setbacks stop.
LowDrains ==
    \A i \in Issues :
        InBacklog(i) /\ SeverityOf[i] < MEDIUM ~> ~InBacklog(i)

\* run_heartbeat is "the catch-up for issues labeled while the webhook was
\* missed or the worker was down": work of a repo with a cadence is listed by
\* some drain, whatever the other repos' drains do.
MissedIsSwept ==
    \A r \in Repos : r \in missed /\ DueAt[r] # {} ~> r \notin missed
=============================================================================
