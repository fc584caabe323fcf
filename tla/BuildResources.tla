--------------------------- MODULE BuildResources ---------------------------
(***************************************************************************)
(* What a build task borrows: an installation token, out of the per-repo   *)
(* cache of github_app.py that all tasks of the worker share, and a Docker *)
(* container, created, started and removed through container.py.  Tokens   *)
(* expire while they are held; calls fail, jobs time out and the worker    *)
(* stops at any await.                                                     *)
(*                                                                         *)
(* A drain gathers its builds: the first exception ends the drain and its  *)
(* job, and leaves the other builds running, orphaned, with no timeout.    *)
(*                                                                         *)
(* Time is what tokens have left and the job has run for, in ticks.  A     *)
(* drain asks for the token its gh calls use in the same way, when it      *)
(* starts.                                                                 *)
(***************************************************************************)
EXTENDS Integers

CONSTANTS
    Lanes,         \* build tasks of one repo
    Lifetime,      \* of an installation token: GitHub's hour
    Skew,          \* _EXPIRY_SKEW_SECONDS
    JobTimeout,    \* job_timeout_seconds
    MaxFaults      \* bound: failed calls, timeouts and restarts

\* The timeout is only known to be positive: its default, half an hour, is shorter
\* than a token's life.
ASSUME ResourceAssumption ==
    /\ Lifetime \in Nat /\ Skew \in Nat /\ Skew + 1 < Lifetime
    /\ JobTimeout \in Nat \ {0}
    /\ MaxFaults \in Nat

VARIABLES
    cached,      \* what the cached token has left, 0 without one
    stage,       \* the await each task is in
    left,        \* what its token has left
    minted,      \* whether that was minted for it, or came from the cache
    slow,        \* whether its mint has seen a tick
    container,   \* the container it created, on the daemon
    pushed,      \* whether its branch got pushed
    struck,      \* whether a failure hit the start or the removal of it
    orphaned,    \* the tasks that outlived their drain
    age,         \* how long the job of the drain in hand has run
    faults

tokens == <<cached, left, minted, slow>>
box    == <<container, struck>>
job    == <<orphaned, age>>
vars   == <<tokens, stage, box, pushed, job, faults>>

Minting  == {"resolve", "mint", "store"}
Inside   == {"clone", "work", "push"}
Stages   == {"idle", "ask", "image", "create", "start", "destroy", "unwind"}
                \cup Minting \cup Inside

TypeOK ==
    /\ cached \in 0 .. Lifetime
    /\ stage \in [Lanes -> Stages]
    /\ left \in [Lanes -> 0 .. Lifetime]
    /\ minted \in [Lanes -> BOOLEAN]
    /\ slow \in [Lanes -> BOOLEAN]
    /\ container \in [Lanes -> {"none", "created", "running"}]
    /\ pushed \in [Lanes -> BOOLEAN]
    /\ struck \in [Lanes -> BOOLEAN]
    /\ orphaned \subseteq Lanes
    /\ age \in 0 .. JobTimeout
    /\ faults \in 0 .. MaxFaults

Init ==
    /\ cached = 0
    /\ stage = [l \in Lanes |-> "idle"]
    /\ left = [l \in Lanes |-> 0]
    /\ minted = [l \in Lanes |-> FALSE]
    /\ slow = [l \in Lanes |-> FALSE]
    /\ container = [l \in Lanes |-> "none"]
    /\ pushed = [l \in Lanes |-> FALSE]
    /\ struck = [l \in Lanes |-> FALSE]
    /\ orphaned = {}
    /\ age = 0
    /\ faults = 0

Goes(l, s) == stage' = [stage EXCEPT ![l] = s]

Fault == faults < MaxFaults /\ faults' = faults + 1

Running == {l \in Lanes : stage[l] # "idle"}

\* The builds the drain in hand waits for.
Bound == Running \ orphaned

\* build_one returns, or raises: gather passes on the first exception of a drain,
\* and forgets the tasks still running.
Returns(l) == orphaned' = orphaned \ {l}

Escapes(l) ==
    orphaned' = IF l \in orphaned THEN orphaned \ {l} ELSE Running \ {l}

\* A drain, under the repo's lock, starts its builds.  What their last containers
\* left behind is nobody's.
Drain(S) ==
    /\ Bound = {} /\ S # {} /\ S \cap Running = {}
    /\ stage' = [l \in Lanes |-> IF l \in S THEN "ask" ELSE stage[l]]
    /\ left' = [l \in Lanes |-> IF l \in S THEN 0 ELSE left[l]]
    /\ minted' = [l \in Lanes |-> minted[l] /\ l \notin S]
    /\ slow' = [l \in Lanes |-> slow[l] /\ l \notin S]
    /\ container' = [l \in Lanes |-> IF l \in S THEN "none" ELSE container[l]]
    /\ pushed' = [l \in Lanes |-> pushed[l] /\ l \notin S]
    /\ struck' = [l \in Lanes |-> struck[l] /\ l \notin S]
    /\ age' = 0
    /\ UNCHANGED <<cached, orphaned, faults>>

-----------------------------------------------------------------------------
(* installation_token and _mint; nothing keeps two tasks from minting. *)

\* Mutant of IsExpiring: no skew.
IsExpiringLate == cached = 0

\* Mutant of IsExpiring: the entry is never looked at again.
IsExpiringNever == FALSE

IsExpiring == cached <= Skew

Hit(l) ==
    /\ stage[l] = "ask" /\ ~IsExpiring
    /\ Goes(l, "image")
    /\ left' = [left EXCEPT ![l] = cached]
    /\ UNCHANGED <<cached, minted, slow, box, pushed, job, faults>>

\* The app JWT is signed.
Miss(l) ==
    /\ stage[l] = "ask" /\ IsExpiring
    /\ Goes(l, "resolve")
    /\ UNCHANGED <<tokens, box, pushed, job, faults>>

Resolve(l) ==
    /\ stage[l] = "resolve"
    /\ Goes(l, "mint")
    /\ UNCHANGED <<tokens, box, pushed, job, faults>>

\* GitHub's side of the POST; its answer is on the way.
Mint(l) ==
    /\ stage[l] = "mint"
    /\ Goes(l, "store")
    /\ left' = [left EXCEPT ![l] = Lifetime]
    /\ minted' = [minted EXCEPT ![l] = TRUE]
    /\ UNCHANGED <<cached, slow, box, pushed, job, faults>>

\* Mutant of Store: an entry that is there, expiring or not, is kept and used.
StoreDefaults(l) ==
    /\ stage[l] = "store"
    /\ Goes(l, "image")
    /\ cached' = IF cached = 0 THEN left[l] ELSE cached
    /\ left' = [left EXCEPT ![l] = cached']
    /\ UNCHANGED <<minted, slow, box, pushed, job, faults>>

\* The entry is replaced, were it another task's, and newer.
Store(l) ==
    /\ stage[l] = "store"
    /\ Goes(l, "image")
    /\ cached' = left[l]
    /\ UNCHANGED <<left, minted, slow, box, pushed, job, faults>>

-----------------------------------------------------------------------------
(* DockerRuntime.start, the work in the container, and its removal. *)

\* _ensure_image: look for the image, pull it if it is missing.
EnsureImage(l) ==
    /\ stage[l] = "image"
    /\ Goes(l, "create")
    /\ UNCHANGED <<tokens, box, pushed, job, faults>>

Create(l) ==
    /\ stage[l] = "create"
    /\ Goes(l, "start")
    /\ container' = [container EXCEPT ![l] = "created"]
    /\ UNCHANGED <<tokens, struck, pushed, job, faults>>

Start(l) ==
    /\ stage[l] = "start"
    /\ Goes(l, "clone")
    /\ container' = [container EXCEPT ![l] = "running"]
    /\ UNCHANGED <<tokens, struck, pushed, job, faults>>

Clone(l) ==
    /\ stage[l] = "clone" /\ left[l] > 0
    /\ Goes(l, "work")
    /\ UNCHANGED <<tokens, box, pushed, job, faults>>

\* Planner, implementer and a green done-check; later the review gate, with a
\* fix to push.
Work(l) ==
    /\ stage[l] = "work"
    /\ Goes(l, "push")
    /\ UNCHANGED <<tokens, box, pushed, job, faults>>

\* A red done-check, or a gate with nothing more to push.
Settle(l) ==
    /\ stage[l] = "work"
    /\ Goes(l, "destroy")
    /\ UNCHANGED <<tokens, box, pushed, job, faults>>

\* The remote still is the clone URL, with the token in it.  The review gate
\* follows the first push; its fix is the second.
Push(l) ==
    /\ stage[l] = "push" /\ left[l] > 0
    /\ Goes(l, IF pushed[l] THEN "destroy" ELSE "work")
    /\ pushed' = [pushed EXCEPT ![l] = TRUE]
    /\ UNCHANGED <<tokens, box, job, faults>>

\* The token has expired: git fails, and the build raises; a gate that fails to
\* push its fix ends it.
Refused(l) ==
    /\ stage[l] \in {"clone", "push"} /\ left[l] = 0
    /\ Goes(l, IF pushed[l] THEN "destroy" ELSE "unwind")
    /\ UNCHANGED <<tokens, box, pushed, job, faults>>

\* The finally: the build returns, or its exception goes on to the drain.
Destroy(l) ==
    /\ stage[l] \in {"destroy", "unwind"}
    /\ Goes(l, "idle")
    /\ container' = [container EXCEPT ![l] = "none"]
    /\ IF stage[l] = "unwind" THEN Escapes(l) ELSE Returns(l)
    /\ UNCHANGED <<tokens, struck, pushed, age, faults>>

-----------------------------------------------------------------------------
(* Failures. *)

\* Mutant of Unwind: the work fails past the teardown.
UnwindNoFinally(S) ==
    /\ stage' = [l \in Lanes |-> IF l \in S THEN "idle" ELSE stage[l]]
    /\ UNCHANGED box

\* What an exception or a cancellation leaves: work in the container goes on to
\* the finally; a create or a start may have landed, and has no handler; a
\* removal is not tried again, whether it landed or not.
Landed(l) ==
    CASE stage[l] = "create"                -> "created"
      [] stage[l] = "start"                 -> "running"
      [] stage[l] \in {"destroy", "unwind"} -> "none"
      [] OTHER                              -> container[l]

Unwind(S) ==
    /\ stage' = [l \in Lanes |-> IF l \notin S THEN stage[l]
                                 ELSE IF stage[l] \in Inside THEN "unwind"
                                 ELSE "idle"]
    /\ struck' = [l \in Lanes |->
                     \/ struck[l]
                     \/ l \in S /\ stage[l] \in {"create", "start", "destroy", "unwind"}]
    /\ \E landed \in SUBSET S :
         container' = [l \in Lanes |->
                         IF l \in landed THEN Landed(l) ELSE container[l]]

\* A call raises.
Raises(l) ==
    /\ stage[l] # "idle" /\ Fault
    /\ Unwind({l})
    /\ IF stage[l] \in Inside THEN UNCHANGED orphaned ELSE Escapes(l)
    /\ UNCHANGED <<tokens, pushed, age>>

\* The gate turns what it raises into a finding, and the build returns.
GateFails(l) ==
    /\ stage[l] \in {"work", "push"} /\ pushed[l] /\ Fault
    /\ Goes(l, "destroy")
    /\ UNCHANGED <<tokens, box, pushed, job>>

\* The job times out or the worker shuts down: every build that gather waits for
\* is cancelled, and the first to end ends the drain.
Timeout ==
    /\ Bound # {} /\ Fault
    /\ Unwind(Bound)
    /\ orphaned' = IF \A l \in Bound : stage[l] \in Inside THEN orphaned
                   ELSE {l \in Running : l \in orphaned \/ stage[l] \in Inside}
    /\ UNCHANGED <<tokens, pushed, age>>

\* The worker crashes: the cache and the tasks are gone, the containers stay.
Crash ==
    /\ Fault
    /\ cached' = 0
    /\ stage' = [l \in Lanes |-> "idle"]
    /\ struck' = [l \in Lanes |-> struck[l] \/ stage[l] # "idle"]
    /\ \E landed \in SUBSET Lanes :
         container' = [l \in Lanes |->
                         IF l \in landed THEN Landed(l) ELSE container[l]]
    /\ orphaned' = {}
    /\ UNCHANGED <<left, minted, slow, pushed, age>>

\* What a token has left, a tick later.
Less(n) == IF n = 0 THEN 0 ELSE n - 1

\* Time passes.  The two requests of a mint together take less than a tick, and
\* a job that has run for JobTimeout is cancelled: what it still waits for is
\* teardown.  Nothing ends an orphan.
Tick ==
    /\ \A l \in Lanes : stage[l] \in Minting => ~slow[l]
    /\ \A l \in Bound : stage[l] = "unwind" \/ age < JobTimeout
    /\ cached' = Less(cached)
    /\ left' = [l \in Lanes |-> Less(left[l])]
    /\ slow' = [l \in Lanes |-> stage[l] \in Minting]
    /\ age' = IF Bound # {} /\ age < JobTimeout THEN age + 1 ELSE age
    /\ UNCHANGED <<stage, minted, box, pushed, orphaned, faults>>

-----------------------------------------------------------------------------
Step(l) ==
    \/ Hit(l) \/ Miss(l) \/ Resolve(l) \/ Mint(l) \/ Store(l)
    \/ EnsureImage(l) \/ Create(l) \/ Start(l)
    \/ Clone(l) \/ Work(l) \/ Settle(l) \/ Push(l) \/ Refused(l) \/ Destroy(l)

DrainStarts == \E S \in SUBSET Lanes : Drain(S)

Next ==
    \/ \E l \in Lanes : Step(l) \/ Raises(l) \/ GateFails(l)
    \/ DrainStarts \/ Timeout \/ Crash \/ Tick

Spec == Init /\ [][Next]_vars

\* Awaits end and drains come.  A job that would outlast its timeout is one of
\* the bounded faults.
FairSpec ==
    /\ Spec /\ WF_vars(DrainStarts)
    /\ \A l \in Lanes : WF_vars(Step(l))

-----------------------------------------------------------------------------
\* _is_expiring: a token is handed out with more than the skew left, from the
\* cache or from a mint, whichever task's answer comes late or overwrites whose.
HandedOutFresh ==
    [][\A l \in Lanes :
         stage[l] # "image" /\ stage'[l] = "image" => left'[l] > Skew]_vars

\* A timeout shorter than a token's life keeps expired tokens from the builds that
\* got theirs minted: a refused build had it from the cache, or was orphaned by the
\* failure of another, and then outlived the job that the timeout is about.
MintedLastsJob ==
    [][\A l \in Lanes :
         Refused(l) /\ minted[l] => l \in orphaned \/ JobTimeout >= Lifetime]_vars

\* "Guaranteed teardown" (container_build.py): a container outlives its build
\* only if a failure hit its own start or removal, or the worker crashed.
ContainersTornDown ==
    \A l \in Lanes : stage[l] = "idle" /\ container[l] # "none" => struck[l]

\* Builds refused with an expired token are not all there is: the entry is
\* renewed, and time and again a build gets past its done-check, once the faults
\* stop.  One thing can prevent it for ever: the exception of a refused build
\* orphans one with a token just minted, which then takes its time until it is
\* refused too.
VerdictsKeepComing ==
    \/ []<><<\E l \in Lanes : Push(l) \/ Settle(l)>>_vars
    \/ []<><<\E l \in orphaned : Refused(l)>>_vars
=============================================================================
