------------------------ MODULE BuildResources_proofs ------------------------
(***************************************************************************)
(* What builds borrow, for any number of builds, any life of a token, any  *)
(* timeout and any number of faults: tokens are handed out fresh, a minted *)
(* one lasts as long as its job may run, containers are torn down.         *)
(***************************************************************************)
EXTENDS BuildResources, TLAPS

-----------------------------------------------------------------------------
(* Types. *)

\* What a task may do on its own.
Own(l) == Step(l) \/ Raises(l) \/ GateFails(l)

\* Interrupted or not, a task is in a stage and its container in a state.
LEMMA UnwindTyped ==
    ASSUME TypeOK, NEW S \in SUBSET Lanes, Unwind(S)
    PROVE  /\ stage' \in [Lanes -> Stages]
           /\ container' \in [Lanes -> {"none", "created", "running"}]
           /\ struck' \in [Lanes -> BOOLEAN]
<1>1. \A l \in Lanes : Landed(l) \in {"none", "created", "running"}
  BY DEF Landed, TypeOK
<1> QED  BY <1>1 DEF Unwind, TypeOK, Stages

\* Every step of a build keeps the types of the module, and so do its drain, the
\* tick and the failures.
LEMMA TypeStep == TypeOK /\ [Next]_vars => TypeOK'
<1> SUFFICES ASSUME TypeOK, [Next]_vars PROVE TypeOK'
  OBVIOUS
<1> USE ResourceAssumption DEF tokens, box, job
<1>1. ASSUME NEW l \in Lanes, Hit(l) \/ Miss(l) \/ Resolve(l) \/ Mint(l) \/ Store(l)
      PROVE  TypeOK'
  <2> USE DEF TypeOK, Stages, Minting, Goes
  <2>1. CASE Hit(l)
    BY <2>1 DEF Hit
  <2>2. CASE Miss(l) \/ Resolve(l)
    BY <2>2 DEF Miss, Resolve
  <2>3. CASE Mint(l)
    BY <2>3 DEF Mint
  <2>4. CASE Store(l)
    BY <2>4 DEF Store
  <2> QED  BY <1>1, <2>1, <2>2, <2>3, <2>4
<1>2. ASSUME NEW l \in Lanes, EnsureImage(l) \/ Create(l) \/ Start(l)
      PROVE  TypeOK'
  BY <1>2 DEF TypeOK, Stages, Inside, EnsureImage, Create, Start, Goes
<1>3. ASSUME NEW l \in Lanes,
             \/ Clone(l) \/ Work(l) \/ Settle(l) \/ Push(l) \/ Refused(l)
             \/ GateFails(l)
      PROVE  TypeOK'
  <2> USE DEF TypeOK, Stages, Inside, Goes
  <2>1. CASE Clone(l) \/ Work(l) \/ Settle(l)
    BY <2>1 DEF Clone, Work, Settle
  <2>2. CASE Push(l)
    BY <2>2 DEF Push
  <2>3. CASE Refused(l)
    BY <2>3 DEF Refused
  <2>4. CASE GateFails(l)
    BY <2>4 DEF GateFails, Fault
  <2> QED  BY <1>3, <2>1, <2>2, <2>3, <2>4
<1>4. ASSUME NEW l \in Lanes, Destroy(l) PROVE TypeOK'
  BY <1>4 DEF TypeOK, Stages, Destroy, Escapes, Returns, Running, Goes
<1>5. ASSUME NEW l \in Lanes, Raises(l) PROVE TypeOK'
  BY <1>5, UnwindTyped DEF TypeOK, Raises, Escapes, Running, Fault
<1>6. CASE Timeout
  <2>1. Bound \in SUBSET Lanes
    BY DEF Bound, Running
  <2> QED  BY <1>6, <2>1, UnwindTyped DEF TypeOK, Timeout, Running, Fault
<1>7. ASSUME NEW S \in SUBSET Lanes, Drain(S) PROVE TypeOK'
  BY <1>7 DEF TypeOK, Stages, Drain
<1>8. CASE Crash
  BY <1>8 DEF TypeOK, Stages, Crash, Landed, Fault
<1>9. CASE Tick
  BY <1>9 DEF TypeOK, Tick, Less
<1>10. CASE UNCHANGED vars
  BY <1>10 DEF TypeOK, vars
<1> QED
  BY <1>1, <1>2, <1>3, <1>4, <1>5, <1>6, <1>7, <1>8, <1>9, <1>10
     DEF Next, Step, DrainStarts

-----------------------------------------------------------------------------
(* What a task has borrowed. *)

\* A token under way was minted a tick ago at most.
Fresh(l) ==
    stage[l] = "store" =>
        left[l] >= Lifetime - 1 /\ (~slow[l] => left[l] = Lifetime)

\* A token minted for a task that its drain still waits for has aged no more than
\* the job; what is being torn down needs it no more.
Lasting(l) ==
    /\ stage[l] \in {"ask", "resolve", "mint"} => ~minted[l]
    /\ minted[l] /\ stage[l] \notin {"idle", "unwind"} /\ l \notin orphaned
          => left[l] + age >= Lifetime

\* There is no container before its creation, and none after the task unless a
\* failure hit the start or the removal.
Unused == {"ask", "image", "create"} \cup Minting

Contained(l) ==
    /\ stage[l] \in Unused => container[l] = "none"
    /\ stage[l] = "idle" /\ container[l] # "none" => struck[l]

Sound(l) == Fresh(l) /\ Lasting(l) /\ Contained(l)

Inv == TypeOK /\ \A l \in Lanes : Sound(l)

\* A task on its own leaves what the others have borrowed alone; at most it
\* orphans them.
LEMMA OthersKept ==
    ASSUME NEW l \in Lanes, TypeOK, Own(l), NEW m \in Lanes, m # l, Sound(m)
    PROVE  Sound(m)'
<1>1. /\ stage'[m] = stage[m] /\ left'[m] = left[m] /\ minted'[m] = minted[m]
      /\ slow'[m] = slow[m] /\ age' = age
      /\ container'[m] = container[m] /\ struck'[m] = struck[m]
      /\ stage[m] # "idle" /\ m \notin orphaned' => m \notin orphaned
  <2> USE DEF TypeOK, Goes, tokens, box, job
  <2>1. CASE Hit(l) \/ Miss(l) \/ Resolve(l) \/ Mint(l) \/ Store(l)
    BY <2>1 DEF Hit, Miss, Resolve, Mint, Store
  <2>2. CASE EnsureImage(l) \/ Create(l) \/ Start(l)
    BY <2>2 DEF EnsureImage, Create, Start
  <2>3. CASE Clone(l) \/ Work(l) \/ Settle(l) \/ Push(l) \/ Refused(l) \/ GateFails(l)
    BY <2>3 DEF Clone, Work, Settle, Push, Refused, GateFails
  <2>4. CASE Destroy(l)
    BY <2>4 DEF Destroy, Escapes, Returns, Running
  <2>5. CASE Raises(l)
    BY <2>5 DEF Raises, Unwind, Escapes, Running
  <2> QED  BY <2>1, <2>2, <2>3, <2>4, <2>5 DEF Own, Step
<1> QED  BY <1>1 DEF Sound, Fresh, Lasting, Contained, Unused, Minting

\* The steps of a task on its own token and container.
LEMMA OwnKept ==
    ASSUME NEW l \in Lanes, TypeOK, Step(l) \/ GateFails(l), Sound(l)
    PROVE  Sound(l)'
<1> USE ResourceAssumption DEF TypeOK, Goes, Stages, Minting, Inside, Sound, Fresh,
                               Lasting, Contained, Unused, tokens, box, job
<1>1. CASE Hit(l)
  BY <1>1 DEF Hit
<1>2. CASE Miss(l) \/ Resolve(l)
  BY <1>2 DEF Miss, Resolve
<1>3. CASE Mint(l)
  BY <1>3 DEF Mint
<1>4. CASE Store(l)
  BY <1>4 DEF Store
<1>5. CASE EnsureImage(l) \/ Create(l) \/ Start(l)
  BY <1>5 DEF EnsureImage, Create, Start
<1>6. CASE Clone(l) \/ Work(l) \/ Settle(l) \/ Push(l) \/ Refused(l)
  BY <1>6 DEF Clone, Work, Settle, Push, Refused
<1>7. CASE GateFails(l)
  BY <1>7 DEF GateFails
<1>8. CASE Destroy(l)
  BY <1>8 DEF Destroy
<1> QED  BY <1>1, <1>2, <1>3, <1>4, <1>5, <1>6, <1>7, <1>8 DEF Step

\* Interrupted tasks, and those that are not: what is left in a container is
\* either on its way to the teardown or struck.
LEMMA UnwindKept ==
    ASSUME TypeOK, NEW S \in SUBSET Lanes, Unwind(S), UNCHANGED <<tokens, age>>,
           NEW m \in Lanes, Sound(m),
           stage[m] # "idle" /\ m \notin S /\ m \notin orphaned' => m \notin orphaned
    PROVE  Sound(m)'
<1>1. CASE m \notin S
  <2>1. stage'[m] = stage[m] /\ container'[m] = container[m] /\ struck'[m] = struck[m]
    BY <1>1 DEF Unwind, TypeOK
  <2> QED  BY <1>1, <2>1 DEF Sound, Fresh, Lasting, Contained, Unused, Minting, tokens
<1>2. CASE m \in S
  <2>1. stage'[m] = IF stage[m] \in Inside THEN "unwind" ELSE "idle"
    BY <1>2 DEF Unwind
  <2>2. Fresh(m)' /\ Lasting(m)'
    BY <2>1 DEF Fresh, Lasting
  <2>3. /\ container'[m] = container[m] \/ container'[m] = Landed(m)
        /\ struck'[m] = \/ struck[m]
                        \/ stage[m] \in {"create", "start", "destroy", "unwind"}
    BY <1>2 DEF Unwind, TypeOK
  <2>4. Contained(m)'
    BY <2>1, <2>3 DEF Sound, Contained, Landed, Unused, Minting, Inside, TypeOK, Stages
  <2> QED  BY <2>2, <2>4 DEF Sound
<1> QED  BY <1>1, <1>2

\* Time takes as much from the token of a task as it adds to the job that waits
\* for the task.
LEMMA TickKept ==
    ASSUME TypeOK, Tick, NEW m \in Lanes, Sound(m)
    PROVE  Sound(m)'
<1>1. /\ stage' = stage /\ container' = container /\ struck' = struck
      /\ minted' = minted /\ orphaned' = orphaned
  BY DEF Tick, box
<1>2. /\ left'[m] = Less(left[m])
      /\ slow'[m] = (stage[m] \in Minting)
      /\ stage[m] \in Minting => ~slow[m]
  BY DEF Tick
<1>3. left[m] \in Nat /\ age \in Nat
  BY ResourceAssumption DEF TypeOK
<1>4. Fresh(m)'
  <2>1. ASSUME stage[m] = "store"
        PROVE  left'[m] >= Lifetime - 1 /\ slow'[m]
    <3>1. stage[m] \in Minting
      BY <2>1 DEF Minting
    <3>2. slow'[m] /\ ~slow[m]
      BY <1>2, <3>1, Zenon
    <3>3. left[m] = Lifetime
      BY <2>1, <3>2 DEF Sound, Fresh
    <3> QED  BY <1>2, <1>3, <3>2, <3>3, ResourceAssumption DEF Less
  <2> QED  BY <1>1, <2>1 DEF Fresh
<1>5. Lasting(m)'
  <2>1. ASSUME stage[m] \notin {"idle", "unwind"}, m \notin orphaned
        PROVE  age' = age + 1
    BY <2>1 DEF Tick, Bound, Running
  <2> QED  BY <1>1, <1>2, <1>3, <2>1, ResourceAssumption DEF Sound, Lasting, Less
<1>6. Contained(m)'
  BY <1>1 DEF Sound, Contained, Unused, Minting
<1> QED  BY <1>4, <1>5, <1>6 DEF Sound

\* Inv is inductive: a drain begins when the last one's builds are done or
\* orphaned, and a crash ends every task.
LEMMA InvStep == Inv /\ [Next]_vars => Inv'
<1> SUFFICES ASSUME Inv, [Next]_vars PROVE Inv'
  OBVIOUS
<1>1. TypeOK'
  BY TypeStep DEF Inv
<1>2. ASSUME NEW m \in Lanes PROVE Sound(m)'
  <2>1. Sound(m) /\ TypeOK
    BY DEF Inv
  <2>2. ASSUME NEW l \in Lanes, Step(l) \/ GateFails(l) PROVE Sound(m)'
    BY <2>1, <2>2, OthersKept, OwnKept DEF Own
  <2>3. ASSUME NEW l \in Lanes, Raises(l) PROVE Sound(m)'
    <3>1. CASE m # l
      BY <2>1, <2>3, <3>1, OthersKept DEF Own
    <3>2. CASE m = l
      BY <2>1, <2>3, <3>2, UnwindKept DEF Raises
    <3> QED  BY <3>1, <3>2
  <2>4. CASE Timeout
    <3>1. Bound \in SUBSET Lanes
      BY DEF Bound, Running
    <3>2. stage[m] # "idle" /\ m \notin orphaned' => m \notin orphaned
      BY <2>4 DEF Timeout, Running
    <3> QED  BY <2>1, <2>4, <3>1, <3>2, UnwindKept DEF Timeout
  <2>5. ASSUME NEW S \in SUBSET Lanes, Drain(S) PROVE Sound(m)'
    <3>1. CASE m \in S
      BY <2>5, <3>1 DEF Drain, Sound, Fresh, Lasting, Contained, Unused
    <3>2. CASE m \notin S
      <4>1. /\ stage'[m] = stage[m] /\ left'[m] = left[m] /\ minted'[m] = minted[m]
            /\ slow'[m] = slow[m] /\ orphaned' = orphaned
            /\ container'[m] = container[m] /\ struck'[m] = struck[m]
        BY <2>1, <2>5, <3>2 DEF Drain, TypeOK
      <4>2. stage[m] # "idle" => m \in orphaned
        BY <2>5 DEF Drain, Bound, Running
      <4> QED
        BY <2>1, <4>1, <4>2 DEF Sound, Fresh, Lasting, Contained, Unused, Minting
    <3> QED  BY <3>1, <3>2
  <2>6. CASE Crash
    <3>1. stage'[m] = "idle" /\ struck'[m] = (struck[m] \/ stage[m] # "idle")
      BY <2>6 DEF Crash
    <3>2. container'[m] = container[m] \/ container'[m] = Landed(m)
      BY <2>1, <2>6 DEF Crash, TypeOK
    <3>3. stage[m] = "idle" => container'[m] = container[m]
      BY <3>2 DEF Landed
    <3> QED
      BY <2>1, <3>1, <3>3 DEF Sound, Fresh, Lasting, Contained, Unused, Minting
  <2>7. CASE Tick
    BY <2>1, <2>7, TickKept
  <2>8. CASE UNCHANGED vars
    BY <2>1, <2>8 DEF vars, tokens, box, job, Sound, Fresh, Lasting, Contained, Unused,
                      Minting
  <2> QED
    BY <2>2, <2>3, <2>4, <2>5, <2>6, <2>7, <2>8 DEF Next, DrainStarts
<1> QED  BY <1>1, <1>2 DEF Inv

LEMMA InvHolds == Spec => []Inv
<1>1. Init => Inv
  BY ResourceAssumption
     DEF Init, Inv, TypeOK, Stages, Sound, Fresh, Lasting, Contained, Unused, Minting
<1> QED  BY <1>1, InvStep, PTL DEF Spec

-----------------------------------------------------------------------------
(* The theorems. *)

\* _is_expiring of github_app.py: whoever stores last, whatever fails, no task
\* gets a token within the skew of its end.
THEOREM TokensFresh == Spec => HandedOutFresh
<1> DEFINE Out(l) ==
        stage[l] # "image" /\ stage'[l] = "image" => left'[l] > Skew
<1>1. ASSUME Inv, [Next]_vars, NEW m \in Lanes PROVE Out(m)
  <2>1. Sound(m) /\ TypeOK
    BY <1>1 DEF Inv
  <2>2. CASE UNCHANGED vars \/ Tick \/ Crash \/ Timeout
    BY <2>1, <2>2 DEF vars, Tick, Crash, Timeout, Unwind, TypeOK
  <2>3. CASE DrainStarts
    BY <2>1, <2>3 DEF DrainStarts, Drain, TypeOK
  <2>4. ASSUME NEW l \in Lanes, Own(l) PROVE Out(m)
    <3> USE <2>1 DEF TypeOK, Goes
    <3>1. CASE Hit(l)
      BY <3>1, ResourceAssumption DEF Hit, IsExpiring
    <3>2. CASE Store(l)
      BY <3>2, ResourceAssumption DEF Store, Sound, Fresh
    <3>3. CASE Miss(l) \/ Resolve(l) \/ Mint(l)
      BY <3>3 DEF Miss, Resolve, Mint
    <3>4. CASE EnsureImage(l) \/ Create(l) \/ Start(l) \/ Destroy(l)
      BY <3>4 DEF EnsureImage, Create, Start, Destroy
    <3>5. CASE \/ Clone(l) \/ Work(l) \/ Settle(l) \/ Push(l) \/ Refused(l)
               \/ GateFails(l)
      BY <3>5 DEF Clone, Work, Settle, Push, Refused, GateFails
    <3>6. CASE Raises(l)
      BY <3>6 DEF Raises, Unwind
    <3> QED  BY <2>4, <3>1, <3>2, <3>3, <3>4, <3>5, <3>6 DEF Own, Step
  <2> QED  BY <1>1, <2>2, <2>3, <2>4 DEF Next, Own
<1>2. Inv /\ [Next]_vars => [\A l \in Lanes : Out(l)]_vars
  BY <1>1
<1> QED  BY <1>2, InvHolds, PTL DEF Spec, HandedOutFresh

\* A token minted for a build is refused, with a timeout shorter than a token's
\* life, only to a build that a failing sibling has orphaned.
THEOREM MintsLast == Spec => MintedLastsJob
<1> DEFINE Lasts(l) ==
        Refused(l) /\ minted[l] => l \in orphaned \/ JobTimeout >= Lifetime
<1>1. ASSUME Inv, NEW l \in Lanes PROVE Lasts(l)
  BY <1>1, ResourceAssumption DEF Inv, TypeOK, Sound, Lasting, Refused
<1>2. Inv => [\A l \in Lanes : Lasts(l)]_vars
  BY <1>1
<1> QED  BY <1>2, InvHolds, PTL DEF MintedLastsJob

\* "Guaranteed teardown" (container_build.py), and the two places it does not
\* reach.
THEOREM TornDown == Spec => []ContainersTornDown
<1>1. Inv => ContainersTornDown
  BY DEF Inv, Sound, Contained, ContainersTornDown
<1> QED  BY <1>1, InvHolds, PTL
=============================================================================
