-------------------------- MODULE Heartbeat_proofs --------------------------
(***************************************************************************)
(* Proofs about the heartbeat: the cron lane and the sweep before it, for  *)
(* every number of repos and beats, every backlog, listing, cadence and    *)
(* bound on changes and setbacks.                                          *)
(*                                                                         *)
(* That a promotion is of an issue still in the backlog is not inductive.  *)
(* It rests on the per-repo lock, under which a tick lists and edits: no   *)
(* two beats tick one repo (TicksAlone), so between a beat's listing and   *)
(* its edit only a human takes its pick out; and on a backlog holding only *)
(* issues of its own repo (FiledAtHome), so that beats at other repos have *)
(* other picks.                                                            *)
(*                                                                         *)
(* Which drains a beat fires is CronMatch's: its matcher, written with     *)
(* ranges and remainders, reads every cadence that keeps to its fields'    *)
(* bounds as a walk over their values does (CadenceRead), so the sweep     *)
(* fires the drains that are named (FiresNamed).                           *)
(*                                                                         *)
(* That a sweep lists every repo it owes holds only at its end.  Until     *)
(* then, while no listing has lost an entry: the entries on pages asked    *)
(* for are listed, each once (PagesApps, PagesRepos), and the repos owed   *)
(* are listed, or on later pages, or with later installations.             *)
(* Dropping walks a listing entry by entry: the induction over its length  *)
(* is the least-number principle, for a set of numbers (Numbers).          *)
(***************************************************************************)
EXTENDS CronLane, Sweep, SequenceTheorems, FiniteSetTheorems,
        WellFoundedInduction, TLAPS

\* A backlog is of its repo's issues.
FiledAtHome ==
    \A r \in Repos : \A k \in DOMAIN backlog[r] : RepoOf[backlog[r][k]] = r

\* A beat under way is at a repo.
BeatsPlaced == \A b \in Beats : stage[b] # "off" => at[b] \in Repos

\* A beat between the listing of its cron tick and the end of it.
Ticking(b) == stage[b] \in {"gate", "promote"}

\* cron.py: "at most one cron run executes at a time", in each repo.
TicksAlone ==
    \A b, c \in Beats : Ticking(b) /\ Ticking(c) /\ at[b] = at[c] => b = c

\* A tick's pick is of its repo, and still there unless a human took it.
PickKnown ==
    \A b \in Beats : Ticking(b) =>
        /\ pick[b] \in Issues
        /\ RepoOf[pick[b]] = at[b]
        /\ InBacklog(pick[b]) \/ b \in withdrawn

TickInv == FiledAtHome /\ BeatsPlaced /\ TicksAlone /\ PickKnown

\* A backlog lists an issue once, as Without takes for granted.
FiledOnce ==
    \A r \in Repos : \A j, k \in DOMAIN backlog[r] :
        backlog[r][j] = backlog[r][k] => j = k

-----------------------------------------------------------------------------
(* Sequences. *)

\* What RemoveAt leaves of a sequence.
LEMMA RemoveAtLeaves ==
    ASSUME NEW S, NEW s \in Seq(S), NEW k \in 1..Len(s)
    PROVE  /\ RemoveAt(s, k) \in Seq(S)
           /\ Len(RemoveAt(s, k)) = Len(s) - 1
           /\ \A m \in 1..(Len(s) - 1) :
                RemoveAt(s, k)[m] = IF m < k THEN s[m] ELSE s[m + 1]
<1> DEFINE n == Len(s)
           head == SubSeq(s, 1, k - 1)
           tail == SubSeq(s, k + 1, n)
<1>1. n \in Nat /\ k \in Int /\ \A i \in 1..n : s[i] \in S
  BY LenProperties, ElementOfSeq
<1>2. /\ head \in Seq(S) /\ Len(head) = k - 1
      /\ \A i \in 1..(k - 1) : head[i] = s[i]
  <2>1. 1 \in Int /\ k - 1 \in Int /\ \A i \in 1..(k - 1) : s[i] \in S
    BY <1>1
  <2>2. /\ head \in Seq(S) /\ Len(head) = IF 1 <= k - 1 THEN k - 1 - 1 + 1 ELSE 0
        /\ \A i \in 1..(k - 1 - 1 + 1) : head[i] = s[1 + i - 1]
    BY <2>1, SubSeqProperties
  <2> QED  BY <1>1, <2>2
<1>3. /\ tail \in Seq(S) /\ Len(tail) = n - k
      /\ \A i \in 1..(n - k) : tail[i] = s[k + i]
  <2>1. k + 1 \in Int /\ n \in Int /\ \A i \in (k + 1)..n : s[i] \in S
    BY <1>1
  <2>2. /\ tail \in Seq(S)
        /\ Len(tail) = IF k + 1 <= n THEN n - (k + 1) + 1 ELSE 0
        /\ \A i \in 1..(n - (k + 1) + 1) : tail[i] = s[(k + 1) + i - 1]
    BY <2>1, SubSeqProperties
  <2> QED  BY <1>1, <2>2
<1> HIDE DEF head, tail
<1>4. /\ head \o tail \in Seq(S) /\ Len(head \o tail) = Len(head) + Len(tail)
      /\ \A i \in 1..(Len(head) + Len(tail)) : (head \o tail)[i] =
           IF i <= Len(head) THEN head[i] ELSE tail[i - Len(head)]
  BY <1>2, <1>3, ConcatProperties
<1>5. RemoveAt(s, k) = head \o tail
  BY DEF RemoveAt, head, tail
<1>6. ASSUME NEW m \in 1..(n - 1)
      PROVE  (head \o tail)[m] = IF m < k THEN s[m] ELSE s[m + 1]
  <2>1. CASE m < k
    <3>1. m \in 1..(k - 1) /\ m <= k - 1 /\ m \in 1..((k - 1) + (n - k))
      BY <1>1, <2>1
    <3>2. (head \o tail)[m] = head[m]
      BY <1>2, <1>3, <1>4, <3>1
    <3> QED  BY <1>2, <2>1, <3>1, <3>2
  <2>2. CASE ~(m < k)
    <3>1. /\ ~(m <= k - 1) /\ m - (k - 1) \in 1..(n - k)
          /\ k + (m - (k - 1)) = m + 1 /\ m \in 1..((k - 1) + (n - k))
      BY <1>1, <2>2
    <3>2. (head \o tail)[m] = tail[m - (k - 1)]
      BY <1>2, <1>3, <1>4, <3>1
    <3>3. tail[m - (k - 1)] = s[k + (m - (k - 1))]
      BY <1>3, <3>1
    <3> QED  BY <2>2, <3>1, <3>2, <3>3
  <2> QED  BY <2>1, <2>2
<1>7. Len(head \o tail) = n - 1
  BY <1>1, <1>2, <1>3, <1>4
<1> QED  BY <1>4, <1>5, <1>6, <1>7

\* Without takes one occurrence out of a backlog that has the issue.
LEMMA WithoutAt ==
    ASSUME NEW s \in Seq(Issues), NEW i, \E k \in DOMAIN s : s[k] = i
    PROVE  \E k \in 1..Len(s) :
             /\ s[k] = i
             /\ Without(s, i) \in Seq(Issues)
             /\ Len(Without(s, i)) = Len(s) - 1
             /\ \A m \in 1..(Len(s) - 1) :
                  Without(s, i)[m] = IF m < k THEN s[m] ELSE s[m + 1]
<1> DEFINE k == CHOOSE k \in DOMAIN s : s[k] = i
<1>1. k \in 1..Len(s) /\ s[k] = i
  BY LenProperties
<1>2. Without(s, i) = RemoveAt(s, k)
  BY DEF Without
<1> HIDE DEF k
<1> QED  BY <1>1, <1>2, RemoveAtLeaves

\* Taking an issue out of a backlog leaves all the others, and adds none.
LEMMA WithoutLeaves ==
    ASSUME NEW s \in Seq(Issues), NEW i
    PROVE  /\ Without(s, i) \in Seq(Issues)
           /\ \A k \in DOMAIN Without(s, i) : \E m \in DOMAIN s :
                Without(s, i)[k] = s[m]
           /\ \A m \in DOMAIN s : s[m] # i => \E k \in DOMAIN Without(s, i) :
                Without(s, i)[k] = s[m]
<1>1. CASE ~ \E k \in DOMAIN s : s[k] = i
  BY <1>1 DEF Without
<1>2. CASE \E k \in DOMAIN s : s[k] = i
  <2> DEFINE t == Without(s, i)
             n == Len(s)
  <2>1. PICK k \in 1..n :
          /\ s[k] = i
          /\ t \in Seq(Issues) /\ Len(t) = n - 1
          /\ \A m \in 1..(n - 1) : t[m] = IF m < k THEN s[m] ELSE s[m + 1]
    BY <1>2, WithoutAt
  <2>2. n \in Nat /\ DOMAIN s = 1..n /\ DOMAIN t = 1..(n - 1)
    BY <2>1, LenProperties
  <2> HIDE DEF t, n
  <2>3. ASSUME NEW m \in DOMAIN t PROVE \E j \in DOMAIN s : t[m] = s[j]
    <3>1. CASE m < k
      BY <2>1, <2>2, <3>1
    <3>2. CASE ~(m < k)
      <4>1. m \in 1..(n - 1) /\ m + 1 \in DOMAIN s
        BY <2>1, <2>2
      <4> QED  BY <2>1, <3>2, <4>1
    <3> QED  BY <3>1, <3>2
  <2>4. ASSUME NEW m \in DOMAIN s, s[m] # i
        PROVE  \E j \in DOMAIN t : t[j] = s[m]
    <3>1. CASE m < k
      BY <2>1, <2>2, <3>1
    <3>2. CASE m > k
      <4>1. m - 1 \in 1..(n - 1) /\ ~(m - 1 < k) /\ (m - 1) + 1 = m
        BY <2>1, <2>2, <3>2
      <4> QED  BY <2>1, <2>2, <4>1
    <3> QED  BY <2>1, <2>4, <3>1, <3>2
  <2> QED  BY <2>1, <2>3, <2>4 DEF t
<1> QED  BY <1>1, <1>2

\* Of a backlog that lists each issue once, taking one out leaves one that does,
\* without it.
LEMMA WithoutOnce ==
    ASSUME NEW s \in Seq(Issues), NEW i,
           \A j, k \in DOMAIN s : s[j] = s[k] => j = k
    PROVE  /\ \A j, k \in DOMAIN Without(s, i) :
                Without(s, i)[j] = Without(s, i)[k] => j = k
           /\ \A k \in DOMAIN Without(s, i) : Without(s, i)[k] # i
<1>1. CASE ~ \E k \in DOMAIN s : s[k] = i
  BY <1>1 DEF Without
<1>2. CASE \E k \in DOMAIN s : s[k] = i
  <2> DEFINE t == Without(s, i)
             n == Len(s)
  <2>1. PICK k \in 1..n :
          /\ s[k] = i
          /\ t \in Seq(Issues) /\ Len(t) = n - 1
          /\ \A m \in 1..(n - 1) : t[m] = IF m < k THEN s[m] ELSE s[m + 1]
    BY <1>2, WithoutAt
  <2>2. n \in Nat /\ DOMAIN s = 1..n /\ DOMAIN t = 1..(n - 1)
    BY <2>1, LenProperties
  <2> HIDE DEF t, n
  <2> DEFINE from(m) == IF m < k THEN m ELSE m + 1
  <2>3. \A m \in DOMAIN t : t[m] = s[from(m)]
    BY <2>1, <2>2
  <2>4. \A m \in DOMAIN t : from(m) \in DOMAIN s /\ from(m) # k
    BY <2>1, <2>2
  <2>5. \A m, j \in DOMAIN t : from(m) = from(j) => m = j
    BY <2>1, <2>2
  <2> HIDE DEF from
  <2>6. \A m, j \in DOMAIN t : t[m] = t[j] => m = j
    BY <2>3, <2>4, <2>5
  <2>7. \A m \in DOMAIN t : t[m] # i
    BY <2>1, <2>2, <2>3, <2>4
  <2> QED  BY <2>6, <2>7 DEF t
<1> QED  BY <1>1, <1>2

\* What gh issue list shows is of the backlog.
LEMMA VisibleOfBacklog ==
    ASSUME TypeOK, NEW r \in Repos
    PROVE  /\ Visible(r) \in Seq(Issues)
           /\ \A k \in DOMAIN Visible(r) : \E m \in DOMAIN backlog[r] :
                Visible(r)[k] = backlog[r][m]
<1> DEFINE s == backlog[r]
           n == Len(s)
           m == n - PageSize + 1
<1>1. s \in Seq(Issues) /\ n \in Nat /\ DOMAIN s = 1..n /\ PageSize \in Nat
  BY CronAssumption, LenProperties DEF TypeOK
<1>2. CASE n <= PageSize
  BY <1>1, <1>2 DEF Visible
<1>3. CASE ~(n <= PageSize)
  <2>1. m \in Int /\ n \in Int /\ m >= 1 /\ \A i \in m..n : i \in 1..n
    BY <1>1, <1>3
  <2>2. \A i \in m..n : s[i] \in Issues
    BY <1>1, <2>1, ElementOfSeq
  <2>3. Visible(r) = SubSeq(s, m, n)
    BY <1>3 DEF Visible
  <2> HIDE DEF s, n, m
  <2>4. /\ SubSeq(s, m, n) \in Seq(Issues)
        /\ Len(SubSeq(s, m, n)) = IF m <= n THEN n - m + 1 ELSE 0
        /\ \A i \in 1..(n - m + 1) : SubSeq(s, m, n)[i] = s[m + i - 1]
    BY <2>1, <2>2, SubSeqProperties
  <2>5. \A i \in DOMAIN SubSeq(s, m, n) :
          i \in 1..(n - m + 1) /\ m + i - 1 \in 1..n
    BY <2>1, <2>4, LenProperties
  <2> QED  BY <1>1, <2>3, <2>4, <2>5 DEF s
<1> QED  BY <1>2, <1>3

\* Among finite sets some set includes no other properly.
LEMMA LeastSet ==
    ASSUME NEW U, IsFiniteSet(U), NEW F \in SUBSET (SUBSET U), F # {}
    PROVE  \E A \in F : \A B \in F : B \subseteq A => B = A
<1>1. IsWellFoundedOn(StrictSubsetOrdering(U), SUBSET U)
  BY FS_StrictSubsetOrderingWellFounded, FS_FiniteSubsetsOfFinite
<1>2. PICK A \in F : \A B \in F : <<B, A>> \notin StrictSubsetOrdering(U)
  BY <1>1, WFMin
<1> QED  BY <1>2 DEF StrictSubsetOrdering

\* Of the positions in a list some kind has, one is the first.
LEMMA FirstOf ==
    ASSUME NEW n \in Nat, NEW S \in SUBSET (1..n), S # {}
    PROVE  \E k \in S : \A j \in S : k <= j
<1> DEFINE U == 1..n
           F == {1..k : k \in S}
<1>1. IsFiniteSet(U)
  BY FS_Interval
<1>2. F \in SUBSET (SUBSET U) /\ F # {}
  <2>1. \A k \in S : 1..k \subseteq 1..n
    OBVIOUS
  <2> QED  BY <2>1
<1>3. PICK A \in F : \A B \in F : B \subseteq A => B = A
  <2> HIDE DEF U, F
  <2> QED  BY <1>1, <1>2, LeastSet
<1>4. PICK k \in S : A = 1..k
  BY <1>3
<1>5. ASSUME NEW j \in S PROVE k <= j
  <2>1. CASE j < k
    <3>1. 1..j \subseteq 1..k /\ k \in 1..k /\ k \notin 1..j
      BY <2>1
    <3> QED  BY <1>3, <1>4, <3>1
  <2> QED  BY <2>1
<1> QED  BY <1>5

\* _pick_issue picks one of the issues it is shown.
LEMMA PickListed ==
    ASSUME NEW seen \in Seq(Issues), seen # <<>>, NEW q
    PROVE  Pick(seen, q) \in DOMAIN seen
<1> DEFINE n == Len(seen)
           sev(k) == SeverityOf[seen[k]]
           low == {k \in DOMAIN seen : sev(k) < MEDIUM}
           worst == {k \in DOMAIN seen : \A j \in DOMAIN seen : sev(j) <= sev(k)}
           ranked == IF q /\ low # {} THEN low ELSE worst
           ease == {5 - sev(k) : k \in DOMAIN seen}
<1>1. n \in Nat /\ n # 0 /\ DOMAIN seen = 1..n
  BY EmptySeq, LenProperties
<1>2. \A k \in DOMAIN seen : sev(k) \in 1..4
  <2>1. \A k \in DOMAIN seen : seen[k] \in Issues
    BY <1>1, ElementOfSeq
  <2> QED  BY <2>1, CronAssumption DEF LOW, CRITICAL
<1>3. worst # {}
  <2>1. 1 \in DOMAIN seen
    BY <1>1
  <2>2. ease \in SUBSET (1..4) /\ ease # {}
    BY <1>2, <2>1
  <2>3. PICK e \in ease : \A f \in ease : e <= f
    <3> HIDE DEF ease
    <3> QED  BY <2>2, FirstOf
  <2>4. PICK k \in DOMAIN seen : e = 5 - sev(k)
    BY <2>3
  <2>5. ASSUME NEW j \in DOMAIN seen PROVE sev(j) <= sev(k)
    <3>1. e <= 5 - sev(j)
      BY <2>3
    <3> QED  BY <1>2, <2>4, <3>1
  <2> QED  BY <2>4, <2>5
<1>4. ranked \in SUBSET (1..n) /\ ranked # {}
  BY <1>1, <1>3
<1> HIDE DEF ranked, n
<1>5. \E k \in ranked : \A j \in ranked : k <= j
  BY <1>1, <1>4, FirstOf
<1>6. Pick(seen, q) = CHOOSE k \in ranked : \A j \in ranked : k <= j
  BY DEF Pick, ranked
<1> QED  BY <1>1, <1>4, <1>5, <1>6

-----------------------------------------------------------------------------
(* What a beat's step does to the other beats, and where it leaves its own. *)

BeatsTyped ==
    /\ stage \in [Beats -> StageNames]
    /\ at \in [Beats -> Repos \cup {0}]
    /\ due \in [Beats -> SUBSET Repos]
    /\ quota \in [Beats -> BOOLEAN]
    /\ pick \in [Beats -> Issues \cup {0}]
    /\ withdrawn \subseteq Beats

\* The other beats stay where they are.
OthersStay(b) ==
    \A c \in Beats : c # b =>
        /\ stage'[c] = stage[c] /\ at'[c] = at[c] /\ pick'[c] = pick[c]
        /\ c \in withdrawn => c \in withdrawn'

\* Beat b is at a repo or over, and in no cron tick; the others stay.
Moved(b) ==
    /\ BeatsTyped'
    /\ OthersStay(b)
    /\ stage'[b] \notin {"gate", "promote"}
    /\ stage'[b] # "off" => at'[b] \in Repos

\* The end of a beat.
LEMMA OverMoves ==
    ASSUME TypeOK, NEW b \in Beats, Over(b) PROVE Moved(b)
<1>1. BeatsTyped'
  BY DEF TypeOK, BeatsTyped, Over, StageNames
<1>2. OthersStay(b) /\ stage'[b] = "off"
  BY DEF TypeOK, OthersStay, Over
<1> QED  BY <1>1, <1>2 DEF Moved

\* The end of a cron tick.
LEMMA NextRepoMoves ==
    ASSUME TypeOK, NEW b \in Beats, at[b] \in Repos, NextRepo(b) PROVE Moved(b)
<1>1. CASE at[b] = NumRepos
  BY <1>1, OverMoves DEF NextRepo
<1>2. CASE at[b] # NumRepos
  <2> DEFINE s == IF at[b] + 1 \in due[b] THEN "sweep" ELSE "tick"
  <2>1. at[b] + 1 \in Repos
    BY <1>2, CronAssumption DEF Repos
  <2>2. /\ stage' = [stage EXCEPT ![b] = s]
        /\ at' = [at EXCEPT ![b] = at[b] + 1]
        /\ pick' = [pick EXCEPT ![b] = 0] /\ withdrawn' = withdrawn \ {b}
        /\ due' = due /\ quota' = quota
    BY <1>2 DEF NextRepo, Visits
  <2>3. s \in StageNames /\ s \notin {"gate", "promote"}
    BY DEF StageNames
  <2> HIDE DEF s
  <2>4. BeatsTyped'
    BY <2>1, <2>2, <2>3 DEF TypeOK, BeatsTyped
  <2>5. OthersStay(b) /\ stage'[b] = s /\ at'[b] = at[b] + 1
    BY <2>2 DEF TypeOK, OthersStay
  <2> QED  BY <2>1, <2>3, <2>4, <2>5 DEF Moved
<1> QED  BY <1>1, <1>2

\* The end of a repo's safety-net drain.
LEMMA ToTickMoves ==
    ASSUME TypeOK, BeatsPlaced, NEW b \in Beats, stage[b] # "off", ToTick(b)
    PROVE  Moved(b)
<1>1. BeatsTyped'
  BY DEF TypeOK, BeatsTyped, ToTick, Moves, StageNames
<1>2. OthersStay(b) /\ stage'[b] = "tick" /\ at'[b] = at[b]
  BY DEF TypeOK, OthersStay, ToTick, Moves
<1> QED  BY <1>1, <1>2 DEF Moved, BeatsPlaced

\* What the step of beat b may do to the backlogs: nothing, or the edit of
\* its tick, which takes its pick out of its repo's.
Edits(b) ==
    \/ UNCHANGED backlog
    \/ /\ Ticking(b)
       /\ backlog' = [backlog EXCEPT ![at[b]] = Without(@, pick[b])]

\* A backlog that issues are only taken out of is still its repo's.
LEMMA EditsKeepHome ==
    ASSUME TypeOK, FiledAtHome, NEW r \in Repos, NEW i,
           backlog' = [backlog EXCEPT ![r] = Without(@, i)]
    PROVE  /\ backlog' \in [Repos -> Seq(Issues)]
           /\ FiledAtHome'
           /\ \A j \in Issues : InBacklog(j) /\ (j # i \/ RepoOf[j] # r)
                => InBacklog(j)'
<1>1. /\ backlog[r] \in Seq(Issues)
      /\ backlog' = [backlog EXCEPT ![r] = Without(backlog[r], i)]
  BY DEF TypeOK
<1>2. /\ Without(backlog[r], i) \in Seq(Issues)
      /\ \A k \in DOMAIN Without(backlog[r], i) : \E m \in DOMAIN backlog[r] :
           Without(backlog[r], i)[k] = backlog[r][m]
      /\ \A m \in DOMAIN backlog[r] : backlog[r][m] # i =>
           \E k \in DOMAIN Without(backlog[r], i) :
             Without(backlog[r], i)[k] = backlog[r][m]
  <2> DEFINE old == backlog[r]
  <2>1. old \in Seq(Issues)
    BY <1>1
  <2> HIDE DEF old
  <2>2. /\ Without(old, i) \in Seq(Issues)
        /\ \A k \in DOMAIN Without(old, i) : \E m \in DOMAIN old :
             Without(old, i)[k] = old[m]
        /\ \A m \in DOMAIN old : old[m] # i =>
             \E k \in DOMAIN Without(old, i) : Without(old, i)[k] = old[m]
    BY <2>1, WithoutLeaves
  <2> QED  BY <2>2 DEF old
<1> DEFINE s == Without(backlog[r], i)
<1> HIDE DEF s
<1>3. /\ backlog'[r] = s
      /\ \A q \in Repos : q # r => backlog'[q] = backlog[q]
  BY <1>1 DEF TypeOK, s
<1>4. backlog' \in [Repos -> Seq(Issues)]
  BY <1>1, <1>2 DEF TypeOK
<1>5. FiledAtHome'
  BY <1>2, <1>3 DEF FiledAtHome, s
<1>6. ASSUME NEW j \in Issues, InBacklog(j), j # i \/ RepoOf[j] # r
      PROVE  InBacklog(j)'
  <2>1. PICK m \in DOMAIN backlog[RepoOf[j]] : backlog[RepoOf[j]][m] = j
    BY <1>6 DEF InBacklog
  <2>2. RepoOf[j] \in Repos
    BY CronAssumption
  <2>3. CASE RepoOf[j] # r
    BY <1>3, <2>1, <2>2, <2>3 DEF InBacklog
  <2>4. CASE RepoOf[j] = r
    <3>1. PICK k \in DOMAIN s : s[k] = j
      BY <1>2, <1>6, <2>1, <2>4 DEF s
    <3> QED  BY <1>3, <2>4, <3>1 DEF InBacklog
  <2> QED  BY <2>3, <2>4
<1> QED  BY <1>4, <1>5, <1>6

\* A beat's step out of its cron tick, or outside of one.
LEMMA MovedKeepsTicks ==
    ASSUME TypeOK, TickInv, NEW b \in Beats, Moved(b), Edits(b)
    PROVE  backlog' \in [Repos -> Seq(Issues)] /\ TickInv'
<1> USE DEF TickInv
<1>1. /\ backlog' \in [Repos -> Seq(Issues)] /\ FiledAtHome'
      /\ \A c \in Beats : \A j \in Issues :
           c # b /\ Ticking(c) /\ pick[c] = j /\ InBacklog(j) => InBacklog(j)'
  <2>1. CASE UNCHANGED backlog
    BY <2>1 DEF TypeOK, FiledAtHome, InBacklog
  <2>2. CASE /\ Ticking(b)
             /\ backlog' = [backlog EXCEPT ![at[b]] = Without(@, pick[b])]
    <3>1. at[b] \in Repos
      BY <2>2 DEF BeatsPlaced, Ticking
    <3>2. /\ backlog' \in [Repos -> Seq(Issues)] /\ FiledAtHome'
          /\ \A j \in Issues : InBacklog(j) /\ (j # pick[b] \/ RepoOf[j] # at[b])
               => InBacklog(j)'
      BY <2>2, <3>1, EditsKeepHome
    <3>3. \A c \in Beats : c # b /\ Ticking(c) =>
            pick[c] \in Issues /\ RepoOf[pick[c]] # at[b]
      BY <2>2 DEF TicksAlone, PickKnown
    <3> QED  BY <3>2, <3>3
  <2> QED  BY <2>1, <2>2 DEF Edits
<1>2. ~Ticking(b)' /\ \A c \in Beats : c # b =>
        /\ stage'[c] = stage[c] /\ at'[c] = at[c] /\ pick'[c] = pick[c]
        /\ Ticking(c)' <=> Ticking(c)
        /\ c \in withdrawn => c \in withdrawn'
  BY DEF Moved, OthersStay, Ticking
<1>3. BeatsPlaced'
  BY <1>2 DEF BeatsPlaced, Moved
<1>4. TicksAlone'
  BY <1>2 DEF TicksAlone
<1>5. PickKnown'
  <2>1. ASSUME NEW c \in Beats, Ticking(c)'
        PROVE  /\ pick'[c] \in Issues
               /\ RepoOf[pick'[c]] = at'[c]
               /\ (InBacklog(pick[c]))' \/ c \in withdrawn'
    <3> DEFINE j == pick[c]
    <3>1. c # b /\ Ticking(c) /\ pick'[c] = j /\ at'[c] = at[c]
      BY <1>2, <2>1
    <3>2. /\ j \in Issues /\ RepoOf[j] = at[c]
          /\ InBacklog(j) \/ c \in withdrawn
      BY <3>1 DEF PickKnown
    <3>3. InBacklog(j) =>
            \E k \in DOMAIN backlog'[RepoOf[j]] : backlog'[RepoOf[j]][k] = j
      BY <1>1, <3>1, <3>2 DEF InBacklog
    <3>4. InBacklog(j) => (InBacklog(pick[c]))'
      BY <3>1, <3>3 DEF InBacklog
    <3> QED  BY <1>2, <3>1, <3>2, <3>4
  <2> QED  BY <2>1 DEF PickKnown
<1> QED  BY <1>1, <1>3, <1>4, <1>5

\* A human takes an issue out: the beats that picked it are told.
LEMMA WithdrawKeepsTicks ==
    ASSUME TypeOK, TickInv, NEW i \in Issues, Withdraw(i)
    PROVE  backlog' \in [Repos -> Seq(Issues)] /\ TickInv'
<1> USE DEF TickInv
<1>1. /\ RepoOf[i] \in Repos
      /\ backlog' = [backlog EXCEPT ![RepoOf[i]] = Without(@, i)]
      /\ stage' = stage /\ at' = at /\ pick' = pick
      /\ withdrawn' = withdrawn \cup {b \in Beats : pick[b] = i}
  BY CronAssumption DEF Withdraw
<1>2. /\ backlog' \in [Repos -> Seq(Issues)] /\ FiledAtHome'
      /\ \A j \in Issues : InBacklog(j) /\ j # i => InBacklog(j)'
  BY <1>1, EditsKeepHome
<1>3. BeatsPlaced' /\ TicksAlone'
  BY <1>1 DEF BeatsPlaced, TicksAlone, Ticking
<1>4. PickKnown'
  <2>1. ASSUME NEW c \in Beats, Ticking(c)'
        PROVE  /\ pick'[c] \in Issues
               /\ RepoOf[pick'[c]] = at'[c]
               /\ (InBacklog(pick[c]))' \/ c \in withdrawn'
    <3> DEFINE j == pick[c]
    <3>1. Ticking(c) /\ pick'[c] = j /\ at'[c] = at[c]
      BY <1>1, <2>1 DEF Ticking
    <3>2. /\ j \in Issues /\ RepoOf[j] = at[c]
          /\ InBacklog(j) \/ c \in withdrawn
      BY <3>1 DEF PickKnown
    <3>3. InBacklog(j) /\ j # i =>
            \E k \in DOMAIN backlog'[RepoOf[j]] : backlog'[RepoOf[j]][k] = j
      BY <1>2, <3>2 DEF InBacklog
    <3>4. InBacklog(j) /\ j # i => (InBacklog(pick[c]))'
      BY <3>1, <3>3 DEF InBacklog
    <3>5. j = i \/ c \in withdrawn => c \in withdrawn'
      BY <1>1
    <3> QED  BY <3>1, <3>2, <3>4, <3>5
  <2> QED  BY <2>1 DEF PickKnown
<1> QED  BY <1>2, <1>3, <1>4

\* The end of a longer backlog; what it held is still there.
LEMMA FileKeepsTicks ==
    ASSUME TypeOK, TickInv, NEW i \in Issues, File(i)
    PROVE  backlog' \in [Repos -> Seq(Issues)] /\ TickInv'
<1> USE DEF TickInv
<1> DEFINE h == RepoOf[i]
           old == backlog[h]
           new == Append(old, i)
<1>1. h \in Repos /\ old \in Seq(Issues)
  BY CronAssumption DEF TypeOK
<1>2. /\ backlog'[h] = new /\ backlog' = [backlog EXCEPT ![h] = new]
      /\ \A r \in Repos : r # h => backlog'[r] = backlog[r]
      /\ stage' = stage /\ at' = at /\ pick' = pick /\ withdrawn' = withdrawn
  BY <1>1 DEF File, TypeOK, beats
<1>3. /\ new \in Seq(Issues) /\ Len(new) = Len(old) + 1 /\ Len(old) \in Nat
      /\ DOMAIN old = 1..Len(old) /\ DOMAIN new = 1..(Len(old) + 1)
      /\ new[Len(old) + 1] = i
      /\ \A k \in 1..Len(old) : new[k] = old[k]
  <2> HIDE DEF old
  <2>1. Append(old, i) \in Seq(Issues)
    BY <1>1
  <2> QED  BY <1>1, <2>1, AppendProperties, LenProperties
<1> HIDE DEF new
<1>4. backlog' \in [Repos -> Seq(Issues)]
  BY <1>2, <1>3 DEF TypeOK
<1>5. FiledAtHome'
  <2>1. ASSUME NEW k \in DOMAIN new PROVE RepoOf[new[k]] = h
    <3>1. k \in DOMAIN old \/ k = Len(old) + 1
      BY <1>3
    <3> QED  BY <1>1, <1>3, <3>1 DEF FiledAtHome
  <2> QED  BY <1>1, <1>2, <2>1 DEF FiledAtHome
<1>6. ASSUME NEW j \in Issues, InBacklog(j)
      PROVE  \E k \in DOMAIN backlog'[RepoOf[j]] : backlog'[RepoOf[j]][k] = j
  <2>1. RepoOf[j] \in Repos
    BY CronAssumption
  <2>2. PICK k \in DOMAIN backlog[RepoOf[j]] : backlog[RepoOf[j]][k] = j
    BY <1>6 DEF InBacklog
  <2>3. CASE RepoOf[j] # h
    BY <1>2, <2>1, <2>2, <2>3
  <2>4. CASE RepoOf[j] = h
    <3>1. k \in DOMAIN old /\ old[k] = j
      BY <2>2, <2>4
    <3>2. k \in DOMAIN new /\ new[k] = j
      BY <1>3, <3>1
    <3> QED  BY <1>2, <2>4, <3>2
  <2> QED  BY <2>3, <2>4
<1>7. BeatsPlaced' /\ TicksAlone'
  BY <1>2 DEF BeatsPlaced, TicksAlone, Ticking
<1>8. PickKnown'
  <2>1. ASSUME NEW c \in Beats, Ticking(c)'
        PROVE  /\ pick'[c] \in Issues
               /\ RepoOf[pick'[c]] = at'[c]
               /\ (InBacklog(pick[c]))' \/ c \in withdrawn'
    <3>1. Ticking(c)
      BY <1>2, <2>1 DEF Ticking
    <3>2. /\ pick[c] \in Issues /\ RepoOf[pick[c]] = at[c]
          /\ InBacklog(pick[c]) \/ c \in withdrawn
      BY <3>1 DEF PickKnown
    <3>3. InBacklog(pick[c]) => (InBacklog(pick[c]))'
      BY <1>2, <1>6, <3>2 DEF InBacklog
    <3> QED  BY <1>2, <3>2, <3>3
  <2> QED  BY <2>1 DEF PickKnown
<1> QED  BY <1>4, <1>5, <1>7, <1>8

\* A tick that finds the lock free and a backlog takes both.
LEMMA ListKeepsTicks ==
    ASSUME TypeOK, TickInv, NEW b \in Beats, TickLists(b)
    PROVE  BeatsTyped' /\ TickInv'
<1> USE DEF TickInv
<1> DEFINE r == at[b]
           seen == Visible(r)
           i == seen[Pick(seen, quota[b])]
<1>1. /\ r \in Repos /\ backlog' = backlog
      /\ \A c \in Beats : Ticking(c) => at[c] # r
  BY DEF TickLists, StageNames, BeatsPlaced, CronHeld, Ticking
<1>2. CASE seen = <<>>
  <2>1. Moved(b)
    BY <1>1, <1>2, NextRepoMoves DEF TickLists, TakesPick
  <2>2. Edits(b)
    BY <1>1 DEF Edits
  <2> QED  BY <2>1, <2>2, MovedKeepsTicks DEF Moved
<1>3. CASE seen # <<>>
  <2>1. /\ pick' = [pick EXCEPT ![b] = i] /\ stage' = [stage EXCEPT ![b] = "gate"]
        /\ at' = at /\ due' = due /\ quota' = quota /\ withdrawn' = withdrawn
    BY <1>3 DEF TickLists, TakesPick, Moves
  <2>2. PICK m \in DOMAIN backlog[r] : i = backlog[r][m]
    <3>1. /\ seen \in Seq(Issues)
          /\ \A k \in DOMAIN seen : \E m \in DOMAIN backlog[r] :
               seen[k] = backlog[r][m]
      BY <1>1, VisibleOfBacklog
    <3> HIDE DEF seen
    <3>2. Pick(seen, quota[b]) \in DOMAIN seen
      BY <1>3, <3>1, PickListed
    <3> QED  BY <3>1, <3>2
  <2> HIDE DEF i
  <2>3. i \in Issues /\ RepoOf[i] = r
    <3>1. backlog[r] \in Seq(Issues)
      BY <1>1 DEF TypeOK
    <3>2. backlog[r][m] \in Issues
      BY <2>2, <3>1, ElementOfSeq, LenProperties
    <3> QED  BY <1>1, <2>2, <3>2 DEF FiledAtHome
  <2>4. InBacklog(i)
    BY <2>2, <2>3 DEF InBacklog
  <2>5. BeatsTyped'
    BY <2>1, <2>3 DEF TypeOK, BeatsTyped, StageNames
  <2>6. /\ stage'[b] = "gate" /\ pick'[b] = i
        /\ \A c \in Beats : c # b => stage'[c] = stage[c] /\ pick'[c] = pick[c]
    BY <2>1 DEF TypeOK
  <2>7. FiledAtHome' /\ BeatsPlaced'
    BY <1>1, <2>1, <2>6 DEF FiledAtHome, BeatsPlaced
  <2>8. TicksAlone'
    BY <1>1, <2>1, <2>6 DEF TicksAlone, Ticking
  <2>9. PickKnown'
    <3>1. ASSUME NEW c \in Beats, Ticking(c)'
          PROVE  /\ pick'[c] \in Issues
                 /\ RepoOf[pick'[c]] = at'[c]
                 /\ (InBacklog(pick[c]))' \/ c \in withdrawn'
      <4>1. CASE c = b
        BY <1>1, <2>1, <2>3, <2>4, <2>6, <4>1 DEF InBacklog
      <4>2. CASE c # b
        BY <1>1, <2>1, <2>6, <3>1, <4>2 DEF InBacklog, PickKnown, Ticking
      <4> QED  BY <4>1, <4>2
    <3> QED  BY <3>1 DEF PickKnown
  <2> QED  BY <2>5, <2>7, <2>8, <2>9
<1> QED  BY <1>2, <1>3

\* A beat goes from its drain to its tick, or from one of its listed steps to
\* the next, with no edit.
LEMMA GateKeepsTicks ==
    ASSUME TypeOK, TickInv, NEW b \in Beats, GateAdmits(b)
    PROVE  BeatsTyped' /\ TickInv'
<1>1. /\ stage[b] = "gate" /\ stage' = [stage EXCEPT ![b] = "promote"]
      /\ backlog' = backlog /\ at' = at /\ due' = due /\ quota' = quota
      /\ pick' = pick /\ withdrawn' = withdrawn
  BY DEF GateAdmits, Moves
<1>2. BeatsTyped'
  BY <1>1 DEF TypeOK, BeatsTyped, StageNames
<1>3. /\ stage'[b] = "promote"
      /\ \A c \in Beats : (Ticking(c)' <=> Ticking(c))
                       /\ (stage'[c] # "off" <=> stage[c] # "off")
  BY <1>1 DEF TypeOK, Ticking
<1>4. FiledAtHome' /\ BeatsPlaced' /\ TicksAlone'
  BY <1>1, <1>3 DEF TickInv, FiledAtHome, BeatsPlaced, TicksAlone
<1>5. PickKnown'
  BY <1>1, <1>3 DEF TickInv, PickKnown, InBacklog
<1> QED  BY <1>2, <1>4, <1>5 DEF TickInv

\* Steps of no beat, and of none that ticks.
LEMMA StayKeepsTicks ==
    ASSUME TypeOK, TickInv, UNCHANGED <<backlog, beats>>
    PROVE  BeatsTyped' /\ TickInv'
<1>1. /\ backlog' = backlog /\ stage' = stage /\ at' = at /\ due' = due
      /\ quota' = quota /\ pick' = pick /\ withdrawn' = withdrawn
  BY DEF beats
<1>2. BeatsTyped'
  BY <1>1 DEF TypeOK, BeatsTyped
<1>3. FiledAtHome' /\ BeatsPlaced' /\ TicksAlone' /\ PickKnown'
  BY <1>1 DEF TickInv, FiledAtHome, BeatsPlaced, TicksAlone, PickKnown,
              Ticking, InBacklog
<1> QED  BY <1>2, <1>3 DEF TickInv

\* A drain's end moves the beat that awaits it, or none.
LEMMA LeaveDrainKeepsTicks ==
    ASSUME TypeOK, TickInv, NEW r \in Repos, LeaveDrain(r), UNCHANGED backlog
    PROVE  BeatsTyped' /\ TickInv'
<1>1. CASE \E b \in Beats : Awaits(b, r)
  <2> DEFINE b == CHOOSE b \in Beats : Awaits(b, r)
  <2>1. b \in Beats /\ Awaits(b, r) /\ ToTick(b)
    BY <1>1 DEF LeaveDrain
  <2> HIDE DEF b
  <2>2. Moved(b)
    BY <2>1, ToTickMoves DEF Awaits, TickInv
  <2>3. Edits(b)
    BY DEF Edits
  <2> QED  BY <2>1, <2>2, <2>3, MovedKeepsTicks DEF Moved
<1>2. CASE ~ \E b \in Beats : Awaits(b, r)
  BY <1>2, StayKeepsTicks DEF LeaveDrain
<1> QED  BY <1>1, <1>2

\* A beat comes to its first repo.
LEMMA BeginMoves ==
    ASSUME TypeOK, NEW b \in Beats, Begin(b) \/ BeginLate(b)
    PROVE  Moved(b)
<1>1. 1 \in Repos
  BY CronAssumption DEF Repos
<1>2. PICK s \in {"sweep", "tick"} :
         /\ stage' = [stage EXCEPT ![b] = s] /\ at' = [at EXCEPT ![b] = 1]
         /\ pick' = pick /\ withdrawn' = withdrawn
  BY DEF Begin, BeginLate, Visits
<1>3. /\ due' = due \/ due' = [due EXCEPT ![b] = {r \in Repos : slot \in DueAt[r]}]
      /\ quota' = [quota EXCEPT ![b] = NextTick = 0]
  BY DEF Begin, BeginLate
<1>4. due' \in [Beats -> SUBSET Repos]
  BY <1>3 DEF TypeOK
<1>5. quota' \in [Beats -> BOOLEAN]
  BY <1>3 DEF TypeOK
<1>6. BeatsTyped'
  BY <1>1, <1>2, <1>4, <1>5 DEF TypeOK, BeatsTyped, StageNames
<1>7. OthersStay(b) /\ stage'[b] = s /\ at'[b] = 1
  BY <1>2 DEF TypeOK, OthersStay
<1> QED  BY <1>1, <1>2, <1>6, <1>7 DEF Moved

\* The other steps of a beat.
LEMMA BeatMoves ==
    ASSUME TypeOK, TickInv, NEW b \in Beats,
           \/ SweepTakes(b) \/ SweepBusy(b) \/ SweepRaises(b)
           \/ TickBusy(b) \/ GateDefers(b) \/ Promote(b) \/ TickRaises(b)
           \/ Timeout(b)
    PROVE  Moved(b) /\ Edits(b)
<1>1. stage[b] # "off" => at[b] \in Repos
  BY DEF TickInv, BeatsPlaced
<1>2. CASE SweepTakes(b)
  <2>1. stage' = [stage EXCEPT ![b] = "drain"] /\ stage[b] = "sweep"
    BY <1>2 DEF SweepTakes, Moves
  <2>2. BeatsTyped'
    BY <1>2, <2>1 DEF TypeOK, BeatsTyped, SweepTakes, StageNames
  <2>3. OthersStay(b) /\ stage'[b] = "drain" /\ at' = at
    BY <1>2, <2>1 DEF TypeOK, OthersStay, SweepTakes
  <2> QED  BY <1>1, <1>2, <2>1, <2>2, <2>3 DEF Moved, Edits, SweepTakes
<1>3. CASE SweepBusy(b) \/ SweepRaises(b)
  <2>1. stage[b] # "off" /\ ToTick(b) /\ UNCHANGED backlog
    BY <1>3 DEF SweepBusy, SweepRaises
  <2> QED  BY <2>1, ToTickMoves DEF Edits, TickInv
<1>4. CASE TickBusy(b) \/ GateDefers(b)
  <2>1. stage[b] # "off" /\ NextRepo(b) /\ UNCHANGED backlog
    BY <1>4 DEF TickBusy, GateDefers
  <2> QED  BY <1>1, <2>1, NextRepoMoves DEF Edits
<1>5. CASE Promote(b) \/ TickRaises(b)
  <2>1. stage[b] # "off" /\ NextRepo(b) /\ Edits(b)
    BY <1>5 DEF Promote, TickRaises, Edits, Ticking
  <2> QED  BY <1>1, <2>1, NextRepoMoves
<1>6. CASE Timeout(b)
  <2>1. Over(b) /\ Edits(b)
    BY <1>6 DEF Timeout, Edits, Ticking
  <2> QED  BY <2>1, OverMoves
<1> QED  BY <1>2, <1>3, <1>4, <1>5, <1>6

-----------------------------------------------------------------------------
(* The worker's own state, and the backlogs. *)

WorkerTyped ==
    /\ missed \subseteq Repos
    /\ slot \in 0 .. Slots - 1
    /\ tick \in 0 .. QuotaEvery - 1
    /\ drain \in [Repos -> {"free", "list", "build"}]
    /\ setbacks \in 0 .. MaxSetbacks

\* The locks, the counters and the missed work keep their types.
LEMMA WorkerStep ==
    ASSUME TypeOK, TickInv, [Next]_vars PROVE WorkerTyped'
<1>1. /\ NextTick \in 0 .. QuotaEvery - 1
      /\ (slot + 1) % Slots \in 0 .. Slots - 1
      /\ 0 \in 0 .. QuotaEvery - 1 /\ 0 \in 0 .. Slots - 1
  BY CronAssumption DEF TypeOK, NextTick
<1>2. Setback => setbacks' \in 0 .. MaxSetbacks
  BY CronAssumption DEF TypeOK, Setback
<1>3. WorkerTyped
  BY DEF TypeOK, WorkerTyped
<1>4. CASE UNCHANGED vars
  BY <1>3, <1>4 DEF vars, WorkerTyped
<1>5. ASSUME NEW i \in Issues, File(i) \/ Withdraw(i) PROVE WorkerTyped'
  BY <1>3, <1>5 DEF File, Withdraw, WorkerTyped
<1>6. ASSUME NEW r \in Repos, Missed(r) \/ KickTakes(r) PROVE WorkerTyped'
  BY <1>3, <1>6 DEF Missed, KickTakes, WorkerTyped
<1>7. ASSUME NEW b \in Beats, Begin(b) \/ BeginLate(b) \/ EnumerateRaises(b)
      PROVE  WorkerTyped'
  BY <1>1, <1>2, <1>3, <1>7 DEF Begin, BeginLate, EnumerateRaises, WorkerTyped
<1>8. ASSUME NEW b \in Beats, Beat(b) PROVE WorkerTyped'
  <2>1. CASE SweepTakes(b)
    BY <1>3, <2>1 DEF SweepTakes, WorkerTyped
  <2>2. CASE SweepBusy(b) \/ TickLists(b) \/ GateAdmits(b) \/ Promote(b)
    BY <1>3, <2>2 DEF SweepBusy, TickLists, GateAdmits, Promote, WorkerTyped
  <2>3. CASE SweepRaises(b) \/ TickBusy(b) \/ GateDefers(b) \/ TickRaises(b)
    BY <1>2, <1>3, <2>3
       DEF SweepRaises, TickBusy, GateDefers, TickRaises, WorkerTyped
  <2> QED  BY <1>8, <2>1, <2>2, <2>3 DEF Beat
<1>9. ASSUME NEW r \in Repos, Drain(r) PROVE WorkerTyped'
  <2>1. CASE DrainLists(r)
    BY <1>3, <2>1 DEF DrainLists, WorkerTyped
  <2>2. CASE DrainEnds(r) \/ DrainRaises(r)
    BY <1>2, <1>3, <2>2 DEF DrainEnds, DrainRaises, LeaveDrain, WorkerTyped
  <2> QED  BY <1>9, <2>1, <2>2 DEF Drain
<1>10. ASSUME NEW b \in Beats, Timeout(b) PROVE WorkerTyped'
  BY <1>2, <1>3, <1>10 DEF Timeout, WorkerTyped
<1>11. CASE Crash
  BY <1>1, <1>2, <1>3, <1>11 DEF Crash, WorkerTyped
<1> QED  BY <1>4, <1>5, <1>6, <1>7, <1>8, <1>9, <1>10, <1>11 DEF Next

\* Every step keeps the types and the ticks apart.
LEMMA TickStep ==
    ASSUME TypeOK, TickInv, [Next]_vars PROVE TypeOK' /\ TickInv'
<1>1. WorkerTyped'
  BY WorkerStep
<1>2. SUFFICES /\ backlog' \in [Repos -> Seq(Issues)]
               /\ BeatsTyped'
               /\ TickInv'
  BY <1>1 DEF TypeOK, WorkerTyped, BeatsTyped
<1>3. UNCHANGED backlog => backlog' \in [Repos -> Seq(Issues)]
  BY DEF TypeOK
<1>4. UNCHANGED beats => BeatsTyped'
  BY DEF beats, TypeOK, BeatsTyped
<1>5. CASE UNCHANGED vars
  BY <1>3, <1>5, StayKeepsTicks DEF vars
<1>6. ASSUME NEW i \in Issues, File(i)
      PROVE  backlog' \in [Repos -> Seq(Issues)] /\ BeatsTyped' /\ TickInv'
  BY <1>4, <1>6, FileKeepsTicks DEF File
<1>7. ASSUME NEW i \in Issues, Withdraw(i)
      PROVE  backlog' \in [Repos -> Seq(Issues)] /\ BeatsTyped' /\ TickInv'
  <2>1. BeatsTyped'
    BY <1>7 DEF Withdraw, TypeOK, BeatsTyped
  <2> QED  BY <1>7, <2>1, WithdrawKeepsTicks
<1>8. ASSUME NEW r \in Repos, Missed(r) \/ KickTakes(r) \/ DrainLists(r)
      PROVE  backlog' \in [Repos -> Seq(Issues)] /\ BeatsTyped' /\ TickInv'
  <2>1. UNCHANGED <<backlog, beats>>
    BY <1>8 DEF Missed, KickTakes, DrainLists
  <2> QED  BY <1>3, <2>1, StayKeepsTicks
<1>9. ASSUME NEW b \in Beats, Begin(b) \/ BeginLate(b)
      PROVE  backlog' \in [Repos -> Seq(Issues)] /\ BeatsTyped' /\ TickInv'
  <2>1. UNCHANGED backlog
    BY <1>9 DEF Begin, BeginLate
  <2>2. Moved(b) /\ Edits(b)
    BY <1>9, <2>1, BeginMoves DEF Edits
  <2> QED  BY <2>2, MovedKeepsTicks DEF Moved
<1>10. ASSUME NEW b \in Beats, EnumerateRaises(b)
       PROVE  backlog' \in [Repos -> Seq(Issues)] /\ BeatsTyped' /\ TickInv'
  <2>1. UNCHANGED <<backlog, beats>>
    BY <1>10 DEF EnumerateRaises
  <2> QED  BY <1>3, <2>1, StayKeepsTicks
<1>11. ASSUME NEW b \in Beats, TickLists(b) \/ GateAdmits(b)
       PROVE  backlog' \in [Repos -> Seq(Issues)] /\ BeatsTyped' /\ TickInv'
  <2>1. UNCHANGED backlog
    BY <1>11 DEF TickLists, GateAdmits
  <2> QED  BY <1>3, <1>11, <2>1, ListKeepsTicks, GateKeepsTicks
<1>12. ASSUME NEW b \in Beats,
              \/ SweepTakes(b) \/ SweepBusy(b) \/ SweepRaises(b)
              \/ TickBusy(b) \/ GateDefers(b) \/ Promote(b) \/ TickRaises(b)
              \/ Timeout(b)
       PROVE  backlog' \in [Repos -> Seq(Issues)] /\ BeatsTyped' /\ TickInv'
  <2>1. Moved(b) /\ Edits(b)
    BY <1>12, BeatMoves
  <2> QED  BY <2>1, MovedKeepsTicks DEF Moved
<1>13. ASSUME NEW r \in Repos, DrainEnds(r) \/ DrainRaises(r)
       PROVE  backlog' \in [Repos -> Seq(Issues)] /\ BeatsTyped' /\ TickInv'
  <2>1. LeaveDrain(r) /\ UNCHANGED backlog
    BY <1>13 DEF DrainEnds, DrainRaises
  <2> QED  BY <1>3, <2>1, LeaveDrainKeepsTicks
<1>14. CASE Crash
  <2>1. /\ backlog' = backlog
        /\ stage' = [b \in Beats |-> "off"] /\ at' = [b \in Beats |-> 0]
        /\ due' = [b \in Beats |-> {}] /\ quota' = [b \in Beats |-> FALSE]
        /\ pick' = [b \in Beats |-> 0] /\ withdrawn' = {}
    BY <1>14 DEF Crash
  <2>2. BeatsTyped'
    BY <2>1 DEF BeatsTyped, StageNames
  <2>3. \A b \in Beats : ~Ticking(b)'
    BY <2>1 DEF Ticking
  <2>4. FiledAtHome' /\ BeatsPlaced'
    BY <2>1 DEF TickInv, FiledAtHome, BeatsPlaced
  <2>5. TicksAlone' /\ PickKnown'
    BY <2>3 DEF TicksAlone, PickKnown
  <2> QED  BY <1>3, <2>1, <2>2, <2>4, <2>5 DEF TickInv
<1> QED  BY <1>5, <1>6, <1>7, <1>8, <1>9, <1>10, <1>11, <1>12, <1>13, <1>14
         DEF Next, Beat, Drain

\* No step lists an issue twice.
LEMMA OnceStep ==
    ASSUME TypeOK, TickInv, FiledOnce, [Next]_vars PROVE FiledOnce'
<1>1. CASE UNCHANGED backlog
  BY <1>1 DEF FiledOnce
<1>2. ASSUME NEW r \in Repos, NEW i,
             backlog' = [backlog EXCEPT ![r] = Without(@, i)]
      PROVE  FiledOnce'
  <2> DEFINE old == backlog[r]
  <2>1. /\ old \in Seq(Issues)
        /\ \A j, k \in DOMAIN old : old[j] = old[k] => j = k
        /\ backlog'[r] = Without(old, i)
        /\ \A q \in Repos : q # r => backlog'[q] = backlog[q]
    BY <1>2 DEF TypeOK, FiledOnce
  <2> HIDE DEF old
  <2>2. \A j, k \in DOMAIN Without(old, i) :
          Without(old, i)[j] = Without(old, i)[k] => j = k
    BY <2>1, WithoutOnce
  <2> DEFINE new == Without(old, i)
  <2>3. /\ backlog'[r] = new
        /\ \A j, k \in DOMAIN new : new[j] = new[k] => j = k
    BY <2>1, <2>2
  <2> HIDE DEF new
  <2>4. ASSUME NEW q \in Repos, NEW j \in DOMAIN backlog'[q],
               NEW k \in DOMAIN backlog'[q], backlog'[q][j] = backlog'[q][k]
        PROVE  j = k
    <3>1. CASE q = r
      BY <2>3, <2>4, <3>1
    <3>2. CASE q # r
      <4>1. backlog'[q] = backlog[q]
        BY <2>1, <3>2
      <4> QED  BY <2>4, <4>1 DEF FiledOnce
    <3> QED  BY <3>1, <3>2
  <2> QED  BY <2>4 DEF FiledOnce
<1>3. ASSUME NEW i \in Issues, File(i) PROVE FiledOnce'
  <2> DEFINE h == RepoOf[i]
             old == backlog[h]
             new == Append(old, i)
  <2>1. /\ h \in Repos /\ old \in Seq(Issues)
        /\ \A k \in DOMAIN old : old[k] # i
        /\ \A j, k \in DOMAIN old : old[j] = old[k] => j = k
        /\ backlog'[h] = new
        /\ \A q \in Repos : q # h => backlog'[q] = backlog[q]
    BY <1>3, CronAssumption DEF TypeOK, FiledOnce, File, InBacklog
  <2> HIDE DEF old
  <2>2. /\ new[Len(old) + 1] = i /\ Len(old) \in Nat
        /\ DOMAIN old = 1..Len(old) /\ DOMAIN new = 1..(Len(old) + 1)
        /\ \A k \in 1..Len(old) : new[k] = old[k]
    <3>1. new \in Seq(Issues)
      BY <2>1
    <3> QED  BY <2>1, <3>1, AppendProperties, LenProperties
  <2> HIDE DEF new
  <2>3. ASSUME NEW j \in DOMAIN new, NEW k \in DOMAIN new, new[j] = new[k]
        PROVE  j = k
    <3>1. \A m \in DOMAIN new : m \in DOMAIN old \/ m = Len(old) + 1
      BY <2>2
    <3> QED  BY <2>1, <2>2, <2>3, <3>1
  <2>4. ASSUME NEW q \in Repos, NEW j \in DOMAIN backlog'[q],
               NEW k \in DOMAIN backlog'[q], backlog'[q][j] = backlog'[q][k]
        PROVE  j = k
    <3>1. CASE q = h
      BY <2>1, <2>3, <2>4, <3>1
    <3>2. CASE q # h
      <4>1. backlog'[q] = backlog[q]
        BY <2>1, <3>2
      <4> QED  BY <2>4, <4>1 DEF FiledOnce
    <3> QED  BY <3>1, <3>2
  <2> QED  BY <2>4 DEF FiledOnce
<1>4. ASSUME NEW i \in Issues, Withdraw(i) PROVE FiledOnce'
  <2>1. RepoOf[i] \in Repos
    BY CronAssumption
  <2> QED  BY <1>2, <1>4, <2>1 DEF Withdraw
<1>5. ASSUME NEW b \in Beats, Edits(b) PROVE FiledOnce'
  <2>1. Ticking(b) => at[b] \in Repos
    BY DEF TickInv, BeatsPlaced, Ticking
  <2> QED  BY <1>1, <1>2, <1>5, <2>1 DEF Edits
<1>6. ASSUME NEW b \in Beats, Begin(b) \/ BeginLate(b) \/ EnumerateRaises(b)
      PROVE  UNCHANGED backlog
  BY <1>6 DEF Begin, BeginLate, EnumerateRaises
<1>7. ASSUME NEW b \in Beats, Beat(b) \/ Timeout(b) PROVE FiledOnce'
  <2>1. CASE TickLists(b) \/ GateAdmits(b)
    BY <1>1, <2>1 DEF TickLists, GateAdmits
  <2>2. CASE ~(TickLists(b) \/ GateAdmits(b))
    BY <1>5, <1>7, <2>2, BeatMoves DEF Beat
  <2> QED  BY <2>1, <2>2
<1>8. ASSUME NEW r \in Repos, Missed(r) \/ KickTakes(r) \/ Drain(r)
      PROVE  UNCHANGED backlog
  BY <1>8 DEF Missed, KickTakes, Drain, DrainLists, DrainEnds, DrainRaises
<1>9. CASE UNCHANGED vars \/ Crash
  BY <1>1, <1>9 DEF vars, Crash
<1> QED  BY <1>1, <1>3, <1>4, <1>6, <1>7, <1>8, <1>9 DEF Next

-----------------------------------------------------------------------------
(* The theorems. *)

\* At the start no beat is under way.
LEMMA TickInit ==
    ASSUME Init PROVE TypeOK /\ TickInv
<1>1. TypeOK
  <2>1. \A r \in Repos : <<>> \in Seq(Issues)
    OBVIOUS
  <2> QED  BY <2>1, CronAssumption DEF Init, TypeOK, StageNames
<1>2. FiledAtHome /\ BeatsPlaced /\ TicksAlone /\ PickKnown
  BY DEF Init, FiledAtHome, BeatsPlaced, TicksAlone, PickKnown, Ticking
<1> QED  BY <1>1, <1>2 DEF TickInv

\* heartbeat.py and cron.py: every variable of the beats, the locks and the
\* backlogs keeps its type, and the counters their bounds.
THEOREM CronTyped == Spec => []TypeOK
<1>1. Init => TypeOK /\ TickInv
  BY TickInit
<1>2. TypeOK /\ TickInv /\ [Next]_vars => (TypeOK /\ TickInv)'
  BY TickStep
<1> QED  BY <1>1, <1>2, PTL DEF Spec

\* cron.py, run_cron_tick under CronLock: however beats overlap, at most one
\* of them is between the listing and the edit of a repo's cron tick.
THEOREM OneTickPerRepo == Spec => []TicksAlone
<1>1. Init => TypeOK /\ TickInv
  BY TickInit
<1>2. TypeOK /\ TickInv /\ [Next]_vars => (TypeOK /\ TickInv)'
  BY TickStep
<1>3. TickInv => TicksAlone
  BY DEF TickInv
<1> QED  BY <1>1, <1>2, <1>3, PTL DEF Spec

\* cron.py, promote: the labels a tick swaps are of an issue still in the
\* backlog, or of one a human took out since the tick listed it.
THEOREM PromotesListed == Spec => PromotesFromBacklog
<1>1. Init => TypeOK /\ TickInv
  BY TickInit
<1>2. TypeOK /\ TickInv /\ [Next]_vars => (TypeOK /\ TickInv)'
  BY TickStep
<1>3. TickInv /\ [Next]_vars =>
        [\A b \in Beats :
           Promote(b) => InBacklog(pick[b]) \/ b \in withdrawn]_vars
  BY DEF TickInv, PickKnown, Ticking, Promote
<1> QED  BY <1>1, <1>2, <1>3, PTL DEF Spec, PromotesFromBacklog

\* cron.py, promote: a backlog lists an issue once, so the swap of its labels
\* takes it out of the backlog for good.
THEOREM BacklogOnce == Spec => []FiledOnce
<1>1. Init => TypeOK /\ TickInv /\ FiledOnce
  BY TickInit DEF Init, FiledOnce
<1>2. TypeOK /\ TickInv /\ FiledOnce /\ [Next]_vars
        => (TypeOK /\ TickInv /\ FiledOnce)'
  BY TickStep, OnceStep
<1> QED  BY <1>1, <1>2, PTL DEF Spec

\* cron.py, promote: the step that swaps an issue's labels leaves it in no
\* backlog, so a later tick cannot promote it again unless it is filed again.
THEOREM PromotedLeaves ==
    Spec => [][\A b \in Beats : Promote(b) =>
                 \A r \in Repos : \A k \in DOMAIN backlog'[r] :
                   backlog'[r][k] # pick[b]]_vars
<1>1. Init => TypeOK /\ TickInv /\ FiledOnce
  BY TickInit DEF Init, FiledOnce
<1>2. TypeOK /\ TickInv /\ FiledOnce /\ [Next]_vars
        => (TypeOK /\ TickInv /\ FiledOnce)'
  BY TickStep, OnceStep
<1>3. ASSUME TypeOK, TickInv, FiledOnce, NEW b \in Beats, Promote(b),
             NEW r \in Repos, NEW k \in DOMAIN backlog'[r]
      PROVE  backlog'[r][k] # pick[b]
  <2> DEFINE i == pick[b]
             old == backlog[at[b]]
  <2>1. at[b] \in Repos /\ Ticking(b) /\ RepoOf[i] = at[b]
    BY <1>3 DEF Promote, Ticking, TickInv, BeatsPlaced, PickKnown
  <2>2. /\ old \in Seq(Issues)
        /\ \A j, m \in DOMAIN old : old[j] = old[m] => j = m
        /\ backlog'[at[b]] = Without(old, i)
        /\ \A q \in Repos : q # at[b] => backlog'[q] = backlog[q]
    BY <1>3, <2>1 DEF Promote, TypeOK, FiledOnce
  <2>3. CASE r = at[b]
    <3> HIDE DEF old, i
    <3>1. \A m \in DOMAIN Without(old, i) : Without(old, i)[m] # i
      BY <2>2, WithoutOnce
    <3>2. backlog'[r][k] # i
      BY <1>3, <2>2, <2>3, <3>1
    <3> QED  BY <3>2 DEF i
  <2>4. CASE r # at[b]
    <3>1. backlog'[r] = backlog[r] /\ RepoOf[backlog[r][k]] = r
      BY <1>3, <2>2, <2>4 DEF TickInv, FiledAtHome
    <3> QED  BY <2>1, <2>4, <3>1
  <2> QED  BY <2>3, <2>4
<1>4. TypeOK /\ TickInv /\ FiledOnce /\ [Next]_vars =>
        [\A b \in Beats : Promote(b) =>
           \A r \in Repos : \A k \in DOMAIN backlog'[r] :
             backlog'[r][k] # pick[b]]_vars
  BY <1>3
<1> QED  BY <1>1, <1>2, <1>4, PTL DEF Spec

-----------------------------------------------------------------------------
(* The cadences. *)

\* A multiple of the step is one that a walk in strides comes to.
LEMMA WalkIsModulo ==
    ASSUME NEW a \in Nat, NEW b \in Int, NEW s \in Nat, NEW v \in Nat
    PROVE  v \in Walk(a, b, s)
             <=> s # BadStep /\ Within(v, <<a, b>>) /\ (v - a) % s = 0
<1>1. CASE s = 0
  BY <1>1 DEF Walk, BadStep
<1>2. CASE s # 0 /\ ~(a <= v /\ v <= b)
  BY <1>2 DEF Walk, Within, BadStep
<1>3. CASE s # 0 /\ a <= v /\ v <= b
  <2> DEFINE d == v - a
  <2>1. d \in Nat /\ v = a + d /\ d <= b - a /\ s \in Nat \ {0}
    BY <1>3
  <2>2. v \in Walk(a, b, s) <=> \E k \in 0 .. b - a : v = a + k * s
    BY <1>3 DEF Walk, BadStep
  <2>3. ASSUME d % s = 0 PROVE \E k \in 0 .. b - a : v = a + k * s
    <3> DEFINE k == d \div s
    <3>1. k \in Int /\ d = s * k + (d % s)
      BY <2>1
    <3>2. k >= 0
      BY <2>1, <3>1
    <3>3. d = k * s /\ k <= d
      BY <2>1, <2>3, <3>1, <3>2
    <3> HIDE DEF k
    <3>4. k \in 0 .. b - a /\ v = a + k * s
      BY <2>1, <3>1, <3>2, <3>3
    <3> QED  BY <3>4
  <2>4. ASSUME NEW k \in 0 .. b - a, v = a + k * s PROVE d % s = 0
    <3>1. d = k * s /\ k \in Nat
      BY <2>1, <2>4
    <3>2. (k * s) % s = 0
      BY <2>1, <3>1
    <3> QED  BY <3>1, <3>2
  <2>5. Within(v, <<a, b>>) /\ s # BadStep
    BY <1>3 DEF Within, BadStep
  <2> QED  BY <2>2, <2>3, <2>4, <2>5
<1> QED  BY <1>1, <1>2, <1>3

\* _term_range with its stepping matches what a term within its bounds lists.
LEMMA TermRead ==
    ASSUME NEW term \in Term, NEW low \in Nat, NEW high \in Nat,
           NEW v \in low .. high, InBounds(term, low, high)
    PROVE  TermMatches(term, v, low, high) <=> v \in Listed(term, low, high)
<1> DEFINE s == IF term.step = NoStep THEN 1 ELSE term.step
<1>1. /\ s \in Nat /\ v \in Nat /\ term.from \in Nat /\ term.to \in Int
      /\ term.base \in {"any", "point", "range", "bad"}
  BY DEF Term, NoStep
<1>2. TermMatches(term, v, low, high) <=>
        /\ s # BadStep /\ Within(v, TermRange(term, low, high))
        /\ (v - TermRange(term, low, high)[1]) % s = 0
  BY DEF TermMatches
<1>3. \A a \in Nat, b \in Int : v \in Walk(a, b, s)
        <=> s # BadStep /\ Within(v, <<a, b>>) /\ (v - a) % s = 0
  BY <1>1, WalkIsModulo
<1>4. \A a, b : <<a, b>>[1] = a /\ <<a, b>>[2] = b
  OBVIOUS
<1>5. CASE term.base = "any"
  <2>1. TermRange(term, low, high) = <<low, high>>
    BY <1>5 DEF TermRange
  <2>2. Listed(term, low, high) = Walk(low, high, s)
    BY <1>5 DEF Listed
  <2> HIDE DEF s
  <2> QED  BY <1>2, <1>3, <1>4, <2>1, <2>2
<1>6. CASE term.base = "range"
  <2>1. TermRange(term, low, high) = <<term.from, term.to>>
    BY <1>6 DEF TermRange
  <2>2. Listed(term, low, high) = Walk(term.from, term.to, s)
    BY <1>6 DEF Listed
  <2> HIDE DEF s
  <2> QED  BY <1>1, <1>2, <1>3, <1>4, <2>1, <2>2
<1>7. CASE term.base = "point" /\ term.step # NoStep
  <2>1. TermRange(term, low, high) = <<term.from, high>>
    BY <1>7 DEF TermRange
  <2>2. Listed(term, low, high) = Walk(term.from, high, s)
    BY <1>7 DEF Listed
  <2> HIDE DEF s
  <2> QED  BY <1>1, <1>2, <1>3, <1>4, <2>1, <2>2
<1>8. CASE term.base = "point" /\ term.step = NoStep
  <2>1. TermRange(term, low, high) = <<term.from, term.from>>
    BY <1>8 DEF TermRange
  <2>2. Listed(term, low, high) = {term.from} /\ s = 1 /\ s # BadStep
    BY <1>8 DEF Listed, BadStep
  <2>3. Within(v, <<term.from, term.from>>) <=> v = term.from
    BY <1>1 DEF Within
  <2>4. v = term.from => (v - term.from) % 1 = 0
    BY <1>1
  <2> QED  BY <1>2, <1>4, <2>1, <2>2, <2>3, <2>4
<1>9. CASE term.base = "bad"
  <2>1. TermRange(term, low, high) = <<1, 0>>
    BY <1>9 DEF TermRange
  <2>2. Listed(term, low, high) = {}
    BY <1>9 DEF Listed
  <2>3. ~Within(v, <<1, 0>>)
    BY <1>1 DEF Within
  <2> QED  BY <1>2, <2>1, <2>2, <2>3
<1> QED  BY <1>1, <1>5, <1>6, <1>7, <1>8, <1>9

\* No term lists a value out of its field's bounds.
LEMMA ListedInBounds ==
    ASSUME NEW term \in Term, NEW low \in Nat, NEW high \in Nat,
           NEW v \in Listed(term, low, high)
    PROVE  v \in low .. high
<1>1. InBounds(term, low, high)
  BY DEF Listed
<1>2. /\ term.from \in Nat /\ term.to \in Int
      /\ term.base \in {"any", "point", "range", "bad"}
  BY DEF Term
<1>3. \A a, b, k : Walk(a, b, k) \subseteq a .. b
  BY DEF Walk
<1>4. CASE term.base = "any"
  BY <1>1, <1>3, <1>4 DEF Listed
<1>5. CASE term.base = "range"
  <2>1. v \in term.from .. term.to
    BY <1>1, <1>3, <1>5 DEF Listed
  <2> QED  BY <1>1, <1>2, <1>5, <2>1 DEF InBounds
<1>6. CASE term.base = "point"
  <2>1. v = term.from \/ v \in term.from .. high
    BY <1>1, <1>3, <1>6 DEF Listed
  <2> QED  BY <1>1, <1>2, <1>6, <2>1 DEF InBounds
<1>7. CASE term.base = "bad"
  BY <1>1, <1>7 DEF Listed
<1> QED  BY <1>2, <1>4, <1>5, <1>6, <1>7

\* A field matches the values its terms list, when they keep to its bounds.
LEMMA FieldRead ==
    ASSUME NEW field \in SUBSET Term, NEW low \in Nat, NEW high \in Nat,
           NEW v \in low .. high,
           \A term \in field : InBounds(term, low, high)
    PROVE  FieldMatches(field, v, low, high) <=> v \in Values(field, low, high)
<1>1. \A term \in field :
        TermMatches(term, v, low, high) <=> v \in Listed(term, low, high)
  BY TermRead
<1> QED  BY <1>1 DEF FieldMatches, Values

\* Sunday, which a cadence may write as 0 or 7 and Python numbers 6.
LEMMA WeekdayRead ==
    ASSUME NEW field \in SUBSET Term, NEW w \in 0 .. 6,
           \A term \in field : InBounds(term, 0, 7)
    PROVE  WeekdayMatches(field, w)
             <=> \E d \in Weekdays(field) : w = IF d = 0 THEN 6 ELSE d - 1
<1> DEFINE dow == (w + 1) % 7
           vals == Values(field, 0, 7)
<1>1. dow \in 0 .. 6 /\ w = IF dow = 0 THEN 6 ELSE dow - 1
  OBVIOUS
<1>2. \A v \in 0 .. 7 : FieldMatches(field, v, 0, 7) <=> v \in vals
  BY FieldRead
<1>3. vals \subseteq 0 .. 7 /\ Weekdays(field) = {n % 7 : n \in vals}
  BY ListedInBounds DEF Values, Weekdays
<1>4. WeekdayMatches(field, w) <=> dow \in vals \/ (dow = 0 /\ 7 \in vals)
  BY <1>1, <1>2 DEF WeekdayMatches
<1> HIDE DEF vals, dow
<1>5. \A n \in 0 .. 7 : n % 7 = IF n = 7 THEN 0 ELSE n
  OBVIOUS
<1>6. \A d \in Weekdays(field) : d \in 0 .. 6
  BY <1>3, <1>5
<1>7. \A d \in 0 .. 6 : d \in Weekdays(field) <=> d \in vals \/ (d = 0 /\ 7 \in vals)
  BY <1>3, <1>5
<1>8. \A d \in 0 .. 6 : w = (IF d = 0 THEN 6 ELSE d - 1) <=> d = dow
  BY <1>1
<1> QED  BY <1>1, <1>4, <1>6, <1>7, <1>8

\* heartbeat.py, cron_due: its ranges, steps and weekdays match, of a cadence that
\* keeps to its fields' bounds, the instants it names; what has not five fields is
\* never due.
THEOREM CadenceRead ==
    ASSUME NEW cadence \in Cadence, NEW instant \in Instant, Bounded(cadence)
    PROVE  CronDue(cadence, instant) <=> Names(cadence, instant)
<1>1. CASE Len(cadence) # 5
  BY <1>1 DEF CronDue, Names
<1>2. CASE Len(cadence) = 5
  <2>1. /\ \A n \in 1 .. 5 : cadence[n] \in SUBSET Term
        /\ \A term \in cadence[1] : InBounds(term, 0, 59)
        /\ \A term \in cadence[2] : InBounds(term, 0, 23)
        /\ \A term \in cadence[3] : InBounds(term, 1, 31)
        /\ \A term \in cadence[4] : InBounds(term, 1, 12)
        /\ \A term \in cadence[5] : InBounds(term, 0, 7)
    <3>1. \A n \in 1 .. 5 : cadence[n] \in SUBSET Term
      BY <1>2, ElementOfSeq DEF Cadence
    <3>2. \A k \in 1 .. 5 : \A term \in cadence[k] :
             InBounds(term, Bounds[k][1], Bounds[k][2])
      BY <1>2 DEF Bounded
    <3>3. /\ Bounds[1] = <<0, 59>> /\ Bounds[2] = <<0, 23>> /\ Bounds[3] = <<1, 31>>
          /\ Bounds[4] = <<1, 12>> /\ Bounds[5] = <<0, 7>>
      BY DEF Bounds
    <3>4. \A a, b : <<a, b>>[1] = a /\ <<a, b>>[2] = b
      OBVIOUS
    <3> QED  BY <3>1, <3>2, <3>3, <3>4
  <2>2. /\ instant.minute \in 0 .. 59 /\ instant.hour \in 0 .. 23
        /\ instant.day \in 1 .. 31 /\ instant.month \in 1 .. 12
        /\ instant.weekday \in 0 .. 6
    BY DEF Instant
  <2>3. FieldMatches(cadence[1], instant.minute, 0, 59)
          <=> instant.minute \in Values(cadence[1], 0, 59)
    BY <2>1, <2>2, FieldRead
  <2>4. FieldMatches(cadence[2], instant.hour, 0, 23)
          <=> instant.hour \in Values(cadence[2], 0, 23)
    BY <2>1, <2>2, FieldRead
  <2>5. FieldMatches(cadence[3], instant.day, 1, 31)
          <=> instant.day \in Values(cadence[3], 1, 31)
    BY <2>1, <2>2, FieldRead
  <2>6. FieldMatches(cadence[4], instant.month, 1, 12)
          <=> instant.month \in Values(cadence[4], 1, 12)
    BY <2>1, <2>2, FieldRead
  <2>7. WeekdayMatches(cadence[5], instant.weekday)
          <=> \E d \in Weekdays(cadence[5]) :
                instant.weekday = IF d = 0 THEN 6 ELSE d - 1
    <3> DEFINE field == cadence[5]
               w == instant.weekday
    <3>1. /\ field \in SUBSET Term /\ w \in 0 .. 6
          /\ \A term \in field : InBounds(term, 0, 7)
      BY <2>1, <2>2
    <3> HIDE DEF field, w
    <3>2. WeekdayMatches(field, w)
            <=> \E d \in Weekdays(field) : w = IF d = 0 THEN 6 ELSE d - 1
      BY <3>1, WeekdayRead
    <3> QED  BY <3>2 DEF field, w
  <2> QED  BY <2>3, <2>4, <2>5, <2>6, <2>7 DEF CronDue, Names
<1> QED  BY <1>1, <1>2

-----------------------------------------------------------------------------
(* Listings. *)

\* Induction over the numbers, for a set of them.
LEMMA Numbers ==
    ASSUME NEW T, 0 \in T, \A n \in Nat : n \in T => n + 1 \in T
    PROVE  Nat \subseteq T
<1> DEFINE R == OpToRel(<, Nat)
<1>1. \A x, y \in Nat : <<x, y>> \in R <=> x < y
  BY DEF OpToRel
<1>2. IsWellFoundedOn(R, Nat)
  BY NatLessThanWellFounded
<1> HIDE DEF R
<1>3. SUFFICES ASSUME Nat \ T # {} PROVE FALSE
  OBVIOUS
<1>4. PICK x \in Nat \ T : \A y \in Nat \ T : <<y, x>> \notin R
  BY <1>2, <1>3, WFMin
<1>5. x # 0 /\ x - 1 \in Nat /\ x - 1 < x
  BY <1>4
<1>6. x - 1 \in T
  BY <1>1, <1>4, <1>5
<1> QED  BY <1>4, <1>5, <1>6

\* The function Dropping walks a listing with, over its first n entries.
Walked(f, s, e, n) ==
    f = [k \in 0 .. n |->
           IF k = 0 THEN <<>>
           ELSE IF s[k] = e THEN f[k - 1] ELSE Append(f[k - 1], s[k])]

\* The same, an entry at a time.
Steps(f, s, e, n) ==
    /\ f[0] = <<>>
    /\ \A k \in 1 .. n :
         f[k] = IF s[k] = e THEN f[k - 1] ELSE Append(f[k - 1], s[k])

\* Its value after each entry, from the one before.
LEMMA WalkedSteps ==
    ASSUME NEW s, NEW e, NEW n \in Nat, NEW f
    PROVE  Walked(f, s, e, n) <=>
             f = [k \in 0 .. n |-> f[k]] /\ Steps(f, s, e, n)
  BY DEF Walked, Steps

\* There is one, however many entries.
LEMMA WalkedExists ==
    ASSUME NEW s, NEW e, NEW n \in Nat
    PROVE  \E f : Walked(f, s, e, n)
<1> DEFINE T == {m \in Nat : \E f : Walked(f, s, e, m)}
<1>1. 0 \in T
  <2>1. Walked([k \in 0 .. 0 |-> <<>>], s, e, 0)
    BY DEF Walked
  <2> QED  BY <2>1
<1>2. ASSUME NEW m \in Nat, m \in T PROVE m + 1 \in T
  <2>1. PICK g : Walked(g, s, e, m)
    BY <1>2
  <2> DEFINE last == IF s[m + 1] = e THEN g[m] ELSE Append(g[m], s[m + 1])
             h == [k \in 0 .. m + 1 |-> IF k <= m THEN g[k] ELSE last]
  <2>2. Steps(g, s, e, m)
    BY <2>1, WalkedSteps
  <2>3. /\ \A k \in 0 .. m : h[k] = g[k]
        /\ h[m + 1] = last
    OBVIOUS
  <2>4. h = [k \in 0 .. m + 1 |-> h[k]]
    OBVIOUS
  <2> HIDE DEF h
  <2>5. Steps(h, s, e, m + 1)
    <3>1. h[0] = <<>>
      BY <2>2, <2>3 DEF Steps
    <3>2. ASSUME NEW k \in 1 .. m
          PROVE  h[k] = IF s[k] = e THEN h[k - 1] ELSE Append(h[k - 1], s[k])
      <4>1. h[k] = g[k] /\ h[k - 1] = g[k - 1]
        BY <2>3
      <4> QED  BY <2>2, <4>1 DEF Steps
    <3>3. h[m + 1] = IF s[m + 1] = e THEN h[m] ELSE Append(h[m], s[m + 1])
      BY <2>3
    <3> QED  BY <3>1, <3>2, <3>3 DEF Steps
  <2>6. Walked(h, s, e, m + 1)
    BY <2>4, <2>5, WalkedSteps
  <2> QED  BY <2>6
<1> HIDE DEF T
<1>3. Nat \subseteq T
  BY <1>1, <1>2, Numbers
<1> QED  BY <1>3 DEF T

\* What Append and \o do to the entries of a listing.
LEMMA AppendListed ==
    ASSUME NEW S, NEW s \in Seq(S), NEW x \in S
    PROVE  /\ Append(s, x) \in Seq(S)
           /\ ToSet(Append(s, x)) = ToSet(s) \cup {x}
           /\ Once(s) /\ (x = Odd \/ x \notin ToSet(s)) => Once(Append(s, x))
<1> DEFINE a == Append(s, x)
<1>1. /\ a \in Seq(S) /\ DOMAIN s = 1 .. Len(s) /\ Len(s) \in Nat
      /\ DOMAIN a = 1 .. Len(s) + 1
      /\ \A k \in 1 .. Len(s) : a[k] = s[k]
      /\ a[Len(s) + 1] = x
  OBVIOUS
<1> HIDE DEF a
<1>2. ToSet(a) = ToSet(s) \cup {x}
  <2>1. \A y \in ToSet(a) : y \in ToSet(s) \cup {x}
    BY <1>1 DEF ToSet
  <2>2. \A y \in ToSet(s) : y \in ToSet(a)
    BY <1>1 DEF ToSet
  <2>3. x \in ToSet(a)
    BY <1>1 DEF ToSet
  <2> QED  BY <2>1, <2>2, <2>3
<1>3. Once(s) /\ (x = Odd \/ x \notin ToSet(s)) => Once(a)
  BY <1>1 DEF Once, ToSet
<1> QED  BY <1>1, <1>2, <1>3 DEF a

\* Two listings with nothing in common list once what each lists once.
LEMMA ConcatListed ==
    ASSUME NEW S, NEW s \in Seq(S), NEW t \in Seq(S)
    PROVE  /\ s \o t \in Seq(S)
           /\ ToSet(s \o t) = ToSet(s) \cup ToSet(t)
           /\ Once(s) /\ Once(t) /\ ToSet(s) \cap ToSet(t) \subseteq {Odd}
                => Once(s \o t)
<1> DEFINE a == s \o t
           n == Len(s)
           m == Len(t)
<1>1. /\ a \in Seq(S) /\ DOMAIN s = 1 .. n /\ DOMAIN t = 1 .. m
      /\ n \in Nat /\ m \in Nat /\ DOMAIN a = 1 .. n + m
      /\ \A k \in 1 .. n : a[k] = s[k]
      /\ \A k \in n + 1 .. n + m : k - n \in 1 .. m /\ a[k] = t[k - n]
  OBVIOUS
<1> HIDE DEF a, n, m
<1>2. ToSet(a) = ToSet(s) \cup ToSet(t)
  <2>1. \A k \in DOMAIN a : k \in 1 .. n \/ k \in n + 1 .. n + m
    BY <1>1
  <2>2. \A y \in ToSet(a) : y \in ToSet(s) \cup ToSet(t)
    BY <1>1, <2>1 DEF ToSet
  <2>3. \A y \in ToSet(s) : y \in ToSet(a)
    BY <1>1 DEF ToSet
  <2>4. ASSUME NEW k \in 1 .. m PROVE t[k] \in ToSet(a)
    <3>1. n + k \in n + 1 .. n + m /\ (n + k) - n = k
      BY <1>1
    <3>2. n + k \in DOMAIN a /\ a[n + k] = t[k]
      BY <1>1, <3>1
    <3> QED  BY <3>2 DEF ToSet
  <2>5. \A y \in ToSet(t) : y \in ToSet(a)
    BY <1>1, <2>4 DEF ToSet
  <2> QED  BY <2>2, <2>3, <2>5
<1>3. ASSUME Once(s), Once(t), ToSet(s) \cap ToSet(t) \subseteq {Odd},
             NEW j \in DOMAIN a, NEW k \in DOMAIN a, a[j] = a[k], a[j] # Odd
      PROVE  j = k
  <2>1. CASE j \in 1 .. n /\ k \in 1 .. n
    BY <1>1, <1>3, <2>1 DEF Once
  <2>2. CASE j \in n + 1 .. n + m /\ k \in n + 1 .. n + m
    <3>1. j - n = k - n
      BY <1>1, <1>3, <2>2 DEF Once
    <3> QED  BY <1>1, <2>2, <3>1
  <2>3. CASE j \in 1 .. n /\ k \in n + 1 .. n + m
    BY <1>1, <1>3, <2>3 DEF ToSet
  <2>4. CASE k \in 1 .. n /\ j \in n + 1 .. n + m
    BY <1>1, <1>3, <2>4 DEF ToSet
  <2> QED  BY <1>1, <2>1, <2>2, <2>3, <2>4
<1>4. Once(s) /\ Once(t) /\ ToSet(s) \cap ToSet(t) \subseteq {Odd} => Once(a)
  BY <1>3 DEF Once
<1> QED  BY <1>1, <1>2, <1>4 DEF a

\* Dropping leaves the other entries, each as often as it was.
LEMMA DroppingLeaves ==
    ASSUME NEW S, NEW s \in Seq(S), NEW e
    PROVE  /\ Dropping(s, e) \in Seq(S)
           /\ ToSet(Dropping(s, e)) = ToSet(s) \ {e}
           /\ Once(s) => Once(Dropping(s, e))
<1> DEFINE n == Len(s)
           f == CHOOSE g : Walked(g, s, e, n)
           to(k) == {s[j] : j \in 1 .. k}
           Good(k) == /\ f[k] \in Seq(S)
                      /\ ToSet(f[k]) = to(k) \ {e}
                      /\ Once(s) => Once(f[k])
           T == {k \in Nat : k <= n => Good(k)}
<1>1. Dropping(s, e) = f[n]
  BY DEF Dropping, Walked
<1>2. n \in Nat /\ DOMAIN s = 1 .. n /\ \A k \in 1 .. n : s[k] \in S
  OBVIOUS
<1>3. Walked(f, s, e, n)
  BY <1>2, WalkedExists
<1> HIDE DEF f, n
<1>4. /\ f[0] = <<>>
      /\ \A k \in 1 .. n :
           f[k] = IF s[k] = e THEN f[k - 1] ELSE Append(f[k - 1], s[k])
  BY <1>2, <1>3, WalkedSteps DEF Steps
<1>5. 0 \in T
  <2>1. <<>> \in Seq(S) /\ ToSet(<<>>) = {} /\ Once(<<>>) /\ to(0) = {}
    BY DEF ToSet, Once
  <2> QED  BY <1>4, <2>1
<1>6. ASSUME NEW k \in Nat, k \in T PROVE k + 1 \in T
  <2> SUFFICES ASSUME k + 1 <= n PROVE Good(k + 1)
    OBVIOUS
  <2> DEFINE x == s[k + 1]
  <2>1. Good(k) /\ k + 1 \in 1 .. n /\ x \in S
    BY <1>2, <1>6
  <2>2. f[k + 1] = IF x = e THEN f[k] ELSE Append(f[k], x)
    BY <1>4, <2>1
  <2>3. to(k + 1) = to(k) \cup {x}
    <3>1. 1 .. k + 1 = (1 .. k) \cup {k + 1}
      OBVIOUS
    <3> QED  BY <3>1
  <2>4. Once(s) => x = Odd \/ x \notin to(k)
    BY <1>2, <2>1 DEF Once
  <2> HIDE DEF x, to
  <2>5. CASE x = e
    BY <2>1, <2>2, <2>3, <2>5
  <2>6. CASE x # e
    <3>1. /\ Append(f[k], x) \in Seq(S)
          /\ ToSet(Append(f[k], x)) = ToSet(f[k]) \cup {x}
          /\ Once(f[k]) /\ (x = Odd \/ x \notin ToSet(f[k]))
               => Once(Append(f[k], x))
      BY <2>1, AppendListed
    <3> QED  BY <2>1, <2>2, <2>3, <2>4, <2>6, <3>1
  <2> QED  BY <2>5, <2>6
<1> HIDE DEF T
<1>7. n \in T
  BY <1>2, <1>5, <1>6, Numbers
<1>8. Good(n)
  BY <1>2, <1>7 DEF T
<1>9. to(n) = ToSet(s)
  BY <1>2 DEF ToSet
<1> QED  BY <1>1, <1>8, <1>9

-----------------------------------------------------------------------------
(* Pages. *)

\* The entries on pages asked for already, and what later pages will keep.
Offset    == (page - 1) * PerPage
Paged(s)  == {s[k] : k \in {n \in DOMAIN s : n <= Offset}} \ {Odd}
Coming(s) == {s[k] : k \in {n \in DOMAIN s : n > Offset}} \ {Odd}

\* The pages are contiguous.
LEMMA Offsets ==
    ASSUME page \in Nat \ {0}
    PROVE  /\ Offset \in Nat
           /\ page * PerPage = Offset + PerPage
           /\ PerPage \in Nat \ {0}
           /\ page = 1 => Offset = 0
<1>1. PerPage \in Nat \ {0}
  BY SweepAssumption
<1>2. \A p \in Nat \ {0}, n \in Nat :
        (p - 1) * n \in Nat /\ p * n = (p - 1) * n + n /\ (1 - 1) * n = 0
  OBVIOUS
<1> QED  BY <1>1, <1>2 DEF Offset

\* An entry on the page, wherever the listing ends.
LEMMA PageIs ==
    ASSUME page \in Nat \ {0}, NEW S, NEW s \in Seq(S)
    PROVE  /\ PageOf(s) \in Seq(S)
           /\ Offset <= Len(s) => (LastPage(s) <=> Len(s) < Offset + PerPage)
           /\ \A k \in DOMAIN PageOf(s) :
                /\ Offset + k \in DOMAIN s /\ k <= PerPage
                /\ PageOf(s)[k] = s[Offset + k]
           /\ \A n \in DOMAIN s :
                Offset < n /\ n <= Offset + PerPage => n - Offset \in DOMAIN PageOf(s)
<1> DEFINE o == Offset
           len == Len(s)
           last == IF o + PerPage < len THEN o + PerPage ELSE len
           p == SubSeq(s, o + 1, last)
<1>1. o \in Nat /\ page * PerPage = o + PerPage /\ PerPage \in Nat \ {0}
  BY Offsets
<1>2. PageOf(s) = p
  BY <1>1 DEF PageOf, Offset
<1>3. len \in Nat /\ DOMAIN s = 1 .. len /\ \A n \in 1 .. len : s[n] \in S
  OBVIOUS
<1> HIDE DEF o, len
<1>4. len \in Nat
  BY <1>3
<1>5. /\ last \in Nat /\ last <= len /\ last <= o + PerPage
      /\ len > o + PerPage => last = o + PerPage
      /\ len <= o + PerPage => last = len
  BY <1>1, <1>4
<1> HIDE DEF last
<1>6. /\ p \in Seq(S)
      /\ Len(p) = IF o + 1 <= last THEN last - (o + 1) + 1 ELSE 0
      /\ \A k \in 1 .. last - (o + 1) + 1 : p[k] = s[o + 1 + k - 1]
  <2>1. \A n \in o + 1 .. last : s[n] \in S
    BY <1>1, <1>3, <1>5
  <2> QED  BY <1>1, <1>5, <2>1, SubSeqProperties
<1> HIDE DEF p
<1>7. DOMAIN p = 1 .. Len(p)
  BY <1>6
<1>8. ASSUME NEW k \in DOMAIN p
      PROVE  o + k \in DOMAIN s /\ k <= PerPage /\ p[k] = s[o + k]
  <2>1. k \in Nat \ {0} /\ o + k <= last
    BY <1>1, <1>5, <1>6, <1>7
  <2>2. p[k] = s[o + k]
    <3>1. k \in 1 .. last - (o + 1) + 1 /\ o + 1 + k - 1 = o + k
      BY <1>1, <1>5, <2>1
    <3>2. p[k] = s[o + 1 + k - 1]
      BY <1>6, <3>1
    <3> QED  BY <3>1, <3>2
  <2>3. o + k \in 1 .. len /\ k <= PerPage
    BY <1>1, <1>4, <1>5, <2>1
  <2> QED  BY <1>3, <2>2, <2>3
<1>9. ASSUME NEW n \in DOMAIN s, o < n, n <= o + PerPage
      PROVE  n - o \in DOMAIN p
  <2>1. n \in Nat /\ n <= len
    BY <1>3
  <2>2. n <= last
    BY <1>1, <1>4, <1>5, <1>9, <2>1
  <2>3. Len(p) = last - o
    BY <1>1, <1>5, <1>6, <1>9, <2>1, <2>2
  <2> QED  BY <1>1, <1>5, <1>7, <1>9, <2>1, <2>2, <2>3
<1>10. ASSUME o <= len
       PROVE  Len(p) < PerPage <=> len < o + PerPage
  <2>1. Len(p) = last - o
    BY <1>1, <1>4, <1>5, <1>6, <1>10
  <2> QED  BY <1>1, <1>4, <1>5, <1>10, <2>1
<1> QED  BY <1>2, <1>6, <1>8, <1>9, <1>10 DEF o, len, LastPage

\* What is kept of a page: the entries that count, each once.
LEMMA KeptIs ==
    ASSUME page \in Nat \ {0}, NEW S, NEW s \in Seq(S \cup {Odd}), Odd \notin S
    PROVE  /\ Kept(s) \in Seq(S)
           /\ ToSet(Kept(s))
                = {s[k] : k \in {n \in DOMAIN s :
                              Offset < n /\ n <= Offset + PerPage}} \ {Odd}
           /\ Once(s) => Once(Kept(s))
<1> DEFINE p == PageOf(s)
           d == Kept(s)
           here == {n \in DOMAIN s : Offset < n /\ n <= Offset + PerPage}
<1>1. Offset \in Nat /\ PerPage \in Nat
  BY Offsets
<1>2. /\ p \in Seq(S \cup {Odd})
      /\ \A k \in DOMAIN p : /\ Offset + k \in DOMAIN s /\ k <= PerPage
                             /\ p[k] = s[Offset + k]
      /\ \A n \in here : n - Offset \in DOMAIN p
  BY PageIs
<1>3. /\ d \in Seq(S \cup {Odd}) /\ ToSet(d) = ToSet(p) \ {Odd}
      /\ Once(p) => Once(d)
  BY <1>2, DroppingLeaves DEF Kept
<1>4. DOMAIN p \subseteq Nat \ {0} /\ DOMAIN s \subseteq Nat
  <2>1. DOMAIN p = 1 .. Len(p) /\ Len(p) \in Nat
    BY <1>2
  <2> QED  BY <2>1
<1> HIDE DEF p, d
<1>5. ToSet(p) = {s[k] : k \in here}
  <2>1. ASSUME NEW k \in DOMAIN p PROVE \E n \in here : p[k] = s[n]
    <3>1. Offset + k \in here
      BY <1>1, <1>2, <1>4
    <3> QED  BY <1>2, <3>1
  <2>2. ASSUME NEW n \in here PROVE s[n] \in ToSet(p)
    <3>1. n - Offset \in DOMAIN p /\ Offset + (n - Offset) = n
      BY <1>1, <1>2, <1>4
    <3>2. p[n - Offset] = s[n]
      BY <1>2, <3>1
    <3> QED  BY <3>1, <3>2 DEF ToSet
  <2> QED  BY <2>1, <2>2 DEF ToSet
<1>6. Once(s) => Once(p)
  <2> SUFFICES ASSUME Once(s), NEW j \in DOMAIN p, NEW k \in DOMAIN p,
                      p[j] = p[k], p[j] # Odd
               PROVE  j = k
    BY DEF Once
  <2>1. Offset + j = Offset + k
    BY <1>2 DEF Once
  <2> QED  BY <1>1, <1>4, <2>1
<1>7. d \in Seq(S)
  <2>1. \A k \in DOMAIN d : d[k] # Odd
    BY <1>3 DEF ToSet
  <2>2. DOMAIN d = 1 .. Len(d) /\ Len(d) \in Nat /\ d = [k \in 1 .. Len(d) |-> d[k]]
    BY <1>3
  <2>3. \A k \in 1 .. Len(d) : d[k] \in S
    BY <1>3, <2>1, <2>2
  <2>4. d \in [1 .. Len(d) -> S]
    BY <2>2, <2>3
  <2> QED  BY <2>2, <2>4, SeqDef
<1> QED  BY <1>3, <1>5, <1>6, <1>7 DEF d, here

-----------------------------------------------------------------------------
(* Types. *)

\* Between requests to an installation the beat has one, and each listing is
\* paged from its first page.
Awaiting ==
    /\ request \in {"mint", "repositories"} => ids # <<>>
    /\ request \notin {"installations", "repositories"} => page = 1
    /\ request = "installations" => names = <<>>

\* GitHub changes its listings only.
LEMMA ChangeTyped ==
    ASSUME SweepTypeOK, Awaiting, Changes
    PROVE  SweepTypeOK' /\ Awaiting'
<1> DEFINE As == Installations \cup {Odd}
           Rs == Repositories \cup {Odd}
<1>1. apps \in Seq(As) /\ \A i \in Installations : repos[i] \in Seq(Rs)
  BY DEF SweepTypeOK
<1>2. changes' \in 0 .. MaxChanges /\ UNCHANGED <<beat, faults>>
  BY SweepAssumption DEF Changes, InstallApp, UninstallApp, AddRepo,
     RemoveRepo, Change, SweepTypeOK
<1>3. apps' \in Seq(As) /\ repos' \in [Installations -> Seq(Rs)]
  <2>1. ASSUME NEW i \in Installations, InstallApp(i)
        PROVE  apps' \in Seq(As) /\ repos' \in [Installations -> Seq(Rs)]
    <3>1. Append(apps, i) \in Seq(As)
      BY <1>1
    <3> QED  BY <2>1, <3>1 DEF InstallApp, SweepTypeOK
  <2>2. ASSUME NEW i \in Installations, UninstallApp(i)
        PROVE  apps' \in Seq(As) /\ repos' \in [Installations -> Seq(Rs)]
    <3>1. Dropping(apps, i) \in Seq(As)
      BY <1>1, DroppingLeaves
    <3>2. <<>> \in Seq(Rs)
      OBVIOUS
    <3> QED  BY <2>2, <3>1, <3>2 DEF UninstallApp, SweepTypeOK
  <2>3. ASSUME NEW i \in Installations, NEW r \in Repositories, AddRepo(i, r)
        PROVE  apps' \in Seq(As) /\ repos' \in [Installations -> Seq(Rs)]
    <3>1. Append(repos[i], r) \in Seq(Rs)
      BY <1>1
    <3> QED  BY <2>3, <3>1 DEF AddRepo, SweepTypeOK
  <2>4. ASSUME NEW i \in Installations, NEW r \in Repositories, RemoveRepo(i, r)
        PROVE  apps' \in Seq(As) /\ repos' \in [Installations -> Seq(Rs)]
    <3>1. Dropping(repos[i], r) \in Seq(Rs)
      BY <1>1, DroppingLeaves
    <3> QED  BY <2>4, <3>1 DEF RemoveRepo, SweepTypeOK
  <2> QED  BY <2>1, <2>2, <2>3, <2>4 DEF Changes
<1>4. owed' \subseteq Repositories /\ shrunk' \in BOOLEAN
  BY DEF Changes, InstallApp, UninstallApp, AddRepo, RemoveRepo, Leaves,
     history, SweepTypeOK
<1> QED  BY <1>2, <1>3, <1>4 DEF beat, SweepTypeOK, Awaiting

\* An enumeration that raises leaves nothing behind.
LEMMA AbandonTyped ==
    ASSUME SweepTypeOK, Awaiting, Abandon, faults' \in 0 .. MaxFaults
    PROVE  SweepTypeOK' /\ Awaiting'
<1>1. /\ request' = "idle" /\ page' = 1 /\ ids' = <<>> /\ names' = <<>>
      /\ found' = <<>> /\ fires' = {} /\ config' = Unread
      /\ UNCHANGED <<apps, repos, when, owed, shrunk, changes>>
  BY DEF Abandon, github, history
<1>2. \A S : <<>> \in Seq(S)
  OBVIOUS
<1>3. /\ ids' \in Seq(Installations) /\ names' \in Seq(Repositories)
      /\ found' \in Seq(Repositories) /\ fires' \subseteq DOMAIN found'
  BY <1>1, <1>2
<1>4. /\ apps' \in Seq(Installations \cup {Odd})
      /\ repos' \in [Installations -> Seq(Repositories \cup {Odd})]
      /\ when' \in Instants /\ owed' \subseteq Repositories
      /\ shrunk' \in BOOLEAN /\ changes' \in 0 .. MaxChanges
  BY <1>1 DEF SweepTypeOK
<1>5. /\ request' \in Stages /\ page' \in Nat \ {0}
      /\ config' = Unread \/ \E r \in Repositories : config' \in CadencesOf[r]
  BY <1>1 DEF Stages
<1>6. SweepTypeOK'
  BY <1>3, <1>4, <1>5 DEF SweepTypeOK
<1>7. Awaiting'
  BY <1>1 DEF Awaiting
<1> QED  BY <1>6, <1>7

\* A page of a listing, the mint in between, and the first of the configs.
LEMMA EnumerateTyped ==
    ASSUME SweepTypeOK, Awaiting, Enumerates
    PROVE  SweepTypeOK' /\ Awaiting'
<1>1. /\ page \in Nat \ {0} /\ apps \in Seq(Installations \cup {Odd})
      /\ \A i \in Installations : repos[i] \in Seq(Repositories \cup {Odd})
      /\ ids \in Seq(Installations) /\ names \in Seq(Repositories)
      /\ Odd \notin Installations /\ Odd \notin Repositories
  BY SweepAssumption DEF SweepTypeOK
<1>2. CASE ListInstallations
  <2>1. Kept(apps) \in Seq(Installations)
    BY <1>1, KeptIs
  <2>2. ids' \in Seq(Installations)
    BY <1>1, <1>2, <2>1 DEF ListInstallations
  <2>3. /\ request' \in {"installations", "config", "mint"} /\ page' \in Nat \ {0}
        /\ request' = "mint" => ids' # <<>>
        /\ request' # "installations" => page' = 1
    BY <1>1, <1>2 DEF ListInstallations, Turns
  <2>4. names = <<>>
    BY <1>2 DEF ListInstallations, Awaiting
  <2> QED  BY <1>2, <2>2, <2>3, <2>4
           DEF ListInstallations, SweepTypeOK, Awaiting, github, history, Stages
<1>3. CASE Mint
  BY <1>3 DEF Mint, SweepTypeOK, Awaiting, github, history, Stages
<1>4. CASE ListRepositories
  <2> DEFINE h == Head(ids)
  <2>1. ids # <<>>
    BY <1>4 DEF ListRepositories, Awaiting
  <2>2. h \in Installations /\ Tail(ids) \in Seq(Installations)
    BY <1>1, <2>1
  <2>3. repos[h] \in Seq(Repositories \cup {Odd})
    BY <1>1, <2>2
  <2> HIDE DEF h
  <2>4. Kept(repos[h]) \in Seq(Repositories)
    BY <1>1, <2>3, KeptIs
  <2>5. names' \in Seq(Repositories)
    BY <1>1, <1>4, <2>4 DEF ListRepositories, h
  <2>6. /\ request' \in {"repositories", "config", "mint"} /\ page' \in Nat \ {0}
        /\ ids' \in Seq(Installations)
        /\ request' \in {"mint", "repositories"} => ids' # <<>>
        /\ request' # "repositories" => page' = 1
    <3>1. CASE LastPage(repos[h])
      <4>1. ids' = Tail(ids) /\ Turns(ids') /\ page' = 1
        BY <1>4, <3>1 DEF ListRepositories, h
      <4>2. request' \in {"config", "mint"} /\ (request' = "mint" => ids' # <<>>)
        BY <4>1 DEF Turns
      <4> QED  BY <2>2, <4>1, <4>2
    <3>2. CASE ~LastPage(repos[h])
      <4>1. page' = page + 1 /\ UNCHANGED <<request, ids>> /\ request = "repositories"
        BY <1>4, <3>2 DEF ListRepositories, h
      <4> QED  BY <1>1, <2>1, <4>1
    <3> QED  BY <3>1, <3>2
  <2> QED  BY <1>4, <2>5, <2>6
           DEF ListRepositories, SweepTypeOK, Awaiting, github, history, Stages
<1>5. CASE AppRefused
  BY <1>5, AbandonTyped DEF AppRefused, SweepTypeOK
<1> QED  BY <1>2, <1>3, <1>4, <1>5 DEF Enumerates

\* A config, and the end of them.
LEMMA FetchTyped ==
    ASSUME SweepTypeOK, Awaiting, Fetches
    PROVE  SweepTypeOK' /\ Awaiting'
<1>1. names \in Seq(Repositories) /\ found \in Seq(Repositories)
  BY DEF SweepTypeOK
<1>2. CASE FetchOptedOut
  <2>1. Tail(names) \in Seq(Repositories)
    BY <1>1, <1>2 DEF FetchOptedOut
  <2>2. config' = Unread \/ \E r \in Repositories : config' \in CadencesOf[r]
    BY <1>2 DEF FetchOptedOut
  <2>3. /\ names' \in Seq(Repositories) /\ request = "config"
        /\ UNCHANGED <<apps, repos, request, when, page, ids, found, fires,
                       owed, shrunk, changes, faults>>
    BY <1>2, <2>1 DEF FetchOptedOut, github, history
  <2> QED  BY <2>2, <2>3 DEF SweepTypeOK, Awaiting
<1>3. CASE FetchUndecodable \/ FetchGone
  BY <1>3, AbandonTyped DEF FetchUndecodable, FetchGone, SweepTypeOK
<1>4. CASE Finish
  <2>1. config' = Unread \/ \E r \in Repositories : config' \in CadencesOf[r]
    BY <1>4 DEF Finish
  <2>2. /\ request = "config" /\ request' = "idle" /\ request' \in Stages
        /\ UNCHANGED <<apps, repos, when, page, ids, names, found, fires,
                       owed, shrunk, changes, faults>>
    BY <1>4 DEF Finish, github, history, Stages
  <2> QED  BY <2>1, <2>2 DEF SweepTypeOK, Awaiting
<1>5. ASSUME NEW r \in Repositories, NEW c \in CadencesOf[r], FetchOptedIn(r, c)
      PROVE  SweepTypeOK' /\ Awaiting'
  <2>1. Tail(names) \in Seq(Repositories)
    BY <1>1, <1>5 DEF FetchOptedIn
  <2>2. /\ found' \in Seq(Repositories) /\ DOMAIN found \subseteq DOMAIN found'
        /\ Len(found') \in DOMAIN found'
    BY <1>1, <1>5 DEF FetchOptedIn
  <2>3. fires' \subseteq DOMAIN found'
    BY <1>5, <2>2 DEF FetchOptedIn, SweepTypeOK
  <2> QED  BY <1>5, <2>1, <2>2, <2>3
           DEF FetchOptedIn, SweepTypeOK, Awaiting, github, history
<1> QED  BY <1>2, <1>3, <1>4, <1>5 DEF Fetches

\* A worker starts with no sweep under way.
LEMMA SweepTypeInit == SweepInit => SweepTypeOK /\ Awaiting
<1> SUFFICES ASSUME SweepInit PROVE SweepTypeOK /\ Awaiting
  OBVIOUS
<1>1. \A S : <<>> \in Seq(S)
  OBVIOUS
<1>2. /\ ids \in Seq(Installations) /\ names \in Seq(Repositories)
      /\ found \in Seq(Repositories) /\ fires \subseteq DOMAIN found
  BY <1>1 DEF SweepInit
<1>3. /\ apps \in Seq(Installations \cup {Odd})
      /\ repos \in [Installations -> Seq(Repositories \cup {Odd})]
      /\ changes \in 0 .. MaxChanges /\ faults \in 0 .. MaxFaults
  BY SweepAssumption DEF SweepInit
<1>4. /\ request \in Stages /\ page \in Nat \ {0} /\ when \in Instants
      /\ config = Unread \/ \E r \in Repositories : config \in CadencesOf[r]
      /\ owed \subseteq Repositories
  BY DEF SweepInit, Stages
<1>5. shrunk \in BOOLEAN
  BY DEF SweepInit
<1>6. SweepTypeOK
  BY <1>2, <1>3, <1>4, <1>5 DEF SweepTypeOK
<1>7. Awaiting
  BY DEF SweepInit, Awaiting
<1> QED  BY <1>6, <1>7

\* Every step keeps the types, a change of GitHub's among them.
LEMMA SweepTypeStep ==
    SweepTypeOK /\ Awaiting /\ [SweepNext]_sweepVars => SweepTypeOK' /\ Awaiting'
<1> SUFFICES ASSUME SweepTypeOK, Awaiting, [SweepNext]_sweepVars
             PROVE  SweepTypeOK' /\ Awaiting'
  OBVIOUS
<1>1. ASSUME NEW t \in Instants, BeginSweep(t) PROVE SweepTypeOK' /\ Awaiting'
  <2>1. Installed \subseteq Repositories
    BY DEF Installed
  <2>2. \A S : <<>> \in Seq(S)
    OBVIOUS
  <2>3. /\ request' = "installations" /\ page' = 1 /\ when' \in Instants
        /\ ids' = <<>> /\ names' = <<>> /\ found' = <<>> /\ fires' = {}
        /\ config' = Unread /\ owed' = Installed /\ shrunk' = FALSE
        /\ UNCHANGED <<apps, repos, changes, faults>>
    BY <1>1 DEF BeginSweep, github
  <2>4. /\ ids' \in Seq(Installations) /\ names' \in Seq(Repositories)
        /\ found' \in Seq(Repositories) /\ fires' \subseteq DOMAIN found'
    BY <2>2, <2>3
  <2>5. /\ request' \in Stages /\ page' \in Nat \ {0} /\ when' \in Instants
        /\ config' = Unread \/ \E r \in Repositories : config' \in CadencesOf[r]
        /\ owed' \subseteq Repositories
    BY <2>1, <2>3 DEF Stages
  <2>6. shrunk' \in BOOLEAN
    BY <2>3
  <2>7. SweepTypeOK'
    BY <2>3, <2>4, <2>5, <2>6 DEF SweepTypeOK
  <2>8. Awaiting'
    BY <2>3 DEF Awaiting
  <2> QED  BY <2>7, <2>8
<1>2. CASE Fails
  <2>1. faults' \in 0 .. MaxFaults
    BY <1>2, SweepAssumption DEF Fails, SweepTypeOK
  <2> QED  BY <1>2, <2>1, AbandonTyped DEF Fails
<1>3. CASE UNCHANGED sweepVars
  BY <1>3 DEF SweepTypeOK, Awaiting, sweepVars, github, beat, history
<1> QED  BY <1>1, <1>2, <1>3, ChangeTyped, EnumerateTyped, FetchTyped DEF SweepNext

\* Only a fetched config decides, and at the place its repo has just been given.
LEMMA FiresStep ==
    SweepTypeOK /\ FiresWhenNamed /\ [SweepNext]_sweepVars => FiresWhenNamed'
<1> SUFFICES ASSUME SweepTypeOK, FiresWhenNamed, [SweepNext]_sweepVars
             PROVE  FiresWhenNamed'
  OBVIOUS
<1>1. ASSUME NEW r \in Repositories, NEW c \in CadencesOf[r], FetchOptedIn(r, c)
      PROVE  FiresWhenNamed'
  <2>1. c \in Cadence /\ when \in Instant
    BY SweepAssumption DEF SweepTypeOK
  <2>2. Bounded(c) => (CronDue(c, when) <=> Names(c, when))
    BY <2>1, CadenceRead
  <2>3. Len(found') \notin fires
    <3>1. found' = Append(found, r) /\ found \in Seq(Repositories)
      BY <1>1 DEF FetchOptedIn, SweepTypeOK
    <3>2. DOMAIN found = 1 .. Len(found) /\ Len(found') = Len(found) + 1
          /\ Len(found) \in Nat
      BY <3>1
    <3>3. fires \subseteq DOMAIN found
      BY DEF SweepTypeOK
    <3> QED  BY <3>2, <3>3
  <2>4. /\ config' = c /\ when' = when
        /\ fires' = IF CronDue(c, when) THEN fires \cup {Len(found')} ELSE fires
    BY <1>1 DEF FetchOptedIn
  <2>5. Len(found') \in fires' <=> CronDue(c, when)
    BY <2>3, <2>4
  <2> QED  BY <2>2, <2>4, <2>5 DEF FiresWhenNamed
<1>2. CASE config' = Unread
  BY <1>2 DEF FiresWhenNamed
<1>3. CASE UNCHANGED <<config, when, found, fires>>
  BY <1>3 DEF FiresWhenNamed
<1>4. CASE Changes
  BY <1>3, <1>4
     DEF Changes, InstallApp, UninstallApp, AddRepo, RemoveRepo, beat
<1>5. CASE Enumerates
  BY <1>2, <1>3, <1>5 DEF Enumerates, ListInstallations, Mint,
     ListRepositories, AppRefused, Abandon
<1>6. CASE Fetches
  BY <1>1, <1>2, <1>6
     DEF Fetches, FetchOptedOut, FetchUndecodable, FetchGone, Finish, Abandon
<1>7. CASE Fails \/ \E t \in Instants : BeginSweep(t)
  BY <1>2, <1>7 DEF Fails, Abandon, BeginSweep
<1>8. CASE UNCHANGED sweepVars
  BY <1>3, <1>8 DEF sweepVars, beat
<1> QED  BY <1>4, <1>5, <1>6, <1>7, <1>8 DEF SweepNext

-----------------------------------------------------------------------------
(* Paging. *)

\* GitHub lists an installation, and a repo, once.
ListedOnce ==
    /\ Once(apps) /\ \A i \in Installations : Once(repos[i])
    /\ \A i, j \in Installations : i # j =>
          ToSet(repos[i]) \cap ToSet(repos[j]) \subseteq {Odd}

\* The repos of the installations after the one that is paged.
Later == UNION {ToSet(repos[ids[k]]) : k \in 2 .. Len(ids)}

\* No entry has left: what the pages asked for have is listed, and what is
\* owed is on the others.
PagesApps ==
    request = "installations" /\ ~shrunk =>
        /\ Offset <= Len(apps)
        /\ ToSet(ids) = Paged(apps) /\ Once(ids)
        /\ owed \subseteq Installed

\* The same, of the repos of the installation that is paged.
PagesRepos ==
    request \in {"mint", "repositories"} /\ ~shrunk =>
        /\ Offset <= Len(repos[ids[1]])
        /\ Once(ids) /\ Once(names)
        /\ ToSet(names) \subseteq UNION {ToSet(repos[i]) : i \in Installations}
        /\ ToSet(names) \cap (Coming(repos[ids[1]]) \cup Later) = {}
        /\ owed \subseteq ToSet(names) \cup Coming(repos[ids[1]]) \cup Later

\* The end of the paging: what ListsInstalled promises.
AllListed == owed \subseteq ToSet(names) /\ Once(names)

\* The inductive invariant of a sweep.
PagingInv == SweepTypeOK /\ Awaiting /\ ListedOnce /\ PagesApps /\ PagesRepos

\* A repo that comes is new, and a listing that loses one keeps the rest once.
LEMMA ListedOnceStep ==
    ASSUME SweepTypeOK, ListedOnce, [SweepNext]_sweepVars
    PROVE  ListedOnce'
<1>1. /\ apps \in Seq(Installations \cup {Odd})
      /\ \A i \in Installations : repos[i] \in Seq(Repositories \cup {Odd})
      /\ DOMAIN repos = Installations
  BY DEF SweepTypeOK
<1>2. ASSUME NEW i \in Installations, InstallApp(i) PROVE ListedOnce'
  <2>1. Once(Append(apps, i))
    BY <1>1, <1>2, AppendListed DEF ListedOnce, InstallApp
  <2> QED  BY <1>2, <2>1 DEF ListedOnce, InstallApp
<1>3. ASSUME NEW i \in Installations, UninstallApp(i) PROVE ListedOnce'
  <2>1. Once(Dropping(apps, i))
    BY <1>1, DroppingLeaves DEF ListedOnce
  <2>2. Once(<<>>) /\ ToSet(<<>>) = {}
    BY DEF Once, ToSet
  <2>3. apps' = Dropping(apps, i) /\ repos' = [repos EXCEPT ![i] = <<>>]
    BY <1>3 DEF UninstallApp
  <2>4. \A j \in Installations : repos'[j] = IF j = i THEN <<>> ELSE repos[j]
    BY <1>1, <2>3
  <2>5. \A j \in Installations :
          Once(repos'[j]) /\ ToSet(repos'[j]) \subseteq ToSet(repos[j])
    BY <2>2, <2>4 DEF ListedOnce
  <2> QED  BY <2>1, <2>3, <2>5 DEF ListedOnce
<1>4. ASSUME NEW i \in Installations, NEW r \in Repositories, AddRepo(i, r)
      PROVE  ListedOnce'
  <2> DEFINE a == Append(repos[i], r)
  <2>1. ToSet(a) = ToSet(repos[i]) \cup {r} /\ Once(a)
    BY <1>1, <1>4, AppendListed DEF ListedOnce, AddRepo
  <2>2. apps' = apps /\ repos' = [repos EXCEPT ![i] = a]
    BY <1>4 DEF AddRepo
  <2> HIDE DEF a
  <2>3. \A j \in Installations : repos'[j] = IF j = i THEN a ELSE repos[j]
    BY <1>1, <2>2
  <2>4. \A j \in Installations : r \notin ToSet(repos[j])
    BY <1>4 DEF AddRepo
  <2> QED  BY <2>1, <2>2, <2>3, <2>4 DEF ListedOnce
<1>5. ASSUME NEW i \in Installations, NEW r \in Repositories, RemoveRepo(i, r)
      PROVE  ListedOnce'
  <2> DEFINE d == Dropping(repos[i], r)
  <2>1. ToSet(d) = ToSet(repos[i]) \ {r} /\ Once(d)
    BY <1>1, DroppingLeaves DEF ListedOnce
  <2>2. apps' = apps /\ repos' = [repos EXCEPT ![i] = d]
    BY <1>5 DEF RemoveRepo
  <2> HIDE DEF d
  <2>3. \A j \in Installations : repos'[j] = IF j = i THEN d ELSE repos[j]
    BY <1>1, <2>2
  <2> QED  BY <2>1, <2>2, <2>3 DEF ListedOnce
<1>6. CASE UNCHANGED github
  BY <1>6 DEF ListedOnce, github
<1>7. UNCHANGED github \/ Changes
  BY DEF SweepNext, BeginSweep, Enumerates, ListInstallations, Mint,
     ListRepositories, AppRefused, Fetches, FetchOptedOut, FetchUndecodable,
     FetchGone, Finish, FetchOptedIn, Fails, Abandon, sweepVars
<1> QED  BY <1>2, <1>3, <1>4, <1>5, <1>6, <1>7 DEF Changes

\* Until a listing loses an entry, what comes to it is still to be paged.
LEMMA ChangePages ==
    ASSUME PagingInv, Changes
    PROVE  PagesApps' /\ PagesRepos'
<1>1. /\ UNCHANGED <<request, page, ids, names>> /\ Offset' = Offset
      /\ page \in Nat \ {0} /\ Offset \in Nat
      /\ apps \in Seq(Installations \cup {Odd})
      /\ \A j \in Installations : repos[j] \in Seq(Repositories \cup {Odd})
      /\ DOMAIN repos = Installations
      /\ ids \in Seq(Installations) /\ names \in Seq(Repositories)
  <2>1. UNCHANGED <<request, page, ids, names>>
    BY DEF Changes, InstallApp, UninstallApp, AddRepo, RemoveRepo, beat
  <2>2. page \in Nat \ {0}
    BY DEF PagingInv, SweepTypeOK
  <2> QED  BY <2>1, <2>2, Offsets DEF PagingInv, SweepTypeOK, Offset
<1>2. ASSUME Leaves PROVE PagesApps' /\ PagesRepos'
  BY <1>1, <1>2 DEF Leaves, PagesApps, PagesRepos
<1>3. ASSUME NEW i \in Installations, InstallApp(i)
      PROVE  PagesApps' /\ PagesRepos'
  <2>1. apps' = Append(apps, i) /\ UNCHANGED <<repos, owed, shrunk>>
    BY <1>3 DEF InstallApp, history
  <2>2. PagesRepos'
    BY <1>1, <2>1 DEF PagingInv, PagesRepos, Coming, Later
  <2>3. /\ Len(apps') = Len(apps) + 1 /\ Len(apps) \in Nat
        /\ DOMAIN apps = 1 .. Len(apps) /\ DOMAIN apps' = 1 .. Len(apps) + 1
        /\ \A k \in DOMAIN apps : apps'[k] = apps[k]
    BY <1>1, <2>1
  <2>4. ASSUME Offset <= Len(apps) PROVE Paged(apps)' = Paged(apps)
    <3>1. {n \in DOMAIN apps' : n <= Offset} = {n \in DOMAIN apps : n <= Offset}
      BY <1>1, <2>3, <2>4
    <3> QED  BY <1>1, <2>3, <3>1 DEF Paged
  <2>5. Installed \subseteq Installed'
    <3>1. ToSet(apps) \subseteq ToSet(apps')
      BY <2>3 DEF ToSet
    <3> QED  BY <2>1, <3>1 DEF Installed
  <2>6. PagesApps'
    BY <1>1, <2>1, <2>3, <2>4, <2>5 DEF PagingInv, PagesApps
  <2> QED  BY <2>2, <2>6
<1>4. ASSUME NEW i \in Installations, NEW r \in Repositories, AddRepo(i, r)
      PROVE  PagesApps' /\ PagesRepos'
  <2> DEFINE a == Append(repos[i], r)
  <2>1. repos' = [repos EXCEPT ![i] = a] /\ UNCHANGED <<apps, owed, shrunk>>
    BY <1>4 DEF AddRepo, history
  <2>2. /\ Len(a) = Len(repos[i]) + 1 /\ Len(repos[i]) \in Nat
        /\ DOMAIN repos[i] = 1 .. Len(repos[i])
        /\ DOMAIN a = 1 .. Len(repos[i]) + 1
        /\ \A k \in DOMAIN repos[i] : a[k] = repos[i][k]
        /\ a[Len(repos[i]) + 1] = r
    BY <1>1
  <2> HIDE DEF a
  <2>3. \A j \in Installations : repos'[j] = IF j = i THEN a ELSE repos[j]
    BY <1>1, <2>1
  <2>4. \A j \in Installations : Len(repos[j]) <= Len(repos'[j])
    <3>1. \A j \in Installations : Len(repos[j]) \in Nat
      BY <1>1
    <3> QED  BY <2>2, <2>3, <3>1
  <2>5. /\ ToSet(repos[i]) \subseteq ToSet(a)
        /\ ToSet(a) \subseteq ToSet(repos[i]) \cup {r}
    BY <2>2 DEF ToSet
  <2>6. \A j \in Installations :
          /\ ToSet(repos[j]) \subseteq ToSet(repos'[j])
          /\ ToSet(repos'[j]) \subseteq ToSet(repos[j]) \cup {r}
    BY <2>3, <2>5
  <2>7. \A j \in Installations : r \notin ToSet(repos[j])
    BY <1>4 DEF AddRepo
  <2>8. Installed \subseteq Installed'
    <3>1. \A j \in ToSet(apps) \ {Odd} : j \in Installations
      BY <1>1 DEF ToSet
    <3> QED  BY <2>1, <2>6, <3>1 DEF Installed
  <2>9. PagesApps'
    BY <1>1, <2>1, <2>8 DEF PagingInv, PagesApps, Paged
  <2>10. ASSUME request \in {"mint", "repositories"}, ~shrunk
         PROVE  PagesRepos'
    <3> DEFINE h == ids[1]
    <3>1. h \in Installations /\ \A k \in 2 .. Len(ids) : ids[k] \in Installations
      <4>1. ids # <<>>
        BY <2>10 DEF PagingInv, Awaiting
      <4> QED  BY <1>1, <4>1
    <3>2. /\ Coming(repos[h]) \subseteq Coming(repos[h])'
          /\ Coming(repos[h])' \subseteq Coming(repos[h]) \cup {r}
      <4>1. CASE h = i
        <5>1. repos'[h] = a
          BY <2>3, <3>1, <4>1
        <5>2. /\ Coming(repos[i]) \subseteq Coming(a)
              /\ Coming(a) \subseteq Coming(repos[i]) \cup {r}
          <6>1. \A n \in DOMAIN a : n \in DOMAIN repos[i] \/ a[n] = r
            BY <2>2
          <6> QED  BY <2>2, <6>1 DEF Coming
        <5>3. Coming(repos[h])' = Coming(a)
          BY <1>1, <5>1 DEF Coming
        <5> QED  BY <4>1, <5>2, <5>3
      <4>2. CASE h # i
        <5>1. repos'[h] = repos[h]
          BY <2>3, <3>1, <4>2
        <5> QED  BY <1>1, <5>1 DEF Coming
      <4> QED  BY <4>1, <4>2
    <3>3. Later \subseteq Later' /\ Later' \subseteq Later \cup {r}
      BY <1>1, <2>6, <3>1 DEF Later
    <3>4. r \notin ToSet(names)
      BY <2>7, <2>10 DEF PagingInv, PagesRepos
    <3>5. UNION {ToSet(repos[j]) : j \in Installations}
            \subseteq UNION {ToSet(repos'[j]) : j \in Installations}
      BY <2>6
    <3>6. Offset <= Len(repos'[h])
      <4>1. Len(repos[h]) \in Nat /\ Len(repos'[h]) \in Nat
        BY <1>1, <2>2, <2>3, <3>1
      <4> QED  BY <1>1, <2>4, <2>10, <3>1, <4>1 DEF PagingInv, PagesRepos
    <3>7. /\ Once(ids) /\ Once(names)
          /\ ToSet(names) \subseteq UNION {ToSet(repos[j]) : j \in Installations}
          /\ ToSet(names) \cap (Coming(repos[h]) \cup Later) = {}
          /\ owed \subseteq ToSet(names) \cup Coming(repos[h]) \cup Later
      BY <2>10 DEF PagingInv, PagesRepos
    <3>8. ToSet(names) \cap (Coming(repos[h])' \cup Later') = {}
      BY <3>2, <3>3, <3>4, <3>7
    <3>9. owed \subseteq ToSet(names) \cup Coming(repos[h])' \cup Later'
      BY <3>2, <3>3, <3>7
    <3>10. ToSet(names) \subseteq UNION {ToSet(repos'[j]) : j \in Installations}
      BY <3>5, <3>7
    <3> QED  BY <1>1, <2>1, <3>6, <3>7, <3>8, <3>9, <3>10 DEF PagesRepos
  <2>11. PagesRepos'
    BY <1>1, <2>1, <2>10 DEF PagesRepos
  <2> QED  BY <2>9, <2>11
<1> QED  BY <1>2, <1>3, <1>4 DEF Changes, UninstallApp, RemoveRepo

\* A page of installations: the pages before it and it are listed, and the last
\* one leaves nothing out.
LEMMA AppsPaged ==
    ASSUME PagingInv, ListInstallations, ~shrunk
    PROVE  /\ PagesApps' /\ PagesRepos'
           /\ request' = "config" => AllListed'
<1> DEFINE K == Kept(apps)
           new == {apps[k] : k \in {n \in DOMAIN apps :
                      Offset < n /\ n <= Offset + PerPage}} \ {Odd}
<1>1. /\ page \in Nat \ {0} /\ apps \in Seq(Installations \cup {Odd})
      /\ Odd \notin Installations /\ ids \in Seq(Installations)
      /\ Offset \in Nat /\ PerPage \in Nat \ {0}
      /\ page * PerPage = Offset + PerPage
      /\ DOMAIN apps = 1 .. Len(apps) /\ Len(apps) \in Nat
  BY SweepAssumption, Offsets DEF PagingInv, SweepTypeOK
<1>2. /\ Offset <= Len(apps) /\ ToSet(ids) = Paged(apps) /\ Once(ids)
      /\ owed \subseteq Installed /\ Once(apps) /\ names = <<>>
  BY DEF PagingInv, PagesApps, ListedOnce, Awaiting, ListInstallations
<1>3. K \in Seq(Installations) /\ ToSet(K) = new /\ Once(K)
  BY <1>1, <1>2, KeptIs
<1>4. LastPage(apps) <=> Len(apps) < Offset + PerPage
  BY <1>1, <1>2, PageIs
<1>5. /\ ids' = ids \o K /\ UNCHANGED <<apps, repos, names, owed, shrunk>>
      /\ request = "installations"
  BY DEF ListInstallations, github, history
<1> HIDE DEF K
<1>6. /\ ids' \in Seq(Installations) /\ ToSet(ids') = Paged(apps) \cup new
      /\ Once(ids')
  <2>1. Paged(apps) \cap new = {}
    <3> SUFFICES ASSUME NEW x \in Paged(apps), x \in new PROVE FALSE
      OBVIOUS
    <3>1. PICK j \in DOMAIN apps : j <= Offset /\ apps[j] = x /\ x # Odd
      BY DEF Paged
    <3>2. PICK k \in DOMAIN apps : Offset < k /\ apps[k] = x
      OBVIOUS
    <3>3. j = k
      BY <1>2, <3>1, <3>2 DEF Once
    <3> QED  BY <1>1, <3>1, <3>2, <3>3
  <2> HIDE DEF new
  <2> QED  BY <1>1, <1>2, <1>3, <1>5, <2>1, ConcatListed
<1>7. CASE ~LastPage(apps)
  <2>1. page' = page + 1 /\ request' = request
    BY <1>7 DEF ListInstallations
  <2>2. Offset' = Offset + PerPage
    BY <1>1, <2>1 DEF Offset
  <2>3. Offset' <= Len(apps)
    BY <1>1, <1>4, <1>7, <2>2
  <2>4. Paged(apps)' = Paged(apps) \cup new
    <3> DEFINE A == {n \in DOMAIN apps : n <= Offset}
               B == {n \in DOMAIN apps : Offset < n /\ n <= Offset + PerPage}
               C == {n \in DOMAIN apps : n <= Offset + PerPage}
    <3>1. C = A \cup B
      BY <1>1
    <3>2. Paged(apps)' = {apps[k] : k \in C} \ {Odd}
      BY <1>5, <2>2 DEF Paged
    <3>3. Paged(apps) = {apps[k] : k \in A} \ {Odd}
      BY DEF Paged
    <3>4. new = {apps[k] : k \in B} \ {Odd}
      OBVIOUS
    <3> HIDE DEF A, B, C, new
    <3> QED  BY <3>1, <3>2, <3>3, <3>4
  <2>5. Installed' = Installed
    BY <1>5 DEF Installed
  <2> HIDE DEF new
  <2>6. PagesApps'
    BY <1>2, <1>5, <1>6, <2>3, <2>4, <2>5 DEF PagesApps
  <2> QED  BY <1>5, <2>1, <2>6 DEF PagesRepos
<1>8. CASE LastPage(apps)
  <2>1. page' = 1 /\ request' = IF ids' = <<>> THEN "config" ELSE "mint"
    BY <1>8 DEF ListInstallations, Turns
  <2>2. Offset' = 0
    BY <1>1, <2>1 DEF Offset
  <2>3. ToSet(apps) \ {Odd} \subseteq ToSet(ids')
    <3>1. ASSUME NEW n \in DOMAIN apps, apps[n] # Odd
          PROVE  apps[n] \in Paged(apps) \cup new
      <4>1. CASE n <= Offset
        BY <3>1, <4>1 DEF Paged
      <4>2. CASE Offset < n
        <5>1. n <= Offset + PerPage
          BY <1>1, <1>4, <1>8
        <5> QED  BY <3>1, <4>2, <5>1
      <4> QED  BY <1>1, <4>1, <4>2
    <3> HIDE DEF new
    <3> QED  BY <1>6, <3>1 DEF ToSet
  <2> HIDE DEF new
  <2>4. ASSUME NEW r \in owed
        PROVE  \E k \in DOMAIN ids' : r \in ToSet(repos[ids'[k]])
    <3>1. PICK i \in ToSet(apps) \ {Odd} : r \in ToSet(repos[i])
      BY <1>2 DEF Installed
    <3>2. i \in ToSet(ids')
      BY <2>3
    <3> QED  BY <3>1, <3>2 DEF ToSet
  <2>5. DOMAIN ids' = 1 .. Len(ids') /\ Len(ids') \in Nat
    BY <1>6
  <2>6. Once(names) /\ ToSet(names) = {}
    BY <1>2 DEF Once, ToSet
  <2>7. ids' = <<>> => AllListed'
    BY <1>5, <2>4, <2>6 DEF AllListed
  <2>8. ASSUME ids' # <<>> PROVE PagesRepos'
    <3> DEFINE h == ids'[1]
    <3>1. h \in Installations /\ 1 \in DOMAIN ids'
      BY <1>6, <2>5, <2>8
    <3>2. repos[h] \in Seq(Repositories \cup {Odd})
      BY <3>1 DEF PagingInv, SweepTypeOK
    <3>3. Len(repos[h]) \in Nat /\ \A n \in DOMAIN repos[h] : n > 0
      <4>1. DOMAIN repos[h] = 1 .. Len(repos[h]) /\ Len(repos[h]) \in Nat
        BY <3>2
      <4> QED  BY <4>1
    <3>4. Coming(repos[ids[1]])' = ToSet(repos[h]) \ {Odd}
      <4>1. {n \in DOMAIN repos[h] : n > 0} = DOMAIN repos[h]
        BY <3>3
      <4> QED  BY <1>5, <2>2, <4>1 DEF Coming, ToSet
    <3>5. Later' = UNION {ToSet(repos[ids'[k]]) : k \in 2 .. Len(ids')}
      BY <1>5 DEF Later
    <3>6. ASSUME NEW r \in owed
          PROVE  r \in (ToSet(repos[h]) \ {Odd}) \cup Later'
      <4>1. r # Odd
        BY SweepAssumption DEF PagingInv, SweepTypeOK
      <4>2. PICK k \in DOMAIN ids' : r \in ToSet(repos[ids'[k]])
        BY <2>4
      <4>3. k = 1 \/ k \in 2 .. Len(ids')
        BY <2>5
      <4> QED  BY <3>5, <4>1, <4>2, <4>3
    <3>7. Offset' <= Len(repos'[h])
      BY <1>5, <2>2, <3>3
    <3> QED  BY <1>5, <1>6, <2>6, <3>4, <3>6, <3>7 DEF PagesRepos
  <2> QED  BY <2>1, <2>7, <2>8 DEF PagesApps, PagesRepos
<1> QED  BY <1>7, <1>8

\* A page of repos: none is listed twice, the rest of what is owed is on the
\* pages and in the installations after it.
LEMMA ReposPaged ==
    ASSUME PagingInv, ListRepositories, ~shrunk
    PROVE  /\ PagesApps' /\ PagesRepos'
           /\ request' = "config" => AllListed'
<1> DEFINE h == ids[1]
           s == repos[h]
           K == Kept(s)
           new == {s[k] : k \in {n \in DOMAIN s :
                      Offset < n /\ n <= Offset + PerPage}} \ {Odd}
           rest == {s[k] : k \in {n \in DOMAIN s : n > Offset + PerPage}} \ {Odd}
<1>1. /\ request = "repositories" /\ ids # <<>> /\ ids \in Seq(Installations)
      /\ Head(ids) = h /\ 1 \in DOMAIN ids /\ DOMAIN ids = 1 .. Len(ids)
      /\ Len(ids) \in Nat /\ h \in Installations
  <2>1. request = "repositories" /\ ids # <<>> /\ ids \in Seq(Installations)
    BY DEF PagingInv, SweepTypeOK, Awaiting, ListRepositories
  <2> QED  BY <2>1
<1>2. /\ page \in Nat \ {0} /\ s \in Seq(Repositories \cup {Odd})
      /\ Odd \notin Repositories /\ Odd \notin Installations
      /\ names \in Seq(Repositories)
      /\ Offset \in Nat /\ PerPage \in Nat \ {0}
      /\ page * PerPage = Offset + PerPage
  BY <1>1, SweepAssumption, Offsets DEF PagingInv, SweepTypeOK
<1>3. DOMAIN s = 1 .. Len(s) /\ Len(s) \in Nat
  BY <1>2
<1>4. /\ Offset <= Len(s) /\ Once(ids) /\ Once(names)
      /\ ToSet(names) \subseteq UNION {ToSet(repos[i]) : i \in Installations}
      /\ ToSet(names) \cap (Coming(s) \cup Later) = {}
      /\ owed \subseteq ToSet(names) \cup Coming(s) \cup Later
  BY <1>1 DEF PagingInv, PagesRepos
<1>5. /\ \A i \in Installations : Once(repos[i])
      /\ \A i, j \in Installations : i # j =>
           ToSet(repos[i]) \cap ToSet(repos[j]) \subseteq {Odd}
  BY DEF PagingInv, ListedOnce
<1>6. Once(s)
  BY <1>1, <1>5
<1>7. /\ UNCHANGED <<repos, owed, shrunk>> /\ names' = names \o K
      /\ IF LastPage(s)
         THEN ids' = Tail(ids) /\ Turns(ids') /\ page' = 1
         ELSE page' = page + 1 /\ UNCHANGED <<request, ids>>
  BY <1>1 DEF ListRepositories, github, history
<1> HIDE DEF h
<1>8. LastPage(s) <=> Len(s) < Offset + PerPage
  BY <1>2, <1>4, PageIs
<1>9. K \in Seq(Repositories) /\ ToSet(K) = new /\ Once(K)
  BY <1>2, <1>6, KeptIs
<1>10. Coming(s) = new \cup rest /\ new \cap rest = {} /\ Coming(s) \subseteq ToSet(s)
  <2>1. \A n \in DOMAIN s : n > Offset <=>
           (Offset < n /\ n <= Offset + PerPage) \/ n > Offset + PerPage
    BY <1>2, <1>3
  <2>2. Coming(s) = new \cup rest
    BY <2>1 DEF Coming
  <2>3. new \cap rest = {}
    <3> SUFFICES ASSUME NEW x \in new, x \in rest PROVE FALSE
      OBVIOUS
    <3>1. PICK j \in DOMAIN s : j <= Offset + PerPage /\ s[j] = x /\ x # Odd
      OBVIOUS
    <3>2. PICK k \in DOMAIN s : k > Offset + PerPage /\ s[k] = x
      OBVIOUS
    <3>3. j = k
      BY <1>6, <3>1, <3>2 DEF Once
    <3> QED  BY <1>2, <1>3, <3>1, <3>2, <3>3
  <2>4. Coming(s) \subseteq ToSet(s)
    BY DEF Coming, ToSet
  <2> QED  BY <2>2, <2>3, <2>4
<1>11. Later \cap ToSet(s) \subseteq {Odd}
  <2>1. ASSUME NEW k \in 2 .. Len(ids)
        PROVE  ToSet(repos[ids[k]]) \cap ToSet(s) \subseteq {Odd}
    <3>1. k \in DOMAIN ids /\ k # 1 /\ ids[k] \in Installations
      BY <1>1, <2>1
    <3>2. ids[k] # Odd /\ ids[k] # h
      BY <1>1, <1>2, <1>4, <3>1 DEF Once, h
    <3> QED  BY <1>1, <1>5, <3>1, <3>2
  <2> QED  BY <2>1 DEF Later
<1> HIDE DEF K, new, rest, s
<1>12. /\ names' \in Seq(Repositories) /\ ToSet(names') = ToSet(names) \cup new
       /\ Once(names')
  BY <1>2, <1>4, <1>7, <1>9, <1>10, ConcatListed
<1>13. ToSet(names') \subseteq UNION {ToSet(repos[i]) : i \in Installations}
  <2>1. new \subseteq ToSet(s)
    BY <1>10
  <2> QED  BY <1>1, <1>4, <1>12, <2>1 DEF s
<1>14. \A r \in ToSet(names') : r # Odd
  BY <1>2, <1>12 DEF ToSet
<1>15. ToSet(names') \cap Later = {}
  <2>1. new \subseteq ToSet(s)
    BY <1>10
  <2> QED  BY <1>4, <1>11, <1>12, <1>14, <2>1
<1>16. ToSet(names') \cap rest = {} /\ owed \subseteq ToSet(names') \cup rest \cup Later
  BY <1>4, <1>10, <1>12
<1>17. CASE ~LastPage(s)
  <2>1. page' = page + 1 /\ ids' = ids /\ request' = request
    BY <1>7, <1>17
  <2>2. Offset' = Offset + PerPage
    BY <1>2, <2>1 DEF Offset
  <2>3. Offset' <= Len(s)
    BY <1>2, <1>3, <1>8, <1>17, <2>2
  <2>4. Coming(repos[ids[1]])' = rest
    BY <1>7, <2>1, <2>2 DEF Coming, rest, s, h
  <2>5. Later' = Later
    BY <1>7, <2>1 DEF Later
  <2>6. repos'[ids'[1]] = s
    BY <1>7, <2>1 DEF s, h
  <2>7. PagesRepos'
    BY <1>4, <1>7, <1>12, <1>13, <1>15, <1>16, <2>1, <2>3, <2>4, <2>5, <2>6
       DEF PagesRepos
  <2> QED  BY <1>1, <2>1, <2>7 DEF PagesApps
<1>18. CASE LastPage(s)
  <2>1. /\ ids' = Tail(ids) /\ page' = 1
        /\ request' = IF ids' = <<>> THEN "config" ELSE "mint"
    BY <1>7, <1>18 DEF Turns
  <2>2. Offset' = 0
    BY <1>2, <2>1 DEF Offset
  <2>3. rest = {}
    <3>1. \A n \in DOMAIN s : ~(n > Offset + PerPage)
      BY <1>2, <1>3, <1>8, <1>18
    <3> QED  BY <3>1 DEF rest
  <2>4. /\ ids' \in Seq(Installations) /\ Len(ids') = Len(ids) - 1
        /\ \A k \in 1 .. Len(ids') : ids'[k] = ids[k + 1]
        /\ DOMAIN ids' = 1 .. Len(ids') /\ Len(ids') \in Nat
    BY <1>1, <2>1
  <2>5. ASSUME ids' = <<>> PROVE AllListed'
    <3>1. Len(ids) = 1
      <4>1. Len(ids') = 0
        BY <2>5
      <4>2. Len(ids') = Len(ids) - 1
        BY <2>4
      <4>3. Len(ids) \in Nat
        BY <1>1
      <4>4. 0 = Len(ids) - 1
        BY <4>1, <4>2
      <4> QED  BY <4>3, <4>4
    <3>2. Later = {}
      <4>1. 2 .. Len(ids) = {}
        BY <3>1
      <4> QED  BY <4>1 DEF Later
    <3> QED  BY <1>7, <1>12, <1>16, <2>3, <3>2 DEF AllListed
  <2>6. ASSUME ids' # <<>> PROVE PagesRepos'
    <3> DEFINE g == ids'[1]
    <3>1. g \in Installations /\ 1 \in DOMAIN ids' /\ Len(ids') > 0
      BY <2>4, <2>6
    <3>2. repos[g] \in Seq(Repositories \cup {Odd})
      BY <3>1 DEF PagingInv, SweepTypeOK
    <3>3. Len(repos[g]) \in Nat /\ \A n \in DOMAIN repos[g] : n > 0
      <4>1. DOMAIN repos[g] = 1 .. Len(repos[g]) /\ Len(repos[g]) \in Nat
        BY <3>2
      <4> QED  BY <4>1
    <3>4. Coming(repos[ids[1]])' = ToSet(repos[g]) \ {Odd}
      <4>1. {n \in DOMAIN repos[g] : n > 0} = DOMAIN repos[g]
        BY <3>3
      <4> QED  BY <1>7, <2>2, <4>1 DEF Coming, ToSet
    <3>5. Later' \cup ToSet(repos[g]) = Later
      <4>1. Later' = UNION {ToSet(repos[ids'[k]]) : k \in 2 .. Len(ids')}
        BY <1>7 DEF Later
      <4>2. g = ids[2] /\ 2 \in 2 .. Len(ids)
        BY <1>1, <2>4, <3>1
      <4>3. \A k \in 2 .. Len(ids') : k + 1 \in 2 .. Len(ids) /\ ids'[k] = ids[k + 1]
        BY <1>1, <2>4
      <4>4. ASSUME NEW x \in Later PROVE x \in Later' \cup ToSet(repos[g])
        <5>1. PICK k \in 2 .. Len(ids) : x \in ToSet(repos[ids[k]])
          BY DEF Later
        <5>2. CASE k = 2
          BY <4>2, <5>1, <5>2
        <5>3. CASE k # 2
          <6>1. k - 1 \in 2 .. Len(ids') /\ (k - 1) + 1 = k
            BY <1>1, <2>4, <5>3
          <6>2. ids'[k - 1] = ids[k]
            BY <4>3, <6>1
          <6> QED  BY <4>1, <5>1, <6>1, <6>2
        <5> QED  BY <5>2, <5>3
      <4>5. ASSUME NEW x \in Later' PROVE x \in Later
        <5>1. PICK k \in 2 .. Len(ids') : x \in ToSet(repos[ids'[k]])
          BY <4>1
        <5> QED  BY <4>3, <5>1 DEF Later
      <4>6. ToSet(repos[g]) \subseteq Later
        BY <4>2 DEF Later
      <4> QED  BY <4>4, <4>5, <4>6
    <3>6. Offset' <= Len(repos'[g])
      BY <1>7, <2>2, <3>3
    <3>7. Once(ids')
      <4>1. \A k \in 1 .. Len(ids') : k + 1 \in DOMAIN ids /\ ids'[k] = ids[k + 1]
        BY <1>1, <2>4
      <4>2. \A j, k \in 1 .. Len(ids') : j + 1 = k + 1 => j = k
        OBVIOUS
      <4> QED  BY <1>4, <2>4, <4>1, <4>2 DEF Once
    <3>8. ToSet(names') \cap (Coming(repos[ids[1]])' \cup Later') = {}
      BY <1>15, <3>4, <3>5
    <3>9. owed \subseteq ToSet(names') \cup Coming(repos[ids[1]])' \cup Later'
      <4>1. \A r \in owed : r # Odd
        BY <1>2 DEF PagingInv, SweepTypeOK
      <4> QED  BY <1>16, <2>3, <3>4, <3>5, <4>1
    <3> QED  BY <1>7, <1>12, <1>13, <3>6, <3>7, <3>8, <3>9 DEF PagesRepos
  <2> QED  BY <2>1, <2>5, <2>6 DEF PagesApps, PagesRepos
<1> QED  BY <1>17, <1>18

\* The other steps of a beat ask for no page.
LEMMA PagesStep ==
    PagingInv /\ [SweepNext]_sweepVars =>
      /\ PagingInv'
      /\ request # "config" /\ request' = "config" /\ ~shrunk => AllListed'
<1> SUFFICES ASSUME PagingInv, [SweepNext]_sweepVars
             PROVE  /\ PagesApps' /\ PagesRepos'
                    /\ request # "config" /\ request' = "config" /\ ~shrunk
                         => AllListed'
  BY SweepTypeStep, ListedOnceStep DEF PagingInv
<1>1. CASE Changes
  <2>1. request' = request
    BY <1>1 DEF Changes, InstallApp, UninstallApp, AddRepo, RemoveRepo, beat
  <2> QED  BY <1>1, <2>1, ChangePages
<1>2. CASE ListInstallations \/ ListRepositories
  <2>1. CASE ~shrunk
    BY <1>2, <2>1, AppsPaged, ReposPaged
  <2>2. CASE shrunk
    <3>1. shrunk'
      BY <1>2, <2>2 DEF ListInstallations, ListRepositories, history
    <3> QED  BY <2>2, <3>1 DEF PagesApps, PagesRepos
  <2> QED  BY <2>1, <2>2
<1>3. CASE Mint
  <2>1. /\ request = "mint" /\ request' = "repositories"
        /\ UNCHANGED <<apps, repos, page, ids, names, owed, shrunk>>
    BY <1>3 DEF Mint, github, history
  <2>2. Offset' = Offset
    BY <2>1 DEF Offset
  <2> QED  BY <2>1, <2>2 DEF PagingInv, PagesApps, PagesRepos, Coming, Later
<1>4. CASE AppRefused \/ FetchUndecodable \/ FetchGone \/ Fails \/ Finish
  <2>1. request' = "idle"
    BY <1>4 DEF AppRefused, FetchUndecodable, FetchGone, Fails, Finish, Abandon
  <2> QED  BY <2>1 DEF PagesApps, PagesRepos
<1>5. CASE FetchOptedOut \/ \E r \in Repositories : \E c \in CadencesOf[r] : FetchOptedIn(r, c)
  <2>1. request = "config" /\ request' = "config"
    BY <1>5 DEF FetchOptedOut, FetchOptedIn
  <2> QED  BY <2>1 DEF PagesApps, PagesRepos
<1>6. ASSUME NEW t \in Instants, BeginSweep(t)
      PROVE  PagesApps' /\ PagesRepos' /\ request' # "config"
  <2>1. /\ request' = "installations" /\ page' = 1 /\ ids' = <<>>
        /\ owed' = Installed /\ UNCHANGED <<apps, repos>>
    BY <1>6 DEF BeginSweep, github
  <2>2. page' \in Nat \ {0} /\ apps \in Seq(Installations \cup {Odd})
    BY <2>1 DEF PagingInv, SweepTypeOK
  <2>3. Offset' = 0
    <3>1. PerPage \in Nat
      BY SweepAssumption
    <3> QED  BY <2>1, <3>1 DEF Offset
  <2>4. Paged(apps)' = {}
    <3>1. \A n \in DOMAIN apps : n > 0
      BY <2>2
    <3> QED  BY <2>1, <2>3, <3>1 DEF Paged
  <2>5. ToSet(<<>>) = {} /\ Once(<<>>)
    BY DEF ToSet, Once
  <2>6. Installed' = Installed /\ Offset' <= Len(apps')
    <3>1. Installed' = Installed
      BY <2>1 DEF Installed
    <3> QED  BY <2>1, <2>2, <2>3, <3>1
  <2> QED  BY <2>1, <2>4, <2>5, <2>6 DEF PagesApps, PagesRepos
<1>7. CASE UNCHANGED sweepVars
  <2>1. UNCHANGED <<apps, repos, request, page, ids, names, owed, shrunk>>
    BY <1>7 DEF sweepVars, github, beat, history
  <2>2. Offset' = Offset /\ Installed' = Installed
    BY <2>1 DEF Offset, Installed
  <2> QED  BY <2>1, <2>2
           DEF PagingInv, PagesApps, PagesRepos, Paged, Coming, Later
<1> QED  BY <1>1, <1>2, <1>3, <1>4, <1>5, <1>6, <1>7
         DEF SweepNext, Enumerates, Fetches

\* It holds at first, when nothing is asked for.
LEMMA PagingInit == SweepInit => PagingInv /\ FiresWhenNamed
<1> SUFFICES ASSUME SweepInit PROVE PagingInv /\ FiresWhenNamed
  OBVIOUS
<1>1. ListedOnce
  BY SweepAssumption DEF SweepInit, ListedOnce
<1>2. PagesApps /\ PagesRepos /\ FiresWhenNamed
  BY DEF SweepInit, PagesApps, PagesRepos, FiresWhenNamed
<1> QED  BY <1>1, <1>2, SweepTypeInit DEF PagingInv

\* A sequence without repetition is as long as what it lists.
LEMMA OnceCounts ==
    ASSUME NEW s \in Seq(Repositories), Once(s)
    PROVE  Len(s) = Cardinality(ToSet(s))
<1>1. /\ DOMAIN s = 1 .. Len(s) /\ Len(s) \in Nat
      /\ \A k \in 1 .. Len(s) : s[k] # Odd
      /\ s \in [1 .. Len(s) -> ToSet(s)]
  BY SweepAssumption DEF ToSet
<1>2. s \in Injection(1 .. Len(s), ToSet(s))
  BY <1>1 DEF Injection, IsInjective, Once
<1>3. s \in Surjection(1 .. Len(s), ToSet(s))
  BY <1>1 DEF Surjection, ToSet
<1>4. ExistsBijection(1 .. Len(s), ToSet(s))
  BY <1>2, <1>3 DEF ExistsBijection, Bijection
<1> QED  BY <1>1, <1>4, FS_CountingElements

-----------------------------------------------------------------------------
(* The sweep's theorems. *)

\* github_app.py and worker.py: whatever GitHub's listings, faults and cadences
\* do, every variable of a sweep keeps its type.
THEOREM SweepTyped == SweepSpec => []SweepTypeOK
<1>1. SweepInit => SweepTypeOK /\ Awaiting
  BY SweepTypeInit
<1>2. SweepTypeOK /\ Awaiting /\ [SweepNext]_sweepVars
        => (SweepTypeOK /\ Awaiting)'
  BY SweepTypeStep
<1> QED  BY <1>1, <1>2, PTL DEF SweepSpec

\* heartbeat.py, run_heartbeat: the drain of every repo fires exactly when the
\* cadence just fetched, if it keeps to its fields' bounds, names the beat's
\* instant.
THEOREM FiresNamed == SweepSpec => []FiresWhenNamed
<1>1. SweepInit => SweepTypeOK /\ Awaiting /\ FiresWhenNamed
  BY SweepTypeInit, PagingInit
<1>2. SweepTypeOK /\ Awaiting /\ FiresWhenNamed /\ [SweepNext]_sweepVars
        => (SweepTypeOK /\ Awaiting /\ FiresWhenNamed)'
  BY SweepTypeStep, FiresStep
<1> QED  BY <1>1, <1>2, PTL DEF SweepSpec

\* github_app.py, installed_repositories: unless an entry leaves meanwhile, the
\* enumeration ends with every repo that was installed when it began, each once.
THEOREM SweepListsInstalled == SweepSpec => ListsInstalled
<1>1. SweepInit => PagingInv
  BY PagingInit
<1>2. PagingInv /\ [SweepNext]_sweepVars => PagingInv'
  BY PagesStep
<1>3. PagingInv /\ PagingInv' /\ [SweepNext]_sweepVars =>
        [request # "config" /\ request' = "config" /\ ~shrunk =>
           /\ owed \subseteq ToSet(names')
           /\ Len(names') = Cardinality(ToSet(names'))]_sweepVars
  <2> SUFFICES ASSUME PagingInv, PagingInv', SweepNext,
                      request # "config", request' = "config", ~shrunk
               PROVE  /\ owed \subseteq ToSet(names')
                      /\ Len(names') = Cardinality(ToSet(names'))
    OBVIOUS
  <2>1. AllListed'
    BY PagesStep
  <2>2. owed' = owed
    <3>1. ListInstallations \/ ListRepositories
      BY DEF SweepNext, BeginSweep, Enumerates, Mint, AppRefused, Fetches,
         FetchOptedOut, FetchUndecodable, FetchGone, Finish, FetchOptedIn, Fails,
         Abandon,
         Changes, InstallApp, UninstallApp, AddRepo, RemoveRepo, beat
    <3> QED  BY <3>1 DEF ListInstallations, ListRepositories, history
  <2>3. names' \in Seq(Repositories)
    BY DEF PagingInv, SweepTypeOK
  <2> QED  BY <2>1, <2>2, <2>3, OnceCounts DEF AllListed
<1> QED  BY <1>1, <1>2, <1>3, PTL DEF SweepSpec, ListsInstalled
=============================================================================
