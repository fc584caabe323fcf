------------------------------- MODULE Sweep -------------------------------
(***************************************************************************)
(* How a heartbeat finds its work: GitHubInstallationAuth pages the App's  *)
(* installations, and each one's repositories, out of GitHub; the worker's *)
(* enumerate_repos fetches every repo's retinue.yml and keeps the opted-in *)
(* ones; cron_due says whose safety-net drain fires.  CronLane takes over  *)
(* from there.  GitHub's listings change while they are paged.             *)
(*                                                                         *)
(* Overlapping beats share nothing here, so there is one.  Installations   *)
(* and repos are numbers; an entry the parsers skip is Odd.                *)
(***************************************************************************)
EXTENDS CronMatch, SequencesExt

CONSTANTS
    Installations,
    Repositories,
    InitialApps,      \* GET /app/installations, oldest first
    InitialRepos,     \* GET /installation/repositories of each installation
    Undecodable,      \* repos whose retinue.yml is no base64 of a text
    CadencesOf,       \* config.cron each repo's retinue.yml may hold at a
                      \* fetch; none for a repo without an accepted config
    Instants,         \* when a heartbeat may start
    PerPage,          \* _LIST_PER_PAGE
    MaxChanges,       \* bound: installations and repos that come or go
    MaxFaults         \* bound: requests that fail, beats that are cut short

Odd == 0

\* The entries of a listing but e, in its order, one after another.
Dropping(s, e) ==
    LET Left[k \in 0 .. Len(s)] ==
          IF k = 0 THEN <<>>
          ELSE IF s[k] = e THEN Left[k - 1] ELSE Append(Left[k - 1], s[k])
    IN  Left[Len(s)]

\* No retinue.yml has just been read; no cadence has a field without a term.
Unread == <<{}>>

\* A listing has what it has once; entries the parsers skip may repeat.
Once(s) == \A j, k \in DOMAIN s : s[j] = s[k] /\ s[j] # Odd => j = k

\* A repo is of one account, so of one installation.
ASSUME SweepAssumption ==
    /\ Odd \notin Installations \cup Repositories
    /\ InitialApps \in Seq(Installations \cup {Odd}) /\ Once(InitialApps)
    /\ InitialRepos \in [Installations -> Seq(Repositories \cup {Odd})]
    /\ \A i \in Installations : Once(InitialRepos[i])
    /\ \A i, j \in Installations : i # j =>
          ToSet(InitialRepos[i]) \cap ToSet(InitialRepos[j]) \subseteq {Odd}
    /\ Undecodable \subseteq Repositories
    /\ \A r \in Repositories : CadencesOf[r] \subseteq Cadence \ {Unread}
    /\ Instants \subseteq Instant
    /\ PerPage \in Nat \ {0}
    /\ MaxChanges \in Nat /\ MaxFaults \in Nat

VARIABLES
    \* GitHub
    apps,       \* the App's installations
    repos,      \* the repositories of each
    \* the beat
    request,    \* the request it awaits
    when,       \* clock.now() at its start
    page,       \* the page it asks for
    ids,        \* installations listed and still to be paged
    names,      \* repos listed and still to be fetched
    found,      \* the DueRepos so far, those of the last beat while idle
    fires,      \* the places in found of those whose drain is due
    config,     \* the cadence the last request returned, or Unread
    \* history
    owed,       \* repos installed ever since the beat started
    shrunk,     \* whether a listing has lost an entry meanwhile
    changes, faults

github  == <<apps, repos>>
beat    == <<request, when, page, ids, names, found, fires, config>>
history == <<owed, shrunk>>
sweepVars    == <<github, beat, history, changes, faults>>

Stages == {"idle", "installations", "mint", "repositories", "config"}

SweepTypeOK ==
    /\ apps \in Seq(Installations \cup {Odd})
    /\ repos \in [Installations -> Seq(Repositories \cup {Odd})]
    /\ request \in Stages
    /\ when \in Instants
    /\ page \in Nat \ {0}
    /\ ids \in Seq(Installations)
    /\ names \in Seq(Repositories) /\ found \in Seq(Repositories)
    /\ fires \subseteq DOMAIN found
    /\ config = Unread \/ \E r \in Repositories : config \in CadencesOf[r]
    /\ owed \subseteq Repositories
    /\ shrunk \in BOOLEAN
    /\ changes \in 0 .. MaxChanges /\ faults \in 0 .. MaxFaults

Installed ==
    {r \in Repositories : \E i \in ToSet(apps) \ {Odd} : r \in ToSet(repos[i])}

SweepInit ==
    /\ apps = InitialApps /\ repos = InitialRepos
    /\ request = "idle" /\ when \in Instants
    /\ page = 1 /\ ids = <<>> /\ names = <<>>
    /\ found = <<>> /\ fires = {} /\ config = Unread
    /\ owed = {} /\ shrunk = FALSE
    /\ changes = 0 /\ faults = 0

-----------------------------------------------------------------------------
(* GitHub's listings: what comes goes to the end, what leaves moves the rest *)
(* up.                                                                       *)

Change == changes < MaxChanges /\ changes' = changes + 1

Leaves == shrunk' = (request # "idle") /\ owed' = owed \cap Installed'

\* An id is never installed again: its repos are gone.
InstallApp(i) ==
    /\ i \notin ToSet(apps) /\ repos[i] # <<>> /\ Change
    /\ apps' = Append(apps, i)
    /\ UNCHANGED <<repos, beat, history, faults>>

UninstallApp(i) ==
    /\ i \in ToSet(apps) /\ Change
    /\ apps' = Dropping(apps, i)
    /\ repos' = [repos EXCEPT ![i] = <<>>]
    /\ UNCHANGED <<beat, faults>>
    /\ Leaves

AddRepo(i, r) ==
    /\ i \in ToSet(apps)
    /\ \A j \in Installations : r \notin ToSet(repos[j])
    /\ Change
    /\ repos' = [repos EXCEPT ![i] = Append(@, r)]
    /\ UNCHANGED <<apps, beat, history, faults>>

RemoveRepo(i, r) ==
    /\ r \in ToSet(repos[i]) /\ Change
    /\ repos' = [repos EXCEPT ![i] = Dropping(@, r)]
    /\ UNCHANGED <<apps, beat, faults>>
    /\ Leaves

-----------------------------------------------------------------------------
(* installed_repositories *)

\* A page of a listing, Odd entries included, and the entries the parser keeps.
PageOf(s) ==
    SubSeq(s, (page - 1) * PerPage + 1,
           IF page * PerPage < Len(s) THEN page * PerPage ELSE Len(s))

Kept(s) == Dropping(PageOf(s), Odd)

\* Mutant of LastPage: the parsed entries are counted.
LastPageOfKept(s) == Len(Kept(s)) < PerPage

\* The raw count ends the paging, not the count of what was kept.
LastPage(s) == Len(PageOf(s)) < PerPage

\* The next installation's repos, or, after the last, the configs.
Turns(queue) == request' = IF queue = <<>> THEN "config" ELSE "mint"

\* The instant is read first, then the App JWT is signed.
BeginSweep(t) ==
    /\ request = "idle"
    /\ request' = "installations" /\ when' = t /\ page' = 1
    /\ ids' = <<>> /\ names' = <<>> /\ found' = <<>> /\ fires' = {}
    /\ config' = Unread
    /\ owed' = Installed /\ shrunk' = FALSE
    /\ UNCHANGED <<github, changes, faults>>

ListInstallations ==
    /\ request = "installations"
    /\ ids' = ids \o Kept(apps)
    /\ IF LastPage(apps)
       THEN Turns(ids') /\ page' = 1
       ELSE page' = page + 1 /\ UNCHANGED request
    /\ UNCHANGED <<github, when, names, found, fires, config, history, changes, faults>>

Refused(i) == i \notin ToSet(apps)

Mint ==
    /\ request = "mint" /\ ~Refused(Head(ids))
    /\ request' = "repositories"
    /\ UNCHANGED <<github, when, page, ids, names, found, fires, config, history,
                   changes, faults>>

ListRepositories ==
    /\ request = "repositories" /\ ~Refused(Head(ids))
    /\ names' = names \o Kept(repos[Head(ids)])
    /\ IF LastPage(repos[Head(ids)])
       THEN ids' = Tail(ids) /\ Turns(ids') /\ page' = 1
       ELSE page' = page + 1 /\ UNCHANGED <<request, ids>>
    /\ UNCHANGED <<github, when, found, fires, config, history, changes, faults>>

-----------------------------------------------------------------------------
(* enumerate_repos, and cron_due over what it returns. *)

\* Nothing in the enumeration is caught: the beat visits no repo.
Abandon ==
    /\ request' = "idle" /\ page' = 1 /\ ids' = <<>> /\ names' = <<>>
    /\ found' = <<>> /\ fires' = {} /\ config' = Unread
    /\ UNCHANGED <<github, when, history, changes>>

\* _decode_contents_payload raises.
FetchUndecodable ==
    /\ request = "config" /\ names # <<>> /\ Head(names) \in Undecodable
    /\ Abandon /\ UNCHANGED faults

\* The repo has left since it was listed.
Gone == Head(names) \notin Installed

\* No token is minted for it, or the one in the cache is refused.
FetchGone ==
    /\ request = "config" /\ names # <<>> /\ Gone
    /\ Abandon /\ UNCHANGED faults

\* No retinue.yml (a 404), or one load_repo_config does not accept.  A cached
\* token meets a 404 at a private repo that has left; a public one it still reads.
OptedOut ==
    \/ Head(names) \notin Undecodable /\ CadencesOf[Head(names)] = {}
    \/ Gone

\* Mutant of FetchOptedOut: a repo that has not opted in ends the enumeration.
FetchOptedOutRaises ==
    /\ request = "config" /\ names # <<>> /\ OptedOut
    /\ Abandon /\ UNCHANGED faults

FetchOptedOut ==
    /\ request = "config" /\ names # <<>> /\ OptedOut
    /\ names' = Tail(names) /\ config' = Unread
    /\ UNCHANGED <<github, request, when, page, ids, found, fires, history,
                   changes, faults>>

FetchOptedIn(r, cadence) ==
    /\ request = "config" /\ names # <<>> /\ r = Head(names) /\ r \notin Undecodable
    /\ names' = Tail(names)
    /\ found' = Append(found, r)
    /\ config' = cadence
    /\ fires' = IF CronDue(cadence, when) THEN fires \cup {Len(found')} ELSE fires
    /\ UNCHANGED <<github, request, when, page, ids, history, changes, faults>>

\* The repos are the heartbeat's to visit.
Finish ==
    /\ request = "config" /\ names = <<>>
    /\ request' = "idle" /\ config' = Unread
    /\ UNCHANGED <<github, when, page, ids, names, found, fires, history,
                   changes, faults>>

\* The installation is gone, and its tokens.
AppRefused ==
    /\ request \in {"mint", "repositories"} /\ Refused(Head(ids))
    /\ Abandon /\ UNCHANGED faults

\* A request fails, the JWT signed at the start outlives its nine minutes, or
\* the worker stops.
Fails ==
    /\ request # "idle" /\ faults < MaxFaults /\ faults' = faults + 1
    /\ Abandon

-----------------------------------------------------------------------------
Enumerates ==
    \/ ListInstallations \/ Mint \/ ListRepositories \/ AppRefused

Fetches ==
    \/ FetchOptedOut \/ FetchUndecodable \/ FetchGone \/ Finish
    \/ \E r \in Repositories : \E c \in CadencesOf[r] : FetchOptedIn(r, c)

Changes ==
    \/ \E i \in Installations : InstallApp(i) \/ UninstallApp(i)
    \/ \E i \in Installations, r \in Repositories : AddRepo(i, r) \/ RemoveRepo(i, r)

SweepNext ==
    \/ \E t \in Instants : BeginSweep(t)
    \/ Enumerates \/ Fetches \/ Fails \/ Changes

SweepSpec == SweepInit /\ [][SweepNext]_sweepVars

\* arq fires the heartbeat on its minutes, and requests are answered.
SweepFairSpec == SweepSpec /\ WF_sweepVars(Enumerates \/ Fetches \/ \E t \in Instants : BeginSweep(t))

-----------------------------------------------------------------------------
\* installed_repositories returns "every owner/repo the App is installed on",
\* each once, whatever malformed entries, full last pages and additions its
\* pages meet.  A removal shifts what follows it over a page boundary: then an
\* entry may be missed, until the next beat.
ListsInstalled ==
    [][request # "config" /\ request' = "config" /\ ~shrunk =>
         /\ owed \subseteq ToSet(names')
         /\ Len(names') = Cardinality(ToSet(names'))]_sweepVars

\* The drain of a repo whose cadence keeps to the bounds of its fields fires
\* exactly when the cadence names the instant the beat began at.
FiresWhenNamed ==
    config # Unread /\ Bounded(config)
        => (Len(found) \in fires <=> Names(config, when))

\* "A non-numeric or out-of-bounds base yields (None, None) so the term simply
\* does not match" (heartbeat.py): no cadence fires a drain it does not name.
OutOfBoundsSilent ==
    config # Unread /\ Len(found) \in fires => Names(config, when)

Sound(r) == r \in Installed \ Undecodable /\ CadencesOf[r] # {}

\* Once the listings are left alone and the requests are answered, every sound
\* repo is visited by beat after beat, whatever neighbours have no config.
SoundReposVisited ==
    \A r \in Repositories :
        <>[](Sound(r) /\ Installed \cap Undecodable = {})
            => []<>(request = "idle" /\ r \in ToSet(found))

\* "A repo not opted in or with a malformed config is dropped" (worker.py): the
\* others are visited, were the config no text at all.
MalformedDropped ==
    \A r \in Repositories :
        <>[]Sound(r) => []<>(request = "idle" /\ r \in ToSet(found))
=============================================================================
