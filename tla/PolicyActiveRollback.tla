------------------------ MODULE PolicyActiveRollback ------------------------
(***************************************************************************)
(* The active policy of a tenant, and how it is changed back              *)
(* (core/policyActiveRollback, with the stores of                          *)
(* core/policyStagedActivation and the runtime of core/policyActiveRuntime *)
(* it is wired to).  Tenants share nothing, so there is one here.          *)
(*                                                                         *)
(* Every operation is synchronous: requests, evaluations, authorizations   *)
(* and commits of several requests interleave, with restarts between them. *)
(* Each store sets its map before it writes its file, so that a write that *)
(* fails, or the end of the process before it, leaves the two apart.       *)
(*                                                                         *)
(* A policy state is named by the number of its commit.  A version is      *)
(* <<n, s>>: the n-th release with s suffixes "-SUNSET".  The contents of  *)
(* a policy follow its version; what is recorded as historical is taken as *)
(* verified and within the hard-forbidden floor.  Operators are taken as   *)
(* human, authorized and not the requester.  Where the audit ledger fails  *)
(* after a request, an evaluation or an authorization is saved, the caller *)
(* throws away what it would hold: it need not go on with it here either.  *)
(***************************************************************************)
EXTENDS Integers, Sequences

CONSTANTS RequestIds,   \* requests for a change
          KindOf,       \* [RequestIds -> {"rollback", "sunset", "recovery"}]
          Candidates,   \* staged, authorized policies: [source, proposed]
          Registered,   \* what is recorded as historical from outside
          Replacements, \* versions a sunset may name, with NoVersion for none
          FailingWrites,\* which writes of a commit may fail: subset of 1..4
          MaxStates,    \* bound on policy states
          MaxFailures   \* bound on failing writes

Kinds == {"rollback", "sunset", "recovery"}
Versions == Nat \X Nat
Policies == [id : Nat, version : Versions]

ASSUME PolicyAssumption ==
    /\ KindOf \in [RequestIds -> Kinds]
    /\ Candidates \subseteq [source : Versions, proposed : Versions]
    /\ Registered \subseteq Policies
    /\ Replacements \subseteq Versions
    /\ FailingWrites \subseteq 1 .. 4
    /\ MaxStates \in Nat /\ MaxFailures \in Nat

VARIABLES active,        \* PolicyActivationStateStore: in memory and on disk
          activeFile,
          history,       \* PolicyActiveRollbackStore: in memory, in the order
          historyFile,   \* of their Map, and on disk
          versionLookup, \* version -> id of the policy saved last, in memory
          requests,      \* in memory and on disk
          requestFile,
          evaluated,     \* requests whose VALID evaluation a caller holds
          authorized,    \* requests whose authorization a caller holds
          snapshot,      \* what PolicyActiveRuntimeSyncEngine serves
          lastState,     \* the number of the last policy state
          failures,
          commits,       \* history: the commits that reached the active file
          unwritten      \* history: policies whose write to the history failed,
                         \* and that no later write put there

stored == <<active, activeFile, history, historyFile, versionLookup>>
held == <<evaluated, authorized>>
noted == <<commits, unwritten>>
vars == <<stored, requests, requestFile, held, snapshot, lastState, failures, noted>>

NoVersion == <<0, 0>>
NoPolicy == [id |-> 0, version |-> NoVersion]
NoRequest == [state |-> "NONE", current |-> NoPolicy, target |-> NoPolicy]

Range(s) == {s[i] : i \in DOMAIN s}
Ids(h) == {p.id : p \in Range(h)}
ById(h, id) == CHOOSE p \in Range(h) : p.id = id

\* Loading fills the index in the order of the file: of the policies of a
\* version the last one stays.
LookupOf(h) ==
    [v \in {p.version : p \in Range(h)} |->
        h[CHOOSE i \in DOMAIN h : /\ h[i].version = v
                                  /\ \A j \in DOMAIN h : h[j].version = v => j <= i].id]

Init ==
    /\ active = NoPolicy /\ activeFile = NoPolicy
    /\ history = <<>> /\ historyFile = <<>> /\ versionLookup = LookupOf(<<>>)
    /\ requests = [r \in RequestIds |-> NoRequest]
    /\ requestFile = requests
    /\ evaluated = {} /\ authorized = {}
    /\ snapshot = NoPolicy
    /\ lastState = 0 /\ failures = 0 /\ commits = {} /\ unwritten = {}

-----------------------------------------------------------------------------
(* The stores *)

\* saveHistoricalPolicy: a policy that is there already stays as it is, and
\* nothing is written.
Historical(p) == p.id \in Ids(history)
SaveHistorical(p) ==
    IF Historical(p) THEN UNCHANGED <<history, versionLookup>>
    ELSE /\ history' = Append(history, p)
         /\ versionLookup' = [v \in DOMAIN versionLookup \cup {p.version} |->
                                 IF v = p.version THEN p.id ELSE versionLookup[v]]

\* persistHistoricalPolicies: the file gets all that is in memory.
Persist(p, written) ==
    IF written
    THEN /\ historyFile' = history'
         /\ unwritten' = unwritten \ Ids(history')
    ELSE /\ UNCHANGED historyFile
         /\ unwritten' = unwritten \cup {p.id}

Fails(failed) == /\ failed => failures < MaxFailures
                 /\ failures' = failures + (IF failed THEN 1 ELSE 0)

\* save...Request: the file of a kind holds all the requests of the kind.
SaveRequest(r, record, written) ==
    /\ requests' = [requests EXCEPT ![r] = record]
    /\ requestFile' = [q \in RequestIds |->
                          IF written /\ KindOf[q] = KindOf[r] THEN requests'[q]
                          ELSE requestFile[q]]

SaveState(r, state, written) ==
    SaveRequest(r, [requests[r] EXCEPT !.state = state], written)

-----------------------------------------------------------------------------
(* The runtime that enforces the active policy *)

\* isVersionStale of the freshness validator, for single-digit releases.
Stale(incoming, known) ==
    \/ incoming[1] < known[1]
    \/ incoming[1] = known[1] /\ incoming[2] < known[2]

\* syncTenantActivePolicy: what is older than the snapshot is refused.
Synced(known, policy) ==
    IF known.id # 0 /\ Stale(policy.version, known.version) THEN known ELSE policy

Synchronize ==
    /\ active.id # 0
    /\ snapshot' = Synced(snapshot, active)
    /\ UNCHANGED <<stored, requests, requestFile, held, lastState, failures, noted>>

\* commitActivation: a staged policy becomes active if it was made from the
\* version that is active.  What it replaces is not put into the history.
CommitActivation(c, written) ==
    /\ lastState < MaxStates
    /\ active.id # 0 => active.version = c.source
    /\ Fails(~written)
    /\ lastState' = lastState + 1
    /\ active' = [id |-> lastState', version |-> c.proposed]
    /\ activeFile' = IF written THEN active' ELSE activeFile
    /\ UNCHANGED <<history, historyFile, versionLookup, requests, requestFile,
                   held, snapshot, noted>>

-----------------------------------------------------------------------------
(* Requests, evaluations, authorizations *)

RecordHistoricalPolicy(p, written) ==
    /\ ~Historical(p)
    /\ written \/ 1 \in FailingWrites
    /\ Fails(~written)
    /\ SaveHistorical(p)
    /\ Persist(p, written)
    /\ UNCHANGED <<active, activeFile, requests, requestFile, held, snapshot,
                   lastState, commits>>

\* requestRollback, requestSunset, requestRecovery: what the request is made
\* against is the policy that is active in memory.
RollbackTarget(p) == /\ active.id # 0
                     /\ p \in Range(history)
                     /\ p.version # active.version
SunsetTarget(p) == /\ active.id # 0
                   /\ p \in {[id |-> 0, version |-> v] : v \in Replacements}
RecoveryTarget(p) == \E v \in DOMAIN versionLookup :
                        p = ById(history, versionLookup[v])

Targets(kind) ==
    {p \in Range(history) \cup {[id |-> 0, version |-> v] : v \in Replacements} :
        CASE kind = "rollback" -> RollbackTarget(p)
          [] kind = "sunset"   -> SunsetTarget(p)
          [] kind = "recovery" -> RecoveryTarget(p)}

RequestChange(r, written) ==
    /\ requests[r] = NoRequest
    /\ Fails(~written)
    /\ \E p \in Targets(KindOf[r]) :
          SaveRequest(r, [state   |-> "REQUESTED",
                          current |-> IF KindOf[r] = "recovery" THEN NoPolicy ELSE active,
                          target  |-> p], written)
    /\ UNCHANGED <<stored, held, snapshot, lastState, noted>>

\* The target is read from the history again, by its id.
TargetKnown(r) == KindOf[r] # "sunset" => requests[r].target.id \in Ids(history)

Unchanged(r) == active.id \in {0, requests[r].current.id}

Available(v) == v = NoVersion \/ v \in DOMAIN versionLookup

NotActive(target) == active.version # target.version

ValidRollback(r) == Unchanged(r) /\ NotActive(requests[r].target)
ValidSunset(r) == Unchanged(r) /\ Available(requests[r].target.version)
ValidRecovery(r) == NotActive(requests[r].target)

Valid(r) ==
    CASE KindOf[r] = "rollback" -> ValidRollback(r)
      [] KindOf[r] = "sunset"   -> ValidSunset(r)
      [] KindOf[r] = "recovery" -> ValidRecovery(r)

\* revalidateRollback, evaluateSunset, revalidateRecovery: whatever the state
\* of the request, a committed one's too.
Evaluate(r, written) ==
    /\ requests[r] # NoRequest
    /\ TargetKnown(r)
    /\ Fails(~written)
    /\ SaveState(r, IF Valid(r) THEN "HUMAN_REVIEW_REQUIRED" ELSE "BLOCKED", written)
    /\ evaluated' = IF Valid(r) /\ written THEN evaluated \cup {r} ELSE evaluated
    /\ UNCHANGED <<stored, authorized, snapshot, lastState, noted>>

\* authorizeRollback, authorizeSunset, authorizeRecovery: the evaluation is the
\* caller's, and may be of an earlier time.
Authorize(r, written) ==
    /\ requests[r] # NoRequest
    /\ r \in evaluated
    /\ Fails(~written)
    /\ SaveState(r, "AUTHORIZED", written)
    /\ authorized' = IF written THEN authorized \cup {r} ELSE authorized
    /\ UNCHANGED <<stored, evaluated, snapshot, lastState, noted>>

StageRecovery(r, written) ==
    /\ KindOf[r] = "recovery"
    /\ requests[r].state = "AUTHORIZED"
    /\ Fails(~written)
    /\ SaveState(r, "STAGED", written)
    /\ UNCHANGED <<stored, held, snapshot, lastState, noted>>

-----------------------------------------------------------------------------
(* Commits *)

\* Race condition and version conflict checks of the transition engine.
\* Faulty: the version is compared, and not the policy state.
NoConflictOfVersions(r) ==
    CASE KindOf[r] \in {"rollback", "sunset"} ->
            active.id # 0 /\ active.version = requests[r].current.version
      [] KindOf[r] = "recovery" -> NotActive(requests[r].target)
NoConflict(r) ==
    CASE KindOf[r] \in {"rollback", "sunset"} ->
            active.id # 0 /\ active.id = requests[r].current.id
      [] KindOf[r] = "recovery" -> NotActive(requests[r].target)

\* A sunset without a replacement, or whose replacement is not known, leaves
\* the retired baseline.
NewVersion(r) ==
    LET version == requests[r].target.version IN
    IF KindOf[r] = "sunset" /\ version \notin DOMAIN versionLookup
    THEN <<active.version[1], active.version[2] + 1>>
    ELSE version

\* The writes of a commit, in order: 1 the history, 2 the active policy, 3 the
\* request, 4 the audit ledger; the runtime is synchronized after them.  The
\* commit throws at its write "at", or ends (5).
\* Faulty: the runtime is synchronized before the new policy is saved.
RuntimeSyncedEarly(at, policy) == IF at = 5 THEN Synced(snapshot, active) ELSE snapshot
RuntimeSynced(at, policy) == IF at = 5 THEN Synced(snapshot, policy) ELSE snapshot

\* Faulty: the policy that is replaced is kept in memory only.
PreservedInMemory(at) ==
    /\ IF active.id = 0 THEN UNCHANGED <<history, versionLookup>> ELSE SaveHistorical(active)
    /\ UNCHANGED <<historyFile, unwritten>>
Preserved(at) ==
    IF active.id = 0 THEN UNCHANGED <<history, versionLookup, historyFile, unwritten>>
    ELSE /\ SaveHistorical(active)
         /\ IF Historical(active) THEN UNCHANGED <<historyFile, unwritten>>
            ELSE Persist(active, at > 1)

\* commitRollback, commitSunset, commitRecovery, in any state of the request.
Commit(r, at) ==
    /\ requests[r] # NoRequest
    /\ r \in authorized
    /\ TargetKnown(r)
    /\ NoConflict(r)
    /\ lastState < MaxStates
    /\ at = 1 => active.id # 0 /\ ~Historical(active)
    /\ Fails(at < 5)
    /\ lastState' = lastState + 1
    /\ LET policy == [id |-> lastState', version |-> NewVersion(r)] IN
          /\ Preserved(at)
          /\ active' = IF at > 1 THEN policy ELSE active
          /\ activeFile' = IF at > 2 THEN policy ELSE activeFile
          /\ IF at > 2 THEN SaveState(r, "COMMITTED", at > 3)
             ELSE UNCHANGED <<requests, requestFile>>
          /\ snapshot' = RuntimeSynced(at, policy)
          /\ commits' = IF at > 2
                        THEN commits \cup {[request |-> r, against |-> requests[r].current.id,
                                            old |-> active.id, new |-> policy.id,
                                            returned |-> at = 5]}
                        ELSE commits
    /\ UNCHANGED held

\* The process ends and starts again.
Restart ==
    /\ active' = activeFile
    /\ history' = historyFile
    /\ versionLookup' = LookupOf(historyFile)
    /\ requests' = requestFile
    /\ snapshot' = NoPolicy
    /\ UNCHANGED <<activeFile, historyFile, requestFile, held, lastState, failures, noted>>

RequestNext(r, written) ==
    \/ RequestChange(r, written)
    \/ Evaluate(r, written)
    \/ Authorize(r, written)
    \/ StageRecovery(r, written)

Next ==
    \/ \E written \in BOOLEAN :
          \/ \E c \in Candidates : CommitActivation(c, written)
          \/ \E p \in Registered : RecordHistoricalPolicy(p, written)
          \/ \E r \in RequestIds : RequestNext(r, written)
    \/ \E r \in RequestIds, at \in FailingWrites \cup {5} : Commit(r, at)
    \/ Synchronize
    \/ Restart

Spec == Init /\ [][Next]_vars

-----------------------------------------------------------------------------
(* Properties *)

\* A policy that a rollback, sunset or recovery replaced is in the history on
\* disk, and can be restored, whatever else fails or ends in between.  The one
\* exception: the write of it threw, the retry found it in memory and did not
\* write it again, and no other policy was put into the history before the
\* process ended.
HistoryKept ==
    \A c \in commits : c.old # 0 => c.old \in Ids(historyFile) \cup unwritten

\* One rollback or sunset at most takes the place of a policy state: what a
\* human reviewed is committed once, and only over what was reviewed, also
\* when the version comes back later, requests compete, or a commit that
\* failed half-way is tried again after a restart.
OneSuccessor ==
    \A c, d \in commits :
        /\ {KindOf[c.request], KindOf[d.request]} \subseteq {"rollback", "sunset"}
        /\ c.against = d.against
        => c = d

\* After a change that returned without an error, the runtime enforces the
\* active policy, unless its snapshot was of a newer version.
RuntimeFollowsUnlessOlder ==
    \A c \in commits :
        c.returned /\ c.new = active.id /\ snapshot.id # 0 =>
            \/ snapshot.id = active.id
            \/ Stale(active.version, snapshot.version)
=============================================================================
