--------------------- MODULE PolicyActiveRollback_proofs ---------------------
(***************************************************************************)
(* Proofs about PolicyActiveRollback, for any number of requests, any      *)
(* candidates, historical policies and replacements, and any number of     *)
(* policy states, failing writes and restarts.                             *)
(***************************************************************************)
EXTENDS PolicyActiveRollback, TLAPS

-----------------------------------------------------------------------------
(***************************************************************************)
(* What was active, what replaced it, and what the runtime serves          *)
(***************************************************************************)

States == {"NONE", "REQUESTED", "HUMAN_REVIEW_REQUIRED", "BLOCKED", "AUTHORIZED",
           "STAGED", "COMMITTED"}

Requests == [state : States, current : Policies, target : Policies]

Commits == [request : RequestIds, against : Nat, old : Nat, new : Nat,
            returned : BOOLEAN]

TypeOK ==
  /\ active \in Policies /\ activeFile \in Policies /\ snapshot \in Policies
  /\ history \in Seq(Policies) /\ historyFile \in Seq(Policies)
  /\ requests \in [RequestIds -> Requests]
  /\ requestFile \in [RequestIds -> Requests]
  /\ evaluated \subseteq RequestIds /\ authorized \subseteq RequestIds
  /\ lastState \in Nat /\ failures \in Nat
  /\ commits \subseteq Commits /\ unwritten \subseteq Nat

\* The numbers of the policy states grow: in the file, in memory, given out.
FileBehindMemory == activeFile.id <= active.id /\ active.id <= lastState

\* A commit leads to a later state, and the file never goes back behind it.
CommitsAreBehind == \A c \in commits : c.old < c.new /\ c.new <= activeFile.id

\* What a rollback or a sunset replaced is what was reviewed.
ReviewedWasReplaced ==
  \A c \in commits : KindOf[c.request] \in {"rollback", "sunset"} => c.against = c.old

IInv ==
  /\ TypeOK
  /\ FileBehindMemory
  /\ CommitsAreBehind
  /\ ReviewedWasReplaced
  /\ OneSuccessor
  /\ RuntimeFollowsUnlessOlder

-----------------------------------------------------------------------------
(* Types *)

\* The initial state has its type.
LEMMA InitTyped == Init => TypeOK
<1> SUFFICES ASSUME Init
             PROVE  TypeOK
  OBVIOUS
<1>1. NoPolicy \in Policies
  BY DEF NoPolicy, NoVersion, Policies, Versions
<1>2. NoRequest \in Requests
  BY <1>1 DEF NoRequest, Requests, States
<1> QED
  BY <1>1, <1>2 DEF Init, TypeOK

\* Saving a request, in memory or on disk too, leaves requests.
LEMMA SavedIsTyped ==
  ASSUME TypeOK, NEW r \in RequestIds, NEW record \in Requests,
         NEW written \in BOOLEAN, SaveRequest(r, record, written)
  PROVE  /\ requests' \in [RequestIds -> Requests]
         /\ requestFile' \in [RequestIds -> Requests]
<1>1. requests' \in [RequestIds -> Requests]
  BY DEF TypeOK, SaveRequest
<1> QED
  BY <1>1 DEF TypeOK, SaveRequest

\* So does saving its new state.
LEMMA StateSavedIsTyped ==
  ASSUME TypeOK, NEW r \in RequestIds, NEW state \in States,
         NEW written \in BOOLEAN, SaveState(r, state, written)
  PROVE  /\ requests' \in [RequestIds -> Requests]
         /\ requestFile' \in [RequestIds -> Requests]
<1> DEFINE record == [requests[r] EXCEPT !.state = state]
<1>1. record \in Requests
  BY DEF TypeOK, Requests
<1>2. SaveRequest(r, record, written)
  BY DEF SaveState
<1> HIDE DEF record
<1> QED
  BY <1>1, <1>2, SavedIsTyped

\* Failures are counted.
LEMMA FailsIsTyped ==
  ASSUME TypeOK, NEW failed \in BOOLEAN, Fails(failed)
  PROVE  failures' \in Nat
BY DEF TypeOK, Fails

\* Saving a historical policy leaves a history of policies.
LEMMA HistoricalIsTyped ==
  ASSUME TypeOK, NEW p \in Policies, SaveHistorical(p)
  PROVE  history' \in Seq(Policies)
<1>1. CASE Historical(p)
  BY <1>1 DEF SaveHistorical, TypeOK
<1>2. CASE ~Historical(p)
  <2>1. history' = Append(history, p)
    BY <1>2 DEF SaveHistorical
  <2> QED
    BY <2>1 DEF TypeOK
<1> QED
  BY <1>1, <1>2

\* Its write, or the failure of it, leaves a history of policies on disk.
LEMMA PersistIsTyped ==
  ASSUME TypeOK, NEW p \in Policies, NEW written \in BOOLEAN,
         history' \in Seq(Policies), Persist(p, written)
  PROVE  historyFile' \in Seq(Policies) /\ unwritten' \subseteq Nat
<1>1. p.id \in Nat
  BY DEF Policies
<1> QED
  BY <1>1 DEF Persist, TypeOK

\* The runtime enforces a policy, before and after it is synchronized.
LEMMA SyncedIsTyped ==
  ASSUME NEW known \in Policies, NEW policy \in Policies
  PROVE  Synced(known, policy) \in Policies
BY DEF Synced

\* The members of a history are policies.
LEMMA RangeIsTyped ==
  ASSUME NEW h \in Seq(Policies)
  PROVE  Range(h) \subseteq Policies
BY DEF Range

\* Whatever a commit's version is, it is a release and a number of suffixes.
LEMMA NewVersionIsTyped ==
  ASSUME TypeOK, NEW r \in RequestIds
  PROVE  NewVersion(r) \in Versions
<1>1. requests[r].target.version \in Versions /\ active.version \in Versions
  BY DEF TypeOK, Requests, Policies
<1>2. <<active.version[1], active.version[2] + 1>> \in Versions
  BY <1>1 DEF Versions
<1> QED
  BY <1>1, <1>2 DEF NewVersion

\* What a commit adds to the ones there are.
CommitOf(r, at) ==
  [request |-> r, against |-> requests[r].current.id, old |-> active.id,
   new |-> lastState + 1, returned |-> at = 5]

\* What a commit notes of itself is a commit.
LEMMA CommitIsTyped ==
  ASSUME TypeOK, NEW r \in RequestIds, NEW at \in FailingWrites \cup {5}
  PROVE  CommitOf(r, at) \in Commits
<1>1. requests[r].current.id \in Nat /\ active.id \in Nat /\ lastState + 1 \in Nat
  BY DEF TypeOK, Requests, Policies
<1> QED
  BY <1>1 DEF CommitOf, Commits

\* What a commit does to the policies, without the files of history and
\* requests.
LEMMA WhatCommitDoes ==
  ASSUME TypeOK, NEW r \in RequestIds, NEW at \in FailingWrites \cup {5}, Commit(r, at),
         NEW policy, policy = [id |-> lastState + 1, version |-> NewVersion(r)]
  PROVE  /\ at \in 1 .. 5 /\ policy \in Policies /\ policy.id = lastState + 1
         /\ lastState' = lastState + 1 /\ failures' \in Nat
         /\ active' = IF at > 1 THEN policy ELSE active
         /\ activeFile' = IF at > 2 THEN policy ELSE activeFile
         /\ snapshot' = IF at = 5 THEN Synced(snapshot, policy) ELSE snapshot
         /\ commits' = IF at > 2 THEN commits \cup {CommitOf(r, at)} ELSE commits
<1>1. at \in 1 .. 5
  BY PolicyAssumption
<1>2. lastState + 1 \in Nat /\ NewVersion(r) \in Versions
  BY NewVersionIsTyped DEF TypeOK
<1>3. failures' \in Nat
  <2>1. Fails(at < 5) /\ (at < 5) \in BOOLEAN
    BY DEF Commit
  <2> QED
    BY <2>1, FailsIsTyped
<1>4. lastState' = lastState + 1
  BY DEF Commit
<1>5. policy = [id |-> lastState', version |-> NewVersion(r)]
  BY <1>4
<1>6. /\ active' = IF at > 1 THEN policy ELSE active
      /\ activeFile' = IF at > 2 THEN policy ELSE activeFile
      /\ snapshot' = RuntimeSynced(at, policy)
  BY <1>5 DEF Commit
<1>7. commits' = IF at > 2 THEN commits \cup {CommitOf(r, at)} ELSE commits
  BY <1>4 DEF Commit, CommitOf
<1> QED
  BY <1>1, <1>2, <1>3, <1>4, <1>6, <1>7 DEF Policies, RuntimeSynced

\* A commit, complete or cut short by a write, keeps the types.
LEMMA CommitTyped ==
  ASSUME TypeOK, NEW r \in RequestIds, NEW at \in FailingWrites \cup {5}, Commit(r, at)
  PROVE  TypeOK'
<1> DEFINE policy == [id |-> lastState + 1, version |-> NewVersion(r)]
<1>1. /\ at \in 1 .. 5 /\ policy \in Policies
      /\ lastState' = lastState + 1 /\ failures' \in Nat
      /\ active' = IF at > 1 THEN policy ELSE active
      /\ activeFile' = IF at > 2 THEN policy ELSE activeFile
      /\ snapshot' = IF at = 5 THEN Synced(snapshot, policy) ELSE snapshot
      /\ commits' = IF at > 2 THEN commits \cup {CommitOf(r, at)} ELSE commits
  BY WhatCommitDoes
<1> HIDE DEF policy
<1>2. /\ active' \in Policies /\ activeFile' \in Policies /\ snapshot' \in Policies
  BY <1>1, SyncedIsTyped DEF TypeOK
<1>3. /\ history' \in Seq(Policies) /\ historyFile' \in Seq(Policies)
      /\ unwritten' \subseteq Nat
  <2>1. Preserved(at) /\ (at > 1) \in BOOLEAN
    BY DEF Commit
  <2>2. CASE active.id = 0
    BY <2>1, <2>2 DEF Preserved, TypeOK
  <2>3. CASE active.id # 0
    <3>1. history' \in Seq(Policies)
      BY <2>1, <2>3, HistoricalIsTyped DEF Preserved, TypeOK
    <3> QED
      BY <2>1, <2>3, <3>1, PersistIsTyped DEF Preserved, TypeOK
  <2> QED
    BY <2>2, <2>3
<1>4. /\ requests' \in [RequestIds -> Requests] /\ requestFile' \in [RequestIds -> Requests]
  <2>1. CASE at > 2
    <3>1. SaveState(r, "COMMITTED", at > 3) /\ (at > 3) \in BOOLEAN
      BY <2>1 DEF Commit
    <3> QED
      BY <3>1, StateSavedIsTyped DEF States
  <2>2. CASE ~(at > 2)
    BY <2>2 DEF Commit, TypeOK
  <2> QED
    BY <2>1, <2>2
<1>5. lastState' \in Nat /\ commits' \subseteq Commits
  BY <1>1, CommitIsTyped DEF TypeOK
<1>6. evaluated' \subseteq RequestIds /\ authorized' \subseteq RequestIds
  BY DEF Commit, held, TypeOK
<1> QED
  BY <1>1, <1>2, <1>3, <1>4, <1>5, <1>6 DEF TypeOK

\* A request for a change keeps the types.
LEMMA RequestTyped ==
  ASSUME TypeOK, NEW r \in RequestIds, NEW written \in BOOLEAN, RequestChange(r, written)
  PROVE  TypeOK'
<1>1. PICK p \in Targets(KindOf[r]) :
        SaveRequest(r, [state   |-> "REQUESTED",
                        current |-> IF KindOf[r] = "recovery" THEN NoPolicy ELSE active,
                        target  |-> p], written)
  BY DEF RequestChange
<1>2. p \in Policies
  <2>1. p \in Range(history) \cup {[id |-> 0, version |-> v] : v \in Replacements}
    BY DEF Targets
  <2>2. CASE p \in Range(history)
    BY <2>2, RangeIsTyped DEF TypeOK
  <2>3. CASE p \in {[id |-> 0, version |-> v] : v \in Replacements}
    BY <2>3, PolicyAssumption DEF Policies
  <2> QED
    BY <2>1, <2>2, <2>3
<1>3. NoPolicy \in Policies /\ active \in Policies
  BY DEF NoPolicy, NoVersion, Policies, Versions, TypeOK
<1>4. [state   |-> "REQUESTED",
       current |-> IF KindOf[r] = "recovery" THEN NoPolicy ELSE active,
       target  |-> p] \in Requests
  BY <1>2, <1>3 DEF Requests, States
<1>5. /\ requests' \in [RequestIds -> Requests] /\ requestFile' \in [RequestIds -> Requests]
  BY <1>1, <1>4, SavedIsTyped
<1>6. failures' \in Nat
  BY FailsIsTyped DEF RequestChange
<1> QED
  BY <1>5, <1>6 DEF RequestChange, TypeOK, stored, held, noted

\* An evaluation keeps the types.
LEMMA EvaluateTyped ==
  ASSUME TypeOK, NEW r \in RequestIds, NEW written \in BOOLEAN, Evaluate(r, written)
  PROVE  TypeOK'
<1>1. /\ requests' \in [RequestIds -> Requests] /\ requestFile' \in [RequestIds -> Requests]
  <2>1. PICK state \in States : SaveState(r, state, written)
    BY DEF Evaluate, States
  <2> QED
    BY <2>1, StateSavedIsTyped
<1>2. failures' \in Nat
  BY FailsIsTyped DEF Evaluate
<1>3. evaluated' \subseteq RequestIds
  BY DEF Evaluate, TypeOK
<1> QED
  BY <1>1, <1>2, <1>3 DEF Evaluate, TypeOK, stored, noted

\* An authorization keeps the types.
LEMMA AuthorizeTyped ==
  ASSUME TypeOK, NEW r \in RequestIds, NEW written \in BOOLEAN, Authorize(r, written)
  PROVE  TypeOK'
<1>1. /\ requests' \in [RequestIds -> Requests] /\ requestFile' \in [RequestIds -> Requests]
  BY StateSavedIsTyped DEF Authorize, States
<1>2. failures' \in Nat
  BY FailsIsTyped DEF Authorize
<1>3. authorized' \subseteq RequestIds
  BY DEF Authorize, TypeOK
<1> QED
  BY <1>1, <1>2, <1>3 DEF Authorize, TypeOK, stored, noted

\* Staging a recovery keeps the types.
LEMMA StageTyped ==
  ASSUME TypeOK, NEW r \in RequestIds, NEW written \in BOOLEAN, StageRecovery(r, written)
  PROVE  TypeOK'
<1>1. /\ requests' \in [RequestIds -> Requests] /\ requestFile' \in [RequestIds -> Requests]
  BY StateSavedIsTyped DEF StageRecovery, States
<1>2. failures' \in Nat
  BY FailsIsTyped DEF StageRecovery
<1> QED
  BY <1>1, <1>2 DEF StageRecovery, TypeOK, stored, held, noted

\* The activation of a release keeps the types.
LEMMA ActivationTyped ==
  ASSUME TypeOK, NEW c \in Candidates, NEW written \in BOOLEAN,
         CommitActivation(c, written)
  PROVE  TypeOK'
<1>1. lastState' \in Nat /\ lastState' = lastState + 1
  BY DEF CommitActivation, TypeOK
<1>2. c.proposed \in Versions
  BY PolicyAssumption
<1>3. active' \in Policies
  BY <1>1, <1>2 DEF CommitActivation, Policies
<1>4. activeFile' \in Policies
  BY <1>3 DEF CommitActivation, TypeOK
<1>5. failures' \in Nat
  <2>1. Fails(~written) /\ (~written) \in BOOLEAN
    BY DEF CommitActivation
  <2> QED
    BY <2>1, FailsIsTyped
<1> QED
  BY <1>1, <1>3, <1>4, <1>5 DEF CommitActivation, TypeOK, held, noted

\* Recording a historical policy keeps the types.
LEMMA RecordTyped ==
  ASSUME TypeOK, NEW p \in Registered, NEW written \in BOOLEAN,
         RecordHistoricalPolicy(p, written)
  PROVE  TypeOK'
<1>1. history' \in Seq(Policies)
  BY HistoricalIsTyped, PolicyAssumption DEF RecordHistoricalPolicy
<1>2. historyFile' \in Seq(Policies) /\ unwritten' \subseteq Nat
  BY <1>1, PersistIsTyped, PolicyAssumption DEF RecordHistoricalPolicy
<1>3. failures' \in Nat
  <2>1. Fails(~written) /\ (~written) \in BOOLEAN
    BY DEF RecordHistoricalPolicy
  <2> QED
    BY <2>1, FailsIsTyped
<1> QED
  BY <1>1, <1>2, <1>3 DEF RecordHistoricalPolicy, TypeOK, held, noted

\* Synchronizing the runtime keeps the types.
LEMMA SynchronizeTyped == TypeOK /\ Synchronize => TypeOK'
BY SyncedIsTyped DEF Synchronize, TypeOK, stored, held, noted

\* A restart keeps the types.
LEMMA RestartTyped == TypeOK /\ Restart => TypeOK'
<1>1. NoPolicy \in Policies
  BY DEF NoPolicy, NoVersion, Policies, Versions
<1> QED
  BY <1>1 DEF Restart, TypeOK, held, noted

-----------------------------------------------------------------------------
(* States grow, the reviewed policy is replaced, the runtime follows *)

\* A request that is saved, evaluated, authorized or staged changes no policy.
LEMMA RequestKeepsPolicies ==
  ASSUME IInv, TypeOK',
         UNCHANGED <<active, activeFile, snapshot, lastState, commits>>
  PROVE  IInv'
BY DEF IInv, FileBehindMemory, CommitsAreBehind, ReviewedWasReplaced, OneSuccessor,
       RuntimeFollowsUnlessOlder

\* A runtime that was synchronized enforces the policy it was given, unless it
\* knew a newer one.
LEMMA SyncedFollows ==
  ASSUME NEW known \in Policies, NEW policy \in Policies
  PROVE  LET now == Synced(known, policy) IN
         now.id # 0 => now.id = policy.id \/ Stale(policy.version, now.version)
BY DEF Synced

\* Synchronizing the runtime keeps the invariant.
LEMMA SynchronizeInv == IInv /\ Synchronize => IInv'
<1> SUFFICES ASSUME IInv, Synchronize
             PROVE  IInv'
  OBVIOUS
<1>1. TypeOK'
  BY SynchronizeTyped DEF IInv
<1>2. active' = active /\ commits' = commits /\ activeFile' = activeFile
      /\ lastState' = lastState /\ snapshot' = Synced(snapshot, active)
  BY DEF Synchronize, stored, noted
<1>3. snapshot'.id # 0 => snapshot'.id = active'.id \/ Stale(active'.version, snapshot'.version)
  BY <1>2, SyncedFollows DEF IInv, TypeOK
<1>4. RuntimeFollowsUnlessOlder'
  BY <1>3 DEF RuntimeFollowsUnlessOlder
<1> QED
  BY <1>1, <1>2, <1>4 DEF IInv, FileBehindMemory, CommitsAreBehind, ReviewedWasReplaced,
                          OneSuccessor

\* After a restart the runtime serves nothing until it is synchronized.
LEMMA RestartInv == IInv /\ Restart => IInv'
<1> SUFFICES ASSUME IInv, Restart
             PROVE  IInv'
  OBVIOUS
<1>1. TypeOK'
  BY RestartTyped DEF IInv
<1>2. active' = activeFile /\ commits' = commits /\ activeFile' = activeFile
      /\ lastState' = lastState /\ snapshot'.id = 0
  BY DEF Restart, NoPolicy, noted
<1>3. activeFile.id \in Nat /\ active.id \in Nat /\ lastState \in Nat
  BY DEF IInv, TypeOK, Policies
<1>4. FileBehindMemory'
  BY <1>2, <1>3 DEF IInv, FileBehindMemory
<1>5. RuntimeFollowsUnlessOlder'
  BY <1>2 DEF RuntimeFollowsUnlessOlder
<1> QED
  BY <1>1, <1>2, <1>4, <1>5 DEF IInv, CommitsAreBehind, ReviewedWasReplaced, OneSuccessor

\* A new state is later than every commit, so none of them led to it.
LEMMA ActivationInv ==
  ASSUME IInv, NEW c \in Candidates, NEW written \in BOOLEAN,
         CommitActivation(c, written)
  PROVE  IInv'
<1>1. TypeOK'
  BY ActivationTyped DEF IInv
<1>2. /\ active'.id = lastState + 1 /\ lastState' = lastState + 1
      /\ activeFile' \in {active', activeFile} /\ commits' = commits
  BY DEF CommitActivation, noted
<1>3. activeFile.id \in Nat /\ active.id \in Nat /\ lastState \in Nat
  BY DEF IInv, TypeOK, Policies
<1>4. FileBehindMemory'
  BY <1>2, <1>3 DEF IInv, FileBehindMemory
<1>5. ASSUME NEW d \in commits
      PROVE  d.old < d.new /\ d.new <= activeFile'.id /\ d.new # active'.id
  <2>1. d.new \in Nat /\ d.old < d.new /\ d.new <= activeFile.id
    BY DEF IInv, TypeOK, Commits, CommitsAreBehind
  <2> QED
    BY <1>2, <1>3, <2>1 DEF IInv, FileBehindMemory
<1>6. CommitsAreBehind' /\ RuntimeFollowsUnlessOlder'
  BY <1>2, <1>5 DEF CommitsAreBehind, RuntimeFollowsUnlessOlder
<1> QED
  BY <1>1, <1>2, <1>4, <1>6 DEF IInv, ReviewedWasReplaced, OneSuccessor

\* No commit there was led to the new state, and none of a rollback or sunset
\* was against what is active, because the file is already past it.
LEMMA CommitInv ==
  ASSUME IInv, NEW r \in RequestIds, NEW at \in FailingWrites \cup {5}, Commit(r, at)
  PROVE  IInv'
<1> DEFINE policy == [id |-> lastState + 1, version |-> NewVersion(r)]
           new == CommitOf(r, at)
<1>1. /\ at \in 1 .. 5 /\ policy \in Policies /\ policy.id = lastState + 1
      /\ lastState' = lastState + 1
      /\ active' = IF at > 1 THEN policy ELSE active
      /\ activeFile' = IF at > 2 THEN policy ELSE activeFile
      /\ snapshot' = IF at = 5 THEN Synced(snapshot, policy) ELSE snapshot
      /\ commits' = IF at > 2 THEN commits \cup {CommitOf(r, at)} ELSE commits
  BY WhatCommitDoes DEF IInv
<1>2. /\ new.request = r /\ new.old = active.id /\ new.new = lastState + 1
      /\ new.against = requests[r].current.id /\ (new.returned <=> at = 5)
  BY DEF CommitOf
<1> HIDE DEF policy
<1>3. TypeOK'
  BY CommitTyped DEF IInv
<1>4. activeFile.id \in Nat /\ active.id \in Nat /\ lastState \in Nat
  BY DEF IInv, TypeOK, Policies
<1>5. /\ activeFile.id <= active.id /\ active.id <= lastState
  BY DEF IInv, FileBehindMemory
<1>6. FileBehindMemory'
  BY <1>1, <1>4, <1>5 DEF FileBehindMemory
<1>7. ASSUME NEW d \in commits
      PROVE  /\ d.new \in Nat /\ d.old \in Nat /\ d.old < d.new
             /\ d.new <= activeFile.id /\ d.new # policy.id /\ d.old # active.id
  <2>1. d.new \in Nat /\ d.old \in Nat /\ d.old < d.new /\ d.new <= activeFile.id
    BY DEF IInv, TypeOK, Commits, CommitsAreBehind
  <2> QED
    BY <1>1, <1>4, <1>5, <2>1
<1>8. CommitsAreBehind'
  <2> SUFFICES ASSUME NEW d \in commits'
               PROVE  d.old < d.new /\ d.new <= activeFile'.id
    BY DEF CommitsAreBehind
  <2>1. CASE d \in commits
    BY <1>1, <1>4, <1>5, <1>7, <2>1
  <2>2. CASE d = new /\ at > 2
    BY <1>1, <1>2, <1>4, <1>5, <2>2
  <2> QED
    BY <1>1, <2>1, <2>2
<1>9. KindOf[r] \in {"rollback", "sunset"} => new.against = new.old
  BY <1>2 DEF Commit, NoConflict
<1>10. ReviewedWasReplaced'
  BY <1>1, <1>2, <1>9 DEF IInv, ReviewedWasReplaced
<1>11. OneSuccessor'
  <2> SUFFICES ASSUME NEW c \in commits', NEW d \in commits',
                      {KindOf[c.request], KindOf[d.request]} \subseteq {"rollback", "sunset"},
                      c.against = d.against
               PROVE  c = d
    BY DEF OneSuccessor
  <2>1. c.against = c.old /\ d.against = d.old
    BY <1>10 DEF ReviewedWasReplaced
  <2>2. CASE c \in commits /\ d \in commits
    BY <2>2 DEF IInv, OneSuccessor
  <2>3. CASE c \in commits /\ d = new
    BY <1>2, <1>7, <2>1, <2>3
  <2>4. CASE c = new /\ d \in commits
    BY <1>2, <1>7, <2>1, <2>4
  <2> QED
    BY <1>1, <2>2, <2>3, <2>4
<1>12. RuntimeFollowsUnlessOlder'
  <2> SUFFICES ASSUME NEW c \in commits', c.returned, c.new = active'.id, snapshot'.id # 0
               PROVE  snapshot'.id = active'.id \/ Stale(active'.version, snapshot'.version)
    BY DEF RuntimeFollowsUnlessOlder
  <2>1. CASE at = 5
    BY <1>1, <2>1, SyncedFollows DEF IInv, TypeOK
  <2>2. CASE at # 5 /\ at > 1
    <3>1. c # new /\ active'.id = policy.id
      BY <1>1, <1>2, <2>2
    <3> QED
      BY <1>1, <1>7, <3>1
  <2>3. CASE ~(at > 1)
    BY <1>1, <2>3 DEF IInv, RuntimeFollowsUnlessOlder
  <2> QED
    BY <2>1, <2>2, <2>3
<1> QED
  BY <1>3, <1>6, <1>8, <1>10, <1>11, <1>12 DEF IInv

\* The invariant holds initially.
LEMMA InitInv == Init => IInv
<1> SUFFICES ASSUME Init
             PROVE  IInv
  OBVIOUS
<1>1. FileBehindMemory
  BY DEF Init, NoPolicy, FileBehindMemory
<1> QED
  BY <1>1, InitTyped DEF Init, IInv, CommitsAreBehind, ReviewedWasReplaced, OneSuccessor,
                         RuntimeFollowsUnlessOlder

\* Every step keeps the invariant.
LEMMA NextInv == IInv /\ [Next]_vars => IInv'
<1> SUFFICES ASSUME IInv, [Next]_vars
             PROVE  IInv'
  OBVIOUS
<1>1. ASSUME NEW written \in BOOLEAN, NEW c \in Candidates, CommitActivation(c, written)
      PROVE  IInv'
  BY <1>1, ActivationInv
<1>2. ASSUME NEW written \in BOOLEAN, NEW p \in Registered,
             RecordHistoricalPolicy(p, written)
      PROVE  IInv'
  <2>1. TypeOK'
    BY <1>2, RecordTyped DEF IInv
  <2> QED
    BY <1>2, <2>1, RequestKeepsPolicies DEF RecordHistoricalPolicy
<1>3. ASSUME NEW written \in BOOLEAN, NEW r \in RequestIds, RequestNext(r, written)
      PROVE  IInv'
  <2>1. CASE RequestChange(r, written)
    BY <2>1, RequestTyped, RequestKeepsPolicies DEF IInv, RequestChange, stored, noted
  <2>2. CASE Evaluate(r, written)
    BY <2>2, EvaluateTyped, RequestKeepsPolicies DEF IInv, Evaluate, stored, noted
  <2>3. CASE Authorize(r, written)
    BY <2>3, AuthorizeTyped, RequestKeepsPolicies DEF IInv, Authorize, stored, noted
  <2>4. CASE StageRecovery(r, written)
    BY <2>4, StageTyped, RequestKeepsPolicies DEF IInv, StageRecovery, stored, noted
  <2> QED
    BY <1>3, <2>1, <2>2, <2>3, <2>4 DEF RequestNext
<1>4. ASSUME NEW r \in RequestIds, NEW at \in FailingWrites \cup {5}, Commit(r, at)
      PROVE  IInv'
  BY <1>4, CommitInv
<1>5. CASE Synchronize
  BY <1>5, SynchronizeInv
<1>6. CASE Restart
  BY <1>6, RestartInv
<1>7. CASE UNCHANGED vars
  <2>1. TypeOK'
    BY <1>7 DEF IInv, TypeOK, vars, stored, held, noted
  <2> QED
    BY <1>7, <2>1, RequestKeepsPolicies DEF vars, stored, noted
<1> QED
  BY <1>1, <1>2, <1>3, <1>4, <1>5, <1>6, <1>7 DEF Next

\* The invariant holds in every reachable state.
LEMMA Invariance == Spec => []IInv
<1> QED
  BY InitInv, NextInv, PTL DEF Spec

\* Type correctness: policies, histories, requests and commits are what their
\* stores declare, in memory and on disk.
THEOREM TypeCorrect == Spec => []TypeOK
<1>1. IInv => TypeOK
  BY DEF IInv
<1> QED
  BY <1>1, Invariance, PTL

\* One rollback or sunset at most takes the place of a policy state: whatever
\* requests compete, whichever write of a commit fails (the one of the history
\* too), and however often the process restarts, what was reviewed is replaced
\* once by the commits that a review allowed.
THEOREM OneSuccessorHolds == Spec => []OneSuccessor
<1>1. IInv => OneSuccessor
  BY DEF IInv
<1> QED
  BY <1>1, Invariance, PTL

\* After a change that returned without an error, the runtime serves the active
\* policy, or one of a newer version, until it starts again.
THEOREM RuntimeFollowsUnlessOlderHolds == Spec => []RuntimeFollowsUnlessOlder
<1>1. IInv => RuntimeFollowsUnlessOlder
  BY DEF IInv
<1> QED
  BY <1>1, Invariance, PTL

-----------------------------------------------------------------------------
(***************************************************************************)
(* The history.  Memory and file differ by the policies whose write failed *)
(* until a later write puts all of the memory into the file, or a restart  *)
(* forgets them.                                                           *)
(***************************************************************************)

HInv ==
  /\ Ids(historyFile) \subseteq Ids(history)
  /\ Ids(history) \subseteq Ids(historyFile) \cup unwritten
  /\ HistoryKept

\* A policy appended to the history adds its id.
LEMMA AppendedIds ==
  ASSUME NEW h \in Seq(Policies), NEW p \in Policies
  PROVE  Ids(Append(h, p)) = Ids(h) \cup {p.id}
<1> DEFINE g == Append(h, p)
<1>1. DOMAIN h = 1 .. Len(h) /\ Len(h) \in Nat /\ DOMAIN g = 1 .. Len(h) + 1
  OBVIOUS
<1>2. \A i \in 1 .. Len(h) : g[i] = h[i]
  OBVIOUS
<1>3. g[Len(h) + 1] = p
  OBVIOUS
<1> HIDE DEF g
<1>4. Range(g) = Range(h) \cup {p}
  BY <1>1, <1>2, <1>3 DEF Range
<1>5. Ids(g) = Ids(h) \cup {p.id}
  BY <1>4 DEF Ids
<1> QED
  BY <1>5 DEF g

\* The invariant of the history holds initially.
LEMMA HInitial == Init => HInv
BY DEF Init, HInv, HistoryKept

\* A new policy, whether its write fails or not, leaves in the file or among
\* the unwritten ones what was there, and itself.
LEMMA PersistKeeps ==
  ASSUME TypeOK, HInv, NEW p \in Policies, NEW written \in BOOLEAN,
         ~Historical(p), SaveHistorical(p), Persist(p, written)
  PROVE  /\ Ids(historyFile') \subseteq Ids(history')
         /\ Ids(history') \subseteq Ids(historyFile') \cup unwritten'
         /\ Ids(historyFile) \cup unwritten \cup {p.id}
              \subseteq Ids(historyFile') \cup unwritten'
<1>1. Ids(history') = Ids(history) \cup {p.id}
  BY AppendedIds DEF SaveHistorical, TypeOK
<1>2. CASE written
  <2>1. historyFile' = history' /\ unwritten' = unwritten \ Ids(history')
    BY <1>2 DEF Persist
  <2> QED
    BY <1>1, <2>1 DEF HInv
<1>3. CASE ~written
  <2>1. historyFile' = historyFile /\ unwritten' = unwritten \cup {p.id}
    BY <1>3 DEF Persist
  <2> QED
    BY <1>1, <2>1 DEF HInv
<1> QED
  BY <1>2, <1>3

\* What does not touch the history keeps it.
LEMMA HistoryUnchanged ==
  ASSUME HInv, UNCHANGED <<history, historyFile, commits, unwritten>>
  PROVE  HInv'
BY DEF HInv, HistoryKept

\* Recording a historical policy keeps it.
LEMMA RecordHistory ==
  ASSUME TypeOK, HInv, NEW p \in Registered, NEW written \in BOOLEAN,
         RecordHistoricalPolicy(p, written)
  PROVE  HInv'
<1>1. /\ ~Historical(p) /\ SaveHistorical(p) /\ Persist(p, written)
      /\ commits' = commits /\ p \in Policies
  BY PolicyAssumption DEF RecordHistoricalPolicy
<1>2. /\ Ids(historyFile') \subseteq Ids(history')
      /\ Ids(history') \subseteq Ids(historyFile') \cup unwritten'
      /\ Ids(historyFile) \cup unwritten \subseteq Ids(historyFile') \cup unwritten'
  BY <1>1, PersistKeeps
<1>3. HistoryKept'
  BY <1>1, <1>2 DEF HInv, HistoryKept
<1> QED
  BY <1>2, <1>3 DEF HInv

\* A commit puts the policy that it replaces into the history first: it is in
\* the file, or its write failed, now or in an attempt before.
LEMMA CommitHistory ==
  ASSUME TypeOK, HInv, NEW r \in RequestIds,
         NEW at \in FailingWrites \cup {5}, Commit(r, at)
  PROVE  HInv'
<1>1. commits' = commits \/ commits' = commits \cup {CommitOf(r, at)}
  <2>1. [id |-> lastState + 1, version |-> NewVersion(r)] =
        [id |-> lastState + 1, version |-> NewVersion(r)]
    OBVIOUS
  <2> QED
    BY <2>1, WhatCommitDoes
<1>2. Preserved(at) /\ active \in Policies /\ (at > 1) \in BOOLEAN
  BY DEF Commit, TypeOK
<1>3. /\ Ids(historyFile') \subseteq Ids(history')
      /\ Ids(history') \subseteq Ids(historyFile') \cup unwritten'
      /\ Ids(historyFile) \cup unwritten \subseteq Ids(historyFile') \cup unwritten'
      /\ active.id # 0 => active.id \in Ids(historyFile') \cup unwritten'
  <2>1. CASE active.id = 0
    BY <1>2, <2>1 DEF Preserved, HInv
  <2>2. CASE active.id # 0 /\ Historical(active)
    <3>1. UNCHANGED <<history, historyFile, unwritten>>
      BY <1>2, <2>2 DEF Preserved, SaveHistorical
    <3> QED
      BY <2>2, <3>1 DEF HInv, Historical
  <2>3. CASE active.id # 0 /\ ~Historical(active)
    <3>1. SaveHistorical(active) /\ Persist(active, at > 1)
      BY <1>2, <2>3 DEF Preserved
    <3> QED
      BY <1>2, <2>3, <3>1, PersistKeeps
  <2> QED
    BY <2>1, <2>2, <2>3
<1>4. HistoryKept'
  BY <1>1, <1>3 DEF HInv, HistoryKept, CommitOf
<1> QED
  BY <1>3, <1>4 DEF HInv

\* A restart, which reads the history from disk, keeps it.
LEMMA RestartHistory == HInv /\ Restart => HInv'
BY DEF HInv, HistoryKept, Restart, noted

\* Every step keeps the invariant of the history.
LEMMA HNext == TypeOK /\ HInv /\ [Next]_vars => HInv'
<1> SUFFICES ASSUME TypeOK, HInv, [Next]_vars
             PROVE  HInv'
  OBVIOUS
<1>1. ASSUME NEW written \in BOOLEAN, NEW c \in Candidates, CommitActivation(c, written)
      PROVE  HInv'
  BY <1>1, HistoryUnchanged DEF CommitActivation, noted
<1>2. ASSUME NEW written \in BOOLEAN, NEW p \in Registered,
             RecordHistoricalPolicy(p, written)
      PROVE  HInv'
  BY <1>2, RecordHistory
<1>3. ASSUME NEW written \in BOOLEAN, NEW r \in RequestIds, RequestNext(r, written)
      PROVE  HInv'
  BY <1>3, HistoryUnchanged
     DEF RequestNext, RequestChange, Evaluate, Authorize, StageRecovery, stored, noted
<1>4. ASSUME NEW r \in RequestIds, NEW at \in FailingWrites \cup {5}, Commit(r, at)
      PROVE  HInv'
  BY <1>4, CommitHistory
<1>5. CASE Synchronize \/ UNCHANGED vars
  BY <1>5, HistoryUnchanged DEF Synchronize, stored, vars, noted
<1>6. CASE Restart
  BY <1>6, RestartHistory
<1> QED
  BY <1>1, <1>2, <1>3, <1>4, <1>5, <1>6 DEF Next

\* What a rollback, a sunset or a recovery replaced is in the history on disk,
\* whichever write fails and across restarts, or its own write to the history
\* failed and no later one put it there.
THEOREM HistoryKeptHolds == Spec => []HistoryKept
<1>1. HInv => HistoryKept
  BY DEF HInv
<1> QED
  BY <1>1, HInitial, HNext, TypeCorrect, PTL DEF Spec

=============================================================================
