---------------------------- MODULE ToolExecution ----------------------------
(***************************************************************************)
(* src/tools/registry.ts, ToolRegistry.executeTool: the one way by which   *)
(* the agent loops, the adapters and the server run a tool.  It composes   *)
(* IdempotencyStore, the policy enforcement point with RuntimeGuardrails,  *)
(* ApprovalTokenMachine (which ApprovalService implements) and the audit   *)
(* ledger on disk.                                                         *)
(*                                                                         *)
(* A call runs without interruption from its start to `await tool.execute' *)
(* and again from there to its end; in between other calls, the human, the *)
(* clock and a crash of the process may come.  Each call is made once; a   *)
(* retry is another call with an equal request.                            *)
(*                                                                         *)
(* The classification of a tool is the active policy's (no policy change   *)
(* or canary is modelled).  MaxDiskFailures bounds the writes that fail.   *)
(***************************************************************************)
EXTENDS Integers, FiniteSets

CONSTANTS
  Calls,              \* calls of executeTool
  Tenants,            \* partition keys of users
  NoUser,             \* a call without an authenticated user
  PrimaryTenant,      \* the partition of DEFAULT_PRIMARY_USER_ID
  Tools,
  ClassOf,            \* ActionClassification of each tool
  Arguments,          \* given arguments; none of them is {}
  NoArguments,        \* no arguments: {} for the approval and the audit
  Keys, NoKey,        \* idempotency keys
  Correlations,       \* correlation ids
  Approvals, NoToken, \* approvals, each named like its execution token
  Requests,           \* what a call may ask for
  ConcurrencyLimit, LeaseTTL, EntryTTL,
  MaxDiskFailures

Request ==
  [user : Tenants \cup {NoUser}, tool : Tools,
   arguments : Arguments \cup {NoArguments},
   key : Keys \cup {NoKey}, correlation : Correlations,
   token : Approvals \cup {NoToken},
   privileged : BOOLEAN,      \* owner, admin or desktop_agent
   withinBudget : BOOLEAN]    \* retries and approval timeout are in bounds

NoRequest == [user |-> NoUser]

LeaseKeys == Correlations \X Tools

ASSUME RequestsAssumption == Requests \subseteq Request

ASSUME ClassesAssumption ==
  /\ ClassOf \in
       [Tools -> {"FORBIDDEN", "OBSERVE", "REVERSIBLE", "HIGH_IMPACT"}]
  /\ PrimaryTenant \in Tenants /\ NoUser \notin Tenants
  /\ NoArguments \notin Arguments /\ NoKey \notin Keys /\ NoToken \notin Approvals

ASSUME BoundsAssumption ==
  /\ ConcurrencyLimit \in Nat \ {0}
  /\ LeaseTTL \in Nat /\ EntryTTL \in Nat /\ MaxDiskFailures \in Nat

VARIABLES
  calls,                                  \* every call and its outcome
  entries,                                \* durable, IdempotencyStore
  activeLeases, activeTenantConcurrency,  \* in memory, RuntimeGuardrails
  phase, used,                            \* durable, ApprovalTokenMachine
  approvedFor,                            \* durable: what each approval is for
  killSwitch,                             \* in memory: globalKillSwitch
  ledger,                                 \* durable: the audit events
  diskFailures                            \* how many writes have failed

Store == INSTANCE IdempotencyStore WITH Results <- Calls
Guard == INSTANCE RuntimeGuardrails WITH LeaseIds <- Calls
Human == INSTANCE ApprovalTokenMachine

leases    == <<activeLeases, activeTenantConcurrency>>
approvals == <<phase, used, approvedFor>>
vars == <<calls, entries, leases, approvals, killSwitch, ledger, diskFailures>>

Outcomes == {"none", "result", "cached", "conflict", "denied", "clash",
             "error", "lost"}

Call ==
  [pc : {"idle", "running", "done"}, request : Requests \cup {NoRequest},
   effect : BOOLEAN,                 \* the tool has done its work
   recorded : BOOLEAN,               \* its result reached the store
   outcome : Outcomes,
   source : Calls]                   \* the call whose result was returned

Init ==
  /\ calls = [c \in Calls |->
       [pc |-> "idle", request |-> NoRequest, effect |-> FALSE,
        recorded |-> FALSE, outcome |-> "none", source |-> c]]
  /\ Store!Init
  /\ Guard!Init
  /\ Human!Init /\ phase = [a \in Approvals |-> "none"]
  /\ approvedFor = [a \in Approvals |-> NoRequest]
  /\ killSwitch = FALSE
  /\ ledger = {}
  /\ diskFailures = 0

-----------------------------------------------------------------------------
(***************************************************************************)
(* Parts of a call                                                         *)
(***************************************************************************)
Idle(c) == calls[c].pc = "idle"

Running(c) == calls[c].pc = "running"

\* The request of a call that is past its start.
RequestOf(c) == calls[c].request

\* getStore(undefined) opens the primary user's partition.
StoreOf(r) == IF r.user = NoUser THEN PrimaryTenant ELSE r.user

End(c, r, outcome, source) ==
  calls' = [calls EXCEPT ![c].pc = "done", ![c].request = r,
                         ![c].outcome = outcome, ![c].source = source]

\* The writes to disk that a call tries, and those of them that are done; one
\* that fails throws.
Writes(c, tried, done) ==
  /\ done \subseteq tried
  /\ diskFailures' = diskFailures + Cardinality(tried \ done)
  /\ diskFailures' <= MaxDiskFailures
  /\ ledger' = ledger \cup {[call |-> c, status |-> s] : s \in done}

Block(c, r, outcome) ==
  /\ End(c, r, outcome, c)
  /\ \E done \in SUBSET {"BLOCKED"} : Writes(c, {"BLOCKED"}, done)

\* The idempotency check finds nothing for this request.
New(r) == r.key # NoKey => ~ Store!Current(StoreOf(r), r.key)

CheckedEntries(r) ==
  entries' = IF r.key = NoKey THEN entries ELSE Store!Checked(StoreOf(r), r.key)

\* PEP steps 1 to 5: the request gets as far as the guardrails.
ReachesGuardrails(r) ==
  ~killSwitch /\ r.user # NoUser /\ ClassOf[r.tool] # "FORBIDDEN"

\* PEP step 6.
PassesGuardrails(r) ==
  ReachesGuardrails(r) /\ r.withinBudget /\ Guard!Admits(r.user)

\* validateAndConsumeToken accepts the token: approved for this very action of
\* this user.
TokenAccepted(r) ==
  /\ r.token # NoToken
  /\ phase[r.token] = "approved"
  /\ approvedFor[r.token] =
       [user |-> r.user, tool |-> r.tool, arguments |-> r.arguments]

\* PEP step 7, where no approval is needed.
PermittedByRole(r) ==
  \/ ClassOf[r.tool] = "OBSERVE"
  \/ ClassOf[r.tool] = "REVERSIBLE" /\ r.privileged

\* Faulty: the token is validated and not consumed.
AuthoriseWithoutConsuming(r) ==
  PassesGuardrails(r) /\ (PermittedByRole(r) \/ TokenAccepted(r))
  /\ UNCHANGED approvals

\* The PEP permits r; the token of a HIGH_IMPACT action is consumed here,
\* before the lease is asked for.
Authorise(r) ==
  /\ PassesGuardrails(r)
  /\ \/ PermittedByRole(r) /\ UNCHANGED approvals
     \/ /\ ClassOf[r.tool] = "HIGH_IMPACT" /\ TokenAccepted(r)
        /\ Human!Use(r.token) /\ UNCHANGED approvedFor

LeaseKey(r) == <<r.correlation, r.tool>>

LeaseOf(c) ==
  [id |-> c, tenant |-> RequestOf(c).user, key |-> LeaseKey(RequestOf(c))]

-----------------------------------------------------------------------------
(***************************************************************************)
(* executeTool up to `await tool.execute'                                  *)
(***************************************************************************)

\* The key was used with other arguments: audited and refused.
RefuseReuse(c, r) ==
  /\ Idle(c) /\ r.key # NoKey
  /\ Store!Conflicts(StoreOf(r), r.key, r.arguments)
  /\ Block(c, r, "conflict")
  /\ UNCHANGED <<entries, leases, approvals, killSwitch>>

\* A duplicate gets the stored result, and no audit event.
ReturnCached(c, r) ==
  /\ Idle(c) /\ r.key # NoKey
  /\ Store!Duplicate(StoreOf(r), r.key, r.arguments)
  /\ End(c, r, "cached", entries[StoreOf(r)][r.key].result)
  /\ UNCHANGED <<entries, leases, approvals, killSwitch, ledger, diskFailures>>

\* The PEP denies: kill switch, no user, forbidden tool, guardrails, role.
Deny(c, r) ==
  /\ Idle(c) /\ New(r)
  /\ \/ ~ PassesGuardrails(r)
     \/ ClassOf[r.tool] = "REVERSIBLE" /\ ~ r.privileged
  /\ CheckedEntries(r)
  /\ IF ReachesGuardrails(r) THEN Guard!Clean ELSE UNCHANGED leases
  /\ Block(c, r, "denied")
  /\ UNCHANGED <<approvals, killSwitch>>

\* A HIGH_IMPACT action without a token: the PEP asks a human, and denies.
AskApproval(c, r, a) ==
  /\ Idle(c) /\ New(r) /\ PassesGuardrails(r)
  /\ ClassOf[r.tool] = "HIGH_IMPACT" /\ r.token = NoToken
  /\ CheckedEntries(r)
  /\ Guard!Clean
  /\ Human!Request(a)
  /\ approvedFor' = [approvedFor EXCEPT ![a] =
       [user |-> r.user, tool |-> r.tool, arguments |-> r.arguments]]
  /\ Block(c, r, "denied")
  /\ UNCHANGED killSwitch

\* A HIGH_IMPACT action with a token that is not accepted: not this action's,
\* not approved, or out of time, which closes the approval.
RefuseToken(c, r) ==
  /\ Idle(c) /\ New(r) /\ PassesGuardrails(r)
  /\ ClassOf[r.tool] = "HIGH_IMPACT" /\ r.token # NoToken
  /\ \/ ~ TokenAccepted(r) /\ UNCHANGED <<phase, used>>
     \/ phase[r.token] = "approved" /\ Human!Close(r.token)
  /\ CheckedEntries(r)
  /\ Guard!Clean
  /\ Block(c, r, "denied")
  /\ UNCHANGED <<approvedFor, killSwitch>>

\* LEASE_ACQUISITION_CONFLICT is thrown out of executeTool: no audit event,
\* and a token that was consumed stays consumed.
LeaseClash(c, r) ==
  /\ Idle(c) /\ New(r) /\ Authorise(r)
  /\ Guard!LeaseConflict(r.user, LeaseKey(r))
  /\ CheckedEntries(r)
  /\ Guard!Clean
  /\ End(c, r, "clash", c)
  /\ UNCHANGED <<killSwitch, ledger, diskFailures>>

\* The PEP permits the call and the tool is started.
Begin(c, r) ==
  /\ Idle(c) /\ New(r) /\ Authorise(r)
  /\ ~ Guard!LeaseConflict(r.user, LeaseKey(r))
  /\ CheckedEntries(r)
  /\ Guard!Acquire(c, r.user, LeaseKey(r))
  /\ calls' = [calls EXCEPT ![c].pc = "running", ![c].request = r]
  /\ UNCHANGED <<killSwitch, ledger, diskFailures>>

-----------------------------------------------------------------------------
(***************************************************************************)
(* While the tool runs, and executeTool after it                           *)
(***************************************************************************)

\* The tool does what it is for, once, at some moment of its run.
Effect(c) ==
  /\ Running(c) /\ ~ calls[c].effect
  /\ calls' = [calls EXCEPT ![c].effect = TRUE]
  /\ UNCHANGED <<entries, leases, approvals, killSwitch, ledger, diskFailures>>

\* globalIdempotencyStore.record, for a call with a key.
RecordResult(c) ==
  LET r == RequestOf(c) IN
  entries' = IF r.key = NoKey THEN entries
             ELSE Store!Recorded(StoreOf(r), r.key, r.arguments, c)

\* Faulty: an append that fails is ignored.
FinishUnaudited(c) ==
  /\ Running(c) /\ calls[c].effect
  /\ RecordResult(c)
  /\ calls' = [calls EXCEPT ![c].pc = "done", ![c].recorded = TRUE,
                            ![c].outcome = "result"]
  /\ \E done \in SUBSET {"SUCCESS"} : Writes(c, {"SUCCESS"}, done)
  /\ Guard!Release(LeaseOf(c))
  /\ UNCHANGED <<approvals, killSwitch>>

\* The tool returned: record, audit SUCCESS, release the lease.
Finish(c) ==
  /\ Running(c) /\ calls[c].effect
  /\ RecordResult(c)
  /\ calls' = [calls EXCEPT ![c].pc = "done", ![c].recorded = TRUE,
                            ![c].outcome = "result"]
  /\ Writes(c, {"SUCCESS"}, {"SUCCESS"})
  /\ Guard!Release(LeaseOf(c))
  /\ UNCHANGED <<approvals, killSwitch>>

\* The tool returned, the result is recorded, and the append of SUCCESS fails:
\* the catch block audits FAILURE and the caller gets an error.
FinishAuditFails(c) ==
  /\ Running(c) /\ calls[c].effect
  /\ RecordResult(c)
  /\ calls' = [calls EXCEPT ![c].pc = "done", ![c].recorded = TRUE,
                            ![c].outcome = "error"]
  /\ \E done \in SUBSET {"FAILURE"} :
       Writes(c, {"SUCCESS", "FAILURE"}, done)
  /\ Guard!Release(LeaseOf(c))
  /\ UNCHANGED <<approvals, killSwitch>>

\* The tool returned and the write of the idempotency entry fails: the same
\* catch block, and nothing is recorded.
FinishRecordFails(c) ==
  /\ Running(c) /\ calls[c].effect /\ RequestOf(c).key # NoKey
  /\ calls' = [calls EXCEPT ![c].pc = "done", ![c].outcome = "error"]
  /\ \E done \in SUBSET {"FAILURE"} : Writes(c, {"RECORD", "FAILURE"}, done)
  /\ Guard!Release(LeaseOf(c))
  /\ UNCHANGED <<entries, approvals, killSwitch>>

\* The tool throws, before or after its effect.
ToolThrows(c) ==
  /\ Running(c)
  /\ calls' = [calls EXCEPT ![c].pc = "done", ![c].outcome = "error"]
  /\ \E done \in SUBSET {"FAILURE"} : Writes(c, {"FAILURE"}, done)
  /\ Guard!Release(LeaseOf(c))
  /\ UNCHANGED <<entries, approvals, killSwitch>>

-----------------------------------------------------------------------------
(***************************************************************************)
(* The environment of the calls                                            *)
(***************************************************************************)

\* A human approves, or an approval is rejected, revoked or expires.
Decide(a) ==
  /\ Human!Approve(a) \/ Human!Close(a)
  /\ UNCHANGED <<calls, entries, leases, approvedFor, killSwitch, ledger,
                 diskFailures>>

SetGlobalKillSwitch ==
  /\ killSwitch' = ~ killSwitch
  /\ UNCHANGED <<calls, entries, leases, approvals, ledger, diskFailures>>

Tick ==
  /\ entries' = Store!AgedEntries
  /\ activeLeases' = Guard!AgedLeases
  /\ UNCHANGED <<calls, activeTenantConcurrency, approvals, killSwitch,
                 ledger, diskFailures>>

\* The process dies and is started again: running calls are lost, with the
\* leases and the kill switch.
Crash ==
  /\ calls' = [c \in Calls |->
       IF Running(c) THEN [calls[c] EXCEPT !.pc = "done", !.outcome = "lost"]
                     ELSE calls[c]]
  /\ activeLeases' = {}
  /\ activeTenantConcurrency' = [t \in Tenants |-> 0]
  /\ killSwitch' = FALSE
  /\ UNCHANGED <<entries, approvals, ledger, diskFailures>>

Next ==
  \/ \E c \in Calls :
       \/ \E r \in Requests :
            \/ RefuseReuse(c, r)
            \/ ReturnCached(c, r)
            \/ Deny(c, r)
            \/ \E a \in Approvals : AskApproval(c, r, a)
            \/ RefuseToken(c, r)
            \/ LeaseClash(c, r)
            \/ Begin(c, r)
       \/ Effect(c)
       \/ Finish(c)
       \/ FinishAuditFails(c)
       \/ FinishRecordFails(c)
       \/ ToolThrows(c)
  \/ \E a \in Approvals : Decide(a)
  \/ SetGlobalKillSwitch
  \/ Tick
  \/ Crash

Spec == Init /\ [][Next]_vars

-----------------------------------------------------------------------------
(***************************************************************************)
(* Properties                                                              *)
(***************************************************************************)

\* The type invariant of the composition.
TypeOK ==
  /\ calls \in [Calls -> Call]
  /\ Store!TypeOK
  /\ Guard!TypeOK
  /\ Human!TypeOK
  /\ approvedFor \in [Approvals -> [user : Tenants, tool : Tools,
                                    arguments : Arguments \cup {NoArguments}]
                                     \cup {NoRequest}]
  /\ killSwitch \in BOOLEAN
  /\ ledger \subseteq [call : Calls, status : {"SUCCESS", "FAILURE", "BLOCKED"}]
  /\ diskFailures \in 0..MaxDiskFailures

\* The tool of this call was started.
Begun(c) == Running(c) \/ calls[c].outcome \in {"result", "error", "lost"}

\* RuntimeGuardrailEnforcer: the counter that admission trusts equals the
\* leases in the map, although a lease may leave it by its release or by a
\* clean-up, in either order.
CounterMatchesLeases == Guard!CountsLeases

\* No lease outlives its call, however the call ends: a tenant is refused for
\* its concurrency only while it has that many executions running.
LeasesBelongToRunningCalls == \A l \in activeLeases : Running(l.id)

\* As long as leases are in time, a tenant runs no more executions than its
\* limit, and no two of the same correlation and tool.
AdmissionControl ==
  LET busy(t) == {c \in Calls : /\ Running(c) /\ RequestOf(c).user = t
                                /\ \E l \in Guard!LiveLeases : l.id = c}
  IN \A t \in Tenants :
       /\ Cardinality(busy(t)) <= ConcurrencyLimit
       /\ \A c, d \in busy(t) :
            LeaseKey(RequestOf(c)) = LeaseKey(RequestOf(d)) => c = d

\* A lease in time is taken from a running call by nobody: not by the late end
\* of an earlier execution whose lease under the same key had run out.
LiveLeaseKept ==
  [][\A l \in Guard!LiveLeases :
       Running(l.id)' => \E m \in activeLeases' : m.id = l.id]_vars

\* A HIGH_IMPACT tool starts only under an approval that a human gave for this
\* tool, these arguments and this user, and no two executions share one, with
\* retries, crashes and concurrent calls that present the same token.
OneExecutionPerApproval ==
  \A c \in Calls :
    (Begun(c) /\ ClassOf[RequestOf(c).tool] = "HIGH_IMPACT") =>
      LET r == RequestOf(c) IN
      /\ r.token # NoToken
      /\ used[r.token] = 1
      /\ approvedFor[r.token] =
           [user |-> r.user, tool |-> r.tool, arguments |-> r.arguments]
      /\ \A d \in Calls \ {c} : Begun(d) => RequestOf(d).token # r.token
                                            \/ ClassOf[RequestOf(d).tool] # "HIGH_IMPACT"

\* The ledger on disk tells what happened: BLOCKED only of calls that changed
\* nothing, SUCCESS exactly of calls that returned a result, FAILURE only of
\* calls that ended in an error; an event is missing only after a failed write
\* or a crash.
LedgerTruthful ==
  LET has(c, s) == [call |-> c, status |-> s] \in ledger IN
  \A c \in Calls :
    /\ has(c, "BLOCKED") =>
         calls[c].outcome \in {"denied", "conflict"} /\ ~ calls[c].effect
    /\ has(c, "SUCCESS") <=> calls[c].outcome = "result"
    /\ has(c, "FAILURE") => calls[c].outcome = "error"
    /\ diskFailures = 0 =>
         /\ calls[c].outcome = "error" => has(c, "FAILURE")
         /\ calls[c].outcome \in {"denied", "conflict"} => has(c, "BLOCKED")

\* A cached result is the result of an execution that took place under the
\* same key of the same partition and reached the store, and never of one with
\* other arguments: they are the same, or one of the two calls gave none; also
\* when executions under one key, with and without arguments, overlapped and
\* overwrote each other's entry.
CachedIsGenuine ==
  \A c \in Calls :
    calls[c].outcome = "cached" =>
      LET d == calls[c].source IN
      /\ calls[d].effect /\ calls[d].recorded
      /\ RequestOf(d).key = RequestOf(c).key
      /\ StoreOf(RequestOf(d)) = StoreOf(RequestOf(c))
      /\ \/ RequestOf(d).arguments = RequestOf(c).arguments
         \/ NoArguments \in {RequestOf(d).arguments, RequestOf(c).arguments}

\* "Guarantees zero duplicate side effects across all tool executions": one
\* idempotency key stands for at most one effect.
NoDuplicateEffects ==
  \A c, d \in Calls :
    (/\ calls[c].effect /\ calls[d].effect
     /\ RequestOf(c).key # NoKey /\ RequestOf(c).key = RequestOf(d).key
     /\ StoreOf(RequestOf(c)) = StoreOf(RequestOf(d))) => c = d
=============================================================================
