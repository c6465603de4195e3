# A verification development for BOW-AGENT

BOW-AGENT (BOWCON V4.0) is a TypeScript agent that runs on one machine: a
server and several agent loops call tools (shop, desktop, robot, files) through
one registry that enforces a policy, asks a human for approval of high-impact
actions, remembers results under idempotency keys and writes an audit trail;
"bodies" (a desktop, a phone) connect over WebSockets and are sent commands.
These modules model the parts whose correctness the rest relies on, check them
with TLC on small instances, and prove their safety properties with TLAPS.

Paths are relative to the repository, for example `src/core/auditLedger.ts`.
`PROJECT.json` ties every definition to the lines it stands for.

## The system

Node runs one event loop. A handler is not interrupted until it awaits, so a
synchronous operation is one action, and an `await` separates actions. What
makes the code hard to test is what happens at the awaits, across a restart
(durable files against empty memory), when a disk write fails, and in which
order timers, socket events and calls arrive.

| component | state | operations | talks to |
|---|---|---|---|
| `core/approvalService.ts` | durable: one file of approval records per user partition, a legacy file; memory: opened stores, two indexes | request, grant, reject, revoke, validate, consume, validate-and-consume, reads | the enforcement point, HTTP routes for the human |
| `core/idempotencyStore.ts` | durable: entries per partition and key | `check`, `record` (used); `reserve`, `purgeExpired` (no caller) | `executeTool` |
| `core/policyEnforcement/governedPolicyEnforcementPoint.ts`, `core/policyDecisionPoint.ts` | kill switches, active policy | `enforce`, `releaseLease` | guardrails, ApprovalService |
| `core/policyEnforcement/runtimeGuardrailEnforcer.ts` | memory: leases, a count per tenant | evaluate, acquire, release, clean | the enforcement point |
| `tools/registry.ts`, `executeTool` | none of its own | the path of every tool call | all of the above, and the ledger |
| `core/auditLedger.ts` | memory: events, last hash, corruption flag; durable: current and rotated files | `record`, load and verify, rotate | `executeTool` |
| `core/bodyProtocol/bodyRegistry.ts`, socket handlers of `server.ts` | bodies, pending commands with timers, per-connection body id | advertise, heartbeat, result, close, sweep, execute, abort | bodies over WebSockets, voice pipeline, HTTP route |
| `core/persistence/durableJsonStore.ts` | a file, the temporary files beside it | read, write, update | the stores, one or more processes |
| `core/brain/` (`BrainRuntime`, `BrainLoop`) | lifecycle of the brain, the task in memory | submit, cancel, pause, resume, reset; model, tool, verify, recover, commit | the model, tools |
| `core/brain-service/` | memory: lifecycle, queue, results; durable: completed requests | start, handleRequest, shutdown | callers over stdin, `BrainRuntime`, `DurableJsonStore` |
| `core/taskLifecycle/` | durable: a task with its steps, versioned; USER_STOP | create, transition, update a step, rehydrate | operators, the worker |
| `core/governedExecution/` | memory: leases; durable: results of a session | `executeTaskStep`, issue, consume and invalidate leases | the task, adapters |
| `core/multiStepExecution/` | durable: a session with its generations | initialize, execute, resume with a new generation | the worker, the caller who keeps a session |
| `core/policyActiveRollback/`, with the commit of `policyStagedActivation/` and the snapshot of `policyActiveRuntime/` | memory and files: active policy, history, requests; memory: the snapshot enforced | request, evaluate, authorize, stage, commit, synchronize | human operators |
| `core/agentLoop.ts` | the turn in memory | plan steps | `executeTool` |
| `speech/voicePipeline.ts`, `security/pushToTalkManager.ts` | timers, pending confirmations | round trip, confirmation | BodyRegistry |
| `security/requestGuard.ts` | windows per client | rate limit | `server.ts` |
| policy hot swap, canary, fail-closed baseline | active policy, checksum | swap, resolve, fall back | the enforcement point |

`docs/SUBSYSTEM_INVENTORY.md` counts 108 subsystems, most of them available but
not connected, experimental, legacy or dead (it calls `policyActiveRollback`
legacy). This development covers those that `docs/ARCHITECTURE.md` names as the
active core, beginning with the path of a tool call, and of the others the ones
with a state machine, files and interleavings of their own.

What makes each modelled component correct, in a sentence:

* **Approvals**: a human's approval stands for one execution of what the human
  saw, by its owner, in time, whatever restarts and migrations come between.
* **Tool calls**: no more executions at a time than the limit, each approved
  where approval is needed; a result from the store is the result of a real
  execution for the same user and key (the tool's name is not compared, and the
  arguments only where both calls gave some); the ledger tells what happened.
* **Audit trail**: it only grows at its end, and memory agrees with the file or
  an alarm is raised.
* **Bodies**: each command with an id of its own is settled once, at the latest
  by its timer, and at once when its connection ends.
* **Store**: a document changes as a whole or not at all, and a damaged one is
  never taken for an empty one.
* **Tasks and steps**: decisions are made on the task as it is stored; a lease
  stands for one dispatch and a success for one finished step; nothing moves
  while USER_STOP is on or once the task is over.
* **Sessions**: what a session says is done is done, in the order of the
  dependencies, and is not done twice.
* **Brain and its service**: retries end; every accepted request is answered, and
  a success is told only of a request on record, which never runs again; a ready
  service is ready.
* **Rollback**: one change at most takes the place of a policy state, what it
  replaces can be restored, and the runtime follows unless it knows a newer one.

## The modules

**`ApprovalTokenMachine`** is the abstract specification of an approval: the
status machine of the header of `approvalService.ts` and a count of executions,
with no files, users or time. **`ApprovalService`** models the service itself.
`records`, `files` and `legacy` are durable, `stores` and the two indexes are
lost by `Restart`. Each exported method is an action, and does what the method
does before its own work: `getStore` opens the partition, fills the indexes
under the id of the user who opens it, and migrates the legacy file. If the read
that fills the indexes throws, the error is swallowed and the partition counts as
open without its entries until the next restart: every operation chooses whether
its opening read goes well, and `FailedRead` is an operation whose own read
throws too (`indexed` is a history of the partitions that were read). The
migration puts every record of the legacy file into the primary partition; one
whose owner has another partition is `Misfiled`. User ids may share a partition:
`Alone(u)` says that u's is not shared. An action name with its arguments is a member of `Operations`, and the token of an
approval carries the approval's name (it is 128 random bits). `uses` is a
history variable: the acceptances of `validateAndConsumeToken`. The refinement
maps a record's status to a phase and takes a record still in the legacy file
for itself, so that a migration is a stuttering step.

**`IdempotencyStore`** and **`RuntimeGuardrails`** hold the operations of those
two classes as operators over their state. Times are kept as the time left;
`Tick` lowers them. `NoArguments` is a call whose `args` is undefined (an empty
object has a hash like any other): its payload has no hash, `check` compares
nothing, and `record` keeps the hash that is there beside the new result.
**`ToolExecution`** composes both, instantiates `ApprovalTokenMachine` for the human side (which `ApprovalService` is shown to
implement) and models `executeTool`. A call is two atomic blocks with
`await tool.execute` between them. The first block ends in one of the actions
`RefuseReuse`, `ReturnCached`, `Deny`, `AskApproval`, `RefuseToken`,
`LeaseClash` or `Begin`; `Effect` is the tool at work; the second block is one
of `Finish`, `FinishAuditFails`, `FinishRecordFails` and `ToolThrows`, by which
write succeeds. `Crash`, `Decide` (the human), `SetGlobalKillSwitch` and `Tick`
come in between.

**`AppendOnlyLog`** is the abstract trail, **`AuditLedger`** the class: memory,
the current file, what was renamed away, refused and partial writes. A signature
is named by its event, so that a chain is a sequence of lines that name their
predecessors.

**`BodyRegistry`** models the registry with the server's handlers. A connection
is `open`, `closing` and `closed`, because `connection.close` and the close event
are separate steps and everything may happen between them. `HeartbeatLapses`
makes a record stale at any time; the sweep, a lookup or a late heartbeat
follow in any order. The promise of a caller is `calls`, its timer is in
`timers`, its entry in `pendingCommands`: three places that have to agree. The
callers inside the program draw a random command id; a request to
`/api/body/command` may bring any. `IdsOf` gives each call the ids it may come
with, and `OwnId` is the calls whose id no other call may have: what the
properties promise, they promise to those, beside calls that share an id, whose
entries, timers and answers get into each other's way as they do in the code.
`BodiesOf` says which body may advertise on which connection. A command that was
not answered is lost with its connection.

**`AtomicDocument`** is what the comment of `DurableJsonStore` promises: updates
that apply to what they looked at, in one step or not at all.
**`DurableJsonStore`** models `update` between its system calls, with several
processes: the read, the default for a missing file, the temporary file, the
rename and its retries, the copy of a damaged file. The refinement takes a
missing file for the empty document.

**`TaskLifecycle`** has one task, as the JSON file that every operation replaces,
with clients that decide on the copy they last read. **`ExecutionLeases`** has
the lease manager's two maps as one status per id. **`GovernedExecution`**
extends the first and instantiates the second: `Dispatch` is `executeTaskStep`
up to the adapter (or `Refuse`, `RefuseUnaudited`), `AdapterSettles` the adapter,
`Complete`, `CompleteUnsaved` and `Fail` the rest of the call, by what came
first. `attempts` is a history of the dispatches; an adapter goes on when its
call was given up. **`MultiStepExecution`** extends that with the orchestrator:
a run keeps the document it loaded (`runs`), the caller the session it was given
(`held`). What runs without an await is one block, which `Quiet` protects from
other actions but not from a crash.

**`BrainRuntime`** holds the operations of the brain and of `BrainLoop.run`, one
action from an await to the next; the head of an iteration, where cancellation,
deadline and pause are looked at, belongs to the action before it.
**`BrainService`** composes it with the queue, the worker, the list of completed
requests in memory and on disk, recovery, shutdown, crash and start. A call of
`handleRequest` that finds nobody at work runs as far as the model, so `Accept`
includes `Execute`; `HandOver` answers a caller and takes the next from the queue.
`worker.answer` is what the caller will be told: "succeeded" and "failed" are the
task's own results, "presumed" the success that the worker makes up
(`brainServiceWorker.ts:80`) for a request it finds in the list and of which it
has no result; a success told to the caller is either of the two
(`TellsSuccess`).

**`PolicyActiveRollback`** has one tenant: the active policy, the history and the
requests, each in memory and on disk; the snapshot that the runtime enforces;
and which evaluations and authorizations callers still hold. `Commit(r, at)` is
a commit that throws at its write `at`, or returns. `unwritten` is a history of
the policies whose write to the history threw and that no later write of it put
into the file.

`MC*` modules give the constants for TLC. In each module, an operator under a
comment "Faulty:" is a plausible mistake in the definition after it; with it in
that definition's place the property it is listed with is violated
(`mutants` in `PROJECT.json`).

## The runs

| run | instance | shows |
|---|---|---|
| `approvals` | 1 approval, 3 users, two of whom share a partition, 2 operations, legacy records of the primary user, of another user and of nobody, failing reads, time 0..2 | `SingleUse`, `UseWithinApproval`, `IndexesAgree`, `GrantedIsUsable`, and that the service implements the token machine |
| `tools` | 3 calls, 2 tenants, tools of 3 classes, 12 requests (one without arguments) over 3 correlation ids, 1 key, 1 approval, limit 2, one failing write | `CounterMatchesLeases`, `LeasesBelongToRunningCalls`, `LiveLeaseKept`, `AdmissionControl`, `OneExecutionPerApproval`, `LedgerTruthful`, `CachedIsGenuine` |
| `audit` | 6 events, files of 3 lines, 2 failures | `MemoryVerifies`, `MemoryKnowsFile`, `AcknowledgedIsDurable`, and that the files are an append-only log |
| `body` | 2 bodies, 3 connections (two of one body), 3 commands, two of them under one id, with fairness | `WaitingIsFiled`, `NoHangingCommand`, `NewestConnectionServed`, `EveryCallSettles` |
| `store` | 3 updates, 2 of one process and 1 of another, 1 retry, 2 failures or damages | that the store implements `AtomicDocument` |
| `execution` | 2 steps, 2 leases, 2 calls of the worker, 1 client, 6 writes of the task | `OneDispatchPerLease`, `SuccessIsUniqueAndReal`, `EveryDispatchCounted`, `SameVersionSameTask`, `FrozenStaysFrozen` |
| `orchestration` | 2 steps (the first depends on the second), 2 runs, 2 leases, 5 writes of the task, 1 replanning, 1 more generation, 2 saved statuses | `SessionTruthful`, `DependenciesFirst`, `CompletedNotRepeated`, `StopFreezesSession` |
| `brain` | 3 callers, 3 requests, a queue of 2, 10 iterations, recovery depth 2, with fairness | `RetriesEnd`, `ReadyIsUsable`, `SuccessIsOnRecord`, `RecordedNeverRunsAgain`, `EveryRequestAnswered` |
| `rollback` | a rollback, a sunset and a recovery, 2 releases, 4 policy states, 1 failing write, any of the four of a commit | `HistoryKept`, `OneSuccessor`, `RuntimeFollowsUnlessOlder` |
| `approvals_legacy`, `tools_duplicate`, `audit_rotation` | as above, smaller | each finds one disagreement between the code and what its comments or docs say |

**Why the bounds are enough.** An operation on an approval reads and writes its
own record and its own two index entries, and opening or migrating a partition
treats each record by itself: one approval is enough to show what can go wrong,
and the theorems are about any number. Three users are the primary one, one who
shares the partition (and may put the wrong name into an index) and one who does
not, whose legacy record is misfiled; `MaxUses` is 2, so that a second acceptance
would be seen. Time 0..2 has before, at and after an expiry. Three calls allow an execution whose lease ran
out, one that took the key over, and one that is refused; the limit of 2 leaves
room for both a conflict and a full tenant, and with a third correlation id
there is a call that only the limit keeps out. Six events over files of three
lines give two rotations with restarts between them and leave room for a chain
that breaks before the first one; two failures let one strike what another
left. Three connections are a body that reconnects and another one
to fall back to; three commands are one with an id of its own beside two that
share one. In
`store` a process can look before another one's rename and write after it, twice
within one process, and both kinds of failure fit into one behaviour. In
`execution` six writes of a task are its creation, two dispatches with their
ends, and a client's or the recovery's write between them; in `orchestration`
both steps can be executed, one of them again after a failure or in a new
generation. In `brain` the limits of the loop keep their order in the code
(iterations above attempts and depth), three requests put one behind a request
that fails for good. In `rollback` four states let a version come back under
another state, and three requests, one of each kind, compete for one state.
`MaxTime`, `MaxDiskFailures`, `MaxFailures`, `MaxVersion`, `MaxSessionVersion`,
`MaxStates`, `LeaseTTL` and `EntryTTL` are the numeric bounds, and model values
under symmetry are interchangeable: `Calls` of `tools`, `Events` and `Leases`
(safety only; `body` and `brain`, which check liveness, use no symmetry).

**Deadlock** is checked for `approvals` and `brain`. The other instances may
stop: each call is made once, each event recorded once, each connection used
once, each counter has its bound.

**Fairness** is assumed in two runs. In `body`, weak fairness of a call's timer
and of a connection's close event: events that the Node event loop delivers once
they are due, unless the process ends. Nothing is assumed of bodies, networks,
sweeps or callers: `EveryCallSettles` holds for bodies that never answer. In
`brain`, weak fairness of the steps of the service: each await of a running
request ends, since providers and tools have time-outs, a pause is polled for
30 s at most, and the rest are continuations of settled promises. Nothing is
assumed of callers, of `resumeTask` or of a shutdown; a request that a crash
loses is not owed an answer.

## What the failing runs say

* `approvals_legacy`: a legacy record of a user other than the primary one is
  migrated into the primary partition. `consumeToken` looks for it in its
  owner's partition, does not find it, and `validateAndConsumeToken` ignores
  that. A caller that names no user reaches the record through the token index,
  so the trace ends in two acceptances of one token (`TokenAcceptedOnce`).
* `tools_duplicate`: the check of the idempotency key and the record of the
  result stand on both sides of the execution, and nothing reserves the key.
* `audit_rotation`: the first line after a rotation continues the archived
  file's chain, and the next start expects it to begin a new one.

Other disagreements met while modelling, which no run keeps. In each case the
property that a passing run checks is stated so that it holds, and says where it
stops:

* `Alice` and `alice` share a partition (`userPartitionResolver.ts`); after a
  restart its tokens are indexed under whoever opened it, and the requester is
  refused. `IndexesAgree` says that an entry leads to the right partition, under
  the owner's name only where the owner is alone in it; `GrantedIsUsable` is
  about such owners, and about records that are not misfiled.
* A read that fails while a partition is opened is swallowed
  (`approvalService.ts:150`), and the partition stays without index entries until
  the process ends: an approval id or a token without a user id leads nowhere.
  `IndexesAgree` promises entries only for partitions that were read; an owner
  who names himself is served all the same (`GrantedIsUsable`).
* A call without arguments is answered with the result of a call with any, and
  the other way round (`idempotencyStore.ts:152`, `:277-279`), where other
  arguments are a conflict (`:154`). `CachedIsGenuine` says "the same arguments,
  or one of the two gave none".
* The result of a tool is stored before its success is audited
  (`registry.ts:228`); if the append fails, a retry gets the result without any
  audit event (`LedgerTruthful` binds results of executions, not cached ones).
* A line of the audit trail cut short by a full disk swallows the next
  acknowledged one (`AcknowledgedIsDurable` allows one per failed write).
* Two HTTP callers with one `commandId` share an entry (`server.ts:494`): the
  second replaces it, and the first is not told when the connection ends, its
  timer finds another's entry or none, and it waits for good (`WaitingIsFiled`,
  `NoHangingCommand` and `EveryCallSettles` are about calls in `OwnId`).
* The brain service answers a repeated request with success, "was previously
  executed and committed" and VERIFIED (`brainServiceWorker.ts:80-84`), although
  it records a request as completed whatever the result was (`:117`). So a
  success may be told of a request that failed: after a restart, and in the same
  process when the write of the record throws, so that its result is not cached,
  the write of the error counts puts the request into the file all the same, and
  a queued request's recovery makes the service ready again. `SuccessIsOnRecord`
  therefore asks of such a made-up success that the request is in the file and
  that this process holds no result of its failure, and only of the task's own
  success that a task of the request was verified and committed.
* `brainServiceShutdown.ts:52` drains the active request, but the queue has just
  forgotten it (`:50`, `brainServiceQueue.ts:102`), so that the loop is never
  entered and the request is cancelled at once. If a failure's own record fails
  too (`brainServiceWorker.ts:151`), the service stays in COMMITTING and refuses
  every later request.
* `executeSession` compares versions that it never raises: two overlapping runs,
  or `resumeWithReplannedGeneration` with the session of before, overwrite
  checkpoints (`multiStepExecutionPersistenceRecoveryEngine.ts:128` promises
  "atomically with OCC CAS enforcement"). The steps stay COMPLETED in the task,
  which is why `CompletedNotRepeated` and `SessionTruthful` hold all the same.
  The worker's own document of results loses an entry in the same way, without
  any comparison.
* A FAILED step may run again without a bound: `maxAttempts` is stored and never
  compared (`agentTaskStateEngine.ts:51`). Steps of a task that is PAUSED or only
  SUBMITTED can be dispatched.
* A rollback to an older version commits and is audited as `ROLLBACK_VERIFIED`,
  but the runtime refuses what is older than its snapshot
  (`policyActiveRuntimeFreshnessValidator.ts:148`) and enforces the newer policy
  until it restarts; `resynchronized: false` in the result is the only sign
  (`RuntimeFollowsUnlessOlder`).
* `saveHistoricalPolicy` sets its map before its file and returns early for a
  policy that is in the map (`policyActiveRollbackStore.ts:234-243`): if the write
  throws, the retry does not write it, and a restart before the next write of the
  history loses the policy that was replaced, against the "crash-safe" of the
  store's header; a lookup by version then finds an older policy or none.
  `HistoryKept` names this as its one exception: such a policy is in `unwritten`.
  A recovery compares no policy state: one authorization can be committed
  twice (`OneSuccessor` is about rollbacks and sunsets).
* Two processes that update one document lose an update, as `AtomicDocument`
  allows; the comment "safe under interleaved execution"
  (`durableJsonStore.ts:100`) is true of the file as a whole.

## What is proved

Every safety property that a passing run checks (all but the two liveness
properties) is also a theorem, proved with TLAPS for every value of the constants: any
number of users, calls, connections, steps, requests and events, any limits,
and any value of the numeric bounds below which TLC stops. The theorems are in eight modules
`*_proofs`, one for a component or for several that are proved together. Each
has an inductive invariant (`IInv`, and where named below a second one), which
TLC checked on the instance of the component's run before it was proved
(exception: the conjunct `HasUpTo` of `AuditLedger_proofs` quantifies over all
functions, which TLC cannot evaluate). A property is seldom inductive by
itself; the table says what had to be added.

| module | theorems | what the invariant adds to the types and to the properties |
|---|---|---|
| `ApprovalService_proofs` | `TypeCorrect`, `SingleUseHolds`, `UseWithinApprovalHolds`, `IndexesAgreeHolds`, `GrantedIsUsableHolds`, `ImplementsMachine` | of each approval by itself (`ApprovalInv`): a record that is not misfiled lies in its owner's partition, an approved record has a token, an index entry leads to the record's partition; as long as the primary partition has no file, no legacy approval has a current record (`LegacyWaits`) |
| `ToolExecution_proofs` | `TypeCorrect`, `CounterMatchesLeasesHolds`, `LeasesBelongToRunningCallsHolds`, `AdmissionControlHolds`, `LiveLeaseKeptHolds`, `OneExecutionPerApprovalHolds`, `LedgerTruthfulHolds`, `CachedIsGenuineHolds` | a lease carries its call's tenant and key, ids and live keys are unique; an entry of the store is the recorded result of its own call; what a call has become fits its program counter; the status machine's own invariant |
| `AuditLedger_proofs` | `TypeCorrect`, `MemoryVerifiesHolds`, `MemoryKnowsFileHolds`, `AcknowledgedIsDurableHolds`, `ImplementsLog` | the file has a longest chain at its start; the memory is a chain that ends at `lastHash`; lost events and an open line together are no more than the failures; the readable events of the files are what the recursion says |
| `BodyRegistry_proofs` | `TypeCorrect`, `NewestConnectionServedHolds`, `WaitingIsFiledHolds`, `NoHangingCommandHolds` | the connection of a registered body is the newest that advertised it (`ServedInv`); every entry is under an id that its call may come with; of a call with an id of its own promise, timer and entry name the same command, and the entry the body of the promise's connection (`Agree`) |
| `DurableJsonStore_proofs` | `Refinement` | a temporary file about to be renamed is whole; it is the default or has its call's change; a change that was not applied is neither in the file nor in what another call writes |
| `MultiStepExecution_proofs`, for `GovernedExecution` | `TypeCorrect`, `OneDispatchPerLeaseHolds`, `SuccessIsUniqueAndRealHolds`, `EveryDispatchCountedHolds`, `SameVersionSameTaskHolds`, `FrozenStaysFrozenHolds` | a call's dispatch is in the history; a used lease is spent; nothing was dispatched before there was a task |
| `MultiStepExecution_proofs`, for the orchestrator | `MultiStepTypeCorrect`, `SessionTruthfulHolds`, `DependenciesFirstHolds`, `CompletedNotRepeatedHolds`, `StopFreezesSessionHolds` | `SInv`: every copy of the session, stored, held by a caller or worked on by a run, however stale, says finished only of steps that are COMPLETED in the task |
| `BrainService_proofs` | `TypeCorrect`, `RetriesEndHolds`, `ReadyIsUsableHolds`, `SuccessIsOnRecordHolds`, `RecordedNeverRunsAgainHolds` | how attempts, depth and iterations stand to each other at each await (`InOrder`); in which states of the service a task, a request in hand and an answer exist; which caller each of them and each place of the queue belongs to; that the file's completed requests are in memory, and no others as long as the service takes requests |
| `PolicyActiveRollback_proofs` | `TypeCorrect`, `OneSuccessorHolds`, `RuntimeFollowsUnlessOlderHolds`, `HistoryKeptHolds` | the numbers of policy states grow from the file to the memory to the last one given out; a commit leads to a later state, and the file does not go back behind it; what a rollback or sunset replaced is what was reviewed. `HInv`: the history in memory is the one on disk and what is `unwritten` |

**How the proofs go.** The proof that a step keeps an invariant splits `Next`
into its actions, or first into a few shapes of a step where many actions do
the same to the state: `StepShape` in `ApprovalService_proofs` (an operation
works on the table that one store opened and changes one record of it),
`NextKinds` in `ToolExecution_proofs` and `BodyRegistry_proofs`, `TaskEvolves`
and `NextDispatches` in `MultiStepExecution_proofs` (what any write may do to
a task, what any step may do to the dispatches; the orchestrator's steps are
shown to be of the same kinds, so that its proof stands on the worker's).
`ImplementsMachine` follows from those shapes and from `OpenedIs`: what an
operation finds is the current record, in its file or still in the legacy
file, so that a migration is a stuttering step. In `ImplementsLog` a record is
an `Append` of the abstract trail or, if its line was not written whole, a
stutter, and a restart or rotation always a stutter.

**Assumptions.** No theorem assumes more than the `ASSUME`s of its component:
legacy files of any owners, partitions shared in any way, reads and writes that
fail, command ids that several calls come with are all inside. Where a property
is false of one of them, the property says so itself (`Misfiled`, `Alone`,
`indexed`, `OwnId`, `unwritten`), and the list above says what happens there.

The `ASSUME`s of the modules give the constants their types, and say that a
null value is no member of its set, that there is at least one connection
(`BodiesAssumption`), that the marks for a missing file, a damaged file, a
garbled line and the genesis hash are no data (`StoreAssumption`,
`LedgerAssumption`), and that no request has the name of an absent one
(`NamesAssumption`). TLC evaluates them in every run.

Three constructions keep within what the provers can do. `Trail` and
`ChainLength` are defined by recursion or `CHOOSE` over a file; that what they
pick exists is a conjunct of the invariant, established for the empty file
and kept by every append, in place of an induction over sequences.
`Cardinality` is reached through the lemmas of `FiniteSetTheorems`. Properties
with nested quantifiers over calls are first unfolded call by call
(`LedgerUnfolded`, `OneExecutionUnfolded`).

**Only model-checked**: the two liveness properties, `EveryCallSettles` of the
bodies and `EveryRequestAnswered` of the brain, because liveness under fairness
is outside the prover's reach; and the three runs that expect a violation,
which are counterexamples by nature.

## What is not modelled, and why

* A loss of power: nothing is forced out with `fsync`, so what the disk keeps is
  the file system's matter. The other modules take a write of a store as atomic,
  which is what `DurableJsonStore` is shown to give them; the audit trail, which
  appends without the store, has its partial writes.
* Policy changes while a tool call runs: `ClassOf` of `ToolExecution` is constant.
* `AgentLoop`'s turn, the voice pipeline, push-to-talk confirmations, the rate
  limiter: see the components in `PROJECT.json`.
* The contents of plans, policies, environments and authorizations: a request is
  in order or refused, an environment as expected or not. Provenance and document
  hashes are written and verified by the same code and are left out.
* `reserve`, `purgeExpired`, `stop`, `recordRetry`: nothing in the program calls
  them. `createTask` does not look whether a custom id exists; no caller gives
  one that does, and the model creates a task once.
* Hashes, argument encodings and user id normalisation: as injective names, or
  as the function `PartitionOf`.
* A connection that advertises two bodies: the clients do not, the server would
  not notice (listed as a hazard).
* LLM routing, commerce, knowledge, speech engines: external services and text.
* The governed, federated and phase-numbered families: not on the running path.

## Plan

1. **Modelled in this state of the project**: approvals, tool calls, audit
   trail, bodies, the durable store, tasks and their steps, sessions of several
   steps, the brain and its service, policy rollback.
2. **Next modules**, should the project be extended: the turn of `agentLoop.ts`
   over `ToolExecution`; a policy swap between the steps of `enforce`;
   push-to-talk.
3. **Proofs**: done for every safety property that a run checks. Left, should the
   project be extended: that the abstract specifications have the properties
   they are named for (`AtMostOneUse` of `ApprovalTokenMachine`), and that
   `ToolExecution` implements `ApprovalTokenMachine` step by step as a theorem of
   its own.
