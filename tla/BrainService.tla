---------------------------- MODULE BrainService -----------------------------
(***************************************************************************)
(* src/core/brain-service: the process that serves requests to the brain   *)
(* one at a time, with its queue, the durable list of completed requests,  *)
(* recovery and shutdown, over BrainRuntime; run by                        *)
(* scripts/run-brain-service.mjs, which exits when the shutdown is over.   *)
(*                                                                         *)
(* A call of handleRequest that finds the service ready runs, without      *)
(* giving up control, through the queue and the worker up to the model.    *)
(***************************************************************************)
EXTENDS BrainRuntime, Sequences

CONSTANTS
  Callers,
  MaxQueueSize

ASSUME QueueAssumption == MaxQueueSize \in Nat \ {0}

\* The names for nothing are none of a request and of a caller.
ASSUME NamesAssumption == "none" \notin Requests /\ "nobody" \notin Callers

VARIABLES
  service,     \* BrainServiceLifecycle._state; "DOWN" when no process runs
  queue,       \* callers whose request waits
  worker,      \* the caller whose request is being executed, and the answer
  memory,      \* BrainServicePersistence._state.completedRequestIds
  recorded,    \* durable: completedRequestIds in the file
  cached,      \* _completedResults: the requests answered here, by outcome
  pending      \* the request a caller has a promise for, or NoRequest

serviceVars == <<service, queue, worker, memory, recorded, cached, pending>>

vars == <<brainVars, serviceVars>>

\* The states a step of the code may leave the service in.  The others are
\* passed through: RECEIVING, PROCESSING and PLANNING on the way to EXECUTING,
\* VERIFYING to RESPONDING and RECOVERING on the way back; DEGRADED is entered
\* by no code.
ServiceStates ==
  {"DOWN", "READY", "EXECUTING", "COMMITTING", "FAILED", "SHUTTING_DOWN"}

\* VALID_SERVICE_TRANSITIONS: RECOVERING may be entered.
MayRecover(s) == s \in {"EXECUTING", "COMMITTING", "FAILED"}

AcceptsRequest == service = "READY"

NoRequest == "none"

Nobody == "nobody"

NoWork == [caller |-> Nobody, answer |-> "none"]

\* "succeeded" and "failed" carry the result of the task.  "presumed" is the
\* result made up for a request of the list whose own result this process does
\* not have: success TRUE and VERIFIED, whatever the task's result was.  "error" is an
\* error response and "rejected" a rejected promise.
Answers == {"succeeded", "failed", "presumed", "error", "rejected"}

TellsSuccess(a) == a \in {"succeeded", "presumed"}

TypeOK ==
  /\ BrainTypeOK
  /\ service \in ServiceStates
  /\ queue \in Seq(Callers) /\ Len(queue) <= MaxQueueSize
  /\ worker \in [caller : Callers, answer : Answers \cup {"none"}] \cup {NoWork}
  /\ memory \subseteq Requests /\ recorded \subseteq Requests
  /\ cached \in [Requests -> {"none", "succeeded", "failed"}]
  /\ pending \in [Callers -> Requests \cup {NoRequest}]

Idle == worker = NoWork

\* flush: one write of the whole state, which may fail.
Flush(ids, ok) == recorded' = IF ok THEN ids ELSE recorded

Waiting(c) == pending[c] # NoRequest

\* The promises of these callers are settled.
Settled(cs) ==
  [c \in Callers |-> IF c \in cs THEN NoRequest ELSE pending[c]]

Init ==
  /\ BrainInit
  /\ service = "READY"
  /\ queue = <<>>
  /\ worker = NoWork
  /\ memory = {} /\ recorded = {}
  /\ cached = [r \in Requests |-> "none"]
  /\ pending = [c \in Callers |-> NoRequest]

(***************************************************************************)
(* BrainServiceWorker.execute from its start: the replay of a request that *)
(* is in the list, or the task.  A throw outside its try block rejects; in *)
(* the try block it goes to recovery, which writes the counters, resets    *)
(* the brain and makes the service ready again, or throws in its turn.     *)
(***************************************************************************)
\* Faulty: only the results of this process are replayed.
KnownFromCache(r) == cached[r] # "none"

\* isRequestCompleted
Known(r) == r \in memory

Replay(c, r) ==
  /\ worker' = [caller |-> c, answer |-> IF ~AcceptsRequest THEN "rejected"
                                        ELSE IF cached[r] = "none"
                                        THEN "presumed" ELSE cached[r]]
  /\ UNCHANGED <<brainVars, service, recorded>>

\* The catch block of the worker after an error that is not fatal.
RecoverFrom(c, state) ==
  \E ok \in BOOLEAN :
    /\ Flush(memory, ok)
    /\ IF ok /\ MayRecover(state)
       THEN /\ service' = "READY"
            /\ brain' = reset(brain)
            /\ worker' = [caller |-> c, answer |-> "error"]
       ELSE /\ service' = state
            /\ worker' = [caller |-> c, answer |-> "rejected"]
            /\ UNCHANGED brain
    /\ UNCHANGED <<task, succeeded>>

\* _processQueue takes the caller's request.  Only a service that is ready is
\* led to EXECUTING; a request that waited while an earlier one failed may
\* find it elsewhere, and the transition to PLANNING throws.
Execute(c, r) ==
  IF Known(r) THEN Replay(c, r)
  ELSE IF AcceptsRequest /\ CanSubmit
  THEN /\ service' = "EXECUTING"
       /\ submitTask(r)
       /\ worker' = [caller |-> c, answer |-> "none"]
       /\ UNCHANGED recorded
  ELSE RecoverFrom(c, IF AcceptsRequest THEN "EXECUTING" ELSE service)

(***************************************************************************)
(* handleRequest.  A call that finds the service busy, failed or shutting  *)
(* down is rejected and changes nothing.                                   *)
(***************************************************************************)
Called(c, r) == pending' = [pending EXCEPT ![c] = r]

MayCall(c) == AcceptsRequest /\ ~Waiting(c)

\* Ready and nothing being processed: the request is executed at once.
Accept(c, r) ==
  /\ MayCall(c) /\ Idle
  /\ Called(c, r)
  /\ Execute(c, r)
  /\ UNCHANGED <<queue, memory, cached>>

\* Ready although the worker has not handed its answer over yet.
Enqueue(c, r) ==
  /\ MayCall(c) /\ ~Idle
  /\ Len(queue) < MaxQueueSize
  /\ Called(c, r)
  /\ queue' = Append(queue, c)
  /\ UNCHANGED <<brainVars, service, worker, memory, recorded, cached>>

\* The queue is full: one more caller's promise is rejected at once, and the
\* failure counted.
Backpressure ==
  /\ AcceptsRequest /\ ~Idle
  /\ Len(queue) >= MaxQueueSize
  /\ \E ok \in BOOLEAN : Flush(memory, ok)
  /\ UNCHANGED <<brainVars, service, queue, worker, memory, cached, pending>>

(***************************************************************************)
(* The worker after submitTask.                                            *)
(***************************************************************************)
Request == pending[worker.caller]

\* Faulty: a task that came back counts as done.
OutcomeAssumed == "succeeded"

Outcome == IF task.success THEN "succeeded" ELSE "failed"

Answer(a) == worker' = [worker EXCEPT !.answer = a]

Finishing == task.at = "done" /\ service = "EXECUTING"

\* The request is on the list whatever the task's outcome.
Finish ==
  /\ Finishing
  /\ task' = NoTask
  /\ brain' = reset(IF task.success THEN "COMPLETED" ELSE "FAILED")
  /\ memory' = memory \cup {Request}
  /\ Flush(memory', TRUE)
  /\ cached' = [cached EXCEPT ![Request] = Outcome]
  /\ service' = "READY"
  /\ Answer(Outcome)
  /\ UNCHANGED <<succeeded, queue, pending>>

\* The write of the list fails, which is fatal: FAILED, if the write of the
\* counters in the catch block works, and with it the list is in the file;
\* if it fails too, the block is left and the state stays.
FinishUnwritten ==
  /\ Finishing
  /\ Return
  /\ memory' = memory \cup {Request}
  /\ \E ok \in BOOLEAN :
       /\ Flush(memory', ok)
       /\ service' = IF ok THEN "FAILED" ELSE "COMMITTING"
       /\ Answer(IF ok THEN "error" ELSE "rejected")
  /\ UNCHANGED <<succeeded, queue, cached, pending>>

\* VERIFYING and RECOVERING both throw once the service is shutting down.
FinishAfterShutdown ==
  /\ task.at = "done" /\ service = "SHUTTING_DOWN"
  /\ Return
  /\ \E ok \in BOOLEAN : Flush(memory, ok)
  /\ Answer("rejected")
  /\ UNCHANGED <<succeeded, service, queue, memory, cached, pending>>

\* _processQueue resolves or rejects the promise and takes the next request.
HandOver ==
  /\ ~Idle /\ worker.answer # "none"
  /\ pending' = Settled({worker.caller})
  /\ IF queue = <<>>
     THEN /\ worker' = NoWork
          /\ UNCHANGED <<brainVars, service, queue, recorded>>
     ELSE /\ queue' = Tail(queue)
          /\ Execute(Head(queue), pending[Head(queue)])
  /\ UNCHANGED <<memory, cached>>

(***************************************************************************)
(* Shutdown, crash and start                                               *)
(***************************************************************************)

\* The process is gone, and every promise with it.
LoseProcess ==
  /\ service' = "DOWN"
  /\ brain' = "STOPPED"
  /\ task' = NoTask
  /\ queue' = <<>>
  /\ worker' = NoWork
  /\ memory' = {}
  /\ cached' = [r \in Requests |-> "none"]
  /\ pending' = Settled(Callers)
  /\ UNCHANGED <<succeeded, recorded>>

\* queue.clear rejects the waiting callers and forgets the active item too,
\* so that the loop which waits for it to end is never entered; the file is
\* written and the running task cancelled in the same run of the code.
shutdown ==
  /\ service \notin {"DOWN", "SHUTTING_DOWN"}
  /\ service' = "SHUTTING_DOWN"
  /\ queue' = <<>>
  /\ pending' = Settled({queue[i] : i \in DOMAIN queue})
  /\ Flush(memory, TRUE)
  /\ task' = Cancelled(task)
  /\ UNCHANGED <<brain, succeeded, worker, memory, cached>>

\* 200 ms after the cancellation the brain is stopped and the process exits.
Exit == service = "SHUTTING_DOWN" /\ LoseProcess

\* Also a shutdown whose write fails: the exception reaches the script, which
\* exits.  After a shutdown a crash and the exit leave the same behind.
Crash == service \notin {"DOWN", "SHUTTING_DOWN"} /\ LoseProcess

\* A new process reads the file before it reads its first request.
start ==
  /\ service = "DOWN"
  /\ service' = "READY"
  /\ brain' = "IDLE"
  /\ memory' = recorded
  /\ UNCHANGED <<task, succeeded, queue, worker, recorded, cached, pending>>

LoopRuns == LoopStep /\ UNCHANGED serviceVars

Signalled == Signal /\ UNCHANGED serviceVars

ServiceStep ==
  \/ LoopRuns
  \/ Finish \/ FinishUnwritten \/ FinishAfterShutdown
  \/ HandOver

Next ==
  \/ \E c \in Callers, r \in Requests : Accept(c, r) \/ Enqueue(c, r)
  \/ Backpressure
  \/ ServiceStep
  \/ Signalled
  \/ shutdown \/ Exit \/ Crash \/ start

\* Every await of a running request ends: the model providers and the tool
\* have time-outs, a pause is polled for at most 30 s, and the rest are
\* continuations of promises that are settled.
Spec == Init /\ [][Next]_vars /\ WF_vars(ServiceStep)

(***************************************************************************)
(* Properties                                                              *)
(***************************************************************************)

\* A service that says READY can execute the next request: between requests
\* its brain is in a state from which submitTask may start, with no task left
\* over, whatever the earlier requests, errors and recoveries were.
ReadyIsUsable == AcceptsRequest => CanSubmit

\* A request whose completion is in the file never runs a tool again, in
\* this process or after any number of crashes and restarts.
RecordedNeverRunsAgain ==
  [][task'.at = "tool" /\ task.at # "tool" => task'.request \notin recorded]_vars

\* A result with success TRUE is handed out only when the file already has the
\* request, so that no crash after it can lead to a second execution, and never
\* by a process that has the result of a failure.  The task's own result is
\* about a request some task of which was verified and committed; the result
\* made up from the list need not be: the list does not tell failures apart.
SuccessIsOnRecord ==
  TellsSuccess(worker.answer) =>
    /\ Request \in recorded
    /\ cached[Request] # "failed"
    /\ worker.answer = "succeeded" => Request \in succeeded

\* An accepted request is answered, unless the process dies: no error, pause,
\* time-out or queueing leaves a promise open.
EveryRequestAnswered ==
  \A c \in Callers : Waiting(c) ~> ~Waiting(c)

=============================================================================
