-------------------------- MODULE GovernedExecution --------------------------
(***************************************************************************)
(* src/core/governedExecution: GovernedExecutionWorker.executeTaskStep,    *)
(* which runs one step of a task under a lease, with the lease manager,    *)
(* the boundary gate and the persisted document of the session's results,  *)
(* over TaskLifecycle.                                                     *)
(*                                                                         *)
(* The worker runs without interruption from its call to the dispatch of   *)
(* the adapter, and again from the adapter's answer or the time-out to its *)
(* own return, so each of the checks of USER_STOP in one such run sees the *)
(* same value.  In between other calls, the clients of the task, the human *)
(* and a crash may come.                                                   *)
(***************************************************************************)
EXTENDS TaskLifecycle, Sequences, FiniteSets

CONSTANTS
  Leases,
  Calls           \* calls of executeTaskStep that wait for an adapter

VARIABLES
  leases,         \* in memory, ExecutionLeases
  document,       \* durable: the session's results, with their version
  calls,          \* what each waiting call has in its local variables
  attempts        \* history: every dispatch of an adapter, in order

NoStep == 0

INSTANCE ExecutionLeases WITH LeasedSteps <- Steps

workerVars == <<leases, document, calls, attempts>>

vars == <<taskVars, workerVars>>

Document == [sessionVersion : Nat, executionResults : SUBSET Nat]

\* sessionDoc is read before the dispatch and written back after it.
Call == [attempt : Nat, sessionDoc : Document]

\* Nothing is in flight: attempt 0.
NoCall == [attempt |-> 0,
           sessionDoc |-> [sessionVersion |-> 0, executionResults |-> {}]]

\* The adapter's work outlives the call when the time-out wins the race.
Attempt == [step : Steps, lease : Leases,
            adapter : {"running", "done", "failed", "lost"},
            report : {"none", "success", "failure"}]

Waiting(c) == calls[c] # NoCall

AttemptOf(c) == attempts[calls[c].attempt]

Report(c, outcome) ==
  attempts' = [attempts EXCEPT ![calls[c].attempt].report = outcome]

Hangup(c) == calls' = [calls EXCEPT ![c] = NoCall]

WorkerInit ==
  /\ LeasesInit
  /\ document = [sessionVersion |-> 1, executionResults |-> {}]
  /\ calls = [c \in Calls |-> NoCall]
  /\ attempts = <<>>

Init == TaskInit /\ WorkerInit

-----------------------------------------------------------------------------
(***************************************************************************)
(* executeTaskStep up to the dispatch                                      *)
(***************************************************************************)

StepCanBecome(s, status) == StepUpdatable(task, s, status)

\* handleExecutionError makes of the task t: the step becomes FAILED where the
\* state engine and the disk allow it, whoever set the status that it has.
MarkedFailed(t, s) ==
  {t} \cup (IF StepUpdatable(t, s, "FAILED")
            THEN {StepUpdated(t, s, "FAILED")} ELSE {})

\* Validation, authorization, the lease or the task refuses the request; a
\* lease that is in order is consumed before the task is asked.
Refuse(s, l) ==
  /\ ~userStop /\ Exists
  /\ \/ UNCHANGED leases
     \/ /\ Consumable(l) /\ leases[l].step = s /\ ~StepCanBecome(s, "RUNNING")
        /\ leases' = Consumed(l)
  /\ task' \in MarkedFailed(task, s)
  /\ UNCHANGED <<seen, userStop, document, calls, attempts>>

\* The step is set RUNNING, and the append to the task's audit fails: the
\* attempt is counted and nothing is dispatched.
RefuseUnaudited(l) ==
  LET s == leases[l].step IN
  /\ Consumable(l) /\ StepCanBecome(s, "RUNNING")
  /\ leases' = Consumed(l)
  /\ task' \in MarkedFailed(StepUpdated(task, s, "RUNNING"), s)
  /\ UNCHANGED <<seen, userStop, document, calls, attempts>>

\* The step is RUNNING and the adapter of a new attempt is at work.
Begin(c, s, l) ==
  /\ StepCanBecome(s, "RUNNING")
  /\ task' = StepUpdated(task, s, "RUNNING")
  /\ attempts' = Append(attempts, [step |-> s, lease |-> l,
                          adapter |-> "running", report |-> "none"])
  /\ calls' = [calls EXCEPT ![c] = [attempt |-> Len(attempts) + 1,
                                    sessionDoc |-> document]]
  /\ UNCHANGED <<seen, userStop, document>>

\* The request passes every check on the way to the adapter.
Dispatch(c, l) ==
  /\ ~userStop /\ ~Waiting(c) /\ Consumable(l)
  /\ Begin(c, leases[l].step, l)
  /\ leases' = Consumed(l)

-----------------------------------------------------------------------------
(***************************************************************************)
(* The adapter, and executeTaskStep after it                               *)
(***************************************************************************)

AdapterSettles(a) ==
  /\ a \in DOMAIN attempts /\ attempts[a].adapter = "running"
  /\ \E result \in {"done", "failed"} :
       attempts' = [attempts EXCEPT ![a].adapter = result]
  /\ UNCHANGED <<taskVars, leases, document, calls>>

\* The adapter answered in time, and nobody has pressed the stop since.
Answered(c) == Waiting(c) /\ ~userStop /\ AttemptOf(c).adapter = "done"

\* The step is COMPLETED and the result is in the session's document, which is
\* the copy of before the dispatch and one result more.
SavedDocument(c) ==
  LET read == calls[c].sessionDoc IN
  [sessionVersion |-> read.sessionVersion + 1,
   executionResults |-> read.executionResults \cup {calls[c].attempt}]

Complete(c) ==
  /\ Answered(c) /\ StepCanBecome(AttemptOf(c).step, "COMPLETED")
  /\ task' = StepUpdated(task, AttemptOf(c).step, "COMPLETED")
  /\ document' = SavedDocument(c)
  /\ Report(c, "success")
  /\ Hangup(c)
  /\ UNCHANGED <<seen, userStop, leases>>

\* The step is COMPLETED, and the append to the task's audit or the write of
\* the document fails: the call reports a failure of a step that is done.
CompleteUnsaved(c) ==
  /\ Answered(c) /\ StepCanBecome(AttemptOf(c).step, "COMPLETED")
  /\ task' = StepUpdated(task, AttemptOf(c).step, "COMPLETED")
  /\ Report(c, "failure")
  /\ Hangup(c)
  /\ UNCHANGED <<seen, userStop, leases, document>>

\* The adapter threw, or timed out and is still at work, or the task no longer
\* takes its result, or the stop is on, and then nothing at all is written.
Fail(c) ==
  /\ Waiting(c)
  /\ \/ userStop
     \/ AttemptOf(c).adapter \in {"failed", "running"}
     \/ ~StepCanBecome(AttemptOf(c).step, "COMPLETED")
  /\ task' \in MarkedFailed(task, AttemptOf(c).step)
  /\ Report(c, "failure")
  /\ Hangup(c)
  /\ UNCHANGED <<seen, userStop, leases, document>>

-----------------------------------------------------------------------------
(***************************************************************************)
(* The environment                                                         *)
(***************************************************************************)

\* The process dies; what it knew of leases and calls is gone, and nobody
\* knows how far its adapters came.
Crash ==
  /\ leases' = Forgotten
  /\ calls' = [c \in Calls |-> NoCall]
  /\ attempts' = [a \in DOMAIN attempts |->
       IF attempts[a].adapter = "running"
       THEN [attempts[a] EXCEPT !.adapter = "lost"] ELSE attempts[a]]
  /\ userStop' = FALSE
  /\ UNCHANGED <<task, seen, document>>

Manage ==
  \/ /\ ~userStop
     /\ \E l \in Leases, s \in Steps : issueLease(l, s)
  \/ \E l \in Leases : Expire(l)
  \/ invalidateLeasesForSession

TaskStep ==
  \/ createTask /\ UNCHANGED <<seen, userStop>>
  \/ rehydrate /\ UNCHANGED <<seen, userStop>>
  \/ \E c \in Clients, to \in TaskStates : Decide(c, to)
  \/ \E c \in Clients : Look(c)
  \/ ToggleUserStop

Next ==
  \/ TaskStep /\ UNCHANGED workerVars
  \/ Manage /\ UNCHANGED <<taskVars, document, calls, attempts>>
  \/ \E s \in Steps, l \in Leases : Refuse(s, l)
  \/ \E l \in Leases : RefuseUnaudited(l)
  \/ \E c \in Calls, l \in Leases : Dispatch(c, l)
  \/ \E a \in DOMAIN attempts : AdapterSettles(a)
  \/ \E c \in Calls : Complete(c)
  \/ \E c \in Calls : CompleteUnsaved(c)
  \/ \E c \in Calls : Fail(c)
  \/ Crash

Spec == Init /\ [][Next]_vars

-----------------------------------------------------------------------------
(***************************************************************************)
(* Properties                                                              *)
(***************************************************************************)

\* The type invariant of the worker and of the task under it.
TypeOK ==
  /\ TaskTypeOK
  /\ LeaseTypeOK
  /\ document \in Document
  /\ calls \in [Calls -> Call]
  /\ attempts \in Seq(Attempt)

\* A lease is good for one dispatch at most, with replays of its request,
\* concurrent requests, invalidation and a restart that forgets the leases.
OneDispatchPerLease ==
  \A a, b \in DOMAIN attempts :
    attempts[a].lease = attempts[b].lease => a = b

\* However many attempts of a step overlap (a refused duplicate makes the step
\* FAILED and so allows another attempt), one of them at most is reported as a
\* success; its adapter has done its work, the task says COMPLETED for good,
\* and no later attempt is dispatched.
SuccessIsUniqueAndReal ==
  \A a \in DOMAIN attempts : attempts[a].report = "success" =>
    /\ attempts[a].adapter = "done"
    /\ task.steps[attempts[a].step] = "COMPLETED"
    /\ \A b \in DOMAIN attempts \ {a} :
         attempts[b].step = attempts[a].step => attempts[b].report # "success"

\* attemptCount of the task's file counts every dispatch of the step, those
\* that a crash cut off too.
EveryDispatchCounted ==
  Exists => \A s \in Steps :
    Cardinality({a \in DOMAIN attempts : attempts[a].step = s})
      <= task.attemptCount[s]

\* While USER_STOP is on, no file changes and no adapter is dispatched,
\* whatever calls were in flight when the human pressed it; and the task that
\* is COMPLETED, FAILED or CANCELLED stays as it is for good and has no step
\* dispatched, with the answers of its adapters still to come.
FrozenStaysFrozen ==
  [][/\ userStop => UNCHANGED <<task, document>>
     /\ Exists /\ Terminal => UNCHANGED task
     /\ userStop \/ (Exists /\ Terminal) => Len(attempts') = Len(attempts)]_vars

=============================================================================
