---------------------------- MODULE TaskLifecycle ----------------------------
(***************************************************************************)
(* src/core/taskLifecycle: AgentTaskRuntime with its state engine and its  *)
(* store, for one task.  A task is one JSON file of its tenant, replaced   *)
(* by a rename, and every operation runs without interruption from its     *)
(* read to its write, so a crash falls before an operation or after it.    *)
(*                                                                         *)
(* Clients decide on a copy of the task that they read earlier and pass    *)
(* its version: optimistic concurrency.  An operation that throws leaves   *)
(* the task alone and is no action here.  The provenance chain is left     *)
(* out: every write seals the record it writes, and nothing else writes.   *)
(***************************************************************************)
EXTENDS Integers

CONSTANTS
  StepCount,      \* how many steps the task has
  Clients,        \* operators and user interfaces that hold a copy of the task
  MaxVersion      \* bounds the writes

ASSUME TaskAssumption ==
  /\ StepCount \in Nat \ {0}
  /\ MaxVersion \in Nat \ {0}

VARIABLES
  task,           \* durable: the task's file, or NoTask
  seen,           \* the copy each client decides on
  userStop        \* globalMasterHumanAuthority.isUserStopActive

taskVars == <<task, seen, userStop>>

Steps == 1..StepCount

TaskStates == {"SUBMITTED", "ACCEPTED", "PLANNING", "EXECUTING",
               "AWAITING_APPROVAL", "PAUSED", "COMPLETED", "FAILED",
               "CANCELLED"}

StepStatuses == {"PENDING", "RUNNING", "AWAITING_APPROVAL", "COMPLETED",
                 "FAILED", "SKIPPED"}

TERMINAL_STATES == {"COMPLETED", "FAILED", "CANCELLED"}

VALID_TASK_TRANSITIONS ==
  [SUBMITTED |-> {"ACCEPTED", "CANCELLED", "FAILED"},
   ACCEPTED  |-> {"PLANNING", "EXECUTING", "PAUSED", "CANCELLED", "FAILED"},
   PLANNING  |-> {"EXECUTING", "PAUSED", "CANCELLED", "FAILED"},
   EXECUTING |-> {"EXECUTING", "AWAITING_APPROVAL", "PAUSED", "COMPLETED",
                  "FAILED", "CANCELLED"},
   AWAITING_APPROVAL |-> {"EXECUTING", "PAUSED", "CANCELLED", "FAILED"},
   PAUSED    |-> {"ACCEPTED", "PLANNING", "EXECUTING", "CANCELLED", "FAILED"},
   COMPLETED |-> {}, FAILED |-> {}, CANCELLED |-> {}]

\* Faulty: a failed attempt that turns out to have worked is accepted late.
StepTransitionsLate ==
  [PENDING   |-> {"RUNNING", "AWAITING_APPROVAL", "SKIPPED", "FAILED"},
   RUNNING   |-> {"AWAITING_APPROVAL", "COMPLETED", "FAILED"},
   AWAITING_APPROVAL |-> {"RUNNING", "FAILED", "SKIPPED"},
   COMPLETED |-> {"COMPLETED"}, FAILED |-> {"RUNNING", "COMPLETED"},
   SKIPPED |-> {}]

\* Faulty: a step may always be run again.
StepTransitionsRerun ==
  [PENDING   |-> {"RUNNING", "AWAITING_APPROVAL", "SKIPPED", "FAILED"},
   RUNNING   |-> {"AWAITING_APPROVAL", "COMPLETED", "FAILED"},
   AWAITING_APPROVAL |-> {"RUNNING", "FAILED", "SKIPPED"},
   COMPLETED |-> {"RUNNING"}, FAILED |-> {"RUNNING"}, SKIPPED |-> {}]

\* No bound on the attempts is compared anywhere when a FAILED step runs again.
VALID_STEP_TRANSITIONS ==
  [PENDING   |-> {"RUNNING", "AWAITING_APPROVAL", "SKIPPED", "FAILED"},
   RUNNING   |-> {"AWAITING_APPROVAL", "COMPLETED", "FAILED"},
   AWAITING_APPROVAL |-> {"RUNNING", "FAILED", "SKIPPED"},
   COMPLETED |-> {}, FAILED |-> {"RUNNING"}, SKIPPED |-> {}]

NoTask == [state |-> "NONE", version |-> 0]

Task == [state : TaskStates, version : 1..MaxVersion,
         steps : [Steps -> StepStatuses],
         attemptCount : [Steps -> Nat],
         currentStepIndex : 1..(StepCount + 1)]

Exists == task # NoTask

Terminal == task.state \in TERMINAL_STATES

TaskInit ==
  /\ task = NoTask
  /\ seen = [c \in Clients |-> NoTask]
  /\ userStop = FALSE

-----------------------------------------------------------------------------
(***************************************************************************)
(* The operations of the runtime                                           *)
(***************************************************************************)

\* The record that createTask writes.
NewTask ==
  [state |-> "SUBMITTED", version |-> 1,
   steps |-> [s \in Steps |-> "PENDING"],
   attemptCount |-> [s \in Steps |-> 0],
   currentStepIndex |-> 1]

createTask ==
  /\ ~userStop /\ ~Exists
  /\ task' = NewTask

transitionTask(toState, expectedVersion) ==
  /\ ~userStop /\ Exists
  /\ task.version = expectedVersion /\ task.version < MaxVersion
  /\ toState \in VALID_TASK_TRANSITIONS[task.state]
  /\ task' = [task EXCEPT !.state = toState, !.version = @ + 1]

\* Faulty: the terminal state of the task is not looked at.
StepUpdatableInAnyState(t, step, status) ==
  /\ ~userStop /\ t # NoTask /\ t.version < MaxVersion
  /\ step \in Steps /\ status \in VALID_STEP_TRANSITIONS[t.steps[step]]

\* updateStep goes through; every caller reads the version just before it, in
\* the same run.  Any state of the task that is not terminal will do, PAUSED
\* and SUBMITTED among them.
StepUpdatable(t, step, status) ==
  /\ ~userStop /\ t # NoTask /\ t.version < MaxVersion
  /\ t.state \notin TERMINAL_STATES
  /\ step \in Steps /\ status \in VALID_STEP_TRANSITIONS[t.steps[step]]

\* Faulty: the attempt is counted when it is over.
StepUpdatedCountedLate(t, step, status) ==
  [t EXCEPT
     !.steps[step] = status,
     !.attemptCount[step] = IF status = "COMPLETED" THEN @ + 1 ELSE @,
     !.version = @ + 1]

\* The record that updateStep writes over t.
StepUpdated(t, step, status) ==
  [t EXCEPT
     !.steps[step] = status,
     !.attemptCount[step] = IF status = "RUNNING" THEN @ + 1 ELSE @,
     !.currentStepIndex =
        IF status = "COMPLETED" /\ step = @ THEN @ + 1 ELSE @,
     !.version = @ + 1]

\* Faulty: the recovered task keeps its version.
RehydrateSameVersion ==
  task' = IF Exists /\ task.state \in {"PLANNING", "EXECUTING"} /\ ~userStop
          THEN [task EXCEPT !.state = "PAUSED"] ELSE task

\* A task that a crash interrupted is paused; the steps stay as they were.
\* Nothing tells an interrupted task from one that another caller is running.
rehydrate ==
  task' = IF /\ Exists /\ task.state \in {"PLANNING", "EXECUTING"}
             /\ ~userStop /\ task.version < MaxVersion
          THEN [task EXCEPT !.state = "PAUSED", !.version = @ + 1] ELSE task

-----------------------------------------------------------------------------
(***************************************************************************)
(* The clients of the runtime                                              *)
(***************************************************************************)

\* getTask: the client looks at the task.
Look(c) ==
  /\ Exists /\ seen[c] # task
  /\ seen' = [seen EXCEPT ![c] = task]
  /\ UNCHANGED <<task, userStop>>

\* A client pauses, resumes, cancels, ... the task that it last looked at, and
\* keeps the record that the runtime returns, or learns of no success where
\* the audit of the transition fails.
Decide(c, toState) ==
  /\ transitionTask(toState, seen[c].version)
  /\ \/ seen' = [seen EXCEPT ![c] = task']
     \/ UNCHANGED seen
  /\ UNCHANGED userStop

\* The human presses or releases the stop.
ToggleUserStop ==
  /\ userStop' = ~userStop
  /\ UNCHANGED <<task, seen>>

-----------------------------------------------------------------------------
TaskTypeOK ==
  /\ task \in Task \cup {NoTask}
  /\ seen \in [Clients -> Task \cup {NoTask}]
  /\ userStop \in BOOLEAN

\* Optimistic concurrency is sound: a client whose version is accepted decides
\* on the task as it is stored, whatever other clients, workers and the crash
\* recovery wrote since it looked.
SameVersionSameTask ==
  \A c \in Clients : seen[c].version = task.version => seen[c] = task

=============================================================================
