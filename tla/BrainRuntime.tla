---------------------------- MODULE BrainRuntime -----------------------------
(***************************************************************************)
(* src/core/brain: BrainRuntime, the lifecycle of the one brain of a       *)
(* process, and BrainLoop.run, which drives one task through model, tool,  *)
(* verification and recovery.                                              *)
(*                                                                         *)
(* The loop gives up control only where it awaits something outside the    *)
(* process' own code: the model, the tool or its 30 s timer, and the 100   *)
(* ms poll of a pause.  Everything from one of these to the next is one    *)
(* step, the head of the next iteration included.                          *)
(***************************************************************************)
EXTENDS Naturals, FiniteSets

CONSTANTS
  Requests,
  MaxIterations,      \* BRAIN_MAX_ITERATIONS_PER_TASK, 10
  MaxRecoveryDepth,   \* BRAIN_MAX_RECOVERY_DEPTH, 3
  MaxRetryAttempts    \* BRAIN_MAX_RETRY_ATTEMPTS, 3

ASSUME LoopAssumption ==
  /\ MaxIterations \in Nat \ {0}
  /\ MaxRecoveryDepth \in Nat
  /\ MaxRetryAttempts \in Nat \ {0}

VARIABLES
  brain,      \* BrainRuntime._state
  task,       \* the task in _activeTasks, with where its loop waits
  succeeded   \* history: the requests of which some task was committed

brainVars == <<brain, task, succeeded>>

\* The states the runtime rests in between two awaits of submitTask; the eight
\* it walks through on the way to COMPLETED have no await between them.
BrainStates == {"IDLE", "UNDERSTANDING", "COMPLETED", "FAILED", "STOPPED"}

\* BRAIN_TRANSITIONS[s] admits INPUT_RECEIVED.
TakesInput(s) == s \in {"IDLE", "COMPLETED"}

\* What the loop of the task waits for; "resumed" is a pause whose status
\* resumeTask has changed and whose poll has not seen it yet.
Waits == {"model", "tool", "paused", "resumed"}

Task == [request : Requests, at : Waits \cup {"done"},
         cancelled : BOOLEAN, pauseAsked : BOOLEAN,
         iteration : 0 .. MaxIterations, attempts : 0 .. MaxIterations,
         depth : 0 .. MaxRecoveryDepth, success : BOOLEAN,
         attemptsAtCancel : 0 .. MaxIterations]    \* history

NoTask == [at |-> "none"]

Running == task.at \in Waits

BrainTypeOK ==
  /\ brain \in BrainStates
  /\ task \in Task \cup {NoTask}
  /\ succeeded \subseteq Requests

BrainInit ==
  /\ brain = "IDLE"
  /\ task = NoTask
  /\ succeeded = {}

Done(t, success) == [t EXCEPT !.at = "done", !.success = success]

(***************************************************************************)
(* The head of an iteration: the limit, then cancellation, deadline and    *)
(* pause in this order.  Nothing else looks at the deadline of 60 s, so it *)
(* is a choice at the head and no state.                                   *)
(***************************************************************************)
EnterIteration(t, late) ==
  IF t.cancelled \/ late THEN Done(t, FALSE)
  ELSE IF t.pauseAsked THEN [t EXCEPT !.at = "paused", !.pauseAsked = FALSE]
  ELSE [t EXCEPT !.at = "model"]

\* Faulty: the signals are looked at before the first iteration only.
NextIterationUnchecked(t, late) ==
  IF t.iteration >= MaxIterations
  THEN Done(t, FALSE)
  ELSE [t EXCEPT !.iteration = @ + 1, !.at = "model"]

NextIteration(t, late) ==
  IF t.iteration >= MaxIterations
  THEN Done(t, FALSE)
  ELSE EnterIteration([t EXCEPT !.iteration = @ + 1], late)

\* A failed tool or verification: give up, or RECOVERING and around again.
Recover(exhausted) ==
  \E late \in BOOLEAN :
    task' = IF exhausted THEN Done(task, FALSE)
            ELSE NextIteration([task EXCEPT !.depth = @ + 1], late)

(***************************************************************************)
(* submitTask: the transition to INPUT_RECEIVED, the task, and the loop as *)
(* far as the model.                                                       *)
(***************************************************************************)
NewTask(r) ==
  [request |-> r, at |-> "model", cancelled |-> FALSE, pauseAsked |-> FALSE,
   iteration |-> 1, attempts |-> 0, depth |-> 0,
   success |-> FALSE, attemptsAtCancel |-> 0]

CanSubmit == TakesInput(brain) /\ task = NoTask

submitTask(r) ==
  /\ brain' = "UNDERSTANDING"
  /\ task' = NewTask(r)
  /\ UNCHANGED succeeded

\* The end of submitTask, which forces the runtime into one of these states,
\* from wherever it is.
Return ==
  /\ brain' = IF task.success THEN "COMPLETED" ELSE "FAILED"
  /\ task' = NoTask

\* Faulty: only a completed brain is reset.
ResetCompletedOnly(s) == IF s = "COMPLETED" THEN "IDLE" ELSE s

reset(s) == IF s \in {"COMPLETED", "FAILED"} THEN "IDLE" ELSE s

(***************************************************************************)
(* BrainLoop.run between its awaits.                                       *)
(***************************************************************************)

\* understand answers with a tool that is registered or is not.  It may also
\* throw: fatal at the last depth, else the deterministic provider answers.
ModelAnswers ==
  /\ task.at = "model"
  /\ \E answer \in {"tool", "unknown tool", "throws"} :
       task' = IF \/ answer = "unknown tool"
                  \/ answer = "throws" /\ task.depth >= MaxRecoveryDepth
               THEN Done(task, FALSE)
               ELSE [task EXCEPT !.at = "tool", !.attempts = @ + 1]
  /\ UNCHANGED <<brain, succeeded>>

\* The tool answers, throws or loses the race against its timer, after which
\* _observe and _verify look at the result; neither waits for anything.
ToolFails ==
  /\ task.at = "tool"
  /\ Recover(\/ task.depth >= MaxRecoveryDepth
             \/ task.attempts >= MaxRetryAttempts)
  /\ UNCHANGED <<brain, succeeded>>

VerificationFails ==
  /\ task.at = "tool"
  /\ Recover(task.depth >= MaxRecoveryDepth)
  /\ UNCHANGED <<brain, succeeded>>

Commit ==
  /\ task.at = "tool"
  /\ task' = Done(task, TRUE)
  /\ succeeded' = succeeded \cup {task.request}
  /\ UNCHANGED brain

\* Faulty: nothing but resumeTask or a cancellation ends a pause.
WakeWhenResumed ==
  /\ task.at = "resumed" \/ (task.at = "paused" /\ task.cancelled)
  /\ task' = IF task.cancelled THEN Done(task, FALSE)
                               ELSE [task EXCEPT !.at = "model"]
  /\ UNCHANGED <<brain, succeeded>>

\* _waitForUnpause ends: resumed, cancelled, or after 30 s whatever happened.
Wake ==
  /\ task.at \in {"paused", "resumed"}
  /\ task' = IF task.cancelled THEN Done(task, FALSE)
                               ELSE [task EXCEPT !.at = "model"]
  /\ UNCHANGED <<brain, succeeded>>

LoopStep ==
  \/ ModelAnswers
  \/ ToolFails
  \/ VerificationFails
  \/ Commit
  \/ Wake

(***************************************************************************)
(* The calls that signal a task.                                           *)
(***************************************************************************)
Cancelled(t) ==
  IF t.at \in Waits /\ ~t.cancelled
  THEN [t EXCEPT !.cancelled = TRUE, !.attemptsAtCancel = t.attempts]
  ELSE t

cancelTask ==
  /\ Running /\ ~task.cancelled
  /\ task' = Cancelled(task)
  /\ UNCHANGED <<brain, succeeded>>

pauseTask ==
  /\ Running /\ ~task.pauseAsked
  /\ task' = [task EXCEPT !.pauseAsked = TRUE]
  /\ UNCHANGED <<brain, succeeded>>

resumeTask ==
  /\ task.at = "paused"
  /\ task' = [task EXCEPT !.at = "resumed", !.pauseAsked = FALSE]
  /\ UNCHANGED <<brain, succeeded>>

Signal == cancelTask \/ pauseTask \/ resumeTask

(***************************************************************************)
(* Properties                                                              *)
(***************************************************************************)

\* Retries are bounded although the two ways to fail count differently: a
\* failed tool looks at the attempts and at the depth, a failed verification
\* at the depth alone.  Together they let a task run its tool at most once
\* more than the recovery depth, and never to the limit of iterations.  After
\* a cancellation the tool runs at most once more: the one the model was
\* being asked for, since only the head of an iteration looks at the signal.
RetriesEnd ==
  task # NoTask =>
    /\ task.attempts <= MaxRecoveryDepth + 1
    /\ task.cancelled => task.attempts <= task.attemptsAtCancel + 1

=============================================================================
