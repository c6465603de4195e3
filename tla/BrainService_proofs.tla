-------------------------- MODULE BrainService_proofs --------------------------
(***************************************************************************)
(* Proofs about BrainService and the BrainRuntime under it, for any number *)
(* of callers and requests, any size of the queue and any limits of the    *)
(* loop: first the task and its loop, then the service around them.        *)
(***************************************************************************)
EXTENDS BrainService, TLAPS

-----------------------------------------------------------------------------
(***************************************************************************)
(* The task                                                                *)
(***************************************************************************)

\* Every failed round brings a recovery and an iteration of its own, and after
\* a cancellation only the tool that was being asked for is still to come.
InOrder(t) ==
  /\ t \in Task
  /\ t.at = "tool" => t.attempts = t.depth + 1
  /\ t.at \in {"model", "paused", "resumed"} =>
       /\ t.attempts = t.depth
       /\ t.cancelled => t.attempts <= t.attemptsAtCancel
  /\ t.at # "done" => t.iteration = t.depth + 1
  /\ t.attempts <= t.depth + 1 /\ t.attempts <= t.iteration
  /\ t.cancelled => t.attempts <= t.attemptsAtCancel + 1

\* The absent task is no task, and stands at no await.
LEMMA NoTaskIsNone == NoTask \notin Task /\ NoTask.at = "none"
BY DEF NoTask, Task, Waits

\* A task that is done keeps its counts in order.
LEMMA DoneInOrder ==
  ASSUME NEW t, InOrder(t), NEW success \in BOOLEAN
  PROVE  /\ InOrder(Done(t, success))
         /\ Done(t, success).at = "done" /\ Done(t, success).success = success
         /\ Done(t, success).request = t.request
BY DEF InOrder, Done, Task, Waits

\* A new task has its counts in order.
LEMMA NewTaskInOrder ==
  ASSUME NEW r \in Requests
  PROVE  InOrder(NewTask(r)) /\ NewTask(r).request = r /\ NewTask(r).at = "model"
BY LoopAssumption DEF InOrder, NewTask, Task, Waits

\* A recovery that is not the last leads to the head of another iteration.
LEMMA NextIterationInOrder ==
  ASSUME NEW t, InOrder(t), t.at = "tool", t.depth < MaxRecoveryDepth,
         NEW late \in BOOLEAN,
         NEW u, u = NextIteration([t EXCEPT !.depth = @ + 1], late)
  PROVE  InOrder(u) /\ u.request = t.request /\ u.at \in {"model", "paused", "done"}
         /\ (u.at = "done" => ~u.success)
<1> USE LoopAssumption
<1> DEFINE d == [t EXCEPT !.depth = @ + 1]
<1>1. t \in Task
  BY DEF InOrder
<1>2. t.depth + 1 \in 0 .. MaxRecoveryDepth
  BY <1>1 DEF Task
<1>3. /\ d \in Task /\ d.depth = t.depth + 1 /\ d.at = t.at
      /\ d.request = t.request /\ d.attempts = t.attempts
      /\ d.iteration = t.iteration /\ d.cancelled = t.cancelled
      /\ d.pauseAsked = t.pauseAsked
      /\ d.attemptsAtCancel = t.attemptsAtCancel
  BY <1>1, <1>2 DEF Task
<1>4. /\ t.iteration \in Nat /\ t.depth \in Nat /\ t.attempts \in Nat
      /\ t.attempts = t.depth + 1 /\ t.iteration = t.depth + 1
      /\ t.cancelled => t.attempts <= t.attemptsAtCancel + 1
      /\ t.attemptsAtCancel \in Nat /\ MaxIterations \in Nat
  BY <1>1 DEF InOrder, Task
<1> HIDE DEF d
<1>5. CASE t.iteration >= MaxIterations
  <2>1. u = Done(d, FALSE)
    BY <1>3, <1>5 DEF NextIteration, d
  <2>2. /\ u \in Task /\ u.at = "done" /\ ~u.success /\ u.request = t.request
        /\ u.attempts = t.attempts /\ u.depth = t.depth + 1
        /\ u.iteration = t.iteration /\ u.cancelled = t.cancelled
        /\ u.attemptsAtCancel = t.attemptsAtCancel
    BY <1>3, <2>1 DEF Done, Task
  <2> QED BY <1>4, <2>2 DEF InOrder
<1>6. CASE ~(t.iteration >= MaxIterations)
  <2> DEFINE e == [d EXCEPT !.iteration = @ + 1]
  <2>1. u = EnterIteration(e, late)
    BY <1>3, <1>6 DEF NextIteration, d
  <2>2. t.iteration + 1 \in 0 .. MaxIterations
    BY <1>4, <1>6
  <2>3. /\ e \in Task /\ e.iteration = t.iteration + 1 /\ e.depth = t.depth + 1
        /\ e.request = t.request /\ e.attempts = t.attempts
        /\ e.cancelled = t.cancelled /\ e.pauseAsked = t.pauseAsked
        /\ e.attemptsAtCancel = t.attemptsAtCancel
    BY <1>3, <2>2 DEF Task
  <2> HIDE DEF e
  <2>4. CASE e.cancelled \/ late
    <3>1. u = Done(e, FALSE)
      BY <2>1, <2>4 DEF EnterIteration
    <3>2. /\ u \in Task /\ u.at = "done" /\ ~u.success /\ u.request = t.request
          /\ u.attempts = t.attempts /\ u.depth = t.depth + 1
          /\ u.iteration = t.iteration + 1 /\ u.cancelled = t.cancelled
          /\ u.attemptsAtCancel = t.attemptsAtCancel
      BY <2>3, <3>1 DEF Done, Task
    <3> QED BY <1>4, <3>2 DEF InOrder
  <2>5. CASE ~(e.cancelled \/ late)
    <3>1. \/ u = [e EXCEPT !.at = "paused", !.pauseAsked = FALSE]
          \/ u = [e EXCEPT !.at = "model"]
      BY <2>1, <2>5 DEF EnterIteration
    <3>2. /\ u \in Task /\ u.at \in {"model", "paused"} /\ u.request = t.request
          /\ u.attempts = t.attempts /\ u.depth = t.depth + 1
          /\ u.iteration = t.iteration + 1 /\ ~u.cancelled
      BY <2>3, <2>5, <3>1 DEF Task, Waits
    <3> QED BY <1>4, <3>2 DEF InOrder
  <2> QED BY <2>4, <2>5
<1> QED BY <1>5, <1>6

\* What the loop, and the calls that signal it, make of a task that runs.
LEMMA LoopFacts ==
  ASSUME InOrder(task), succeeded \subseteq Requests, LoopStep \/ Signal
  PROVE  /\ InOrder(task') /\ task'.request = task.request
         /\ task.at # "done"
         /\ \/ succeeded' = succeeded /\ (task'.at = "done" => ~task'.success)
            \/ succeeded' = succeeded \cup {task.request}
         /\ brain' = brain
         /\ task'.at = "tool" /\ task.at # "tool" => task.at = "model"
<1> USE LoopAssumption
<1>0. task \in Task /\ task # NoTask
  BY NoTaskIsNone DEF InOrder
<1>1. CASE ModelAnswers
  <2>1. CASE task' = Done(task, FALSE)
    BY <1>1, <2>1, DoneInOrder DEF ModelAnswers
  <2>2. CASE task' = [task EXCEPT !.at = "tool", !.attempts = @ + 1]
    <3>1. /\ task.attempts \in Nat /\ task.depth \in Nat /\ task.iteration \in Nat
          /\ task.attempts = task.depth /\ task.iteration = task.depth + 1
          /\ task.iteration <= MaxIterations
          /\ task.cancelled => task.attempts <= task.attemptsAtCancel
          /\ task.attemptsAtCancel \in Nat
      <4>1. /\ task.attempts \in Nat /\ task.depth \in Nat
            /\ task.iteration \in Nat /\ task.iteration <= MaxIterations
            /\ task.attemptsAtCancel \in Nat
        BY <1>0 DEF Task
      <4>2. task.at = "model"
        BY <1>1 DEF ModelAnswers
      <4> QED BY <4>1, <4>2 DEF InOrder
    <3>2. task.attempts + 1 \in 0 .. MaxIterations
      BY <3>1
    <3>3. /\ task' \in Task /\ task'.at = "tool"
          /\ task'.attempts = task.attempts + 1 /\ task'.depth = task.depth
          /\ task'.iteration = task.iteration /\ task'.cancelled = task.cancelled
          /\ task'.attemptsAtCancel = task.attemptsAtCancel
          /\ task'.request = task.request
      BY <1>0, <2>2, <3>2 DEF Task, Waits
    <3>4. InOrder(task')
      BY <3>1, <3>3 DEF InOrder
    <3> QED BY <1>1, <3>3, <3>4 DEF ModelAnswers
  <2> QED BY <1>1, <2>1, <2>2 DEF ModelAnswers
<1>2. CASE ToolFails \/ VerificationFails
  <2>1. /\ task.at = "tool" /\ UNCHANGED <<brain, succeeded>>
        /\ \/ task' = Done(task, FALSE)
           \/ /\ task.depth < MaxRecoveryDepth
              /\ \E late \in BOOLEAN :
                   task' = NextIteration([task EXCEPT !.depth = @ + 1], late)
    <3>1. task.depth \in Nat
      BY <1>0 DEF Task
    <3>2. \/ task' = Done(task, FALSE)
          \/ /\ ~(task.depth >= MaxRecoveryDepth)
             /\ \E late \in BOOLEAN :
                  task' = NextIteration([task EXCEPT !.depth = @ + 1], late)
      BY <1>2 DEF ToolFails, VerificationFails, Recover
    <3>3. task.at = "tool" /\ UNCHANGED <<brain, succeeded>>
      BY <1>2 DEF ToolFails, VerificationFails
    <3>4. ~(task.depth >= MaxRecoveryDepth) => task.depth < MaxRecoveryDepth
      BY <3>1
    <3> QED BY <3>2, <3>3, <3>4
  <2>2. CASE task' = Done(task, FALSE)
    BY <2>1, <2>2, DoneInOrder
  <2>3. ASSUME task.depth < MaxRecoveryDepth, NEW late \in BOOLEAN,
               task' = NextIteration([task EXCEPT !.depth = @ + 1], late)
        PROVE  /\ InOrder(task') /\ task'.request = task.request
               /\ task'.at \in {"model", "paused", "done"}
               /\ (task'.at = "done" => ~task'.success)
    BY <2>1, <2>3, NextIterationInOrder
  <2> QED BY <2>1, <2>2, <2>3
<1>3. CASE Commit
  BY <1>3, DoneInOrder DEF Commit
<1>4. CASE Wake
  <2>1. CASE task.cancelled
    BY <1>4, <2>1, DoneInOrder DEF Wake
  <2>2. CASE ~task.cancelled
    <3>1. task' = [task EXCEPT !.at = "model"]
      BY <1>4, <2>2 DEF Wake
    <3> QED BY <1>0, <1>4, <2>2, <3>1 DEF Wake, InOrder, Task, Waits
  <2> QED BY <2>1, <2>2
<1>5. CASE Signal
  <2>1. CASE cancelTask
    <3>1. task' = [task EXCEPT !.cancelled = TRUE,
                               !.attemptsAtCancel = task.attempts]
      BY <2>1 DEF cancelTask, Cancelled, Running
    <3>2. task.at \in Waits /\ UNCHANGED <<brain, succeeded>>
      BY <2>1 DEF cancelTask, Running
    <3>3. InOrder(task') /\ task'.request = task.request /\ task'.at = task.at
      <4>1. /\ task.attempts \in Nat /\ task.attempts \in 0 .. MaxIterations
            /\ task.attemptsAtCancel \in Nat
        BY <1>0 DEF Task
      <4>2. /\ task' \in Task /\ task'.at = task.at /\ task'.cancelled
            /\ task'.attempts = task.attempts /\ task'.depth = task.depth
            /\ task'.iteration = task.iteration
            /\ task'.attemptsAtCancel = task.attempts
            /\ task'.request = task.request
        BY <1>0, <3>1, <4>1 DEF Task
      <4> QED BY <4>1, <4>2 DEF InOrder
    <3> QED BY <3>2, <3>3 DEF Waits
  <2>2. CASE pauseTask
    BY <1>0, <2>2 DEF pauseTask, Running, InOrder, Task, Waits
  <2>3. CASE resumeTask
    BY <1>0, <2>3 DEF resumeTask, Running, InOrder, Task, Waits
  <2> QED BY <1>5, <2>1, <2>2, <2>3 DEF Signal
<1> QED BY <1>1, <1>2, <1>3, <1>4, <1>5 DEF LoopStep

\* The cancellation that a shutdown brings leaves the task in order.
LEMMA CancelledInOrder ==
  ASSUME InOrder(task)
  PROVE  /\ InOrder(Cancelled(task)) /\ Cancelled(task).request = task.request
         /\ Cancelled(task).at = task.at
         /\ Cancelled(task).success = task.success
<1> DEFINE u == [task EXCEPT !.cancelled = TRUE,
                             !.attemptsAtCancel = task.attempts]
<1>1. task \in Task
  BY DEF InOrder
<1>2. /\ task.attempts \in Nat /\ task.attempts \in 0 .. MaxIterations
      /\ task.attemptsAtCancel \in Nat
  BY <1>1, LoopAssumption DEF Task
<1>3. /\ u \in Task /\ u.at = task.at /\ u.cancelled /\ u.request = task.request
      /\ u.attempts = task.attempts /\ u.depth = task.depth
      /\ u.iteration = task.iteration /\ u.success = task.success
      /\ u.attemptsAtCancel = task.attempts
  BY <1>1, <1>2 DEF Task
<1> HIDE DEF u
<1>4. InOrder(u)
  BY <1>2, <1>3 DEF InOrder
<1>5. Cancelled(task) = u \/ Cancelled(task) = task
  BY DEF Cancelled, u
<1> QED BY <1>3, <1>4, <1>5

-----------------------------------------------------------------------------
(***************************************************************************)
(* The service: its inductive invariant                                    *)
(***************************************************************************)

\* The task in hand is that of the caller in hand, and not done before.
TaskInHand ==
  /\ task # NoTask <=> ~Idle /\ worker.answer = "none"
  /\ task # NoTask =>
       /\ InOrder(task)
       /\ service \in {"EXECUTING", "SHUTTING_DOWN"} /\ brain = "UNDERSTANDING"
       /\ task.request = Request /\ task.request \notin memory
       /\ task.at = "done" /\ task.success => task.request \in succeeded

\* What the state of the service says of the brain, the queue and the worker.
ServiceInOrder ==
  /\ service = "EXECUTING" => task # NoTask
  /\ service = "READY" => TakesInput(brain)
  /\ service \in {"FAILED", "COMMITTING"} => brain \in {"COMPLETED", "FAILED"}
  /\ service \in {"DOWN", "SHUTTING_DOWN"} => queue = <<>>
  /\ service = "DOWN" => Idle

\* What is in the file is in memory; they differ only once a write failed.
ListsInOrder ==
  /\ service # "DOWN" => recorded \subseteq memory
  /\ service \in {"READY", "EXECUTING"} => memory = recorded
  /\ \A r \in Requests : cached[r] = "succeeded" => r \in succeeded

\* Whoever is in hand or in the queue waits, and is there once.
CallersInOrder ==
  /\ ~Idle => /\ Waiting(worker.caller)
              /\ \A i \in 1 .. Len(queue) : queue[i] # worker.caller
  /\ \A i \in 1 .. Len(queue) : Waiting(queue[i])
  /\ \A i, j \in 1 .. Len(queue) : queue[i] = queue[j] => i = j

IInv ==
  /\ TypeOK /\ TaskInHand /\ ServiceInOrder /\ ListsInOrder /\ CallersInOrder
  /\ SuccessIsOnRecord

\* The service starts stopped, with nobody waiting.
LEMMA InitIInv == Init => IInv
<1> SUFFICES ASSUME Init PROVE IInv
  OBVIOUS
<1>1. TypeOK
  BY QueueAssumption
  DEF Init, BrainInit, TypeOK, BrainTypeOK, BrainStates, ServiceStates
<1>2. Idle /\ task = NoTask /\ worker.answer = "none" /\ Len(queue) = 0
  BY DEF Init, BrainInit, Idle, NoWork
<1>3. CallersInOrder
  BY <1>2 DEF CallersInOrder
<1> QED
  BY <1>1, <1>2, <1>3
  DEF Init, BrainInit, IInv, TaskInHand, ServiceInOrder, ListsInOrder,
      SuccessIsOnRecord, TellsSuccess, TakesInput

-----------------------------------------------------------------------------
(***************************************************************************)
(* The start of an execution                                               *)
(***************************************************************************)
\* What a success that is told at once stands on.
Backed(a, r) ==
  /\ TellsSuccess(a) => service = "READY" /\ r \in memory /\ cached[r] # "failed"
  /\ a = "succeeded" => cached[r] = "succeeded"

Took(c, r) ==
  \/ /\ UNCHANGED <<brain, task, succeeded, service, recorded>>
     /\ \E a \in Answers : /\ worker' = [caller |-> c, answer |-> a]
                           /\ Backed(a, r)
  \/ /\ UNCHANGED <<brain, task, succeeded, service>>
     /\ service # "READY"
     /\ recorded' \in {recorded, memory}
     /\ worker' = [caller |-> c, answer |-> "rejected"]
  \/ /\ service \in {"FAILED", "COMMITTING"} /\ service' = "READY"
     /\ brain' = reset(brain) /\ UNCHANGED <<task, succeeded>>
     /\ recorded' = memory
     /\ worker' = [caller |-> c, answer |-> "error"]
  \/ /\ service = "READY" /\ service' = "EXECUTING" /\ r \notin memory
     /\ brain' = "UNDERSTANDING" /\ task' = NewTask(r)
     /\ UNCHANGED <<succeeded, recorded>>
     /\ worker' = [caller |-> c, answer |-> "none"]

\* execute takes a task for the caller, or answers from the list of completed
\* requests.
LEMMA ExecuteTakes ==
  ASSUME IInv, task = NoTask, NEW c \in Callers, NEW r \in Requests, Execute(c, r)
  PROVE  Took(c, r)
<1>1. /\ service # "EXECUTING"
      /\ service = "READY" => CanSubmit
      /\ cached[r] \in {"none", "succeeded", "failed"}
  BY DEF IInv, ServiceInOrder, CanSubmit, TypeOK
<1>2. CASE Known(r)
  <2>1. Replay(c, r)
    BY <1>2 DEF Execute
  <2>2. PICK a : /\ worker' = [caller |-> c, answer |-> a]
                 /\ a = IF ~AcceptsRequest THEN "rejected"
                        ELSE IF cached[r] = "none" THEN "presumed" ELSE cached[r]
    BY <2>1 DEF Replay
  <2>3. a \in Answers /\ Backed(a, r)
    BY <1>1, <1>2, <2>2 DEF Answers, AcceptsRequest, Known, Backed, TellsSuccess
  <2>4. UNCHANGED <<brain, task, succeeded, service, recorded>>
    BY <2>1 DEF Replay, brainVars
  <2> QED BY <2>2, <2>3, <2>4 DEF Took
<1>3. CASE ~Known(r) /\ AcceptsRequest
  BY <1>1, <1>3 DEF Execute, submitTask, Took, Known, AcceptsRequest
<1>4. CASE ~Known(r) /\ ~AcceptsRequest
  <2>1. RecoverFrom(c, service) /\ service # "READY"
    BY <1>4 DEF Execute, AcceptsRequest
  <2> QED
    BY <1>1, <2>1 DEF RecoverFrom, Flush, MayRecover, Took
<1> QED BY <1>2, <1>3, <1>4

\* It keeps what does not depend on the callers, when the caller's request is
\* the one that is executed.
LEMMA TookKeeps ==
  ASSUME IInv, task = NoTask, NEW c \in Callers, NEW r \in Requests, Took(c, r),
         UNCHANGED <<memory, cached>>, pending'[c] = r, service # "DOWN",
         service \in {"DOWN", "SHUTTING_DOWN"} => queue' = <<>>
  PROVE  /\ BrainTypeOK' /\ service' \in ServiceStates /\ recorded' \subseteq Requests
         /\ worker' \in [caller : Callers, answer : Answers \cup {"none"}]
         /\ worker'.caller = c
         /\ TaskInHand' /\ ServiceInOrder' /\ ListsInOrder' /\ SuccessIsOnRecord'
<1>0. /\ TypeOK /\ BrainTypeOK /\ recorded \subseteq memory
      /\ service = "READY" => memory = recorded /\ TakesInput(brain)
      /\ service # "EXECUTING"
      /\ service \in {"FAILED", "COMMITTING"} => brain \in {"COMPLETED", "FAILED"}
      /\ \A q \in Requests : cached[q] = "succeeded" => q \in succeeded
  BY DEF IInv, TypeOK, ListsInOrder, ServiceInOrder
<1>1. c # Nobody
  BY NamesAssumption DEF Nobody
<1>2. ASSUME NEW a, worker' = [caller |-> c, answer |-> a]
      PROVE  ~Idle' /\ worker'.caller = c /\ worker'.answer = a /\ Request' = r
  BY <1>1, <1>2 DEF Idle, NoWork, Request
<1>3. CASE /\ UNCHANGED <<brain, task, succeeded, service, recorded>>
           /\ \E a \in Answers : /\ worker' = [caller |-> c, answer |-> a]
                                 /\ Backed(a, r)
  <2>1. PICK a \in Answers : /\ worker' = [caller |-> c, answer |-> a]
                             /\ Backed(a, r)
    BY <1>3
  <2>2. ~Idle' /\ worker'.caller = c /\ worker'.answer = a /\ Request' = r
    BY <1>2, <2>1
  <2>3. task' = NoTask /\ a # "none"
    BY <1>3 DEF Answers
  <2>4. TaskInHand' /\ SuccessIsOnRecord'
    BY <1>0, <1>3, <2>1, <2>2, <2>3
    DEF TaskInHand, SuccessIsOnRecord, Backed, TellsSuccess
  <2>5. ServiceInOrder' /\ ListsInOrder'
    BY <1>0, <1>3, <2>3 DEF ServiceInOrder, ListsInOrder
  <2> QED BY <1>0, <1>3, <2>1, <2>2, <2>4, <2>5 DEF BrainTypeOK, TypeOK
<1>4. CASE /\ UNCHANGED <<brain, task, succeeded, service>>
           /\ service # "READY"
           /\ recorded' \in {recorded, memory}
           /\ worker' = [caller |-> c, answer |-> "rejected"]
  <2>2. ~Idle' /\ worker'.caller = c /\ worker'.answer = "rejected" /\ Request' = r
    BY <1>2, <1>4
  <2>4. TaskInHand' /\ SuccessIsOnRecord'
    BY <1>4, <2>2 DEF TaskInHand, SuccessIsOnRecord, TellsSuccess
  <2>5. ServiceInOrder' /\ ListsInOrder'
    BY <1>0, <1>4 DEF ServiceInOrder, ListsInOrder
  <2> QED BY <1>0, <1>4, <2>2, <2>4, <2>5 DEF BrainTypeOK, TypeOK, Answers
<1>5. CASE /\ service \in {"FAILED", "COMMITTING"} /\ service' = "READY"
           /\ brain' = reset(brain) /\ UNCHANGED <<task, succeeded>>
           /\ recorded' = memory
           /\ worker' = [caller |-> c, answer |-> "error"]
  <2>1. brain' = "IDLE"
    BY <1>0, <1>5 DEF reset
  <2>2. ~Idle' /\ worker'.caller = c /\ worker'.answer = "error" /\ Request' = r
    BY <1>2, <1>5
  <2>4. TaskInHand' /\ SuccessIsOnRecord'
    BY <1>5, <2>2 DEF TaskInHand, SuccessIsOnRecord, TellsSuccess
  <2>5. ServiceInOrder' /\ ListsInOrder'
    BY <1>0, <1>5, <2>1 DEF ServiceInOrder, ListsInOrder, TakesInput
  <2> QED
    BY <1>0, <1>5, <2>1, <2>2, <2>4, <2>5
    DEF BrainTypeOK, TypeOK, Answers, BrainStates, ServiceStates
<1>6. CASE /\ service = "READY" /\ service' = "EXECUTING" /\ r \notin memory
           /\ brain' = "UNDERSTANDING" /\ task' = NewTask(r)
           /\ UNCHANGED <<succeeded, recorded>>
           /\ worker' = [caller |-> c, answer |-> "none"]
  <2>1. /\ InOrder(task') /\ task'.request = r /\ task'.at = "model"
        /\ task' \in Task /\ task' # NoTask
    BY <1>6, NewTaskInOrder, NoTaskIsNone DEF InOrder
  <2>2. ~Idle' /\ worker'.caller = c /\ worker'.answer = "none" /\ Request' = r
    BY <1>2, <1>6
  <2>4. TaskInHand' /\ SuccessIsOnRecord'
    BY <1>6, <2>1, <2>2 DEF TaskInHand, SuccessIsOnRecord, TellsSuccess
  <2>5. ServiceInOrder' /\ ListsInOrder'
    BY <1>0, <1>6, <2>1 DEF ServiceInOrder, ListsInOrder
  <2> QED
    BY <1>0, <1>6, <2>1, <2>2, <2>4, <2>5
    DEF BrainTypeOK, TypeOK, BrainStates, ServiceStates
<1> QED BY <1>3, <1>4, <1>5, <1>6 DEF Took

-----------------------------------------------------------------------------
(***************************************************************************)
(* The steps of the service                                                *)
(***************************************************************************)

\* Whoever is queued is a caller.
LEMMA QueuedCallers ==
  ASSUME TypeOK
  PROVE  \A i \in 1 .. Len(queue) : queue[i] \in Callers
BY DEF TypeOK

\* A request that finds nobody at work keeps the invariant.
LEMMA StepAccept ==
  ASSUME IInv, NEW c \in Callers, NEW r \in Requests, Accept(c, r)
  PROVE  IInv'
<1> USE DEF IInv
<1>1. /\ Idle /\ pending[c] = NoRequest /\ service = "READY"
      /\ pending' = [pending EXCEPT ![c] = r]
      /\ Execute(c, r) /\ UNCHANGED <<queue, memory, cached>>
  BY DEF Accept, MayCall, Called, Waiting, AcceptsRequest
<1>2. task = NoTask /\ pending \in [Callers -> Requests \cup {NoRequest}]
  BY <1>1 DEF TaskInHand, TypeOK
<1>3. /\ BrainTypeOK' /\ service' \in ServiceStates /\ recorded' \subseteq Requests
      /\ worker' \in [caller : Callers, answer : Answers \cup {"none"}]
      /\ worker'.caller = c
      /\ TaskInHand' /\ ServiceInOrder' /\ ListsInOrder' /\ SuccessIsOnRecord'
  BY <1>1, <1>2, ExecuteTakes, TookKeeps DEF ServiceInOrder
<1>4. TypeOK'
  BY <1>1, <1>2, <1>3 DEF TypeOK
<1>5. /\ pending'[c] = r /\ r # NoRequest
      /\ \A d \in Callers \ {c} : pending'[d] = pending[d]
  BY <1>1, <1>2, NamesAssumption DEF NoRequest
<1>6. CallersInOrder'
  BY <1>1, <1>3, <1>5, QueuedCallers DEF CallersInOrder, Waiting
<1> QED BY <1>3, <1>4, <1>6

\* A request that is queued keeps it.
LEMMA StepEnqueue ==
  ASSUME IInv, NEW c \in Callers, NEW r \in Requests, Enqueue(c, r)
  PROVE  IInv'
<1> USE DEF IInv
<1>1. /\ ~Idle /\ pending[c] = NoRequest /\ service = "READY"
      /\ Len(queue) < MaxQueueSize
      /\ pending' = [pending EXCEPT ![c] = r] /\ queue' = Append(queue, c)
      /\ UNCHANGED <<brainVars, service, worker, memory, recorded, cached>>
  BY DEF Enqueue, MayCall, Called, Waiting, AcceptsRequest
<1>2. /\ pending \in [Callers -> Requests \cup {NoRequest}]
      /\ queue \in Seq(Callers) /\ Len(queue) \in Nat
  BY DEF TypeOK
<1>3. /\ pending'[c] = r /\ r # NoRequest
      /\ \A d \in Callers \ {c} : pending'[d] = pending[d]
      /\ pending' \in [Callers -> Requests \cup {NoRequest}]
  BY <1>1, <1>2, NamesAssumption DEF NoRequest
<1>4. /\ queue' \in Seq(Callers) /\ Len(queue') = Len(queue) + 1
      /\ queue'[Len(queue) + 1] = c
      /\ \A i \in 1 .. Len(queue) : queue'[i] = queue[i]
  BY <1>1, <1>2
<1>5. /\ worker.caller # c /\ worker.caller \in Callers
      /\ \A i \in 1 .. Len(queue) : queue[i] # c /\ queue[i] \in Callers
  BY <1>1, QueuedCallers DEF CallersInOrder, Waiting, TypeOK, Idle
<1>6. TypeOK'
  <2>1. Len(queue') <= MaxQueueSize
    BY <1>1, <1>2, <1>4, QueueAssumption
  <2> QED BY <1>1, <1>3, <1>4, <2>1 DEF TypeOK, BrainTypeOK, brainVars
<1>7. Request' = Request
  BY <1>1, <1>3, <1>5 DEF Request
<1>8. TaskInHand' /\ SuccessIsOnRecord'
  BY <1>1, <1>7 DEF TaskInHand, SuccessIsOnRecord, Idle, brainVars
<1>9. ServiceInOrder' /\ ListsInOrder'
  BY <1>1 DEF ServiceInOrder, ListsInOrder, brainVars
<1>10. CallersInOrder'
  <2>1. \A i \in 1 .. Len(queue') : i \in 1 .. Len(queue) \/ i = Len(queue) + 1
    BY <1>2, <1>4
  <2>2. ASSUME NEW i \in 1 .. Len(queue')
        PROVE  queue'[i] # worker.caller /\ Waiting(queue[i])'
    BY <1>1, <1>3, <1>4, <1>5, <2>1 DEF CallersInOrder, Waiting
  <2>3. ASSUME NEW i \in 1 .. Len(queue'), NEW j \in 1 .. Len(queue'),
               queue'[i] = queue'[j]
        PROVE  i = j
    BY <1>4, <1>5, <2>1, <2>3 DEF CallersInOrder
  <2>4. Waiting(worker.caller)'
    BY <1>1, <1>3, <1>5 DEF CallersInOrder, Waiting
  <2> QED BY <1>1, <2>2, <2>3, <2>4 DEF CallersInOrder
<1> QED BY <1>6, <1>8, <1>9, <1>10

\* Answering a caller and taking the next one keeps it.
LEMMA StepHandOver ==
  ASSUME IInv, HandOver
  PROVE  IInv'
<1> USE DEF IInv
<1>1. /\ ~Idle /\ worker.answer # "none" /\ task = NoTask
      /\ pending' = Settled({worker.caller})
      /\ UNCHANGED <<memory, cached>>
  BY DEF HandOver, TaskInHand
<1>2. /\ pending \in [Callers -> Requests \cup {NoRequest}]
      /\ worker.caller \in Callers
      /\ queue \in Seq(Callers) /\ Len(queue) \in Nat
      /\ \A i \in 1 .. Len(queue) :
           /\ queue[i] \in Callers \ {worker.caller}
           /\ pending[queue[i]] \in Requests
      /\ service \notin {"DOWN", "EXECUTING"}
  BY <1>1, QueuedCallers
  DEF TypeOK, Idle, CallersInOrder, Waiting, ServiceInOrder
<1>3. /\ pending' \in [Callers -> Requests \cup {NoRequest}]
      /\ \A c \in Callers \ {worker.caller} : pending'[c] = pending[c]
  BY <1>1, <1>2 DEF Settled
<1>4. CASE queue = <<>>
  <2>1. /\ worker' = NoWork
        /\ UNCHANGED <<brainVars, service, queue, recorded>>
    BY <1>4 DEF HandOver
  <2>2. Idle' /\ worker'.answer = "none" /\ Len(queue') = 0
    BY <1>4, <2>1 DEF Idle, NoWork
  <2>3. TypeOK'
    BY <1>1, <1>3, <2>1 DEF TypeOK, BrainTypeOK, brainVars
  <2>4. TaskInHand' /\ SuccessIsOnRecord' /\ CallersInOrder'
    BY <1>1, <2>1, <2>2
    DEF TaskInHand, SuccessIsOnRecord, TellsSuccess, CallersInOrder, brainVars
  <2>5. ServiceInOrder' /\ ListsInOrder'
    BY <1>1, <2>1, <2>2 DEF ServiceInOrder, ListsInOrder, brainVars
  <2> QED BY <2>3, <2>4, <2>5
<1>5. CASE queue # <<>>
  <2> DEFINE c == Head(queue)
             r == pending[c]
  <2>1. Len(queue) > 0 /\ 1 \in 1 .. Len(queue) /\ c = queue[1]
    BY <1>2, <1>5
  <2>2. /\ c \in Callers \ {worker.caller} /\ r \in Requests /\ pending'[c] = r
    BY <1>2, <1>3, <2>1
  <2>3. queue' = Tail(queue) /\ Execute(c, r)
    BY <1>5 DEF HandOver
  <2>4. /\ queue' \in Seq(Callers) /\ Len(queue') = Len(queue) - 1
        /\ \A i \in 1 .. Len(queue') : queue'[i] = queue[i + 1]
                                       /\ i + 1 \in 1 .. Len(queue)
    BY <1>2, <2>1, <2>3
  <2>5. service \notin {"DOWN", "SHUTTING_DOWN"}
    BY <1>5 DEF ServiceInOrder
  <2> HIDE DEF c, r
  <2>6. /\ BrainTypeOK' /\ service' \in ServiceStates /\ recorded' \subseteq Requests
        /\ worker' \in [caller : Callers, answer : Answers \cup {"none"}]
        /\ worker'.caller = c
        /\ TaskInHand' /\ ServiceInOrder' /\ ListsInOrder' /\ SuccessIsOnRecord'
    BY <1>1, <2>2, <2>3, <2>5, ExecuteTakes, TookKeeps
  <2>7. TypeOK'
    <3>1. Len(queue') <= MaxQueueSize
      BY <1>2, <2>4, QueueAssumption DEF TypeOK
    <3> QED BY <1>1, <1>3, <2>4, <2>6, <3>1 DEF TypeOK
  <2>8. CallersInOrder'
    <3>1. Waiting(worker.caller)'
      BY <2>2, <2>6, NamesAssumption DEF Waiting, NoRequest
    <3>2. \A i \in 1 .. Len(queue') : queue'[i] # worker'.caller
      BY <1>2, <2>1, <2>4, <2>6 DEF CallersInOrder
    <3>3. \A i \in 1 .. Len(queue') : Waiting(queue[i])'
      BY <1>2, <1>3, <2>4, NamesAssumption DEF Waiting, NoRequest
    <3>4. ASSUME NEW i \in 1 .. Len(queue'), NEW j \in 1 .. Len(queue'),
                 queue'[i] = queue'[j]
          PROVE  i = j
      <4>1. i + 1 = j + 1
        BY <2>4, <3>4 DEF CallersInOrder
      <4> QED BY <4>1
    <3> QED BY <3>1, <3>2, <3>3, <3>4 DEF CallersInOrder
  <2> QED BY <2>6, <2>7, <2>8
<1> QED BY <1>4, <1>5

\* The callers, the queue and who is in hand stay as they are.
SameCallers ==
  /\ UNCHANGED <<queue, pending>>
  /\ Idle' <=> Idle
  /\ worker'.caller = worker.caller
  /\ worker' \in [caller : Callers, answer : Answers \cup {"none"}] \cup {NoWork}

\* Where no caller changes, the callers stay in order.
LEMMA SameCallersKeeps ==
  ASSUME TypeOK, CallersInOrder, SameCallers
  PROVE  CallersInOrder' /\ Request' = Request
BY DEF SameCallers, CallersInOrder, Waiting, Request

\* Refusing a request at a full queue keeps it.
LEMMA StepBackpressure == ASSUME IInv, Backpressure PROVE IInv'
<1> USE DEF IInv
<1>1. /\ UNCHANGED <<brain, task, succeeded, service, queue, worker, memory,
                     cached, pending>>
      /\ recorded' \in {memory, recorded} /\ service = "READY"
  BY DEF Backpressure, Flush, AcceptsRequest, brainVars
<1>2. TypeOK'
  BY <1>1 DEF TypeOK, BrainTypeOK
<1>3. recorded' = recorded
  BY <1>1 DEF ListsInOrder
<1> QED
  BY <1>1, <1>2, <1>3
  DEF TaskInHand, ServiceInOrder, ListsInOrder, CallersInOrder, SuccessIsOnRecord,
      Idle, Request, Waiting

\* The loop's steps, and signals to it, keep it.
LEMMA StepLoop == ASSUME IInv, LoopRuns \/ Signalled PROVE IInv'
<1> USE DEF IInv
<1>1. (LoopStep \/ Signal) /\ UNCHANGED serviceVars
  BY DEF LoopRuns, Signalled
<1>2. task # NoTask
  BY <1>1, NoTaskIsNone
  DEF LoopStep, ModelAnswers, ToolFails, VerificationFails, Commit, Wake,
      Signal, cancelTask, pauseTask, resumeTask, Running, Waits
<1>3. InOrder(task) /\ succeeded \subseteq Requests /\ task.request \in Requests
  BY <1>2 DEF TaskInHand, TypeOK, BrainTypeOK, InOrder, Task
<1>4. /\ InOrder(task') /\ task'.request = task.request
      /\ \/ succeeded' = succeeded /\ (task'.at = "done" => ~task'.success)
         \/ succeeded' = succeeded \cup {task.request}
      /\ brain' = brain
  BY <1>1, <1>3, LoopFacts
<1>5. task' \in Task /\ task' # NoTask
  BY <1>4, NoTaskIsNone DEF InOrder
<1>6. UNCHANGED <<service, queue, worker, memory, recorded, cached, pending>>
  BY <1>1 DEF serviceVars
<1>7. TypeOK'
  BY <1>3, <1>4, <1>5, <1>6 DEF TypeOK, BrainTypeOK
<1>8. Request' = Request /\ Idle' = Idle
  BY <1>6 DEF Request, Idle
<1>9. TaskInHand'
  <2>1. task'.at = "done" /\ task'.success => task'.request \in succeeded'
    BY <1>4
  <2> QED BY <1>2, <1>4, <1>5, <1>6, <1>8, <2>1 DEF TaskInHand
<1>10. succeeded \subseteq succeeded'
  BY <1>4
<1>11. ServiceInOrder' /\ ListsInOrder' /\ SuccessIsOnRecord'
  BY <1>2, <1>4, <1>5, <1>6, <1>8, <1>10
  DEF ServiceInOrder, ListsInOrder, SuccessIsOnRecord
<1>12. CallersInOrder'
  BY <1>6 DEF CallersInOrder, Idle, Waiting
<1> QED BY <1>7, <1>9, <1>11, <1>12

\* The end of a task: the caller in hand gets its answer.
LEMMA EndKeeps ==
  ASSUME IInv, task # NoTask, NEW a \in Answers,
         worker' = [worker EXCEPT !.answer = a], task' = NoTask,
         UNCHANGED <<succeeded, queue, pending>>,
         TellsSuccess(a) => /\ a = "succeeded" /\ Request \in succeeded
                            /\ Request \in recorded' /\ cached'[Request] # "failed",
         brain' \in BrainStates, service' \in ServiceStates,
         memory' \subseteq Requests, recorded' \subseteq Requests,
         cached' \in [Requests -> {"none", "succeeded", "failed"}]
  PROVE  TypeOK' /\ TaskInHand' /\ CallersInOrder' /\ SuccessIsOnRecord' /\ ~Idle'
<1> USE DEF IInv
<1>1. ~Idle /\ worker \in [caller : Callers, answer : Answers \cup {"none"}]
  BY DEF TaskInHand, TypeOK, Idle
<1>2. /\ worker' \in [caller : Callers, answer : Answers \cup {"none"}]
      /\ worker'.caller = worker.caller /\ worker'.answer = a
  BY <1>1
<1>3. ~Idle' /\ a # "none"
  <2>1. worker'.caller \in Callers
    BY <1>2
  <2>2. NoWork.caller \notin Callers
    BY NamesAssumption DEF NoWork, Nobody
  <2>3. a # "none"
    BY DEF Answers
  <2> QED BY <2>1, <2>2, <2>3 DEF Idle
<1>4. CallersInOrder' /\ Request' = Request
  BY <1>1, <1>2, <1>3, SameCallersKeeps DEF SameCallers
<1>5. TypeOK'
  BY <1>2 DEF TypeOK, BrainTypeOK
<1>6. TaskInHand' /\ SuccessIsOnRecord'
  BY <1>2, <1>3, <1>4 DEF TaskInHand, SuccessIsOnRecord
<1> QED BY <1>3, <1>4, <1>5, <1>6

\* Recording a result, or failing to, keeps it.
LEMMA StepFinish ==
  ASSUME IInv, Finish \/ FinishUnwritten \/ FinishAfterShutdown
  PROVE  IInv'
<1> USE DEF IInv
<1>0. /\ task.at = "done" /\ task # NoTask
      /\ service \in {"EXECUTING", "SHUTTING_DOWN"}
  BY NoTaskIsNone DEF Finish, FinishUnwritten, FinishAfterShutdown, Finishing
<1>1. /\ Request \in Requests /\ task.success \in BOOLEAN
      /\ task.success => Request \in succeeded
      /\ memory \subseteq Requests /\ recorded \subseteq memory
      /\ service = "EXECUTING" => memory = recorded
      /\ cached \in [Requests -> {"none", "succeeded", "failed"}]
      /\ \A r \in Requests : cached[r] = "succeeded" => r \in succeeded
  BY <1>0 DEF TaskInHand, InOrder, Task, TypeOK, ListsInOrder
<1>2. CASE Finish
  <2>1. /\ service = "EXECUTING" /\ service' = "READY" /\ task' = NoTask
        /\ brain' = reset(IF task.success THEN "COMPLETED" ELSE "FAILED")
        /\ memory' = memory \cup {Request} /\ recorded' = memory'
        /\ cached' = [cached EXCEPT ![Request] = Outcome]
        /\ worker' = [worker EXCEPT !.answer = Outcome]
        /\ UNCHANGED <<succeeded, queue, pending>>
    BY <1>2 DEF Finish, Finishing, Flush, Answer
  <2>2. /\ Outcome \in {"succeeded", "failed"} /\ Outcome \in Answers
        /\ Outcome = "succeeded" => Request \in succeeded
        /\ TellsSuccess(Outcome) => Outcome = "succeeded"
    BY <1>1 DEF Outcome, Answers, TellsSuccess
  <2>3. brain' = "IDLE"
    BY <2>1 DEF reset
  <2>4. cached' \in [Requests -> {"none", "succeeded", "failed"}]
    BY <1>1, <2>1, <2>2
  <2>9. Request \in recorded' /\ cached'[Request] = Outcome
    BY <1>1, <2>1
  <2>5. TypeOK' /\ TaskInHand' /\ CallersInOrder' /\ SuccessIsOnRecord'
    BY <1>0, <1>1, <2>1, <2>2, <2>3, <2>4, <2>9, EndKeeps
    DEF BrainStates, ServiceStates
  <2>6. ServiceInOrder'
    BY <2>1, <2>3 DEF ServiceInOrder, TakesInput
  <2>7. \A r \in Requests : cached'[r] = "succeeded" => r \in succeeded'
    BY <1>1, <2>1, <2>2
  <2>8. ListsInOrder'
    BY <2>1, <2>7 DEF ListsInOrder
  <2> QED BY <2>5, <2>6, <2>8
<1>3. CASE FinishUnwritten
  <2>1. PICK ok \in BOOLEAN :
          /\ recorded' = IF ok THEN memory' ELSE recorded
          /\ service' = IF ok THEN "FAILED" ELSE "COMMITTING"
          /\ worker' = [worker EXCEPT !.answer = IF ok THEN "error" ELSE "rejected"]
    BY <1>3 DEF FinishUnwritten, Flush, Answer
  <2>2. /\ brain' \in {"COMPLETED", "FAILED"} /\ task' = NoTask
        /\ memory' = memory \cup {Request}
        /\ UNCHANGED <<succeeded, queue, cached, pending>>
        /\ service = "EXECUTING"
    BY <1>3 DEF FinishUnwritten, Finishing, Return
  <2>3. /\ recorded' \subseteq memory' /\ memory' \subseteq Requests
        /\ service' \in {"FAILED", "COMMITTING"}
    BY <1>1, <2>1, <2>2
  <2> DEFINE a == IF ok THEN "error" ELSE "rejected"
  <2>4. a \in Answers /\ ~TellsSuccess(a)
    BY DEF Answers, TellsSuccess
  <2>5. worker' = [worker EXCEPT !.answer = a]
    BY <2>1
  <2> HIDE DEF a
  <2>6. TypeOK' /\ TaskInHand' /\ CallersInOrder' /\ SuccessIsOnRecord' /\ ~Idle'
    BY <1>0, <1>1, <2>2, <2>3, <2>4, <2>5, EndKeeps
    DEF BrainStates, ServiceStates
  <2>7. ServiceInOrder'
    BY <2>2, <2>3 DEF ServiceInOrder
  <2>8. ListsInOrder'
    BY <1>1, <2>2, <2>3 DEF ListsInOrder
  <2> QED BY <2>6, <2>7, <2>8
<1>4. CASE FinishAfterShutdown
  <2>1. /\ recorded' \in {memory, recorded} /\ service = "SHUTTING_DOWN"
        /\ worker' = [worker EXCEPT !.answer = "rejected"]
        /\ brain' \in {"COMPLETED", "FAILED"} /\ task' = NoTask
        /\ UNCHANGED <<succeeded, service, queue, memory, cached, pending>>
    BY <1>4 DEF FinishAfterShutdown, Flush, Answer, Return
  <2>2. recorded' \subseteq memory
    BY <1>1, <2>1
  <2>3. TypeOK' /\ TaskInHand' /\ CallersInOrder' /\ SuccessIsOnRecord' /\ ~Idle'
    BY <1>0, <1>1, <2>1, <2>2, EndKeeps
    DEF BrainStates, ServiceStates, Answers, TellsSuccess
  <2>4. ServiceInOrder'
    BY <2>1 DEF ServiceInOrder
  <2>5. ListsInOrder'
    BY <1>1, <2>1, <2>2 DEF ListsInOrder
  <2> QED BY <2>3, <2>4, <2>5
<1> QED BY <1>2, <1>3, <1>4

\* A shutdown keeps it.
LEMMA StepShutdown == ASSUME IInv, shutdown PROVE IInv'
<1> USE DEF IInv
<1>1. /\ service \notin {"DOWN", "SHUTTING_DOWN"} /\ service' = "SHUTTING_DOWN"
      /\ queue' = <<>> /\ Len(queue') = 0
      /\ pending' = Settled({queue[i] : i \in DOMAIN queue})
      /\ recorded' = memory /\ task' = Cancelled(task)
      /\ UNCHANGED <<brain, succeeded, worker, memory, cached>>
  BY DEF shutdown, Flush
<1>2. /\ DOMAIN queue = 1 .. Len(queue)
      /\ worker \in [caller : Callers, answer : Answers \cup {"none"}] \cup {NoWork}
      /\ pending \in [Callers -> Requests \cup {NoRequest}]
      /\ task \in Task \cup {NoTask} /\ recorded \subseteq memory
  BY <1>1 DEF TypeOK, BrainTypeOK, ListsInOrder
<1>3. pending' \in [Callers -> Requests \cup {NoRequest}]
  BY <1>1, <1>2 DEF Settled
<1>4. ~Idle => Request' = Request /\ worker.caller \in Callers
               /\ pending'[worker.caller] = pending[worker.caller]
  <2> SUFFICES ASSUME ~Idle
               PROVE  /\ worker.caller \in Callers
                      /\ pending'[worker.caller] = pending[worker.caller]
    BY <1>1 DEF Request
  <2>1. worker.caller \in Callers
    BY <1>2 DEF Idle
  <2>2. worker.caller \notin {queue[i] : i \in DOMAIN queue}
    BY <1>2 DEF CallersInOrder
  <2> QED BY <1>1, <2>1, <2>2 DEF Settled
<1>5. /\ task' = NoTask <=> task = NoTask
      /\ task' \in Task \cup {NoTask}
      /\ task # NoTask =>
           /\ InOrder(task') /\ task'.request = task.request
           /\ task'.at = task.at /\ task'.success = task.success
  <2>1. CASE task = NoTask
    BY <1>1, <2>1, NoTaskIsNone DEF Cancelled, Waits
  <2>2. CASE task # NoTask
    BY <1>1, <2>2, CancelledInOrder, NoTaskIsNone DEF TaskInHand, InOrder
  <2> QED BY <2>1, <2>2
<1>6. TypeOK'
  <2>1. queue' \in Seq(Callers) /\ Len(queue') <= MaxQueueSize
    BY <1>1, QueueAssumption
  <2> QED BY <1>1, <1>2, <1>3, <1>5, <2>1
          DEF TypeOK, BrainTypeOK, ServiceStates
<1>7. Idle' = Idle
  BY <1>1 DEF Idle
<1>8. TaskInHand'
  BY <1>1, <1>4, <1>5, <1>7 DEF TaskInHand
<1>9. ServiceInOrder' /\ ListsInOrder'
  BY <1>1, <1>7 DEF ServiceInOrder, ListsInOrder
<1>10. CallersInOrder'
  BY <1>1, <1>4, <1>7 DEF CallersInOrder, Waiting
<1>11. SuccessIsOnRecord'
  <2>1. worker.answer # "none" => ~Idle
    BY DEF Idle, NoWork
  <2> QED BY <1>1, <1>2, <1>4, <2>1 DEF SuccessIsOnRecord, TellsSuccess
<1> QED BY <1>6, <1>8, <1>9, <1>10, <1>11

\* The end of the process and a new start keep it.
LEMMA StepStop == ASSUME IInv, LoseProcess \/ start PROVE IInv'
<1> USE DEF IInv
<1>1. CASE LoseProcess
  <2>1. /\ service' = "DOWN" /\ brain' = "STOPPED" /\ task' = NoTask
        /\ queue' = <<>> /\ Len(queue') = 0 /\ worker' = NoWork /\ memory' = {}
        /\ cached' = [r \in Requests |-> "none"]
        /\ pending' = Settled(Callers)
        /\ UNCHANGED <<succeeded, recorded>>
    BY <1>1 DEF LoseProcess
  <2>2. Idle' /\ worker'.answer = "none"
    BY <2>1 DEF Idle, NoWork
  <2>3. pending' \in [Callers -> Requests \cup {NoRequest}]
    BY <2>1 DEF Settled, TypeOK
  <2>4. queue' \in Seq(Callers) /\ Len(queue') <= MaxQueueSize
    BY <2>1, QueueAssumption
  <2>5. TypeOK'
    BY <2>1, <2>3, <2>4
    DEF TypeOK, BrainTypeOK, BrainStates, ServiceStates
  <2> QED
    BY <2>1, <2>2, <2>5
    DEF TaskInHand, ServiceInOrder, ListsInOrder, CallersInOrder,
        SuccessIsOnRecord, TellsSuccess
<1>2. CASE start
  <2>1. /\ service = "DOWN" /\ service' = "READY" /\ brain' = "IDLE"
        /\ memory' = recorded
        /\ UNCHANGED <<task, succeeded, queue, worker, recorded, cached, pending>>
    BY <1>2 DEF start
  <2>2. Idle /\ task = NoTask
    BY <2>1 DEF ServiceInOrder, TaskInHand
  <2>3. TypeOK'
    BY <2>1 DEF TypeOK, BrainTypeOK, BrainStates, ServiceStates
  <2>4. TaskInHand' /\ ServiceInOrder' /\ ListsInOrder' /\ CallersInOrder'
    BY <2>1, <2>2
    DEF TaskInHand, ServiceInOrder, ListsInOrder, CallersInOrder, Idle,
        TakesInput, Waiting
  <2>5. SuccessIsOnRecord'
    BY <2>1 DEF SuccessIsOnRecord, Request
  <2> QED BY <2>3, <2>4, <2>5
<1> QED BY <1>1, <1>2

\* Every step keeps the invariant.
LEMMA NextIInv == IInv /\ [Next]_vars => IInv'
<1> SUFFICES ASSUME IInv, [Next]_vars PROVE IInv'
  OBVIOUS
<1>1. CASE UNCHANGED vars
  BY <1>1
  DEF vars, brainVars, serviceVars, IInv, TypeOK, BrainTypeOK, TaskInHand,
      ServiceInOrder, ListsInOrder, CallersInOrder, SuccessIsOnRecord, Idle,
      Request, Waiting
<1> QED
  BY <1>1, StepAccept, StepEnqueue, StepHandOver, StepBackpressure, StepLoop,
     StepFinish, StepShutdown, StepStop
  DEF Next, ServiceStep, Exit, Crash

\* The invariant holds in every reachable state.
LEMMA InvariantHolds == Spec => []IInv
BY InitIInv, NextIInv, PTL DEF Spec

-----------------------------------------------------------------------------
(***************************************************************************)
(* The theorems                                                            *)
(***************************************************************************)

\* handleRequest, the queue, the worker, its recovery, shutdown and start keep
\* the types of the service and of the brain.
THEOREM TypeCorrect == Spec => []TypeOK
BY InvariantHolds, PTL DEF IInv

\* A failed tool, a failed verification and a cancellation, each by its own
\* test, bound how often BrainLoop.run starts a tool.
THEOREM RetriesEndHolds == Spec => []RetriesEnd
<1>1. IInv => RetriesEnd
  <2> SUFFICES ASSUME IInv, task # NoTask
               PROVE  /\ task.attempts <= MaxRecoveryDepth + 1
                      /\ task.cancelled => task.attempts <= task.attemptsAtCancel + 1
    BY DEF RetriesEnd
  <2>1. InOrder(task)
    BY DEF IInv, TaskInHand
  <2>2. task.attempts \in Nat /\ task.depth \in 0 .. MaxRecoveryDepth
    BY <2>1, LoopAssumption DEF InOrder, Task
  <2> QED BY <2>1, <2>2, LoopAssumption DEF InOrder
<1> QED BY <1>1, InvariantHolds, PTL

\* However a request ends, the service is READY only with a brain that takes
\* the next one.
THEOREM ReadyIsUsableHolds == Spec => []ReadyIsUsable
<1>1. IInv => ReadyIsUsable
  BY DEF IInv, TaskInHand, ServiceInOrder, ReadyIsUsable, AcceptsRequest, CanSubmit
<1> QED BY <1>1, InvariantHolds, PTL

\* A success is told, at the end of a task or for a request of the list, only
\* when the file has the request and no failure of it is cached; with the task's
\* own result, only if a task of the request succeeded.
THEOREM SuccessIsOnRecordHolds == Spec => []SuccessIsOnRecord
BY InvariantHolds, PTL DEF IInv

\* isRequestCompleted is asked in the same run of the code that starts the
\* task, and the list it reads has all that the file has.
THEOREM RecordedNeverRunsAgainHolds == Spec => RecordedNeverRunsAgain
<1> DEFINE Fresh == task'.at = "tool" /\ task.at # "tool" =>
                      task'.request \notin recorded
<1>1. IInv /\ [Next]_vars => Fresh
  <2> SUFFICES ASSUME IInv, [Next]_vars, task'.at = "tool", task.at # "tool"
               PROVE  task'.request \notin recorded
    OBVIOUS
  <2>1. ASSUME task # NoTask, task'.request = task.request
        PROVE  task'.request \notin recorded
    BY <2>1 DEF IInv, TaskInHand, ListsInOrder
  <2>2. CASE LoopRuns \/ Signalled
    <3>1. LoopStep \/ Signal
      BY <2>2 DEF LoopRuns, Signalled
    <3>2. task # NoTask
      BY <3>1, NoTaskIsNone
      DEF LoopStep, ModelAnswers, ToolFails, VerificationFails, Commit, Wake,
          Signal, cancelTask, pauseTask, resumeTask, Running, Waits
    <3>3. InOrder(task) /\ succeeded \subseteq Requests
      BY <3>2 DEF IInv, TaskInHand, TypeOK, BrainTypeOK
    <3> QED BY <2>1, <3>1, <3>2, <3>3, LoopFacts
  <2>3. CASE shutdown
    <3>1. task' = Cancelled(task)
      BY <2>3 DEF shutdown
    <3>2. task # NoTask => InOrder(task)
      BY DEF IInv, TaskInHand
    <3> QED BY <3>1, <3>2, CancelledInOrder, NoTaskIsNone DEF Cancelled, Waits
  <2>4. ASSUME NEW c \in Callers, NEW r \in Requests, Execute(c, r), task = NoTask
        PROVE  FALSE
    <3>1. task' = NoTask \/ task' = NewTask(r)
      BY <2>4, ExecuteTakes DEF Took
    <3> QED BY <3>1, NoTaskIsNone DEF NewTask
  <2>5. ~ \E c \in Callers, r \in Requests : Accept(c, r)
    BY <2>4 DEF Accept, IInv, TaskInHand
  <2>6. ~ HandOver
    <3> SUFFICES ASSUME HandOver PROVE FALSE
      OBVIOUS
    <3>1. task = NoTask
      BY DEF HandOver, IInv, TaskInHand
    <3>2. CASE queue = <<>>
      BY <3>2 DEF HandOver, brainVars
    <3>3. CASE queue # <<>>
      <4>1. Execute(Head(queue), pending[Head(queue)])
        BY <3>3 DEF HandOver
      <4>2. Len(queue) \in Nat /\ Len(queue) > 0 /\ Head(queue) = queue[1]
        BY <3>3 DEF IInv, TypeOK
      <4>3. /\ Head(queue) \in Callers /\ pending[Head(queue)] \in Requests
        BY <4>2, QueuedCallers DEF IInv, CallersInOrder, Waiting, TypeOK
      <4> QED BY <2>4, <3>1, <4>1, <4>3
    <3> QED BY <3>2, <3>3
  <2>7. task' # NoTask /\ task' # task
    BY NoTaskIsNone
  <2> QED
    BY <2>2, <2>3, <2>5, <2>6, <2>7
    DEF Next, ServiceStep, Enqueue, Backpressure, Finish, FinishUnwritten,
        FinishAfterShutdown, Return, Exit, Crash, LoseProcess, start, vars,
        brainVars
<1>2. IInv /\ [Next]_vars => [Fresh]_vars
  BY <1>1
<1> QED BY <1>2, InvariantHolds, PTL DEF Spec, RecordedNeverRunsAgain

=============================================================================
