---------------------- MODULE MultiStepExecution_proofs ----------------------
(***************************************************************************)
(* Proofs about the execution of tasks, for any number of steps, clients,  *)
(* leases, calls and adapters: first what one operation makes of the task, *)
(* then GovernedExecution (Spec), where steps are dispatched one by one,   *)
(* then MultiStepExecution (MultiStepSpec), where sessions dispatch them.  *)
(***************************************************************************)
EXTENDS MultiStepExecution, SequenceTheorems, FiniteSetTheorems,
        WellFoundedInduction, TLAPS

-----------------------------------------------------------------------------
(***************************************************************************)
(* The task                                                                *)
(***************************************************************************)

\* u may take the place of the stored record t: it is a later version, what
\* was COMPLETED stays so and no attempt is forgotten.
Succeeds(u, t) ==
  /\ u \in Task /\ u.version > t.version
  /\ \A s \in Steps : /\ t.steps[s] = "COMPLETED" => u.steps[s] = "COMPLETED"
                      /\ u.attemptCount[s] >= t.attemptCount[s]

\* What any step of either specification makes of the task.
TaskEvolves ==
  \/ UNCHANGED task
  \/ ~userStop /\ ~Exists /\ task' = NewTask
  \/ ~userStop /\ Exists /\ ~Terminal /\ Succeeds(task', task)

\* What submitTask stores is a task.
LEMMA NewTaskType == NewTask \in Task /\ NewTask # NoTask
<1>1. NewTask.version = 1 /\ NoTask.version = 0
  BY DEF NewTask, NoTask
<1>2. 1 \in 1..MaxVersion /\ 1 \in 1..(StepCount + 1)
  BY TaskAssumption
<1>3. NewTask \in Task
  BY <1>2 DEF NewTask, Task, TaskStates, StepStatuses
<1> QED BY <1>1, <1>3

\* A task is never the absent one.
LEMMA TaskIsNotNoTask == \A t \in Task : t # NoTask /\ t.version >= 1
BY TaskAssumption DEF Task, NoTask

\* updateStep: a step that is COMPLETED is not taken back, and the attempt is
\* counted when the step becomes RUNNING.
LEMMA StepUpdatedFacts ==
  ASSUME NEW t \in Task, NEW s, NEW status \in StepStatuses,
         StepUpdatable(t, s, status)
  PROVE  /\ s \in Steps /\ ~userStop
         /\ t.steps[s] # "COMPLETED" /\ t.state \notin TERMINAL_STATES
         /\ Succeeds(StepUpdated(t, s, status), t)
         /\ StepUpdated(t, s, status).state = t.state
<1> DEFINE u == StepUpdated(t, s, status)
<1>1. /\ s \in Steps /\ ~userStop /\ t.version < MaxVersion
      /\ status \in VALID_STEP_TRANSITIONS[t.steps[s]]
      /\ t.state \notin TERMINAL_STATES
  BY DEF StepUpdatable
<1>2. t.steps[s] # "COMPLETED"
  BY <1>1 DEF VALID_STEP_TRANSITIONS
<1>3. /\ u.state = t.state /\ u.version = t.version + 1
      /\ u.steps = [t.steps EXCEPT ![s] = status]
      /\ u.attemptCount = [t.attemptCount EXCEPT ![s] =
                             IF status = "RUNNING" THEN @ + 1 ELSE @]
  BY DEF Task, StepUpdated
<1>4. u \in Task
  <2>1. u.version \in 1..MaxVersion
    BY <1>1, <1>3, TaskAssumption DEF Task
  <2>2. u.attemptCount \in [Steps -> Nat]
    BY <1>1, <1>3 DEF Task
  <2>3. u.currentStepIndex \in 1..(StepCount + 1)
    BY <1>1, TaskAssumption DEF Task, StepUpdated, Steps
  <2>4. u.steps \in [Steps -> StepStatuses]
    BY <1>1, <1>3 DEF Task
  <2> QED BY <1>1, <2>1, <2>2, <2>3, <2>4 DEF Task, StepUpdated
<1>5. \A q \in Steps : /\ t.steps[q] = "COMPLETED" => u.steps[q] = "COMPLETED"
                       /\ u.attemptCount[q] >= t.attemptCount[q]
  BY <1>1, <1>2, <1>3 DEF Task
<1>6. u.version > t.version
  BY <1>3 DEF Task
<1> QED BY <1>1, <1>2, <1>3, <1>4, <1>5, <1>6 DEF Succeeds

\* updateTaskStep sets one step's status, and counts an attempt when it starts.
LEMMA StepUpdatedFields ==
  ASSUME NEW t \in Task, NEW s \in Steps, NEW status \in StepStatuses
  PROVE  /\ StepUpdated(t, s, status).steps = [t.steps EXCEPT ![s] = status]
         /\ status = "RUNNING" => StepUpdated(t, s, status).attemptCount[s]
                                    = t.attemptCount[s] + 1
BY DEF StepUpdated, Task

\* What one write of the task may do, two may do.
LEMMA SucceedsTransitive ==
  ASSUME NEW t \in Task, NEW u \in Task, NEW v \in Task,
         Succeeds(u, t), Succeeds(v, u)
  PROVE  Succeeds(v, t)
BY DEF Succeeds, Task

\* handleExecutionError writes nothing, or a step that is FAILED.
LEMMA MarkedFailedFacts ==
  ASSUME NEW t \in Task, NEW s, NEW u \in MarkedFailed(t, s)
  PROVE  \/ u = t
         \/ /\ Succeeds(u, t) /\ u.state = t.state /\ ~userStop
            /\ t.state \notin TERMINAL_STATES
<1>1. "FAILED" \in StepStatuses BY DEF StepStatuses
<1>2. CASE u = t
  BY <1>2
<1>3. CASE StepUpdatable(t, s, "FAILED") /\ u = StepUpdated(t, s, "FAILED")
  <2>1. /\ Succeeds(StepUpdated(t, s, "FAILED"), t) /\ ~userStop
        /\ StepUpdated(t, s, "FAILED").state = t.state
        /\ t.state \notin TERMINAL_STATES
    BY <1>1, <1>3, StepUpdatedFacts
  <2> QED BY <1>3, <2>1
<1> QED BY <1>2, <1>3 DEF MarkedFailed

\* transitionTask, rehydrate
LEMMA TransitionFacts ==
  ASSUME task \in Task, NEW to \in TaskStates, task.version < MaxVersion,
         task' = [task EXCEPT !.state = to, !.version = @ + 1]
  PROVE  Succeeds(task', task)
<1>1. task'.version \in 1..MaxVersion /\ task'.version > task.version
  BY TaskAssumption DEF Task
<1>2. task' \in Task
  BY <1>1 DEF Task
<1>3. task'.steps = task.steps /\ task'.attemptCount = task.attemptCount
  BY DEF Task
<1> QED BY <1>1, <1>2, <1>3 DEF Task, Succeeds

\* The three ways in which a worker writes the task.
LEMMA UpdateEvolves ==
  ASSUME TaskTypeOK, NEW s, NEW status \in StepStatuses,
         StepCanBecome(s, status), task' = StepUpdated(task, s, status)
  PROVE  TaskEvolves
<1>1. task \in Task /\ Exists
  BY DEF TaskTypeOK, StepCanBecome, StepUpdatable, Exists
<1>2. StepUpdatable(task, s, status)
  BY DEF StepCanBecome
<1>3. ~userStop /\ task.state \notin TERMINAL_STATES /\ Succeeds(task', task)
  BY <1>1, <1>2, StepUpdatedFacts
<1> QED BY <1>1, <1>3 DEF TaskEvolves, Terminal

\* Marking a step FAILED is a write that a task may see.
LEMMA MarkingEvolves ==
  ASSUME TaskTypeOK, NEW s, task' \in MarkedFailed(task, s)
  PROVE  TaskEvolves
<1>1. CASE Exists
  <2>1. task \in Task
    BY <1>1 DEF TaskTypeOK, Exists
  <2>2. \/ task' = task
        \/ Succeeds(task', task) /\ ~userStop /\ task.state \notin TERMINAL_STATES
    BY <2>1, MarkedFailedFacts
  <2> QED BY <1>1, <2>2 DEF TaskEvolves, Terminal
<1>2. CASE ~Exists
  BY <1>2 DEF Exists, MarkedFailed, StepUpdatable, TaskEvolves
<1> QED BY <1>1, <1>2

\* So is a step that is set RUNNING and marked FAILED in the same block.
LEMMA UpdateAndMarkingEvolve ==
  ASSUME TaskTypeOK, NEW s, StepCanBecome(s, "RUNNING"),
         task' \in MarkedFailed(StepUpdated(task, s, "RUNNING"), s)
  PROVE  TaskEvolves
<1> DEFINE u == StepUpdated(task, s, "RUNNING")
<1>1. task \in Task /\ Exists
  BY DEF TaskTypeOK, StepCanBecome, StepUpdatable, Exists
<1>2. StepUpdatable(task, s, "RUNNING") /\ "RUNNING" \in StepStatuses
  BY DEF StepCanBecome, StepStatuses
<1>3. ~userStop /\ task.state \notin TERMINAL_STATES /\ Succeeds(u, task)
  BY <1>1, <1>2, StepUpdatedFacts
<1>4. u \in Task
  BY <1>3 DEF Succeeds
<1>5. task' = u \/ Succeeds(task', u)
  BY <1>4, MarkedFailedFacts
<1>6. Succeeds(task', task)
  BY <1>1, <1>3, <1>4, <1>5, SucceedsTransitive DEF Succeeds
<1> QED BY <1>1, <1>3, <1>6 DEF TaskEvolves, Terminal

\* transitionTask is one.
LEMMA TransitionEvolves ==
  ASSUME TaskTypeOK, NEW to \in TaskStates, NEW v, transitionTask(to, v)
  PROVE  TaskEvolves
<1>1. task \in Task /\ Exists /\ ~userStop
  BY DEF TaskTypeOK, transitionTask, Exists
<1>2. ~Terminal
  BY <1>1 DEF transitionTask, Terminal, TERMINAL_STATES, VALID_TASK_TRANSITIONS
<1>3. Succeeds(task', task)
  BY <1>1, TransitionFacts DEF transitionTask
<1> QED BY <1>1, <1>2, <1>3 DEF TaskEvolves

\* The recovery at start is one.
LEMMA RehydrateEvolves == ASSUME TaskTypeOK, rehydrate PROVE TaskEvolves
<1>1. CASE task' = task
  BY <1>1 DEF TaskEvolves
<1>2. CASE task' # task
  <2>1. /\ Exists /\ task.state \in {"PLANNING", "EXECUTING"} /\ ~userStop
        /\ task.version < MaxVersion
        /\ task' = [task EXCEPT !.state = "PAUSED", !.version = @ + 1]
    BY <1>2 DEF rehydrate
  <2>2. task \in Task /\ "PAUSED" \in TaskStates
    BY <2>1 DEF TaskTypeOK, Exists, TaskStates
  <2>3. Succeeds(task', task)
    BY <2>1, <2>2, TransitionFacts
  <2> QED BY <2>1, <2>3 DEF TaskEvolves, Terminal, TERMINAL_STATES
<1> QED BY <1>1, <1>2

\* Every operation of the task runtime is one, or writes nothing.
LEMMA TaskStepEvolves == ASSUME TaskTypeOK, TaskStep PROVE TaskEvolves
<1>1. CASE createTask
  BY <1>1 DEF createTask, TaskEvolves
<1>2. CASE rehydrate
  BY <1>2, RehydrateEvolves
<1>3. ASSUME NEW c \in Clients, NEW to \in TaskStates, Decide(c, to)
      PROVE  TaskEvolves
  BY <1>3, TransitionEvolves DEF Decide
<1>4. CASE UNCHANGED task
  BY <1>4 DEF TaskEvolves
<1> QED BY <1>1, <1>2, <1>3, <1>4 DEF TaskStep, Look, ToggleUserStop

-----------------------------------------------------------------------------
(***************************************************************************)
(* The dispatches                                                          *)
(***************************************************************************)

\* A call that waits does so for a dispatch that took place.
CallsKnown == \A c \in Calls : Waiting(c) => calls[c].attempt \in DOMAIN attempts

\* No dispatch is added, and what each is for does not change.
SameDispatches ==
  /\ attempts' \in Seq(Attempt)
  /\ Len(attempts') = Len(attempts) /\ DOMAIN attempts' = DOMAIN attempts
  /\ \A a \in DOMAIN attempts : /\ attempts'[a].step = attempts[a].step
                                /\ attempts'[a].lease = attempts[a].lease

\* One dispatch is added.
OneMore(s, l) ==
  LET n == Len(attempts) + 1 IN
  /\ attempts' \in Seq(Attempt)
  /\ Len(attempts') = n
  /\ DOMAIN attempts' = DOMAIN attempts \cup {n} /\ n \notin DOMAIN attempts
  /\ \A a \in DOMAIN attempts : attempts'[a] = attempts[a]
  /\ attempts'[n] = [step |-> s, lease |-> l,
                     adapter |-> "running", report |-> "none"]

\* Without a dispatch the history of dispatches is the same.
LEMMA UnchangedDispatches ==
  ASSUME attempts \in Seq(Attempt), UNCHANGED attempts PROVE SameDispatches
BY DEF SameDispatches

\* A call that begins adds one dispatch, under its lease.
LEMMA BeginFacts ==
  ASSUME TypeOK, NEW c \in Calls, NEW s \in Steps, NEW l \in Leases,
         Begin(c, s, l)
  PROVE  /\ OneMore(s, l)
         /\ calls' \in [Calls -> Call]
         /\ calls'[c].attempt = Len(attempts) + 1
         /\ \A d \in Calls \ {c} : calls'[d] = calls[d]
<1> DEFINE e == [step |-> s, lease |-> l,
                 adapter |-> "running", report |-> "none"]
<1>1. attempts \in Seq(Attempt) /\ e \in Attempt
  BY DEF TypeOK, Attempt
<1>2. attempts' = Append(attempts, e)
  BY DEF Begin
<1>3. Len(attempts) \in Nat /\ DOMAIN attempts = 1..Len(attempts)
  BY <1>1, LenProperties
<1>4. /\ attempts' \in Seq(Attempt) /\ Len(attempts') = Len(attempts) + 1
      /\ \A a \in 1..Len(attempts) : attempts'[a] = attempts[a]
      /\ attempts'[Len(attempts) + 1] = e
  BY <1>1, <1>2, AppendProperties
<1>5. DOMAIN attempts' = 1..(Len(attempts) + 1)
  BY <1>4, LenProperties
<1>6. OneMore(s, l)
  BY <1>3, <1>4, <1>5 DEF OneMore
<1>7. [attempt |-> Len(attempts) + 1, sessionDoc |-> document] \in Call
  BY <1>3 DEF Call, TypeOK
<1> QED BY <1>6, <1>7 DEF Begin, TypeOK

\* A call reports on its own dispatch only.
LEMMA ReportFacts ==
  ASSUME attempts \in Seq(Attempt), NEW c \in Calls,
         calls[c].attempt \in DOMAIN attempts,
         NEW outcome \in {"success", "failure"}, Report(c, outcome)
  PROVE  /\ SameDispatches
         /\ \A a \in DOMAIN attempts :
              /\ attempts'[a].adapter = attempts[a].adapter
              /\ attempts'[a].report = IF a = calls[c].attempt THEN outcome
                                       ELSE attempts[a].report
<1> DEFINE n == calls[c].attempt
           e == [attempts[n] EXCEPT !.report = outcome]
<1>1. DOMAIN attempts = 1..Len(attempts) /\ attempts[n] \in Attempt
  BY LenProperties, ElementOfSeq
<1>2. /\ e \in Attempt
      /\ e.step = attempts[n].step /\ e.lease = attempts[n].lease
      /\ e.adapter = attempts[n].adapter /\ e.report = outcome
  BY <1>1 DEF Attempt
<1>3. attempts' = [attempts EXCEPT ![n] = e]
  BY DEF Report
<1> HIDE DEF n, e
<1>4. /\ attempts' \in Seq(Attempt) /\ Len(attempts') = Len(attempts)
      /\ \A a \in 1..Len(attempts) :
           attempts'[a] = IF a = n THEN e ELSE attempts[a]
  BY <1>1, <1>2, <1>3, ExceptSeq DEF n
<1>5. DOMAIN attempts' = DOMAIN attempts
  BY <1>1, <1>4, LenProperties
<1> QED BY <1>1, <1>2, <1>4, <1>5 DEF SameDispatches, n

\* An adapter that settles changes no report and undoes no work.
LEMMA SettleFacts ==
  ASSUME attempts \in Seq(Attempt), NEW a \in DOMAIN attempts, AdapterSettles(a)
  PROVE  /\ SameDispatches
         /\ \A b \in DOMAIN attempts :
              /\ attempts'[b].report = attempts[b].report
              /\ attempts[b].adapter = "done" => attempts'[b].adapter = "done"
<1>1. PICK result \in {"done", "failed"} :
        attempts' = [attempts EXCEPT ![a].adapter = result]
  BY DEF AdapterSettles
<1> DEFINE e == [attempts[a] EXCEPT !.adapter = result]
<1>2. DOMAIN attempts = 1..Len(attempts) /\ attempts[a] \in Attempt
  BY LenProperties, ElementOfSeq
<1>3. /\ e \in Attempt
      /\ e.step = attempts[a].step /\ e.lease = attempts[a].lease
      /\ e.report = attempts[a].report
  BY <1>2 DEF Attempt
<1>4. attempts' = [attempts EXCEPT ![a] = e]
  BY <1>1
<1> HIDE DEF e
<1>5. /\ attempts' \in Seq(Attempt) /\ Len(attempts') = Len(attempts)
      /\ \A b \in 1..Len(attempts) :
           attempts'[b] = IF b = a THEN e ELSE attempts[b]
  BY <1>2, <1>3, <1>4, ExceptSeq
<1>6. DOMAIN attempts' = DOMAIN attempts
  BY <1>2, <1>5, LenProperties
<1>7. attempts[a].adapter = "running"
  BY DEF AdapterSettles
<1> QED BY <1>2, <1>3, <1>5, <1>6, <1>7 DEF SameDispatches

\* A crash changes no report and undoes no work.
LEMMA CrashFacts ==
  ASSUME attempts \in Seq(Attempt), Crash
  PROVE  /\ SameDispatches
         /\ \A a \in DOMAIN attempts :
              /\ attempts'[a].report = attempts[a].report
              /\ attempts[a].adapter = "done" => attempts'[a].adapter = "done"
<1>1. /\ Len(attempts) \in Nat /\ DOMAIN attempts = 1..Len(attempts)
      /\ \A a \in 1..Len(attempts) : attempts[a] \in Attempt
  BY LenProperties, ElementOfSeq
<1>2. attempts' = [a \in 1..Len(attempts) |->
                     IF attempts[a].adapter = "running"
                     THEN [attempts[a] EXCEPT !.adapter = "lost"]
                     ELSE attempts[a]]
  BY <1>1 DEF Crash
<1>3. \A a \in 1..Len(attempts) :
        /\ attempts'[a] \in Attempt
        /\ attempts'[a].step = attempts[a].step
        /\ attempts'[a].lease = attempts[a].lease
        /\ attempts'[a].report = attempts[a].report
        /\ attempts[a].adapter = "done" => attempts'[a].adapter = "done"
  BY <1>1, <1>2 DEF Attempt
<1>4. attempts' \in [1..Len(attempts) -> Attempt]
  BY <1>2, <1>3
<1>5. attempts' \in Seq(Attempt)
  BY <1>1, <1>4, SeqDef
<1>6. DOMAIN attempts' = DOMAIN attempts /\ Len(attempts') = Len(attempts)
  BY <1>1, <1>4, <1>5, LenProperties
<1> QED BY <1>1, <1>3, <1>5, <1>6 DEF SameDispatches

-----------------------------------------------------------------------------
(***************************************************************************)
(* GovernedExecution: the inductive invariant                              *)
(***************************************************************************)

\* What a client has seen is not of the future; and nothing but the stored
\* task has the stored task's version.
SeenIsPast ==
  \A c \in Clients : /\ seen[c].version <= task.version
                     /\ seen[c].version = task.version => seen[c] = task

\* A lease under which a step was dispatched is spent for good.
UsedIsSpent ==
  \A a \in DOMAIN attempts : leases[attempts[a].lease].status = "spent"

NothingBeforeTask == ~Exists => attempts = <<>>

IInv ==
  /\ TypeOK
  /\ CallsKnown
  /\ SeenIsPast
  /\ UsedIsSpent
  /\ NothingBeforeTask
  /\ OneDispatchPerLease
  /\ SuccessIsUniqueAndReal
  /\ EveryDispatchCounted

\* The program starts with no task and no dispatch.
LEMMA InitIInv == Init => IInv
<1> SUFFICES ASSUME Init PROVE IInv
  OBVIOUS
<1>1. attempts = <<>> /\ DOMAIN attempts = {} /\ task = NoTask
  BY DEF Init, TaskInit, WorkerInit
<1>2. TaskTypeOK
  BY DEF Init, TaskInit, TaskTypeOK
<1>3. LeaseTypeOK
  BY DEF Init, WorkerInit, LeasesInit, LeaseTypeOK
<1>4. document \in Document /\ calls \in [Calls -> Call]
  BY DEF Init, WorkerInit, Document, Call, NoCall
<1>5. attempts \in Seq(Attempt)
  BY <1>1, EmptySeq
<1>6. CallsKnown
  BY DEF Init, WorkerInit, CallsKnown, Waiting
<1>7. SeenIsPast
  BY DEF Init, TaskInit, SeenIsPast, NoTask
<1>8. UsedIsSpent /\ NothingBeforeTask /\ OneDispatchPerLease
      /\ SuccessIsUniqueAndReal /\ EveryDispatchCounted
  BY <1>1 DEF UsedIsSpent, NothingBeforeTask, OneDispatchPerLease,
              SuccessIsUniqueAndReal, EveryDispatchCounted, Exists
<1> QED
  BY <1>2, <1>3, <1>4, <1>5, <1>6, <1>7, <1>8 DEF IInv, TypeOK

\* Every step makes of the task what TaskEvolves says.
LEMMA NextEvolves == ASSUME TypeOK, [Next]_vars PROVE TaskEvolves
<1> USE DEF TypeOK
<1>0. {"RUNNING", "COMPLETED"} \subseteq StepStatuses
  BY DEF StepStatuses
<1>1. CASE TaskStep /\ UNCHANGED workerVars
  BY <1>1, TaskStepEvolves
<1>2. ASSUME NEW s \in Steps, NEW l \in Leases, Refuse(s, l)
      PROVE  TaskEvolves
  BY <1>2, MarkingEvolves DEF Refuse
<1>3. ASSUME NEW l \in Leases, RefuseUnaudited(l)
      PROVE  TaskEvolves
  BY <1>3, UpdateAndMarkingEvolve DEF RefuseUnaudited
<1>4. ASSUME NEW c \in Calls, NEW l \in Leases, Dispatch(c, l)
      PROVE  TaskEvolves
  BY <1>0, <1>4, UpdateEvolves DEF Dispatch, Begin
<1>5. ASSUME NEW c \in Calls, Complete(c) \/ CompleteUnsaved(c)
      PROVE  TaskEvolves
  BY <1>0, <1>5, UpdateEvolves DEF Complete, CompleteUnsaved
<1>6. ASSUME NEW c \in Calls, Fail(c)
      PROVE  TaskEvolves
  BY <1>6, MarkingEvolves DEF Fail
<1>7. CASE UNCHANGED task
  BY <1>7 DEF TaskEvolves
<1> QED
  BY <1>1, <1>2, <1>3, <1>4, <1>5, <1>6, <1>7
  DEF Next, AdapterSettles, Crash, vars, taskVars

\* A task that evolves is still a task.
LEMMA EvolvedType ==
  ASSUME TaskTypeOK, TaskEvolves PROVE task' \in Task \cup {NoTask}
BY NewTaskType DEF TaskTypeOK, TaskEvolves, Succeeds

\* Every step leaves a task, or none.
LEMMA NextTaskType == ASSUME TypeOK, [Next]_vars PROVE TaskTypeOK'
<1>1. task' \in Task \cup {NoTask}
  BY NextEvolves, EvolvedType DEF TypeOK
<1>2. seen' \in [Clients -> Task \cup {NoTask}]
  BY <1>1 DEF TypeOK, TaskTypeOK, Next, TaskStep, Decide, Look, ToggleUserStop,
     workerVars, taskVars, vars, Refuse, RefuseUnaudited, Dispatch, Begin,
     AdapterSettles, Complete, CompleteUnsaved, Fail, Crash
<1>3. userStop' \in BOOLEAN
  BY DEF TypeOK, TaskTypeOK, Next, TaskStep, Decide, Look, ToggleUserStop,
     workerVars, taskVars, vars, Refuse, RefuseUnaudited, Dispatch, Begin,
     AdapterSettles, Complete, CompleteUnsaved, Fail, Crash
<1> QED BY <1>1, <1>2, <1>3 DEF TaskTypeOK

\* A lease that is spent stays so; a dispatch spends one that was active.
LEMMA NextLeases ==
  ASSUME TypeOK, [Next]_vars
  PROVE  /\ LeaseTypeOK'
         /\ \A l \in Leases : leases[l].status = "spent" =>
                                leases'[l].status = "spent"
<1> USE DEF TypeOK, LeaseTypeOK, Consumable, Consumed, Spent, Fresh
<1>1. CASE Manage
  BY <1>1 DEF Manage, issueLease, Expire, invalidateLeasesForSession
<1>2. ASSUME NEW l \in Leases, leases' = Consumed(l)
      PROVE  /\ LeaseTypeOK'
             /\ \A k \in Leases : leases[k].status = "spent" =>
                                    leases'[k].status = "spent"
  BY <1>2
<1>3. CASE Crash
  BY <1>3 DEF Crash, Forgotten
<1>4. CASE UNCHANGED leases
  BY <1>4
<1> QED
  BY <1>1, <1>2, <1>3, <1>4
  DEF Next, Refuse, RefuseUnaudited, Dispatch, Complete, CompleteUnsaved,
      Fail, AdapterSettles, vars, workerVars

\* What the steps do to the dispatches.
Reports(c, outcome) ==
  \A a \in DOMAIN attempts :
    /\ attempts'[a].adapter = attempts[a].adapter
    /\ attempts'[a].report = IF a = calls[c].attempt THEN outcome
                             ELSE attempts[a].report

Works ==
  \A a \in DOMAIN attempts :
    /\ attempts'[a].report = attempts[a].report
    /\ attempts[a].adapter = "done" => attempts'[a].adapter = "done"

\* A step adds a dispatch, reports on one, lets an adapter work, or leaves the
\* dispatches alone.
LEMMA NextDispatches ==
  ASSUME TypeOK, CallsKnown, [Next]_vars
  PROVE  \/ SameDispatches /\ Works
         \/ \E c \in Calls : (CompleteUnsaved(c) \/ Fail(c))
              /\ SameDispatches /\ Reports(c, "failure")
         \/ \E c \in Calls : Complete(c) /\ SameDispatches /\ Reports(c, "success")
         \/ \E c \in Calls, l \in Leases :
              Dispatch(c, l) /\ OneMore(leases[l].step, l)
<1> USE DEF TypeOK
<1>1. ASSUME NEW c \in Calls, NEW l \in Leases, Dispatch(c, l)
      PROVE  OneMore(leases[l].step, l)
  <2>1. leases[l].step \in Steps
    BY <1>1 DEF Dispatch, Begin, StepCanBecome, StepUpdatable
  <2> QED BY <1>1, <2>1, BeginFacts DEF Dispatch
<1>2. ASSUME NEW c \in Calls, Complete(c)
      PROVE  SameDispatches /\ Reports(c, "success")
  BY <1>2, ReportFacts DEF Complete, Answered, CallsKnown, Reports
<1>3. ASSUME NEW c \in Calls, CompleteUnsaved(c) \/ Fail(c)
      PROVE  SameDispatches /\ Reports(c, "failure")
  BY <1>3, ReportFacts
  DEF CompleteUnsaved, Fail, Answered, CallsKnown, Reports
<1>4. ASSUME NEW a \in DOMAIN attempts, AdapterSettles(a)
      PROVE  SameDispatches /\ Works
  BY <1>4, SettleFacts DEF Works
<1>5. CASE Crash
  BY <1>5, CrashFacts DEF Works
<1>6. CASE UNCHANGED attempts
  BY <1>6, UnchangedDispatches DEF Works
<1> QED
  BY <1>1, <1>2, <1>3, <1>4, <1>5, <1>6
  DEF Next, Refuse, RefuseUnaudited, vars, workerVars

\* Every step keeps a call's dispatch in the history.
LEMMA NextCalls ==
  ASSUME TypeOK, CallsKnown, [Next]_vars
  PROVE  /\ document' \in Document /\ calls' \in [Calls -> Call]
         /\ CallsKnown'
<1> USE DEF TypeOK, CallsKnown
<1>1. NoCall \in Call
  BY DEF NoCall, Call, Document
<1>2. DOMAIN attempts \subseteq DOMAIN attempts'
  BY NextDispatches DEF SameDispatches, OneMore
<1>3. ASSUME NEW c \in Calls, NEW l \in Leases, Dispatch(c, l)
      PROVE  /\ document' \in Document /\ calls' \in [Calls -> Call]
             /\ CallsKnown'
  <2>1. leases[l].step \in Steps
    BY <1>3 DEF Dispatch, Begin, StepCanBecome, StepUpdatable
  <2>2. /\ OneMore(leases[l].step, l) /\ calls' \in [Calls -> Call]
        /\ calls'[c].attempt = Len(attempts) + 1
        /\ \A d \in Calls \ {c} : calls'[d] = calls[d]
    BY <1>3, <2>1, BeginFacts DEF Dispatch
  <2> QED BY <1>3, <2>2 DEF OneMore, Waiting, Dispatch, Begin
<1>4. ASSUME NEW c \in Calls, Hangup(c)
      PROVE  calls' \in [Calls -> Call] /\ CallsKnown'
  BY <1>1, <1>2, <1>4 DEF Hangup, Waiting
<1>5. ASSUME NEW c \in Calls, Complete(c)
      PROVE  document' \in Document
  <2>1. calls[c].sessionDoc \in Document /\ calls[c].attempt \in Nat
    BY DEF Call
  <2> QED BY <1>5, <2>1 DEF Complete, SavedDocument, Document
<1>6. CASE UNCHANGED <<calls, document>>
  BY <1>2, <1>6 DEF Waiting
<1>7. CASE Crash
  BY <1>1, <1>2, <1>7 DEF Crash, Waiting
<1> QED
  BY <1>3, <1>4, <1>5, <1>6, <1>7
  DEF Next, Complete, CompleteUnsaved, Fail, Refuse, RefuseUnaudited,
      AdapterSettles, vars, workerVars

\* Every step keeps the types.
LEMMA NextType == ASSUME TypeOK, CallsKnown, [Next]_vars PROVE TypeOK'
<1>1. attempts' \in Seq(Attempt)
  BY NextDispatches DEF SameDispatches, OneMore
<1> QED
  BY <1>1, NextTaskType, NextLeases, NextCalls DEF TypeOK

\* Clients fall behind the task, and never get ahead of it.
LEMMA NextSeen ==
  ASSUME TypeOK, SeenIsPast, [Next]_vars PROVE SeenIsPast'
<1>1. \/ task' = task
      \/ task = NoTask /\ task' = NewTask
      \/ task \in Task /\ task' \in Task /\ task'.version > task.version
  BY NextEvolves DEF TaskEvolves, Succeeds, TypeOK, TaskTypeOK, Exists
<1>2. task' = task \/ task'.version > task.version
  BY <1>1 DEF NewTask, NoTask
<1>3. \A c \in Clients : seen'[c] \in {seen[c], task, task'}
  BY DEF TypeOK, TaskTypeOK, Next, TaskStep, Decide, Look, ToggleUserStop,
     workerVars, taskVars, vars, Refuse, RefuseUnaudited, Dispatch, Begin,
     AdapterSettles, Complete, CompleteUnsaved, Fail, Crash
<1>4. /\ task.version \in Nat /\ task'.version \in Nat
      /\ \A c \in Clients : seen[c].version \in Nat
  BY NextTaskType, TaskAssumption DEF TypeOK, TaskTypeOK, Task, NoTask
<1> QED BY <1>2, <1>3, <1>4 DEF SeenIsPast

\* A lease that a dispatch used is spent: no later dispatch gets it.
LEMMA NextUsed ==
  ASSUME TypeOK, CallsKnown, UsedIsSpent, OneDispatchPerLease, [Next]_vars
  PROVE  UsedIsSpent' /\ OneDispatchPerLease'
<1>1. \A a \in DOMAIN attempts : attempts[a] \in Attempt
  BY ElementOfSeq, LenProperties DEF TypeOK
<1>2. \A a \in DOMAIN attempts : attempts[a].lease \in Leases
  BY <1>1 DEF Attempt
<1>3. CASE SameDispatches
  BY <1>2, <1>3, NextLeases DEF SameDispatches, UsedIsSpent, OneDispatchPerLease
<1>4. ASSUME NEW c \in Calls, NEW l \in Leases,
             Dispatch(c, l), OneMore(leases[l].step, l)
      PROVE  UsedIsSpent' /\ OneDispatchPerLease'
  <2> DEFINE n == Len(attempts) + 1
  <2>1. /\ DOMAIN attempts' = DOMAIN attempts \cup {n} /\ n \notin DOMAIN attempts
        /\ \A a \in DOMAIN attempts : attempts'[a] = attempts[a]
        /\ attempts'[n].lease = l
    BY <1>4 DEF OneMore
  <2>2. /\ leases[l].status # "spent" /\ leases'[l].status = "spent"
    BY <1>4 DEF Dispatch, Consumable, Consumed, Spent, TypeOK, LeaseTypeOK
  <2> HIDE DEF n
  <2>3. \A a \in DOMAIN attempts : attempts[a].lease # l
    BY <2>2 DEF UsedIsSpent
  <2>4. UsedIsSpent'
    BY <1>2, <2>1, <2>2, NextLeases DEF UsedIsSpent
  <2> QED BY <2>1, <2>3, <2>4 DEF OneDispatchPerLease
<1> QED BY <1>3, <1>4, NextDispatches

\* A task appears with no dispatch, and only a task that is there has any.
LEMMA NextBefore ==
  ASSUME TypeOK, CallsKnown, NothingBeforeTask, [Next]_vars
  PROVE  NothingBeforeTask'
<1>1. Exists => Exists'
  BY NextEvolves, TaskIsNotNoTask, NewTaskType
  DEF TaskEvolves, Exists, Succeeds
<1>2. CASE SameDispatches
  <2>1. ~Exists => attempts' = <<>>
    BY <1>2, EmptySeq, LenProperties DEF SameDispatches, NothingBeforeTask
  <2> QED BY <1>1, <2>1 DEF NothingBeforeTask
<1>3. ASSUME NEW c \in Calls, NEW l \in Leases, Dispatch(c, l)
      PROVE  Exists
  BY <1>3 DEF Dispatch, Begin, StepCanBecome, StepUpdatable, Exists
<1> QED BY <1>1, <1>2, <1>3, NextDispatches DEF NothingBeforeTask

\* What Complete(c) sets: only a step that is not COMPLETED yet becomes so.
LEMMA CompleteFacts ==
  ASSUME TypeOK, CallsKnown, NEW c \in Calls, Complete(c)
  PROVE  /\ calls[c].attempt \in DOMAIN attempts
         /\ AttemptOf(c).step \in Steps
         /\ task.steps[AttemptOf(c).step] # "COMPLETED"
         /\ task'.steps[AttemptOf(c).step] = "COMPLETED"
         /\ AttemptOf(c).adapter = "done"
<1> DEFINE s == AttemptOf(c).step
<1>1. /\ StepUpdatable(task, s, "COMPLETED") /\ Exists
      /\ task' = StepUpdated(task, s, "COMPLETED")
      /\ AttemptOf(c).adapter = "done" /\ Waiting(c)
  BY DEF Complete, StepCanBecome, StepUpdatable, Exists, Answered
<1>2. task \in Task /\ "COMPLETED" \in StepStatuses
  BY <1>1 DEF TypeOK, TaskTypeOK, Exists, StepStatuses
<1>3. s \in Steps /\ task.steps[s] # "COMPLETED"
  BY <1>1, <1>2, StepUpdatedFacts
<1>4. task'.steps = [task.steps EXCEPT ![s] = "COMPLETED"]
  BY <1>1, <1>2, <1>3, StepUpdatedFields
<1>5. task'.steps[s] = "COMPLETED"
  BY <1>2, <1>3, <1>4 DEF Task
<1> QED BY <1>1, <1>3, <1>5 DEF CallsKnown

\* A report of success is the first for its step and comes after its adapter's
\* work.
LEMMA NextSuccess ==
  ASSUME TypeOK, CallsKnown, NothingBeforeTask, SuccessIsUniqueAndReal,
         [Next]_vars
  PROVE  SuccessIsUniqueAndReal'
<1>1. \A a \in DOMAIN attempts : attempts[a] \in Attempt
  BY ElementOfSeq, LenProperties DEF TypeOK
<1>2. \A a \in DOMAIN attempts : attempts[a].step \in Steps
  BY <1>1 DEF Attempt
<1>3. ASSUME NEW s \in Steps, Exists, task.steps[s] = "COMPLETED"
      PROVE  task'.steps[s] = "COMPLETED"
  BY <1>3, NextEvolves DEF TaskEvolves, Succeeds
<1>4. ASSUME NEW a \in DOMAIN attempts PROVE Exists
  BY LenProperties, <1>4 DEF NothingBeforeTask
<1>5. CASE SameDispatches /\ Works
  BY <1>2, <1>3, <1>4, <1>5 DEF SameDispatches, Works, SuccessIsUniqueAndReal
<1>6. ASSUME NEW c \in Calls, SameDispatches, Reports(c, "failure")
      PROVE  SuccessIsUniqueAndReal'
  BY <1>2, <1>3, <1>4, <1>6
  DEF SameDispatches, Reports, SuccessIsUniqueAndReal
<1>7. ASSUME NEW c \in Calls, Complete(c), SameDispatches, Reports(c, "success")
      PROVE  SuccessIsUniqueAndReal'
  <2> DEFINE n == calls[c].attempt
  <2>1. /\ n \in DOMAIN attempts /\ attempts[n].adapter = "done"
        /\ task.steps[attempts[n].step] # "COMPLETED"
        /\ task'.steps[attempts[n].step] = "COMPLETED"
    BY <1>7, CompleteFacts DEF AttemptOf
  <2>2. \A b \in DOMAIN attempts : attempts[b].step = attempts[n].step
          => attempts[b].report # "success"
    BY <2>1 DEF SuccessIsUniqueAndReal
  <2>3. /\ DOMAIN attempts' = DOMAIN attempts
        /\ \A a \in DOMAIN attempts :
             /\ attempts'[a].step = attempts[a].step
             /\ attempts'[a].adapter = attempts[a].adapter
             /\ attempts'[a].report = IF a = n THEN "success"
                                      ELSE attempts[a].report
    BY <1>7 DEF SameDispatches, Reports
  <2> HIDE DEF n
  <2> QED BY <1>2, <1>3, <1>4, <2>1, <2>2, <2>3 DEF SuccessIsUniqueAndReal
<1>8. ASSUME NEW s, NEW l, OneMore(s, l) PROVE SuccessIsUniqueAndReal'
  <2> DEFINE n == Len(attempts) + 1
  <2>1. /\ DOMAIN attempts' = DOMAIN attempts \cup {n} /\ n \notin DOMAIN attempts
        /\ \A a \in DOMAIN attempts : attempts'[a] = attempts[a]
        /\ attempts'[n].report = "none"
    BY <1>8 DEF OneMore
  <2> HIDE DEF n
  <2> QED BY <1>2, <1>3, <1>4, <2>1 DEF SuccessIsUniqueAndReal
<1> QED BY <1>5, <1>6, <1>7, <1>8, NextDispatches

\* The dispatches of step s.
Of(s) == {a \in DOMAIN attempts : attempts[a].step = s}

\* The dispatches of a step can be counted.
LEMMA OfIsFinite ==
  ASSUME attempts \in Seq(Attempt), NEW s
  PROVE  IsFiniteSet(Of(s)) /\ Cardinality(Of(s)) \in Nat
<1>1. DOMAIN attempts = 1..Len(attempts) /\ Len(attempts) \in Nat
  BY LenProperties
<1>2. IsFiniteSet(DOMAIN attempts)
  BY <1>1, FS_Interval
<1>3. Of(s) \subseteq DOMAIN attempts
  BY DEF Of
<1> QED BY <1>2, <1>3, FS_Subset, FS_CardinalityType

\* A step that becomes RUNNING has one attempt more.
LEMMA BeginCounts ==
  ASSUME TypeOK, NEW s \in Steps, StepCanBecome(s, "RUNNING"),
         task' = StepUpdated(task, s, "RUNNING")
  PROVE  Exists /\ task'.attemptCount[s] = task.attemptCount[s] + 1
<1>1. task \in Task /\ "RUNNING" \in StepStatuses
  BY DEF StepCanBecome, StepUpdatable, TypeOK, TaskTypeOK, StepStatuses
<1> QED
  BY <1>1, StepUpdatedFields DEF StepCanBecome, StepUpdatable, Exists

\* A dispatch raises both the history's count and the task's.
LEMMA OneMoreCounted ==
  ASSUME TypeOK, EveryDispatchCounted, TaskEvolves, NEW s \in Steps, NEW l,
         OneMore(s, l), StepCanBecome(s, "RUNNING"),
         task' = StepUpdated(task, s, "RUNNING")
  PROVE  EveryDispatchCounted'
<1> DEFINE n == Len(attempts) + 1
<1>1. /\ DOMAIN attempts' = DOMAIN attempts \cup {n} /\ n \notin DOMAIN attempts
      /\ \A a \in DOMAIN attempts : attempts'[a] = attempts[a]
      /\ attempts'[n].step = s
  BY DEF OneMore
<1> HIDE DEF n
<1>2. /\ Of(s)' = Of(s) \cup {n} /\ n \notin Of(s)
      /\ \A q \in Steps \ {s} : Of(q)' = Of(q)
  BY <1>1 DEF Of
<1>3. \A q \in Steps : IsFiniteSet(Of(q)) /\ Cardinality(Of(q)) \in Nat
  BY OfIsFinite DEF TypeOK
<1>4. Cardinality(Of(s)') = Cardinality(Of(s)) + 1
  BY <1>2, <1>3, FS_AddElement
<1>5. Exists /\ task'.attemptCount[s] = task.attemptCount[s] + 1
  BY BeginCounts
<1>6. task \in Task /\ task' \in Task
  BY <1>5, EvolvedType DEF TypeOK, TaskTypeOK, Exists, TaskEvolves, Succeeds
<1>7. \A q \in Steps : /\ Cardinality(Of(q)) <= task.attemptCount[q]
                       /\ task'.attemptCount[q] >= task.attemptCount[q]
  BY <1>5, <1>6 DEF EveryDispatchCounted, Of, TaskEvolves, Succeeds, Task
<1>8. \A q \in Steps : /\ task.attemptCount[q] \in Nat
                       /\ task'.attemptCount[q] \in Nat
  BY <1>6 DEF Task
<1>9. \A q \in Steps : Cardinality(Of(q)') <= task'.attemptCount[q]
  <2> TAKE q \in Steps
  <2>1. CASE q = s
    BY <1>3, <1>4, <1>5, <1>7, <1>8, <2>1
  <2>2. CASE q # s
    BY <1>2, <1>3, <1>7, <1>8, <2>2
  <2> QED BY <2>1, <2>2
<1> QED BY <1>9 DEF EveryDispatchCounted, Of

\* Where nothing is dispatched, the task's count of attempts does not fall.
LEMMA SameCounted ==
  ASSUME TypeOK, NothingBeforeTask, EveryDispatchCounted, TaskEvolves,
         SameDispatches
  PROVE  EveryDispatchCounted'
<1>1. \A q \in Steps : Of(q)' = Of(q)
  BY DEF SameDispatches, Of
<1>2. \A q \in Steps : Cardinality(Of(q)) \in Nat
  BY OfIsFinite DEF TypeOK
<1>3. CASE Exists
  <2>1. task \in Task
    BY <1>3 DEF TypeOK, TaskTypeOK, Exists
  <2>2. \A q \in Steps : /\ Cardinality(Of(q)) <= task.attemptCount[q]
                         /\ task'.attemptCount[q] >= task.attemptCount[q]
    BY <1>3, <2>1 DEF EveryDispatchCounted, Of, TaskEvolves, Succeeds, Task
  <2>3. task' \in Task
    BY <1>3, <2>1 DEF TaskEvolves, Succeeds
  <2>4. \A q \in Steps : Cardinality(Of(q)') <= task'.attemptCount[q]
    BY <1>1, <1>2, <2>1, <2>2, <2>3 DEF Task
  <2> QED BY <2>4 DEF EveryDispatchCounted, Of
<1>4. CASE ~Exists
  <2>1. DOMAIN attempts = {}
    BY <1>4, LenProperties DEF NothingBeforeTask
  <2>2. \A q \in Steps : Of(q)' = {}
    BY <1>1, <2>1 DEF Of
  <2>3. Exists' => task' = NewTask
    BY <1>4 DEF TaskEvolves, Exists
  <2>4. \A q \in Steps : NewTask.attemptCount[q] = 0
    BY DEF NewTask
  <2>5. Exists' => \A q \in Steps : Cardinality(Of(q)') <= task'.attemptCount[q]
    BY <2>2, <2>3, <2>4, FS_EmptySet
  <2> QED BY <2>5 DEF EveryDispatchCounted, Of
<1> QED BY <1>3, <1>4

\* Every step keeps the dispatches counted in the task.
LEMMA NextCounted ==
  ASSUME TypeOK, CallsKnown, NothingBeforeTask, EveryDispatchCounted,
         [Next]_vars
  PROVE  EveryDispatchCounted'
<1>1. ASSUME NEW c \in Calls, NEW l \in Leases,
             Dispatch(c, l), OneMore(leases[l].step, l)
      PROVE  EveryDispatchCounted'
  <2> DEFINE s == leases[l].step
  <2>1. s \in Steps /\ StepCanBecome(s, "RUNNING")
        /\ task' = StepUpdated(task, s, "RUNNING")
    BY <1>1 DEF Dispatch, Begin, StepCanBecome, StepUpdatable
  <2> HIDE DEF s
  <2> QED BY <1>1, <2>1, NextEvolves, OneMoreCounted DEF s
<1> QED BY <1>1, NextEvolves, SameCounted, NextDispatches

\* Every step keeps the worker's invariant.
LEMMA NextIInv == IInv /\ [Next]_vars => IInv'
BY NextType, NextCalls, NextSeen, NextUsed, NextBefore, NextSuccess, NextCounted
DEF IInv

\* The worker's invariant holds in every reachable state.
LEMMA InvariantHolds == Spec => []IInv
BY InitIInv, NextIInv, PTL DEF Spec

-----------------------------------------------------------------------------
(***************************************************************************)
(* GovernedExecution: the theorems                                         *)
(***************************************************************************)

\* The worker's variables, and those of the task under it, keep their types:
\* no operation writes a record that another cannot read.
THEOREM TypeCorrect == Spec => []TypeOK
BY InvariantHolds, PTL DEF IInv

\* executeTaskStep, whoever calls it and however often, dispatches once under
\* a lease.
THEOREM OneDispatchPerLeaseHolds == Spec => []OneDispatchPerLease
BY InvariantHolds, PTL DEF IInv

\* The success of executeTaskStep is reported once at most for each step, and
\* for a step that is done.
THEOREM SuccessIsUniqueAndRealHolds == Spec => []SuccessIsUniqueAndReal
BY InvariantHolds, PTL DEF IInv

\* attemptCount never falls behind the dispatches.
THEOREM EveryDispatchCountedHolds == Spec => []EveryDispatchCounted
BY InvariantHolds, PTL DEF IInv

\* The version check of transitionTask lets through only the clients that have
\* looked at the task as it is.
THEOREM SameVersionSameTaskHolds == Spec => []SameVersionSameTask
<1>1. IInv => SameVersionSameTask
  BY DEF IInv, SeenIsPast, SameVersionSameTask
<1> QED BY <1>1, InvariantHolds, PTL

\* The stop and the end of a task hold back every writer: the operations of
\* the runtime, the worker before its dispatch and after its adapter, and the
\* recovery.
THEOREM FrozenStaysFrozenHolds == Spec => FrozenStaysFrozen
<1> DEFINE Frozen == /\ userStop => UNCHANGED <<task, document>>
                     /\ Exists /\ Terminal => UNCHANGED task
                     /\ userStop \/ (Exists /\ Terminal)
                          => Len(attempts') = Len(attempts)
<1>1. IInv /\ [Next]_vars => Frozen
  <2> SUFFICES ASSUME IInv, [Next]_vars PROVE Frozen
    OBVIOUS
  <2>1. TaskEvolves
    BY NextEvolves DEF IInv
  <2>2. userStop => UNCHANGED document
    BY DEF Next, Refuse, RefuseUnaudited, Dispatch, Begin, Complete, Answered,
       CompleteUnsaved, Fail, AdapterSettles, Crash, vars, workerVars
  <2>3. ASSUME NEW c \in Calls, NEW l \in Leases, Dispatch(c, l)
        PROVE  ~userStop /\ ~Terminal
    BY <2>3 DEF Dispatch, Begin, StepCanBecome, StepUpdatable, Terminal
  <2>4. userStop \/ (Exists /\ Terminal) => Len(attempts') = Len(attempts)
    BY <2>3, NextDispatches DEF IInv, SameDispatches
  <2> QED BY <2>1, <2>2, <2>4 DEF TaskEvolves
<1>2. IInv /\ [Next]_vars => [Frozen]_vars
  BY <1>1
<1> QED
  BY <1>2, InvariantHolds, PTL DEF Spec, FrozenStaysFrozen

-----------------------------------------------------------------------------
(***************************************************************************)
(* MultiStepExecution: its steps, seen from the worker and the task        *)
(***************************************************************************)

\* A set of natural numbers has a smallest member.
LEMMA Minimum ==
  ASSUME NEW S \in SUBSET Nat, S # {}
  PROVE  \E s \in S : \A t \in S : s <= t
<1>1. PICK s \in S : \A t \in S : ~(<<t, s>> \in OpToRel(<, Nat))
  BY WFMin, NatLessThanWellFounded
<1>2. \A t \in S : ~(t < s)
  BY <1>1 DEF OpToRel
<1> QED BY <1>2

\* The scheduler's choice is one of the steps that may be executed.
LEMMA NextStepIsReady ==
  ASSUME NEW completed, Ready(completed) # {}
  PROVE  nextExecutableStep(completed) \in Ready(completed)
<1>1. Ready(completed) \in SUBSET Nat
  BY DEF Ready, Steps
<1>2. \E s \in Ready(completed) : \A t \in Ready(completed) : s <= t
  BY <1>1, Minimum
<1> QED BY <1>2 DEF nextExecutableStep

\* A step of a session is a step of its worker, the dispatch of the
\* scheduler's choice, or a write of the task alone.
LEMMA StepKinds ==
  ASSUME TypeOK, CallsKnown, [MultiStepNext]_allVars
  PROVE  \/ [Next]_vars /\ SameDispatches
         \/ \E r \in Calls : ExecuteStep(r)
         \/ TaskEvolves /\ UNCHANGED <<seen, userStop, workerVars>>
<1> USE DEF TypeOK
<1>1. CASE initializeSession
  <2>1. TaskEvolves
    BY <1>1 DEF initializeSession, TaskEvolves
  <2> QED BY <1>1, <2>1 DEF initializeSession
<1>2. ASSUME NEW r \in Calls, RefuseStep(r)
      PROVE  TaskEvolves /\ UNCHANGED <<seen, userStop, workerVars>>
  BY <1>2, MarkingEvolves, UpdateAndMarkingEvolve DEF RefuseStep
<1>3. CASE CancelTask
  <2>1. "CANCELLED" \in TaskStates
    BY DEF TaskStates
  <2> QED BY <1>3, <2>1, TransitionEvolves DEF CancelTask
<1>4. CASE PressOrReleaseStop
  BY <1>4, UnchangedDispatches
  DEF PressOrReleaseStop, Next, TaskStep, workerVars
<1>5. CASE AdapterWorks
  BY <1>5, SettleFacts DEF AdapterWorks, Next
<1>6. CASE CrashAll
  BY <1>6, CrashFacts DEF CrashAll, Next
<1>7. ASSUME NEW r \in Calls, WorkerReturns(r)
      PROVE  Next /\ SameDispatches
  <2>1. CASE Complete(r)
    BY <2>1, ReportFacts DEF Complete, Answered, CallsKnown, Next
  <2>2. CASE CompleteUnsaved(r) \/ Fail(r)
    BY <2>2, ReportFacts DEF CompleteUnsaved, Fail, Answered, CallsKnown, Next
  <2> QED BY <1>7, <2>1, <2>2 DEF WorkerReturns
<1>8. CASE UNCHANGED vars
  BY <1>8, UnchangedDispatches DEF vars, workerVars
<1> QED
  BY <1>1, <1>2, <1>3, <1>4, <1>5, <1>6, <1>7, <1>8
  DEF MultiStepNext, RunStep, LoadSession, resumeWithReplannedGeneration,
      StartRun, Finish, RequireReplanning, GiveUp, SaveCheckpoint,
      LoseCheckpoint, FailSession, SaveStatus, allVars

\* The dispatch of a session's step.
LEMMA ExecuteStepFacts ==
  ASSUME TypeOK, NEW r \in Calls, ExecuteStep(r)
  PROVE  \E s \in Ready(Active(runs[r].doc.session)) :
           /\ s \in Steps /\ StepCanBecome(s, "RUNNING")
           /\ task' = StepUpdated(task, s, "RUNNING")
           /\ \E l \in Leases : OneMore(s, l) /\ leases' = Consumed(l)
           /\ calls' \in [Calls -> Call]
           /\ calls'[r].attempt = Len(attempts) + 1
           /\ \A d \in Calls \ {r} : calls'[d] = calls[d]
           /\ runs' = [runs EXCEPT ![r].at = "worker", ![r].step = s]
<1> DEFINE s == nextExecutableStep(Active(runs[r].doc.session))
           l == CHOOSE k \in Leases : Fresh(k)
<1>1. s \in Ready(Active(runs[r].doc.session)) /\ s \in Steps
  BY NextStepIsReady DEF ExecuteStep, Ready
<1>2. l \in Leases
  BY DEF ExecuteStep, WithLease
<1>3. /\ leases' = Consumed(l) /\ Begin(r, s, l)
      /\ runs' = [runs EXCEPT ![r].at = "worker", ![r].step = s]
  BY DEF ExecuteStep, WithLease
<1> HIDE DEF s, l
<1>4. /\ OneMore(s, l) /\ calls' \in [Calls -> Call]
      /\ calls'[r].attempt = Len(attempts) + 1
      /\ \A d \in Calls \ {r} : calls'[d] = calls[d]
  BY <1>1, <1>2, <1>3, BeginFacts
<1>5. StepCanBecome(s, "RUNNING") /\ task' = StepUpdated(task, s, "RUNNING")
  BY <1>3 DEF Begin
<1> QED BY <1>1, <1>2, <1>3, <1>4, <1>5

\* The orchestrator writes the task through the same operations.
LEMMA MultiStepEvolves ==
  ASSUME TypeOK, CallsKnown, [MultiStepNext]_allVars PROVE TaskEvolves
<1>1. ASSUME NEW r \in Calls, ExecuteStep(r) PROVE TaskEvolves
  <2>1. "RUNNING" \in StepStatuses
    BY DEF StepStatuses
  <2> QED BY <1>1, <2>1, ExecuteStepFacts, UpdateEvolves DEF TypeOK
<1> QED BY <1>1, StepKinds, NextEvolves

\* The worker's part of a session's step: its invariants are kept, and only
\* ExecuteStep dispatches.
WorkerInv == TypeOK /\ CallsKnown /\ NothingBeforeTask

\* The orchestrator keeps the worker's invariant, and dispatches by executing a
\* step only.
LEMMA WorkerStep ==
  ASSUME WorkerInv, [MultiStepNext]_allVars
  PROVE  /\ WorkerInv'
         /\ SameDispatches \/ \E r \in Calls : ExecuteStep(r)
<1> USE DEF WorkerInv
<1>1. ASSUME NEW r \in Calls, ExecuteStep(r) PROVE WorkerInv'
  <2>1. PICK s \in Steps, l \in Leases :
          /\ StepCanBecome(s, "RUNNING")
          /\ OneMore(s, l) /\ leases' = Consumed(l)
          /\ calls' \in [Calls -> Call]
          /\ calls'[r].attempt = Len(attempts) + 1
          /\ \A d \in Calls \ {r} : calls'[d] = calls[d]
    BY <1>1, ExecuteStepFacts
  <2>2. /\ seen' = seen /\ userStop' = userStop /\ document' = document
    BY <1>1 DEF ExecuteStep, WithLease, Begin
  <2>3. task' \in Task \cup {NoTask}
    BY MultiStepEvolves, EvolvedType DEF TypeOK
  <2>4. TaskTypeOK'
    BY <2>2, <2>3 DEF TypeOK, TaskTypeOK
  <2>5. LeaseTypeOK'
    BY <2>1 DEF TypeOK, LeaseTypeOK, Consumed, Spent
  <2>6. attempts' \in Seq(Attempt) /\ DOMAIN attempts' = DOMAIN attempts \cup {Len(attempts) + 1}
    BY <2>1 DEF OneMore
  <2>7. CallsKnown'
    BY <2>1, <2>6 DEF CallsKnown, Waiting
  <2>8. NothingBeforeTask'
    <3>1. Exists
      BY <2>1 DEF StepCanBecome, StepUpdatable, Exists
    <3>2. Exists'
      BY <3>1, MultiStepEvolves, TaskIsNotNoTask
      DEF TaskEvolves, Exists, Succeeds
    <3> QED BY <3>2 DEF NothingBeforeTask
  <2> QED BY <2>1, <2>2, <2>4, <2>5, <2>6, <2>7, <2>8 DEF TypeOK
<1>2. ASSUME [Next]_vars PROVE WorkerInv'
  BY <1>2, NextType, NextCalls, NextBefore
<1>3. ASSUME TaskEvolves, UNCHANGED <<seen, userStop, workerVars>>
      PROVE  WorkerInv'
  <2>1. task' \in Task \cup {NoTask}
    BY <1>3, EvolvedType DEF TypeOK
  <2>2. TypeOK'
    BY <1>3, <2>1 DEF TypeOK, TaskTypeOK, LeaseTypeOK, workerVars
  <2>3. CallsKnown'
    BY <1>3 DEF CallsKnown, Waiting, workerVars
  <2>4. NothingBeforeTask'
    BY <1>3, TaskIsNotNoTask DEF NothingBeforeTask, Exists, TaskEvolves,
       Succeeds, workerVars
  <2> QED BY <2>2, <2>3, <2>4
<1>4. UNCHANGED workerVars => SameDispatches
  BY UnchangedDispatches DEF TypeOK, workerVars
<1> QED BY <1>1, <1>2, <1>3, <1>4, StepKinds

-----------------------------------------------------------------------------
(***************************************************************************)
(* MultiStepExecution: what is true of a copy of the session               *)
(***************************************************************************)

\* What the session says is done is COMPLETED in the task's record t.
Truthful(t, session) ==
  /\ \A g \in DOMAIN session.generations :
       \A s \in session.generations[g] : t.steps[s] = "COMPLETED"
  /\ session.status = "COMPLETED" => \A s \in Steps : t.steps[s] = "COMPLETED"

Proper(t, session) ==
  /\ session \in Session /\ session.generations # <<>>
  /\ Truthful(t, session)

ProperDoc(t, doc) == doc \in SessionDocument /\ Proper(t, doc.session)

\* The steps that are COMPLETED in t are so in u.
KeepsCompleted(t, u) ==
  \A s \in Steps : t.steps[s] = "COMPLETED" => u.steps[s] = "COMPLETED"

\* A proper session has a generation, whose finished steps are COMPLETED in the
\* task.
LEMMA GenerationsOf ==
  ASSUME NEW t, NEW session, Proper(t, session)
  PROVE  /\ Len(session.generations) \in Nat /\ Len(session.generations) > 0
         /\ DOMAIN session.generations = 1..Len(session.generations)
         /\ \A g \in DOMAIN session.generations :
              session.generations[g] \in SUBSET Steps
         /\ Active(session) \in SUBSET Steps
         /\ \A s \in Active(session) : t.steps[s] = "COMPLETED"
<1>1. session.generations \in Seq(SUBSET Steps) /\ session.generations # <<>>
  BY DEF Proper, Session
<1>2. /\ Len(session.generations) \in Nat /\ Len(session.generations) > 0
      /\ DOMAIN session.generations = 1..Len(session.generations)
  BY <1>1, LenProperties, EmptySeq
<1>3. \A g \in DOMAIN session.generations :
        session.generations[g] \in SUBSET Steps
  BY <1>1, <1>2, ElementOfSeq
<1> QED BY <1>2, <1>3 DEF Proper, Truthful, Active

\* A session stays proper while the task keeps what is COMPLETED.
LEMMA ProperLater ==
  ASSUME NEW t, NEW u, NEW session, Proper(t, session), KeepsCompleted(t, u)
  PROVE  Proper(u, session)
BY GenerationsOf DEF Proper, Truthful, KeepsCompleted

\* A new session is proper.
LEMMA ProperNew ==
  ASSUME NEW t PROVE Proper(t, NewSession)
<1>1. <<{}>> \in Seq(SUBSET Steps) /\ <<{}>> # <<>>
  OBVIOUS
<1>2. 1 \in 1..MaxSessionVersion
  BY SessionAssumption
<1>3. NewSession \in Session
  BY <1>1, <1>2 DEF NewSession, Session
<1> QED BY <1>1, <1>3 DEF NewSession, Proper, Truthful

\* A session may be called COMPLETED when every step of the task is.
LEMMA ProperWithStatus ==
  ASSUME NEW t, NEW session, Proper(t, session),
         session.sessionVersion < MaxSessionVersion,
         NEW status \in {"COMPLETED", "FAILED", "REPLANNING_REQUIRED"},
         status = "COMPLETED" => \A s \in Steps : t.steps[s] = "COMPLETED"
  PROVE  Proper(t, WithStatus(session, status))
<1> DEFINE u == WithStatus(session, status)
<1>1. session \in Session /\ session.generations # <<>>
  BY DEF Proper
<1>2. session.sessionVersion + 1 \in 1..MaxSessionVersion
  BY <1>1, SessionAssumption DEF Session
<1>3. u.status = status /\ u.generations = session.generations
  BY <1>1 DEF WithStatus, Session
<1>4. u \in Session
  BY <1>1, <1>2 DEF WithStatus, Session
<1> HIDE DEF u
<1>5. Proper(t, u)
  BY <1>1, <1>3, <1>4 DEF Proper, Truthful
<1> QED BY <1>5 DEF u

\* A new generation inherits finished steps of the one before.
LEMMA ProperNewGeneration ==
  ASSUME NEW t, NEW session, Proper(t, session),
         session.sessionVersion < MaxSessionVersion
  PROVE  Proper(t, NewGeneration(session))
<1> DEFINE u == NewGeneration(session)
           more == Append(session.generations, {})
<1>1. session \in Session /\ session.generations \in Seq(SUBSET Steps)
  BY DEF Proper, Session
<1>2. /\ more \in Seq(SUBSET Steps) /\ more # <<>>
      /\ Len(more) = Len(session.generations) + 1
      /\ \A g \in 1..Len(session.generations) : more[g] = session.generations[g]
      /\ more[Len(session.generations) + 1] = {}
  BY <1>1, AppendProperties
<1>3. session.sessionVersion + 1 \in 1..MaxSessionVersion
  BY SessionAssumption DEF Proper, Session
<1>4. u.status = "NEW_GENERATION" /\ u.generations = more
  BY <1>1 DEF NewGeneration, Session
<1>5. u \in Session
  BY <1>1, <1>2, <1>3 DEF NewGeneration, Session
<1>6. DOMAIN more = 1..(Len(session.generations) + 1)
  BY <1>2, LenProperties
<1> HIDE DEF more, u
<1>7. \A g \in DOMAIN more : \A s \in more[g] : t.steps[s] = "COMPLETED"
  BY <1>2, <1>6, GenerationsOf DEF Proper, Truthful
<1>8. Proper(t, u)
  BY <1>2, <1>4, <1>5, <1>7 DEF Proper, Truthful
<1> QED BY <1>8 DEF u

\* A checkpoint adds a step that the task has COMPLETED.
LEMMA ProperCheckpointed ==
  ASSUME NEW t, NEW run, ProperDoc(t, run.doc), run.step \in Steps,
         t.steps[run.step] = "COMPLETED"
  PROVE  /\ ProperDoc(t, Checkpointed(run))
         /\ Checkpointed(run).session.sessionVersion
              = run.doc.session.sessionVersion
<1> DEFINE session == run.doc.session
           n == Len(session.generations)
           e == session.generations[n] \cup {run.step}
           grown == [session.generations EXCEPT ![n] = e]
           u == [session EXCEPT !.generations = grown]
<1>1. run.doc \in SessionDocument /\ Proper(t, session)
  BY DEF ProperDoc
<1>2. session \in Session /\ session.generations \in Seq(SUBSET Steps)
  BY <1>1 DEF Proper, Session
<1>3. /\ n \in 1..n /\ n \in Nat /\ DOMAIN session.generations = 1..n
      /\ session.generations[n] \in SUBSET Steps
      /\ \A s \in session.generations[n] : t.steps[s] = "COMPLETED"
  BY <1>1, GenerationsOf DEF Active
<1>4. e \in SUBSET Steps /\ \A s \in e : t.steps[s] = "COMPLETED"
  BY <1>3
<1>5. Checkpointed(run) = [run.doc EXCEPT !.session = u]
  BY <1>1, <1>2 DEF Checkpointed, SessionDocument, Session
<1> HIDE DEF e
<1>6. /\ grown \in Seq(SUBSET Steps) /\ Len(grown) = n
      /\ \A g \in 1..n : grown[g] = IF g = n THEN e ELSE session.generations[g]
  BY <1>2, <1>3, <1>4, ExceptSeq
<1>7. DOMAIN grown = 1..n /\ grown # <<>>
  BY <1>3, <1>6, LenProperties, EmptySeq
<1> HIDE DEF grown
<1>8. /\ u \in Session /\ u.generations = grown /\ u.status = session.status
      /\ u.sessionVersion = session.sessionVersion
  BY <1>2, <1>6 DEF Session
<1> HIDE DEF u
<1>9. \A g \in DOMAIN grown : \A s \in grown[g] : t.steps[s] = "COMPLETED"
  BY <1>1, <1>3, <1>4, <1>6, <1>7 DEF Proper, Truthful
<1>10. Proper(t, u)
  BY <1>1, <1>7, <1>8, <1>9 DEF Proper, Truthful
<1>11. /\ Checkpointed(run) \in SessionDocument
       /\ Checkpointed(run).session = u
  BY <1>1, <1>5, <1>8 DEF SessionDocument
<1> QED BY <1>8, <1>10, <1>11 DEF ProperDoc

\* Where no step may be executed, none is left: the dependencies have no cycle.
LEMMA NoneReady ==
  ASSUME NEW t, NEW session, Proper(t, session), Ready(Active(session)) = {}
  PROVE  \A s \in Steps : t.steps[s] = "COMPLETED"
<1> DEFINE left == Steps \ Active(session)
<1>1. left \in SUBSET Steps /\ Active(session) \in SUBSET Steps
  BY GenerationsOf
<1>2. ASSUME left # {} PROVE FALSE
  <2>1. PICK s \in left : Dependencies[s] \cap left = {}
    BY <1>1, <1>2, SessionAssumption
  <2>2. Dependencies[s] \subseteq Active(session)
    BY <2>1, SessionAssumption
  <2> QED BY <2>1, <2>2 DEF Ready
<1> QED BY <1>2, GenerationsOf

-----------------------------------------------------------------------------
(***************************************************************************)
(* MultiStepExecution: the inductive invariant                             *)
(***************************************************************************)

\* What a run that is under way knows, and how it corresponds to its worker.
RunProper(r) ==
  /\ runs[r].at # "idle" /\ Exists /\ ProperDoc(task, runs[r].doc)
  /\ runs[r].doc.session.sessionVersion < MaxSessionVersion
  /\ runs[r].at \in {"worker", "returned"} => runs[r].step \in Steps
  /\ runs[r].success => /\ runs[r].at = "returned"
                        /\ task.steps[runs[r].step] = "COMPLETED"
  /\ runs[r].at = "worker" /\ Waiting(r) => AttemptOf(r).step = runs[r].step

DocProper == sessionDoc = NoDoc \/ (Exists /\ ProperDoc(task, sessionDoc))

HeldProper == held = NoSession \/ (Exists /\ Proper(task, held))

RunsProper ==
  /\ runs \in [Calls -> Run]
  /\ \A r \in Calls : runs[r] = NoRun \/ RunProper(r)

SInv == WorkerInv /\ DocProper /\ HeldProper /\ RunsProper /\ DependenciesFirst

\* The orchestrator starts with no session and no run.
LEMMA InitSInv == MultiStepInit => SInv
<1> SUFFICES ASSUME MultiStepInit PROVE SInv
  OBVIOUS
<1>1. IInv /\ attempts = <<>>
  BY InitIInv DEF MultiStepInit, Init, WorkerInit
<1>2. NoRun \in Run
  BY DEF NoRun, Run
<1>3. DependenciesFirst
  BY <1>1, LenProperties DEF DependenciesFirst
<1> QED
  BY <1>1, <1>2, <1>3
  DEF MultiStepInit, SInv, IInv, WorkerInv, DocProper, HeldProper, RunsProper

\* The task stays where it is, and so does what is COMPLETED in it.
LEMMA CompletedKept ==
  ASSUME WorkerInv, [MultiStepNext]_allVars, Exists
  PROVE  Exists' /\ KeepsCompleted(task, task')
BY MultiStepEvolves, TaskIsNotNoTask
DEF TaskEvolves, Exists, Succeeds, KeepsCompleted, WorkerInv

\* A document is proper if the session in it is.
LEMMA DocWithSession ==
  ASSUME NEW t, NEW doc \in SessionDocument, NEW u, Proper(t, u)
  PROVE  ProperDoc(t, [doc EXCEPT !.session = u])
<1> DEFINE d == [doc EXCEPT !.session = u]
<1>1. d \in SessionDocument /\ d.session = u
  BY DEF Proper, SessionDocument
<1> QED BY <1>1 DEF ProperDoc

\* What SaveStatus leaves in the store.
LEMMA StatusSaved ==
  ASSUME NEW r \in Calls, NEW doc, ProperDoc(task, doc),
         doc.session.sessionVersion < MaxSessionVersion,
         NEW status \in {"COMPLETED", "FAILED", "REPLANNING_REQUIRED"},
         status = "COMPLETED" =>
           \A s \in Steps : task.steps[s] = "COMPLETED",
         SaveStatus(r, doc, status)
  PROVE  /\ sessionDoc' = sessionDoc \/ ProperDoc(task, sessionDoc')
         /\ UNCHANGED task /\ runs' = [runs EXCEPT ![r] = NoRun]
         /\ UNCHANGED <<held, calls, attempts>>
<1>1. Proper(task, WithStatus(doc.session, status))
  BY ProperWithStatus DEF ProperDoc
<1>2. ProperDoc(task, [doc EXCEPT !.session = WithStatus(doc.session, status)])
  BY <1>1, DocWithSession DEF ProperDoc
<1>3. UNCHANGED <<task, calls, attempts>>
  BY DEF SaveStatus, vars, taskVars, workerVars
<1> QED BY <1>2, <1>3 DEF SaveStatus, End

\* The three ways in which a run ends with a status.
LEMMA RunEnds ==
  ASSUME SInv, NEW r \in Calls,
         Finish(r) \/ RequireReplanning(r) \/ FailSession(r)
  PROVE  /\ sessionDoc' = sessionDoc \/ (Exists /\ ProperDoc(task, sessionDoc'))
         /\ UNCHANGED task /\ runs' = [runs EXCEPT ![r] = NoRun]
         /\ UNCHANGED <<held, calls, attempts>>
<1> DEFINE doc == runs[r].doc
<1>1. runs[r].at # "idle"
  BY DEF Finish, RequireReplanning, FailSession
<1>2. RunProper(r) /\ Exists
  BY <1>1 DEF SInv, RunsProper, NoRun, RunProper
<1>3. /\ ProperDoc(task, doc) /\ doc \in SessionDocument
      /\ doc.session.sessionVersion < MaxSessionVersion
  BY <1>2 DEF RunProper, ProperDoc
<1>4. CASE Finish(r)
  <2>1. Ready(Active(doc.session)) = {} /\ SaveStatus(r, doc, "COMPLETED")
    BY <1>4 DEF Finish
  <2>2. \A s \in Steps : task.steps[s] = "COMPLETED"
    BY <1>3, <2>1, NoneReady DEF ProperDoc
  <2> QED BY <1>2, <1>3, <2>1, <2>2, StatusSaved
<1>5. CASE RequireReplanning(r)
  <2> DEFINE more == [doc EXCEPT !.replanningRequests = @ + 1]
  <2>1. /\ doc.replanningRequests < MAX_REPLANS_PER_SESSION
        /\ SaveStatus(r, more, "REPLANNING_REQUIRED")
    BY <1>5 DEF RequireReplanning
  <2>2. more \in SessionDocument /\ more.session = doc.session
    BY <1>3, <2>1, SessionAssumption DEF SessionDocument
  <2>3. ProperDoc(task, more)
    BY <1>3, <2>2 DEF ProperDoc
  <2> HIDE DEF more
  <2> QED BY <1>2, <1>3, <2>1, <2>2, <2>3, StatusSaved
<1>6. CASE FailSession(r)
  BY <1>2, <1>3, <1>6, StatusSaved DEF FailSession
<1> QED BY <1>4, <1>5, <1>6

\* Every step keeps the stored document proper.
LEMMA NextDoc ==
  ASSUME SInv, [MultiStepNext]_allVars PROVE DocProper'
<1> USE DEF SInv
<1>1. CASE initializeSession
  <2>1. Exists'
    BY <1>1, NewTaskType DEF initializeSession, Exists
  <2>2. ProperDoc(task', [sessionVersion |-> 1, session |-> NewSession,
                          replanningRequests |-> 0])
    BY ProperNew, SessionAssumption DEF ProperDoc, SessionDocument, Proper
  <2> QED BY <1>1, <2>1, <2>2 DEF initializeSession, DocProper
<1>2. CASE resumeWithReplannedGeneration
  <2>1. /\ sessionDoc \in SessionDocument /\ Exists
        /\ held.sessionVersion = sessionDoc.sessionVersion
        /\ held.sessionVersion < MaxSessionVersion
        /\ UNCHANGED task
        /\ sessionDoc' = [sessionDoc EXCEPT !.session = NewGeneration(held),
                            !.sessionVersion = held.sessionVersion + 1]
    BY <1>2 DEF resumeWithReplannedGeneration, Stored, DocProper, ProperDoc,
       vars, taskVars
  <2>2. sessionDoc.sessionVersion \in Nat /\ sessionDoc.sessionVersion >= 1
    BY <2>1, SessionAssumption DEF SessionDocument
  <2>3. Proper(task, held)
    BY <2>1, <2>2 DEF HeldProper, NoSession
  <2>4. Proper(task, NewGeneration(held))
    BY <2>1, <2>3, ProperNewGeneration
  <2>5. held.sessionVersion + 1 \in 1..MaxSessionVersion
    BY <2>1, <2>2, SessionAssumption
  <2>6. sessionDoc' \in SessionDocument /\ sessionDoc'.session = NewGeneration(held)
    BY <2>1, <2>4, <2>5 DEF SessionDocument, Proper
  <2>7. ProperDoc(task', sessionDoc')
    BY <2>1, <2>4, <2>6 DEF ProperDoc
  <2> QED BY <2>1, <2>7 DEF DocProper, Exists
<1>3. ASSUME NEW r \in Calls, Finish(r) \/ RequireReplanning(r) \/ FailSession(r)
      PROVE  DocProper'
  BY <1>3, RunEnds DEF DocProper, Exists
<1>4. ASSUME NEW r \in Calls, SaveCheckpoint(r) PROVE DocProper'
  <2>1. /\ runs[r].at = "returned" /\ runs[r].success
        /\ sessionDoc' = Checkpointed(runs[r]) /\ UNCHANGED task
    BY <1>4 DEF SaveCheckpoint, vars, taskVars
  <2>2. RunProper(r)
    BY <2>1 DEF RunsProper, NoRun
  <2>3. ProperDoc(task, Checkpointed(runs[r]))
    BY <2>1, <2>2, ProperCheckpointed DEF RunProper
  <2> QED BY <2>1, <2>2, <2>3 DEF DocProper, Exists, RunProper
<1>5. CASE UNCHANGED sessionDoc
  BY <1>5, CompletedKept, ProperLater DEF DocProper, ProperDoc
<1> QED
  BY <1>1, <1>2, <1>3, <1>4, <1>5
  DEF MultiStepNext, RunStep, LoadSession, StartRun, GiveUp, ExecuteStep,
      RefuseStep, WorkerReturns, LoseCheckpoint, CancelTask,
      PressOrReleaseStop, AdapterWorks, CrashAll, allVars, sessionVars

\* Every step keeps the sessions that callers hold proper, however old they
\* are.
LEMMA NextHeld ==
  ASSUME SInv, [MultiStepNext]_allVars PROVE HeldProper'
<1> USE DEF SInv
<1>1. CASE initializeSession
  <2>1. Exists'
    BY <1>1, NewTaskType DEF initializeSession, Exists
  <2> QED BY <1>1, <2>1, ProperNew DEF initializeSession, HeldProper
<1>2. CASE LoadSession
  BY <1>2 DEF LoadSession, Stored, DocProper, ProperDoc, HeldProper, Exists,
     vars, taskVars
<1>3. CASE resumeWithReplannedGeneration
  <2>1. /\ sessionDoc \in SessionDocument /\ Exists
        /\ held.sessionVersion = sessionDoc.sessionVersion
        /\ held.sessionVersion < MaxSessionVersion
        /\ UNCHANGED task /\ held' = NewGeneration(held)
    BY <1>3 DEF resumeWithReplannedGeneration, Stored, DocProper, ProperDoc,
       vars, taskVars
  <2>2. sessionDoc.sessionVersion \in Nat /\ sessionDoc.sessionVersion >= 1
    BY <2>1, SessionAssumption DEF SessionDocument
  <2>3. Proper(task, held)
    BY <2>1, <2>2 DEF HeldProper, NoSession
  <2>4. Proper(task, NewGeneration(held))
    BY <2>1, <2>3, ProperNewGeneration
  <2> QED BY <2>1, <2>4 DEF HeldProper, Exists
<1>4. CASE UNCHANGED held
  BY <1>4, CompletedKept, ProperLater DEF HeldProper
<1> QED
  BY <1>1, <1>2, <1>3, <1>4
  DEF MultiStepNext, RunStep, StartRun, Finish, RequireReplanning, GiveUp,
      SaveStatus, ExecuteStep, RefuseStep, WorkerReturns, SaveCheckpoint,
      LoseCheckpoint, FailSession, CancelTask, PressOrReleaseStop,
      AdapterWorks, CrashAll, allVars, sessionVars

\* What a dispatch is for does not change.
LEMMA SameSteps ==
  ASSUME WorkerInv, [MultiStepNext]_allVars
  PROVE  \A a \in DOMAIN attempts : /\ a \in DOMAIN attempts'
                                    /\ attempts'[a].step = attempts[a].step
<1>1. ASSUME NEW r \in Calls, ExecuteStep(r)
      PROVE  \E s, l : OneMore(s, l)
  BY <1>1, ExecuteStepFacts DEF WorkerInv
<1> QED BY <1>1, WorkerStep DEF SameDispatches, OneMore

\* A run that takes no step is not disturbed.
LEMMA RunLater ==
  ASSUME SInv, [MultiStepNext]_allVars, NEW r \in Calls, RunProper(r),
         runs'[r] = runs[r], calls'[r] = calls[r]
  PROVE  RunProper(r)'
<1>1. Exists' /\ KeepsCompleted(task, task')
  BY CompletedKept DEF SInv, RunProper
<1>2. ProperDoc(task', runs[r].doc)
  BY <1>1, ProperLater DEF RunProper, ProperDoc
<1>3. runs[r].success => task'.steps[runs[r].step] = "COMPLETED"
  BY <1>1 DEF RunProper, KeepsCompleted
<1>4. Waiting(r)' => Waiting(r) /\ calls[r].attempt \in DOMAIN attempts
  BY DEF Waiting, SInv, WorkerInv, CallsKnown
<1>5. Waiting(r)' => AttemptOf(r)'.step = AttemptOf(r).step
  BY <1>4, SameSteps DEF AttemptOf, SInv
<1> QED BY <1>1, <1>2, <1>3, <1>4, <1>5 DEF RunProper

\* One run takes a step.
LEMMA OneRunSteps ==
  ASSUME SInv, [MultiStepNext]_allVars, NEW r \in Calls, NEW run \in Run,
         runs' = [runs EXCEPT ![r] = run],
         \A q \in Calls \ {r} : calls'[q] = calls[q],
         run = NoRun \/ RunProper(r)'
  PROVE  RunsProper'
<1>1. runs \in [Calls -> Run]
  BY DEF SInv, RunsProper
<1>2. runs' \in [Calls -> Run] /\ runs'[r] = run
  BY <1>1
<1>3. ASSUME NEW q \in Calls \ {r} PROVE runs'[q] = NoRun \/ RunProper(q)'
  <2>1. runs'[q] = runs[q] /\ calls'[q] = calls[q]
    BY <1>1, <1>3
  <2> QED BY <2>1, RunLater DEF SInv, RunsProper
<1> QED BY <1>2, <1>3 DEF RunsProper

\* Every step keeps the documents that runs work on proper, however old they
\* are.
LEMMA NextRuns ==
  ASSUME SInv, [MultiStepNext]_allVars PROVE RunsProper'
<1> USE DEF SInv
<1>0. runs \in [Calls -> Run] /\ NoRun \in Run /\ NoRun.at = "idle"
  BY DEF RunsProper, NoRun, Run
<1>1. ASSUME NEW r \in Calls, StartRun(r) PROVE RunsProper'
  <2> DEFINE run == [NoRun EXCEPT !.at = "loop", !.doc = sessionDoc]
  <2>1. /\ Exists /\ ProperDoc(task, sessionDoc)
        /\ sessionDoc.session.sessionVersion < MaxSessionVersion
    BY <1>1 DEF StartRun, Stored, DocProper
  <2>2. run \in Run
    BY <2>1 DEF NoRun, Run, ProperDoc
  <2>3. run.at = "loop" /\ run.doc = sessionDoc /\ run.success = FALSE
    BY DEF NoRun
  <2>4. /\ runs' = [runs EXCEPT ![r] = run]
        /\ UNCHANGED <<task, calls>>
    BY <1>1 DEF StartRun, vars, taskVars, workerVars
  <2> HIDE DEF run
  <2>5. RunProper(r)'
    BY <1>0, <2>1, <2>3, <2>4 DEF RunProper, Exists
  <2> QED BY <2>2, <2>4, <2>5, OneRunSteps
<1>2. ASSUME NEW r \in Calls, Finish(r) \/ RequireReplanning(r)
                              \/ FailSession(r) \/ GiveUp(r) \/ LoseCheckpoint(r)
      PROVE  RunsProper'
  <2>1. runs' = [runs EXCEPT ![r] = NoRun] /\ UNCHANGED calls
    BY <1>2, RunEnds DEF GiveUp, LoseCheckpoint, End, vars, workerVars
  <2> QED BY <1>0, <2>1, OneRunSteps
<1>3. ASSUME NEW r \in Calls, ExecuteStep(r) PROVE RunsProper'
  <2>1. runs[r].at = "loop" /\ RunProper(r)
    BY <1>0, <1>3 DEF ExecuteStep, RunsProper
  <2>2. PICK s \in Steps, l \in Leases :
          /\ OneMore(s, l)
          /\ calls'[r].attempt = Len(attempts) + 1
          /\ \A d \in Calls \ {r} : calls'[d] = calls[d]
          /\ runs' = [runs EXCEPT ![r].at = "worker", ![r].step = s]
    BY <1>3, ExecuteStepFacts DEF WorkerInv
  <2> DEFINE run == [runs[r] EXCEPT !.at = "worker", !.step = s]
  <2>3. /\ run \in Run /\ run.at = "worker" /\ run.step = s
        /\ run.doc = runs[r].doc /\ run.success = runs[r].success
    BY <1>0 DEF Run
  <2>4. runs' = [runs EXCEPT ![r] = run]
    BY <1>0, <2>2
  <2> HIDE DEF run
  <2>5. AttemptOf(r)'.step = s
    BY <2>2 DEF OneMore, AttemptOf
  <2>6. ProperDoc(task', runs[r].doc) /\ Exists'
    BY <2>1, CompletedKept, ProperLater DEF RunProper, ProperDoc
  <2>7. runs'[r] = run
    BY <1>0, <2>4
  <2>8. RunProper(r)'
    BY <2>1, <2>3, <2>5, <2>6, <2>7 DEF RunProper
  <2> QED BY <2>2, <2>3, <2>4, <2>8, OneRunSteps
<1>4. ASSUME NEW r \in Calls, RefuseStep(r) PROVE RunsProper'
  <2> DEFINE s == nextExecutableStep(Active(runs[r].doc.session))
             run == [runs[r] EXCEPT !.at = "returned", !.step = s]
  <2>1. runs[r].at = "loop" /\ RunProper(r)
    BY <1>0, <1>4 DEF RefuseStep, RunsProper
  <2>2. s \in Steps
    BY <1>4, NextStepIsReady DEF RefuseStep, Ready
  <2>3. runs' = [runs EXCEPT ![r] = run] /\ UNCHANGED calls
    BY <1>0, <1>4 DEF RefuseStep, workerVars
  <2>4. /\ run \in Run /\ run.at = "returned" /\ run.step = s
        /\ run.doc = runs[r].doc /\ run.success = runs[r].success
    BY <1>0, <2>2 DEF Run
  <2>5. ProperDoc(task', runs[r].doc) /\ Exists'
    BY <2>1, CompletedKept, ProperLater DEF RunProper, ProperDoc
  <2>6. runs'[r] = run
    BY <1>0, <2>3
  <2> HIDE DEF run, s
  <2>7. RunProper(r)'
    BY <2>1, <2>2, <2>4, <2>5, <2>6 DEF RunProper
  <2> QED BY <2>3, <2>4, <2>7, OneRunSteps
<1>5. ASSUME NEW r \in Calls, WorkerReturns(r) PROVE RunsProper'
  <2>1. /\ runs[r].at = "worker" /\ RunProper(r)
        /\ calls' = [calls EXCEPT ![r] = NoCall]
    BY <1>0, <1>5 DEF WorkerReturns, RunsProper, Complete, CompleteUnsaved,
       Fail, Hangup
  <2>2. ProperDoc(task', runs[r].doc) /\ Exists'
    BY <2>1, CompletedKept, ProperLater DEF RunProper, ProperDoc
  <2>3. \A q \in Calls \ {r} : calls'[q] = calls[q]
    BY <2>1 DEF WorkerInv, TypeOK
  <2>4. CASE Complete(r) /\ runs' = [runs EXCEPT ![r].at = "returned",
                                                 ![r].success = TRUE]
    <3> DEFINE run == [runs[r] EXCEPT !.at = "returned", !.success = TRUE]
    <3>1. /\ run \in Run /\ run.at = "returned"
          /\ run.doc = runs[r].doc /\ run.step = runs[r].step
      BY <1>0 DEF Run
    <3>2. runs' = [runs EXCEPT ![r] = run] /\ runs'[r] = run
      BY <1>0, <2>4
    <3> HIDE DEF run
    <3>3. task'.steps[runs[r].step] = "COMPLETED"
      BY <2>1, <2>4, CompleteFacts
      DEF WorkerInv, RunProper, Complete, Answered
    <3>4. RunProper(r)'
      BY <2>1, <2>2, <3>1, <3>2, <3>3 DEF RunProper
    <3> QED BY <2>3, <3>1, <3>2, <3>4, OneRunSteps
  <2>5. CASE runs' = [runs EXCEPT ![r].at = "returned"]
    <3> DEFINE run == [runs[r] EXCEPT !.at = "returned"]
    <3>1. /\ run \in Run /\ run.at = "returned"
          /\ run.doc = runs[r].doc /\ run.step = runs[r].step
          /\ run.success = runs[r].success
      BY <1>0 DEF Run
    <3>2. runs' = [runs EXCEPT ![r] = run] /\ runs'[r] = run
      BY <1>0, <2>5
    <3> HIDE DEF run
    <3>3. RunProper(r)'
      BY <2>1, <2>2, <3>1, <3>2 DEF RunProper
    <3> QED BY <2>3, <3>1, <3>2, <3>3, OneRunSteps
  <2> QED BY <1>5, <2>4, <2>5 DEF WorkerReturns
<1>6. ASSUME NEW r \in Calls, SaveCheckpoint(r) PROVE RunsProper'
  <2> DEFINE doc == Checkpointed(runs[r])
             run == [NoRun EXCEPT !.at = "loop", !.doc = doc]
  <2>1. runs[r].at = "returned" /\ runs[r].success /\ RunProper(r)
    BY <1>0, <1>6 DEF SaveCheckpoint, RunsProper
  <2>2. /\ ProperDoc(task, doc)
        /\ doc.session.sessionVersion = runs[r].doc.session.sessionVersion
    BY <2>1, ProperCheckpointed DEF RunProper
  <2>3. /\ runs' = [runs EXCEPT ![r] = run] /\ UNCHANGED <<task, calls>>
    BY <1>6 DEF SaveCheckpoint, vars, taskVars, workerVars
  <2> HIDE DEF doc
  <2>4. /\ run \in Run /\ run.at = "loop" /\ run.doc = doc
        /\ run.success = FALSE
    BY <2>2 DEF NoRun, Run, ProperDoc
  <2>5. runs'[r] = run
    BY <1>0, <2>3
  <2> HIDE DEF run
  <2>6. RunProper(r)'
    BY <2>1, <2>2, <2>3, <2>4, <2>5 DEF RunProper, Exists
  <2> QED BY <2>3, <2>4, <2>6, OneRunSteps
<1>7. CASE CrashAll
  BY <1>0, <1>7 DEF CrashAll, RunsProper
<1>8. CASE UNCHANGED <<runs, calls>>
  BY <1>8, RunLater DEF RunsProper
<1> QED
  BY <1>1, <1>2, <1>3, <1>4, <1>5, <1>6, <1>7, <1>8
  DEF MultiStepNext, RunStep, initializeSession, LoadSession,
      resumeWithReplannedGeneration, CancelTask, PressOrReleaseStop,
      AdapterWorks, AdapterSettles, allVars, vars, sessionVars, workerVars

\* A step starts when what it depends on is finished in the task.
LEMMA NextDependencies ==
  ASSUME SInv, [MultiStepNext]_allVars PROVE DependenciesFirst'
<1> USE DEF SInv
<1>0. \A a \in DOMAIN attempts : attempts[a].step \in Steps
  <2>1. \A a \in DOMAIN attempts : attempts[a] \in Attempt
    BY ElementOfSeq, LenProperties DEF WorkerInv, TypeOK
  <2> QED BY <2>1 DEF Attempt
<1>1. ASSUME NEW a \in DOMAIN attempts PROVE Exists
  BY <1>1, LenProperties DEF WorkerInv, NothingBeforeTask
<1>2. ASSUME NEW a \in DOMAIN attempts, NEW d \in Dependencies[attempts[a].step]
      PROVE  task'.steps[d] = "COMPLETED"
  <2>1. d \in Steps /\ task.steps[d] = "COMPLETED"
    BY <1>0, SessionAssumption DEF DependenciesFirst
  <2> QED BY <1>1, <2>1, CompletedKept DEF KeepsCompleted
<1>3. CASE SameDispatches
  BY <1>2, <1>3 DEF SameDispatches, DependenciesFirst
<1>4. ASSUME NEW r \in Calls, ExecuteStep(r) PROVE DependenciesFirst'
  <2>1. RunProper(r)
    BY <1>4 DEF ExecuteStep, RunsProper, NoRun
  <2>2. PICK s \in Ready(Active(runs[r].doc.session)), l \in Leases :
          s \in Steps /\ OneMore(s, l)
    BY <1>4, ExecuteStepFacts DEF WorkerInv
  <2>3. Dependencies[s] \subseteq Active(runs[r].doc.session)
    BY <2>2 DEF Ready
  <2>4. \A d \in Dependencies[s] : d \in Steps /\ task.steps[d] = "COMPLETED"
    BY <2>1, <2>3, GenerationsOf DEF RunProper, ProperDoc
  <2>5. \A d \in Dependencies[s] : task'.steps[d] = "COMPLETED"
    BY <2>1, <2>4, CompletedKept DEF KeepsCompleted, RunProper
  <2> QED BY <1>2, <2>2, <2>5 DEF OneMore, DependenciesFirst
<1> QED BY <1>3, <1>4, WorkerStep

\* Every step keeps the orchestrator's invariant.
LEMMA NextSInv == SInv /\ [MultiStepNext]_allVars => SInv'
BY WorkerStep, NextDoc, NextHeld, NextRuns, NextDependencies DEF SInv

\* The orchestrator's invariant holds in every reachable state.
LEMMA SessionInvariantHolds == MultiStepSpec => []SInv
BY InitSInv, NextSInv, PTL DEF MultiStepSpec

-----------------------------------------------------------------------------
(***************************************************************************)
(* MultiStepExecution: the theorems                                        *)
(***************************************************************************)

\* The orchestrator keeps the types of its document, of its caller's copy and
\* of its runs, with those of the worker under it.
THEOREM MultiStepTypeCorrect == MultiStepSpec => []MultiStepTypeOK
<1>1. SInv => MultiStepTypeOK
  BY DEF SInv, WorkerInv, DocProper, ProperDoc, HeldProper, Proper, RunsProper,
     MultiStepTypeOK
<1> QED BY <1>1, SessionInvariantHolds, PTL

\* saveSessionDocument, whoever saves which copy, never writes that something
\* is done which the task's file does not call COMPLETED.
THEOREM SessionTruthfulHolds == MultiStepSpec => []SessionTruthful
<1>1. SInv => SessionTruthful
  BY DEF SInv, DocProper, ProperDoc, Proper, Truthful, SessionTruthful, Stored
<1> QED BY <1>1, SessionInvariantHolds, PTL

\* evaluateStepReadiness, on whatever copy of the session, holds back a step
\* until the steps it depends on are COMPLETED in the task's file.
THEOREM DependenciesFirstHolds == MultiStepSpec => []DependenciesFirst
BY SessionInvariantHolds, PTL DEF SInv

\* The state engine of the task holds back the orchestrator where its copy of
\* the session does not know that a step is COMPLETED.
THEOREM CompletedNotRepeatedHolds == MultiStepSpec => CompletedNotRepeated
<1> DEFINE NotRepeated ==
      \A a \in DOMAIN attempts' \ DOMAIN attempts :
        task.steps[attempts'[a].step] # "COMPLETED"
<1>1. SInv /\ [MultiStepNext]_allVars => NotRepeated
  <2> SUFFICES ASSUME SInv, [MultiStepNext]_allVars PROVE NotRepeated
    OBVIOUS
  <2>1. ASSUME NEW r \in Calls, ExecuteStep(r) PROVE NotRepeated
    <3>1. PICK s \in Steps, l \in Leases :
            StepCanBecome(s, "RUNNING") /\ OneMore(s, l)
      BY <2>1, ExecuteStepFacts DEF SInv, WorkerInv
    <3>2. task.steps[s] # "COMPLETED"
      BY <3>1 DEF StepCanBecome, StepUpdatable, VALID_STEP_TRANSITIONS
    <3> QED BY <3>1, <3>2 DEF OneMore
  <2> QED BY <2>1, WorkerStep DEF SInv, SameDispatches
<1>2. SInv /\ [MultiStepNext]_allVars => [NotRepeated]_allVars
  BY <1>1
<1> QED
  BY <1>2, SessionInvariantHolds, PTL DEF MultiStepSpec, CompletedNotRepeated

\* Each writer of the session, of its task and each dispatcher looks at the
\* stop itself, so pressing it takes effect at once in every run.
THEOREM StopFreezesSessionHolds == MultiStepSpec => StopFreezesSession
<1> DEFINE Frozen == userStop => /\ UNCHANGED <<sessionDoc, task>>
                                 /\ Len(attempts') = Len(attempts)
<1>1. SInv /\ [MultiStepNext]_allVars => Frozen
  <2> SUFFICES ASSUME SInv, [MultiStepNext]_allVars, userStop PROVE Frozen
    OBVIOUS
  <2>1. UNCHANGED task
    BY MultiStepEvolves DEF SInv, WorkerInv, TaskEvolves
  <2>2. UNCHANGED sessionDoc
    BY DEF MultiStepNext, RunStep, initializeSession, LoadSession,
       resumeWithReplannedGeneration, StartRun, Finish, RequireReplanning,
       GiveUp, FailSession, SaveStatus, CanSave, ExecuteStep, RefuseStep,
       WorkerReturns, SaveCheckpoint, LoseCheckpoint, CancelTask,
       PressOrReleaseStop, AdapterWorks, CrashAll, allVars, sessionVars
  <2>3. ASSUME NEW r \in Calls, ExecuteStep(r) PROVE FALSE
    BY <2>3 DEF ExecuteStep, WithLease, Begin, StepCanBecome, StepUpdatable
  <2> QED BY <2>1, <2>2, <2>3, WorkerStep DEF SInv, SameDispatches
<1>2. SInv /\ [MultiStepNext]_allVars => [Frozen]_allVars
  BY <1>1
<1> QED
  BY <1>2, SessionInvariantHolds, PTL DEF MultiStepSpec, StopFreezesSession

=============================================================================
