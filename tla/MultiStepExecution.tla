------------------------- MODULE MultiStepExecution --------------------------
(***************************************************************************)
(* src/core/multiStepExecution: GovernedExecutionOrchestrator, which runs  *)
(* the steps of a session in the order of their dependencies, each of them *)
(* through GovernedExecutionWorker, with its scheduler, its generations    *)
(* and the document in which a session is kept.                            *)
(*                                                                         *)
(* A call of executeSession works on the document that it loaded first.    *)
(* It runs without interruption from one await of the worker to the next;  *)
(* only a crash comes in between.  Several calls may be under way for one  *)
(* session: nothing looks at the status a session has.                     *)
(*                                                                         *)
(* The statuses FAILED and INVALIDATED of a step are computed, but never   *)
(* written, so a generation is the set of its COMPLETED steps; checkpoints *)
(* are written together with it and say the same.                          *)
(***************************************************************************)
EXTENDS GovernedExecution

CONSTANTS
  Dependencies,             \* of each step, the steps it depends on
  MAX_REPLANS_PER_SESSION,
  MAX_REPLANNING_GENERATIONS,
  MaxSessionVersion         \* bounds how often a session changes its status

ASSUME SessionAssumption ==
  /\ Dependencies \in [Steps -> SUBSET Steps]
  /\ \A S \in SUBSET Steps :
       S # {} => \E s \in S : Dependencies[s] \cap S = {}  \* no cycle
  /\ MAX_REPLANS_PER_SESSION \in Nat
  /\ MAX_REPLANNING_GENERATIONS \in Nat \ {0}
  /\ MaxSessionVersion \in Nat \ {0}

VARIABLES
  sessionDoc,   \* durable: the document of the session, or NoDoc
  held,         \* the session as the caller of the orchestrator has it
  runs          \* the calls of executeSession, a worker's call each

sessionVars == <<sessionDoc, held, runs>>

allVars == <<vars, sessionVars>>

\* activeGenerationId is always the last generation's.
Session == [sessionVersion : 1..MaxSessionVersion,
            status : {"READY", "COMPLETED", "FAILED", "REPLANNING_REQUIRED",
                      "NEW_GENERATION"},
            generations : Seq(SUBSET Steps)]

SessionDocument == [sessionVersion : 1..MaxSessionVersion, session : Session,
                    replanningRequests : 0..MAX_REPLANS_PER_SESSION]

\* What initializeSession creates: generation 0, with no step COMPLETED.
NewSession == [sessionVersion |-> 1, status |-> "READY", generations |-> <<{}>>]

NoDoc == [sessionVersion |-> 0]

NoSession == [sessionVersion |-> 0, status |-> "NONE", generations |-> <<>>]

\* A run is idle, at the head of the loop, waiting for its worker, or about to
\* go on with what the worker returned.
Run == [at : {"idle", "loop", "worker", "returned"},
        doc : SessionDocument \cup {NoDoc}, step : Steps \cup {NoStep},
        success : BOOLEAN]

NoRun == [at |-> "idle", doc |-> NoDoc, step |-> NoStep, success |-> FALSE]

Stored == sessionDoc # NoDoc

\* No run is between two awaits.
Quiet == \A r \in Calls : runs[r].at # "loop"

End(r) == runs' = [runs EXCEPT ![r] = NoRun]

Active(session) == session.generations[Len(session.generations)]

\* The session after updateSessionStatus.
WithStatus(session, status) ==
  [session EXCEPT !.status = status, !.sessionVersion = @ + 1]

MultiStepInit ==
  /\ Init
  /\ sessionDoc = NoDoc
  /\ held = NoSession
  /\ runs = [r \in Calls |-> NoRun]

-----------------------------------------------------------------------------
(***************************************************************************)
(* The scheduler and the store                                             *)
(***************************************************************************)

\* Faulty: the steps are taken by index alone.
ReadyByIndex(completed) == Steps \ completed

\* evaluateStepReadiness: the steps that may be executed.
Ready(completed) ==
  {s \in Steps \ completed : Dependencies[s] \subseteq completed}

\* The first of them by index.
nextExecutableStep(completed) ==
  CHOOSE s \in Ready(completed) : \A t \in Ready(completed) : s <= t

\* Faulty: the stop is not looked at before the document is replaced.
CanSaveUnderStop(doc) == sessionDoc.sessionVersion = doc.sessionVersion

\* saveSessionDocument with the version of the copy: the check is against the
\* version of the document, which executeSession never raises.
CanSave(doc) == ~userStop /\ sessionDoc.sessionVersion = doc.sessionVersion

\* The document after a step's success, with its checkpoint.
Checkpointed(run) ==
  [run.doc EXCEPT !.session.generations[Len(run.doc.session.generations)] =
                    @ \cup {run.step}]

-----------------------------------------------------------------------------
(***************************************************************************)
(* initializeSession and executeSession                                    *)
(***************************************************************************)

\* The task is created where there is none; the document is written over
\* whatever there is: the version is not looked at.
initializeSession ==
  /\ ~userStop /\ Quiet
  /\ task' = IF Exists THEN task ELSE NewTask
  /\ sessionDoc' = [sessionVersion |-> 1, session |-> NewSession,
                    replanningRequests |-> 0]
  /\ held' = NewSession
  /\ UNCHANGED <<seen, userStop, workerVars, runs>>

\* executeSession is called and loads the document.
StartRun(r) ==
  /\ ~userStop /\ Quiet /\ Stored /\ runs[r] = NoRun
  /\ sessionDoc.session.sessionVersion < MaxSessionVersion
  /\ runs' = [runs EXCEPT ![r] = [NoRun EXCEPT !.at = "loop", !.doc = sessionDoc]]
  /\ UNCHANGED <<vars, sessionDoc, held>>

\* The status the run ends with is saved, or the save throws.
SaveStatus(r, doc, status) ==
  /\ sessionDoc' = IF CanSave(doc)
                   THEN [doc EXCEPT !.session = WithStatus(@, status)]
                   ELSE sessionDoc
  /\ End(r)
  /\ UNCHANGED <<vars, held>>

\* No step is left: the dependencies have no cycle, so all are COMPLETED.
Finish(r) ==
  /\ runs[r].at = "loop" /\ Ready(Active(runs[r].doc.session)) = {}
  /\ SaveStatus(r, runs[r].doc, "COMPLETED")

\* The environment is not what the next step expects, or is not known.  The
\* run throws where the session has had its share of replanning.
RequireReplanning(r) ==
  LET doc == runs[r].doc IN
  /\ runs[r].at = "loop" /\ Ready(Active(doc.session)) # {}
  /\ doc.replanningRequests < MAX_REPLANS_PER_SESSION
  /\ SaveStatus(r, [doc EXCEPT !.replanningRequests = @ + 1],
                "REPLANNING_REQUIRED")

\* The token of a human is missing, no lease is issued, the replanning is
\* used up: executeSession throws.
GiveUp(r) ==
  /\ runs[r].at = "loop" /\ Ready(Active(runs[r].doc.session)) # {}
  /\ End(r)
  /\ UNCHANGED <<vars, sessionDoc, held>>

\* The lease is issued for the step and the worker consumes it at once; every
\* id is as good as another.
WithLease(r, s) ==
  LET l == CHOOSE l \in Leases : Fresh(l) IN
  /\ \E l2 \in Leases : Fresh(l2)
  /\ leases' = Consumed(l)
  /\ Begin(r, s, l)
  /\ runs' = [runs EXCEPT ![r].at = "worker", ![r].step = s]

\* The next step goes to the worker, which dispatches it.
ExecuteStep(r) ==
  LET completed == Active(runs[r].doc.session) IN
  /\ runs[r].at = "loop" /\ Ready(completed) # {}
  /\ WithLease(r, nextExecutableStep(completed))
  /\ UNCHANGED <<sessionDoc, held>>

\* The worker refuses the step: the task does not take it, its authorization
\* does not hold, or the audit of its start fails.
RefuseStep(r) ==
  LET completed == Active(runs[r].doc.session)
      s == nextExecutableStep(completed) IN
  /\ runs[r].at = "loop" /\ Ready(completed) # {}
  /\ task' \in MarkedFailed(task, s) \cup
               (IF StepCanBecome(s, "RUNNING")
                THEN MarkedFailed(StepUpdated(task, s, "RUNNING"), s) ELSE {})
  /\ runs' = [runs EXCEPT ![r].at = "returned", ![r].step = s]
  /\ UNCHANGED <<seen, userStop, workerVars, sessionDoc, held>>

\* The worker's call comes back; the run goes on a little later.
WorkerReturns(r) ==
  /\ Quiet /\ runs[r].at = "worker"
  /\ \/ Complete(r) /\ runs' = [runs EXCEPT ![r].at = "returned",
                                            ![r].success = TRUE]
     \/ (CompleteUnsaved(r) \/ Fail(r))
        /\ runs' = [runs EXCEPT ![r].at = "returned"]
  /\ UNCHANGED <<sessionDoc, held>>

\* Faulty: what the worker returned is not looked at.
SaveCheckpointAnyway(r) ==
  LET doc == Checkpointed(runs[r]) IN
  /\ Quiet /\ runs[r].at = "returned"
  /\ CanSave(runs[r].doc)
  /\ sessionDoc' = doc
  /\ runs' = [runs EXCEPT ![r] = [NoRun EXCEPT !.at = "loop", !.doc = doc]]
  /\ UNCHANGED <<vars, held>>

\* The step worked: its checkpoint is saved and the loop goes on.
SaveCheckpoint(r) ==
  LET doc == Checkpointed(runs[r]) IN
  /\ Quiet /\ runs[r].at = "returned" /\ runs[r].success
  /\ CanSave(runs[r].doc)
  /\ sessionDoc' = doc
  /\ runs' = [runs EXCEPT ![r] = [NoRun EXCEPT !.at = "loop", !.doc = doc]]
  /\ UNCHANGED <<vars, held>>

\* The stop is on, or the document has another version: the run throws, and
\* the COMPLETED step is in the task only.
LoseCheckpoint(r) ==
  /\ Quiet /\ runs[r].at = "returned" /\ runs[r].success
  /\ ~CanSave(runs[r].doc)
  /\ End(r)
  /\ UNCHANGED <<vars, sessionDoc, held>>

\* The step failed: the session is FAILED, its steps stay as they were.
FailSession(r) ==
  /\ Quiet /\ runs[r].at = "returned" /\ ~runs[r].success
  /\ SaveStatus(r, runs[r].doc, "FAILED")

-----------------------------------------------------------------------------
(***************************************************************************)
(* The caller, and the environment                                         *)
(***************************************************************************)

\* The caller loads the session.
LoadSession ==
  /\ Quiet /\ Stored /\ held # sessionDoc.session
  /\ held' = sessionDoc.session
  /\ UNCHANGED <<vars, sessionDoc, runs>>

\* The session that transitionToNewGeneration makes of s.
NewGeneration(s) ==
  [s EXCEPT !.status = "NEW_GENERATION", !.sessionVersion = @ + 1,
            !.generations = Append(@, {})]

\* The version of the caller's session is compared with the document's, two
\* counters that agree only as long as no status was saved.
resumeWithReplannedGeneration ==
  /\ ~userStop /\ Quiet /\ Stored
  /\ Len(held.generations) < MAX_REPLANNING_GENERATIONS
  /\ held.sessionVersion < MaxSessionVersion
  /\ held.sessionVersion = sessionDoc.sessionVersion
  /\ held' = NewGeneration(held)
  /\ sessionDoc' = [sessionDoc EXCEPT !.session = NewGeneration(held),
                                      !.sessionVersion = held.sessionVersion + 1]
  /\ UNCHANGED <<vars, runs>>

\* Of what the clients of a task decide, its end matters to its steps.
CancelTask ==
  /\ Quiet
  /\ transitionTask("CANCELLED", task.version)
  /\ UNCHANGED <<seen, userStop, workerVars, sessionVars>>

PressOrReleaseStop ==
  /\ Quiet
  /\ ToggleUserStop
  /\ UNCHANGED <<workerVars, sessionVars>>

AdapterWorks ==
  /\ Quiet
  /\ \E a \in DOMAIN attempts : AdapterSettles(a)
  /\ UNCHANGED sessionVars

CrashAll ==
  /\ Crash
  /\ runs' = [r \in Calls |-> NoRun]
  /\ UNCHANGED <<sessionDoc, held>>

RunStep(r) ==
  \/ Finish(r)
  \/ RequireReplanning(r)
  \/ GiveUp(r)
  \/ ExecuteStep(r)
  \/ RefuseStep(r)
  \/ WorkerReturns(r)
  \/ SaveCheckpoint(r)
  \/ LoseCheckpoint(r)
  \/ FailSession(r)

MultiStepNext ==
  \/ initializeSession
  \/ LoadSession
  \/ resumeWithReplannedGeneration
  \/ \E r \in Calls : StartRun(r)
  \/ \E r \in Calls : RunStep(r)
  \/ CancelTask
  \/ PressOrReleaseStop
  \/ AdapterWorks
  \/ CrashAll

MultiStepSpec == MultiStepInit /\ [][MultiStepNext]_allVars

-----------------------------------------------------------------------------
(***************************************************************************)
(* Properties                                                              *)
(***************************************************************************)

\* The type invariant of the orchestrator and of the worker under it.
MultiStepTypeOK ==
  /\ TypeOK
  /\ sessionDoc \in SessionDocument \cup {NoDoc}
  /\ held \in Session \cup {NoSession}
  /\ runs \in [Calls -> Run]

\* What the document of a session says is done has been done, in the eyes of
\* the task too, in every generation and whatever stale copy was saved last;
\* and a session that is COMPLETED has no step left.
SessionTruthful ==
  Stored =>
    /\ \A g \in DOMAIN sessionDoc.session.generations :
         \A s \in sessionDoc.session.generations[g] : task.steps[s] = "COMPLETED"
    /\ sessionDoc.session.status = "COMPLETED" =>
         \A s \in Steps : task.steps[s] = "COMPLETED"

\* No adapter is dispatched for a step before the steps it depends on are
\* COMPLETED, with runs of one session that overlap, failed runs executed
\* again and new generations in between.
DependenciesFirst ==
  \A a \in DOMAIN attempts : \A d \in Dependencies[attempts[a].step] :
    task.steps[d] = "COMPLETED"

\* A step that is COMPLETED is not dispatched again, by a run whose copy of the
\* session does not know of it, after a lost checkpoint, in a new generation
\* or in a session that was initialized again.
CompletedNotRepeated ==
  [][\A a \in DOMAIN attempts' \ DOMAIN attempts :
       task.steps[attempts'[a].step] # "COMPLETED"]_allVars

\* While USER_STOP is on, neither the session nor its task changes on disk and
\* no step is dispatched, whatever runs were under way.
StopFreezesSession ==
  [][userStop => /\ UNCHANGED <<sessionDoc, task>>
                 /\ Len(attempts') = Len(attempts)]_allVars

=============================================================================
