\* One caller at work and two in the queue, three requests: a fatal failure may
\* find a request behind it.  The limits of the loop keep their order in the code.
SPECIFICATION Spec
CONSTANTS
  Requests = {r1, r2, r3}
  Callers = {a, b, c}
  MaxQueueSize = 2
  MaxIterations = 10
  MaxRecoveryDepth = 2
  MaxRetryAttempts = 2
INVARIANTS
  RetriesEnd
  ReadyIsUsable
  SuccessIsOnRecord
PROPERTIES
  RecordedNeverRunsAgain
  EveryRequestAnswered
