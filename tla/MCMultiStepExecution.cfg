\* Two steps, two runs at a time and five writes of the task, so two dispatches and
\* their ends; one replanning, one more generation, two saved statuses.
SPECIFICATION MultiStepSpec
CONSTANTS
  StepCount = 2
  Clients = {}
  MaxVersion = 5
  Leases = {l1, l2}
  Calls = {c1, c2}
  Dependencies <- FirstNeedsSecond
  MAX_REPLANS_PER_SESSION = 1
  MAX_REPLANNING_GENERATIONS = 2
  MaxSessionVersion = 3
SYMMETRY Symmetry
CHECK_DEADLOCK FALSE
INVARIANTS
  SessionTruthful
  DependenciesFirst
PROPERTIES
  CompletedNotRepeated
  StopFreezesSession
