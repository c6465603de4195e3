\* Two steps, two leases (so two dispatches) that may overlap, one client, six
\* writes of the task.
SPECIFICATION Spec
CONSTANTS
  StepCount = 2
  Clients = {u}
  MaxVersion = 6
  Leases = {l1, l2}
  Calls = {c1, c2}
SYMMETRY Symmetry
CHECK_DEADLOCK FALSE
INVARIANTS
  OneDispatchPerLease
  SuccessIsUniqueAndReal
  EveryDispatchCounted
  SameVersionSameTask
PROPERTIES
  FrozenStaysFrozen
