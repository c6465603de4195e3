--------------------------- MODULE ExecutionLeases ---------------------------
(***************************************************************************)
(* src/core/governedExecution/executionLeaseManager.ts: the leases under   *)
(* which steps are executed, for one session.  The two maps of the manager *)
(* are in memory: after a restart no lease is known, used or not.          *)
(*                                                                         *)
(* An expired lease stays in the map until somebody presents it, and is    *)
(* refused then; the expiry is modelled where the clock passes it.  All    *)
(* callers issue single-use leases and present them at version 1.          *)
(***************************************************************************)
CONSTANTS
  Leases,         \* the ids that are ever drawn
  LeasedSteps,    \* what a lease may be for
  NoStep

VARIABLE leases   \* what the manager knows of each id

\* An id that is spent has expired, was consumed or invalidated, or was known
\* to a manager of before a restart: consumeLease refuses each of them.
LeaseTypeOK ==
  leases \in [Leases -> [status : {"unissued", "active", "spent"},
                         step : LeasedSteps \cup {NoStep}]]

LeasesInit == leases = [l \in Leases |-> [status |-> "unissued", step |-> NoStep]]

Fresh(l) == leases[l].status = "unissued"

Spent == [status |-> "spent", step |-> NoStep]

issueLease(l, s) ==
  /\ Fresh(l)
  /\ leases' = [leases EXCEPT ![l] = [status |-> "active", step |-> s]]

\* consumeLease finds the lease, in time and unconsumed.
Consumable(l) == leases[l].status = "active"

\* Faulty: the lease stays in the map.
ConsumedKept(l) == leases

\* The lease leaves the map and its id is kept against a replay.
Consumed(l) == [leases EXCEPT ![l] = Spent]

Expire(l) ==
  /\ Consumable(l)
  /\ leases' = [leases EXCEPT ![l] = Spent]

invalidateLeasesForSession ==
  /\ \E l \in Leases : Consumable(l)
  /\ leases' = [l \in Leases |-> IF Consumable(l) THEN Spent ELSE leases[l]]

\* The process restarts.
Forgotten == [l \in Leases |-> IF Fresh(l) THEN leases[l] ELSE Spent]

=============================================================================
