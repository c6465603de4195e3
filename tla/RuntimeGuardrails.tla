-------------------------- MODULE RuntimeGuardrails --------------------------
(***************************************************************************)
(* src/core/policyEnforcement/runtimeGuardrailEnforcer.ts: the execution   *)
(* leases in memory and the count of running executions of each tenant.    *)
(*                                                                         *)
(* A lease keeps the time it has left, expiresAt - Date.now(); Lapsed      *)
(* stands for every negative value.  A lease past its time stays in the    *)
(* map and in the count until the next evaluation or acquisition cleans.   *)
(* A leaseId is fresh (time and random digits).  The retry counters are    *)
(* never written by the program, so they are not modelled.                 *)
(***************************************************************************)
EXTENDS Integers, FiniteSets

CONSTANTS
  Tenants,            \* partition keys of users
  LeaseKeys,          \* what makes two executions the same within a tenant
  LeaseIds,
  ConcurrencyLimit,   \* defaultConcurrencyLimit
  LeaseTTL            \* leaseTtlMs, in ticks

VARIABLES
  activeLeases,              \* the map, as the set of its leases
  activeTenantConcurrency    \* the count of each tenant

Lapsed == -1

Lease == [id : LeaseIds, tenant : Tenants, key : LeaseKeys,
          left : Lapsed..LeaseTTL]

Init ==
  /\ activeLeases = {}
  /\ activeTenantConcurrency = [t \in Tenants |-> 0]

LeasesOf(t) == {l \in activeLeases : l.tenant = t}

Minus(n, m) == IF n > m THEN n - m ELSE 0

\* cleanExpiredLeases, which evaluateGuardrails and acquireExecutionLease call
\* first.
LiveLeases == {l \in activeLeases : l.left # Lapsed}

CleanedConcurrency ==
  [t \in Tenants |->
     Minus(activeTenantConcurrency[t],
           Cardinality({l \in LeasesOf(t) : l.left = Lapsed}))]

Clean ==
  /\ activeLeases' = LiveLeases
  /\ activeTenantConcurrency' = CleanedConcurrency

\* Faulty: off by one.
AdmitsOneMore(t) == CleanedConcurrency[t] <= ConcurrencyLimit

\* evaluateGuardrails: the tenant is below its limit.
Admits(t) == CleanedConcurrency[t] < ConcurrencyLimit

\* acquireExecutionLease finds a lease under the same key.
LeaseConflict(t, key) == \E l \in LiveLeases : l.tenant = t /\ l.key = key

\* acquireExecutionLease, where there is no conflict.
Acquire(id, t, key) ==
  /\ activeLeases' = LiveLeases \cup
       {[id |-> id, tenant |-> t, key |-> key, left |-> LeaseTTL]}
  /\ activeTenantConcurrency' = [CleanedConcurrency EXCEPT ![t] = @ + 1]

\* Faulty: the count goes down also where the lease was cleaned before.
ReleaseAlways(lease) ==
  /\ activeLeases' = {l \in activeLeases : l.id # lease.id}
  /\ activeTenantConcurrency' =
       [activeTenantConcurrency EXCEPT ![lease.tenant] = Minus(@, 1)]

\* Faulty: the lease is looked up by its key.
ReleaseByKey(lease) ==
  LET mine == {l \in LeasesOf(lease.tenant) : l.key = lease.key} IN
  /\ activeLeases' = activeLeases \ mine
  /\ activeTenantConcurrency' =
       [activeTenantConcurrency EXCEPT ![lease.tenant] =
          Minus(@, Cardinality(mine))]

\* Faulty: a lease is left to expire.
ReleaseNever(lease) == UNCHANGED <<activeLeases, activeTenantConcurrency>>

\* releaseExecutionLease: by id, and only a lease still in the map counts.
Release(lease) ==
  LET mine == {l \in activeLeases : l.id = lease.id} IN
  /\ activeLeases' = activeLeases \ mine
  /\ activeTenantConcurrency' =
       [activeTenantConcurrency EXCEPT ![lease.tenant] =
          IF mine # {} THEN Minus(@, 1) ELSE @]

\* A tick of the clock.
AgedLeases ==
  {[l EXCEPT !.left = IF @ = Lapsed THEN @ ELSE @ - 1] : l \in activeLeases}

TypeOK ==
  /\ activeLeases \subseteq Lease
  /\ activeTenantConcurrency \in [Tenants -> Nat]

\* The count that admission trusts is the number of leases in the map.
CountsLeases ==
  \A t \in Tenants : activeTenantConcurrency[t] = Cardinality(LeasesOf(t))
=============================================================================
