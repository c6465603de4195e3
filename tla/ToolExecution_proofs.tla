------------------------- MODULE ToolExecution_proofs -------------------------
(***************************************************************************)
(* Proofs about ToolExecution, for any number of calls, tenants, tools,    *)
(* keys and approvals: first the execution leases by themselves, then the  *)
(* calls, the stored results and the approvals.                            *)
(***************************************************************************)
EXTENDS ToolExecution, FiniteSetTheorems, TLAPS

-----------------------------------------------------------------------------
(***************************************************************************)
(* The execution leases                                                    *)
(***************************************************************************)

\* The instance has an operator Cardinality of its own, with the same definition.
LEMMA GuardCardinality == \A S : Guard!Cardinality(S) = Cardinality(S)
BY DEF Guard!Cardinality, Cardinality

LiveOf(t) == {l \in Guard!LiveLeases : l.tenant = t}

LapsedOf(t) == {l \in Guard!LeasesOf(t) : l.left = Guard!Lapsed}

\* What is true of the leases, whoever holds them.
LeasesInOrder ==
  /\ Guard!TypeOK
  /\ IsFiniteSet(activeLeases)
  /\ Guard!CountsLeases
  /\ \A t \in Tenants : Cardinality(Guard!LeasesOf(t)) <= ConcurrencyLimit
  /\ \A l, m \in activeLeases : l.id = m.id => l = m
  /\ \A l, m \in Guard!LiveLeases : l.tenant = m.tenant /\ l.key = m.key => l = m

\* The counts of leases are natural numbers: lease sets have at most one lease
\* for each call.
LEMMA LeaseSetsAreFinite ==
  ASSUME LeasesInOrder, NEW t
  PROVE  /\ IsFiniteSet(Guard!LiveLeases)
         /\ IsFiniteSet(Guard!LeasesOf(t)) /\ Cardinality(Guard!LeasesOf(t)) \in Nat
         /\ IsFiniteSet(LiveOf(t)) /\ Cardinality(LiveOf(t)) \in Nat
         /\ IsFiniteSet(LapsedOf(t)) /\ Cardinality(LapsedOf(t)) \in Nat
<1>1. /\ Guard!LiveLeases \in SUBSET activeLeases
      /\ Guard!LeasesOf(t) \in SUBSET activeLeases
      /\ LiveOf(t) \in SUBSET activeLeases
      /\ LapsedOf(t) \in SUBSET activeLeases
  BY DEF Guard!LiveLeases, Guard!LeasesOf, LiveOf, LapsedOf
<1> QED BY <1>1, FS_Subset, FS_CardinalityType DEF LeasesInOrder

\* cleanExpiredLeases leaves the count of the leases that are still in time.
LEMMA CleanedCount ==
  ASSUME LeasesInOrder
  PROVE  /\ Guard!CleanedConcurrency \in [Tenants -> Nat]
         /\ \A t \in Tenants :
              /\ Guard!CleanedConcurrency[t] = Cardinality(LiveOf(t))
              /\ Cardinality(LiveOf(t)) <= ConcurrencyLimit
<1>1. ASSUME NEW t \in Tenants
      PROVE  /\ Guard!CleanedConcurrency[t] = Cardinality(LiveOf(t))
             /\ Cardinality(LiveOf(t)) <= ConcurrencyLimit
             /\ Guard!CleanedConcurrency[t] \in Nat
  <2> DEFINE all == Guard!LeasesOf(t)
  <2>1. all \cap LapsedOf(t) = LapsedOf(t) /\ all \ LapsedOf(t) = LiveOf(t)
    BY DEF LapsedOf, LiveOf, Guard!LiveLeases, Guard!LeasesOf
  <2>2. /\ IsFiniteSet(all) /\ Cardinality(all) \in Nat
        /\ Cardinality(LapsedOf(t)) \in Nat /\ Cardinality(LiveOf(t)) \in Nat
    BY LeaseSetsAreFinite
  <2>3. activeTenantConcurrency[t] = Cardinality(all)
        /\ Cardinality(all) <= ConcurrencyLimit
    BY GuardCardinality DEF LeasesInOrder, Guard!CountsLeases
  <2> HIDE DEF all
  <2>4. Cardinality(LiveOf(t)) = Cardinality(all) - Cardinality(LapsedOf(t))
    BY <2>1, <2>2, FS_Difference
  <2>5. Guard!CleanedConcurrency[t]
          = Guard!Minus(activeTenantConcurrency[t], Cardinality(LapsedOf(t)))
    BY GuardCardinality DEF Guard!CleanedConcurrency, LapsedOf
  <2> QED
    BY <2>2, <2>3, <2>4, <2>5, BoundsAssumption DEF Guard!Minus
<1> QED BY <1>1 DEF Guard!CleanedConcurrency

\* Dropping the leases whose time is over takes each of them off its tenant's
\* counter.
LEMMA CleanKeepsOrder ==
  ASSUME LeasesInOrder, Guard!Clean PROVE LeasesInOrder'
<1>1. activeLeases' = Guard!LiveLeases
      /\ activeTenantConcurrency' = Guard!CleanedConcurrency
  BY DEF Guard!Clean
<1>2. activeLeases' \subseteq activeLeases
  BY <1>1 DEF Guard!LiveLeases
<1>3. Guard!TypeOK'
  BY <1>1, <1>2, CleanedCount DEF LeasesInOrder, Guard!TypeOK
<1>4. \A t \in Tenants : Guard!LeasesOf(t)' = LiveOf(t)
  BY <1>1 DEF Guard!LeasesOf, LiveOf
<1>5. /\ Guard!CountsLeases'
      /\ \A t \in Tenants : Cardinality(Guard!LeasesOf(t)') <= ConcurrencyLimit
  BY GuardCardinality, <1>1, <1>4, CleanedCount DEF Guard!CountsLeases
<1>6. IsFiniteSet(activeLeases')
  BY <1>1, LeaseSetsAreFinite
<1>7. Guard!LiveLeases' \subseteq Guard!LiveLeases
  BY <1>1 DEF Guard!LiveLeases
<1> QED BY <1>2, <1>3, <1>5, <1>6, <1>7 DEF LeasesInOrder

\* An admitted lease is counted once, and is the only one of its call and its
\* key.
LEMMA AcquireKeepsOrder ==
  ASSUME LeasesInOrder, NEW c \in Calls, NEW t \in Tenants, NEW k \in LeaseKeys,
         Guard!Admits(t), ~Guard!LeaseConflict(t, k),
         \A l \in activeLeases : l.id # c,
         Guard!Acquire(c, t, k)
  PROVE  LeasesInOrder'
<1> DEFINE new == [id |-> c, tenant |-> t, key |-> k, left |-> LeaseTTL]
<1>1. /\ activeLeases' = Guard!LiveLeases \cup {new}
      /\ activeTenantConcurrency' = [Guard!CleanedConcurrency EXCEPT ![t] = @ + 1]
  BY DEF Guard!Acquire
<1>2. new \in Guard!Lease /\ new.id = c /\ new.tenant = t /\ new.key = k
  BY BoundsAssumption DEF Guard!Lease, Guard!Lapsed
<1>3. new \notin activeLeases /\ Guard!LiveLeases \subseteq activeLeases
  BY <1>2 DEF Guard!LiveLeases
<1> HIDE DEF new
<1>4. Guard!TypeOK'
  BY <1>1, <1>2, <1>3, CleanedCount DEF LeasesInOrder, Guard!TypeOK
<1>5. IsFiniteSet(activeLeases')
  BY <1>1, LeaseSetsAreFinite, FS_AddElement
<1>6. /\ Guard!LeasesOf(t)' = LiveOf(t) \cup {new} /\ new \notin LiveOf(t)
      /\ \A u \in Tenants \ {t} : Guard!LeasesOf(u)' = LiveOf(u)
  BY <1>1, <1>2, <1>3 DEF Guard!LeasesOf, LiveOf
<1>7. Cardinality(Guard!LeasesOf(t)') = Cardinality(LiveOf(t)) + 1
  BY <1>6, LeaseSetsAreFinite, FS_AddElement
<1>8. Cardinality(LiveOf(t)) < ConcurrencyLimit
  BY CleanedCount DEF Guard!Admits
<1>9. Cardinality(LiveOf(t)) \in Nat
  BY LeaseSetsAreFinite
<1>10. \A u \in Tenants :
         /\ activeTenantConcurrency'[u] = Cardinality(Guard!LeasesOf(u)')
         /\ Cardinality(Guard!LeasesOf(u)') <= ConcurrencyLimit
  <2> TAKE u \in Tenants
  <2>1. CASE u = t
    BY <1>1, <1>7, <1>8, <1>9, <2>1, CleanedCount, BoundsAssumption
  <2>2. CASE u # t
    BY <1>1, <1>6, <2>2, CleanedCount
  <2> QED BY <2>1, <2>2
<1>11. \A l, m \in activeLeases' : l.id = m.id => l = m
  BY <1>1, <1>2, <1>3 DEF LeasesInOrder
<1>12. \A l \in Guard!LiveLeases' : l \in Guard!LiveLeases \/ l = new
  BY <1>1 DEF Guard!LiveLeases
<1>13. \A l \in Guard!LiveLeases : ~(l.tenant = t /\ l.key = k)
  BY DEF Guard!LeaseConflict
<1>14. \A l, m \in Guard!LiveLeases' :
         l.tenant = m.tenant /\ l.key = m.key => l = m
  BY <1>2, <1>12, <1>13 DEF LeasesInOrder
<1> QED
  BY GuardCardinality, <1>4, <1>5, <1>10, <1>11, <1>14 DEF LeasesInOrder, Guard!CountsLeases

\* Only a lease that is still in the map is counted down, and it is the one
\* with the id of the call.
LEMMA ReleaseKeepsOrder ==
  ASSUME LeasesInOrder, NEW lease, lease.tenant \in Tenants,
         \A l \in activeLeases : l.id = lease.id => l.tenant = lease.tenant,
         Guard!Release(lease)
  PROVE  LeasesInOrder'
<1> DEFINE mine == {l \in activeLeases : l.id = lease.id}
           t == lease.tenant
<1>1. /\ activeLeases' = activeLeases \ mine
      /\ activeTenantConcurrency' =
           [activeTenantConcurrency EXCEPT ![t] =
              IF mine # {} THEN Guard!Minus(@, 1) ELSE @]
  BY DEF Guard!Release
<1>2. activeTenantConcurrency \in [Tenants -> Nat]
  BY DEF LeasesInOrder, Guard!TypeOK
<1>3. IsFiniteSet(activeLeases') /\ activeLeases' \subseteq activeLeases
  BY <1>1, FS_Difference DEF LeasesInOrder
<1>4. Guard!LiveLeases' \subseteq Guard!LiveLeases
  BY <1>3 DEF Guard!LiveLeases
<1>5. \A u \in Tenants \ {t} : Guard!LeasesOf(u)' = Guard!LeasesOf(u)
  BY <1>1 DEF Guard!LeasesOf
<1>6. CASE mine = {}
  <2>1. activeLeases' = activeLeases
        /\ activeTenantConcurrency' = activeTenantConcurrency
    BY <1>1, <1>2, <1>6
  <2> QED
    BY <2>1 DEF LeasesInOrder, Guard!TypeOK, Guard!CountsLeases,
       Guard!LeasesOf, Guard!LiveLeases
<1>7. CASE mine # {}
  <2>1. PICK l \in activeLeases : mine = {l} /\ l.tenant = t
    BY <1>7 DEF LeasesInOrder
  <2>2. Guard!LeasesOf(t)' = Guard!LeasesOf(t) \ {l} /\ l \in Guard!LeasesOf(t)
    BY <1>1, <2>1 DEF Guard!LeasesOf
  <2>3. Cardinality(Guard!LeasesOf(t)') = Cardinality(Guard!LeasesOf(t)) - 1
    BY <2>2, LeaseSetsAreFinite, FS_RemoveElement
  <2>4. IsFiniteSet(Guard!LeasesOf(t)')
    BY <2>2, LeaseSetsAreFinite, FS_RemoveElement
  <2>5. /\ Cardinality(Guard!LeasesOf(t)) \in Nat
        /\ Cardinality(Guard!LeasesOf(t)') \in Nat
    BY <2>4, LeaseSetsAreFinite, FS_CardinalityType
  <2>6. activeTenantConcurrency[t] = Cardinality(Guard!LeasesOf(t))
        /\ Cardinality(Guard!LeasesOf(t)) <= ConcurrencyLimit
    BY GuardCardinality DEF LeasesInOrder, Guard!CountsLeases
  <2>7. Guard!Minus(activeTenantConcurrency[t], 1)
          = Cardinality(Guard!LeasesOf(t)')
    BY <2>3, <2>5, <2>6 DEF Guard!Minus
  <2>8. activeTenantConcurrency' = [activeTenantConcurrency EXCEPT ![t] =
                                      Cardinality(Guard!LeasesOf(t)')]
    BY <1>1, <1>2, <1>7, <2>7
  <2> HIDE DEF t, mine
  <2>9. Guard!TypeOK'
    BY <1>2, <1>3, <2>5, <2>8 DEF LeasesInOrder, Guard!TypeOK
  <2>10. \A u \in Tenants :
          /\ activeTenantConcurrency'[u] = Cardinality(Guard!LeasesOf(u)')
          /\ Cardinality(Guard!LeasesOf(u)') <= ConcurrencyLimit
    <3> TAKE u \in Tenants
    <3>1. CASE u = t
      BY <1>2, <2>3, <2>5, <2>6, <2>8, <3>1, BoundsAssumption
    <3>2. CASE u # t
      BY GuardCardinality, <1>2, <1>5, <2>8, <3>2 DEF LeasesInOrder, Guard!CountsLeases
    <3> QED BY <3>1, <3>2
  <2> QED
    BY GuardCardinality, <1>3, <1>4, <2>9, <2>10 DEF LeasesInOrder, Guard!CountsLeases
<1> QED BY <1>6, <1>7

\* Time takes a lease to its end, and neither adds nor removes one.
LEMMA AgeKeepsOrder ==
  ASSUME LeasesInOrder, activeLeases' = Guard!AgedLeases,
         UNCHANGED activeTenantConcurrency
  PROVE  /\ LeasesInOrder'
         /\ \A l \in activeLeases : \E m \in activeLeases' : m.id = l.id
         /\ \A m \in activeLeases' : \E l \in activeLeases :
              l.id = m.id /\ l.tenant = m.tenant /\ l.key = m.key
<1> DEFINE aged(l) == [l EXCEPT !.left = IF @ = Guard!Lapsed THEN @ ELSE @ - 1]
           Older == [l \in activeLeases |-> aged(l)]
<1>1. \A l \in activeLeases :
        /\ Older[l] \in Guard!Lease /\ Older[l].id = l.id
        /\ Older[l].tenant = l.tenant /\ Older[l].key = l.key
        /\ Older[l].left # Guard!Lapsed => l.left # Guard!Lapsed
  BY BoundsAssumption
  DEF LeasesInOrder, Guard!TypeOK, Guard!Lease, Guard!Lapsed
<1>2. activeLeases' = {Older[l] : l \in activeLeases}
  BY DEF Guard!AgedLeases
<1>3. DOMAIN Older = activeLeases
  OBVIOUS
<1> HIDE DEF Older
<1>4. \A l, m \in activeLeases : Older[l] = Older[m] => l = m
  BY <1>1 DEF LeasesInOrder
<1>5. IsFiniteSet(activeLeases')
  <2> DEFINE f == [l \in activeLeases |-> Older[l]]
  <2>1. f \in Surjection(activeLeases, activeLeases')
    BY <1>2 DEF Surjection
  <2> QED BY <2>1, FS_Surjection DEF LeasesInOrder
<1>6. \A t \in Tenants : Cardinality(Guard!LeasesOf(t)')
                           = Cardinality(Guard!LeasesOf(t))
  <2> TAKE t \in Tenants
  <2> DEFINE S == Guard!LeasesOf(t)
             f == [l \in S |-> Older[l]]
  <2>1. S \subseteq activeLeases
    BY DEF Guard!LeasesOf
  <2>2. S' = {Older[l] : l \in S}
    BY <1>1, <1>2 DEF Guard!LeasesOf
  <2>3. IsFiniteSet(S)
    BY LeaseSetsAreFinite
  <2> HIDE DEF S
  <2>4. f \in [S -> S']
    BY <2>2
  <2>5. IsInjective(f) /\ \A y \in S' : \E x \in S : f[x] = y
    BY <1>4, <2>1, <2>2 DEF IsInjective
  <2>6. f \in Bijection(S, S')
    BY <2>4, <2>5 DEF Bijection, Injection, Surjection
  <2>7. Cardinality(S') = Cardinality(S)
    BY <2>3, <2>6, FS_Bijection DEF ExistsBijection
  <2> QED BY <2>7 DEF S
<1>7. /\ Guard!TypeOK'
      /\ \A l, m \in activeLeases' : l.id = m.id => l = m
      /\ \A l \in activeLeases : \E m \in activeLeases' : m.id = l.id
      /\ \A m \in activeLeases' : \E l \in activeLeases :
           l.id = m.id /\ l.tenant = m.tenant /\ l.key = m.key
  BY <1>1, <1>2 DEF LeasesInOrder, Guard!TypeOK
<1>8. \A l, m \in Guard!LiveLeases' :
        l.tenant = m.tenant /\ l.key = m.key => l = m
  BY <1>1, <1>2 DEF LeasesInOrder, Guard!LiveLeases
<1>9. \A t \in Tenants :
        /\ activeTenantConcurrency'[t] = Cardinality(Guard!LeasesOf(t)')
        /\ Cardinality(Guard!LeasesOf(t)') <= ConcurrencyLimit
  BY <1>6, GuardCardinality DEF LeasesInOrder, Guard!CountsLeases
<1> QED
  BY <1>5, <1>7, <1>8, <1>9, GuardCardinality
  DEF LeasesInOrder, Guard!CountsLeases

\* After a restart there is no lease.
LEMMA NoLeasesInOrder ==
  /\ activeLeases = {}
  /\ activeTenantConcurrency = [t \in Tenants |-> 0]
  => LeasesInOrder
<1> SUFFICES ASSUME activeLeases = {},
                    activeTenantConcurrency = [t \in Tenants |-> 0]
             PROVE  LeasesInOrder
  OBVIOUS
<1>1. \A t \in Tenants : Guard!LeasesOf(t) = {}
  BY DEF Guard!LeasesOf
<1> QED
  BY <1>1, FS_EmptySet, GuardCardinality, BoundsAssumption
  DEF LeasesInOrder, Guard!TypeOK, Guard!CountsLeases, Guard!LiveLeases

\* A process that has just started has no lease and counts none.
LEMMA NoLeasesInOrderNext ==
  (/\ activeLeases = {}
   /\ activeTenantConcurrency = [t \in Tenants |-> 0]
   => LeasesInOrder)'
BY NoLeasesInOrder, PTL

-----------------------------------------------------------------------------
(***************************************************************************)
(* The calls                                                               *)
(***************************************************************************)

\* A call has no outcome and no effect before it is started, no outcome while
\* it runs, and it is over when its result has reached the store.
CallsInOrder ==
  \A c \in Calls :
    /\ Idle(c) => calls[c].outcome = "none" /\ ~calls[c].effect
    /\ Running(c) => calls[c].outcome = "none" /\ RequestOf(c).user \in Tenants
    /\ Idle(c) \/ RequestOf(c) \in Requests
    /\ calls[c].recorded => calls[c].pc = "done" /\ calls[c].effect

\* What a step may make of the calls.
Moved(c) ==
  calls' \in [Calls -> Call] /\ \A d \in Calls \ {c} : calls'[d] = calls[d]

TurnedAway(c, r) ==
  /\ Moved(c) /\ Idle(c)
  /\ calls'[c].pc = "done" /\ calls'[c].request = r
  /\ calls'[c].outcome \in {"cached", "conflict", "denied", "clash"}
  /\ calls'[c].effect = calls[c].effect
  /\ calls'[c].recorded = calls[c].recorded

Started(c, r) ==
  /\ Moved(c) /\ Idle(c)
  /\ calls'[c].pc = "running" /\ calls'[c].request = r
  /\ calls'[c].outcome = calls[c].outcome
  /\ calls'[c].effect = calls[c].effect
  /\ calls'[c].recorded = calls[c].recorded

Worked(c) ==
  /\ Moved(c) /\ Running(c)
  /\ calls'[c].pc = "running" /\ calls'[c].request = calls[c].request
  /\ calls'[c].outcome = calls[c].outcome
  /\ calls'[c].effect
  /\ calls'[c].recorded = calls[c].recorded

Ended(c) ==
  /\ Moved(c) /\ Running(c)
  /\ calls'[c].pc = "done" /\ calls'[c].request = calls[c].request
  /\ calls'[c].outcome \in {"result", "error"}
  /\ calls'[c].effect = calls[c].effect
  /\ calls'[c].recorded => calls[c].effect \/ calls[c].recorded

Lost ==
  /\ calls' \in [Calls -> Call]
  /\ \A c \in Calls : Running(c) =>
       /\ calls'[c].pc = "done" /\ calls'[c].request = calls[c].request
       /\ calls'[c].outcome = "lost"
       /\ calls'[c].effect = calls[c].effect
       /\ calls'[c].recorded = calls[c].recorded
  /\ \A c \in Calls : ~Running(c) => calls'[c] = calls[c]

\* A request that ends at once leaves its call with the outcome given.
LEMMA EndFacts ==
  ASSUME TypeOK, NEW c \in Calls, NEW r \in Requests, NEW source \in Calls,
         NEW outcome \in {"cached", "conflict", "denied", "clash"},
         Idle(c), End(c, r, outcome, source)
  PROVE  /\ TurnedAway(c, r)
         /\ calls'[c].outcome = outcome /\ calls'[c].source = source
<1> DEFINE e == [calls[c] EXCEPT !.pc = "done", !.request = r,
                                 !.outcome = outcome, !.source = source]
<1>1. calls \in [Calls -> Call] /\ calls[c] \in Call
  BY DEF TypeOK
<1>2. calls' = [calls EXCEPT ![c] = e]
  BY <1>1 DEF End
<1>3. /\ e \in Call /\ e.pc = "done" /\ e.request = r /\ e.outcome = outcome
      /\ e.source = source /\ e.effect = calls[c].effect
      /\ e.recorded = calls[c].recorded
  BY <1>1 DEF Call, Outcomes
<1> HIDE DEF e
<1> QED BY <1>1, <1>2, <1>3 DEF TurnedAway, Moved

\* Begin starts the call and nothing else.
LEMMA BeginFacts ==
  ASSUME TypeOK, NEW c \in Calls, NEW r \in Requests, Begin(c, r)
  PROVE  Started(c, r)
<1> DEFINE e == [calls[c] EXCEPT !.pc = "running", !.request = r]
<1>1. calls \in [Calls -> Call] /\ calls[c] \in Call
  BY DEF TypeOK
<1>2. calls' = [calls EXCEPT ![c] = e]
  BY <1>1 DEF Begin
<1>3. /\ e \in Call /\ e.pc = "running" /\ e.request = r
      /\ e.outcome = calls[c].outcome /\ e.effect = calls[c].effect
      /\ e.recorded = calls[c].recorded
  BY <1>1 DEF Call
<1> HIDE DEF e
<1> QED BY <1>1, <1>2, <1>3 DEF Started, Moved, Begin

\* The tool's effect is a step of the running call alone.
LEMMA EffectFacts ==
  ASSUME TypeOK, NEW c \in Calls, Effect(c)
  PROVE  Worked(c)
<1> DEFINE e == [calls[c] EXCEPT !.effect = TRUE]
<1>1. calls \in [Calls -> Call] /\ calls[c] \in Call
  BY DEF TypeOK
<1>2. calls' = [calls EXCEPT ![c] = e]
  BY <1>1 DEF Effect
<1>3. /\ e \in Call /\ e.pc = calls[c].pc /\ e.request = calls[c].request
      /\ e.outcome = calls[c].outcome /\ e.effect = TRUE
      /\ e.recorded = calls[c].recorded
  BY <1>1 DEF Call
<1> HIDE DEF e
<1> QED BY <1>1, <1>2, <1>3 DEF Worked, Moved, Effect, Running

\* The four ends of a call whose tool was started.
LEMMA RecordedEnd ==
  ASSUME TypeOK, NEW c \in Calls, NEW outcome \in {"result", "error"},
         Running(c), calls[c].effect,
         calls' = [calls EXCEPT ![c].pc = "done", ![c].recorded = TRUE,
                                ![c].outcome = outcome]
  PROVE  Ended(c) /\ calls'[c].outcome = outcome /\ calls'[c].recorded
<1> DEFINE e == [calls[c] EXCEPT !.pc = "done", !.recorded = TRUE,
                                 !.outcome = outcome]
<1>1. calls \in [Calls -> Call] /\ calls[c] \in Call
  BY DEF TypeOK
<1>2. calls' = [calls EXCEPT ![c] = e]
  BY <1>1
<1>3. /\ e \in Call /\ e.pc = "done" /\ e.request = calls[c].request
      /\ e.outcome = outcome /\ e.effect = calls[c].effect
      /\ e.recorded = TRUE
  BY <1>1 DEF Call, Outcomes
<1> HIDE DEF e
<1> QED BY <1>1, <1>2, <1>3 DEF Ended, Moved

\* A running call that fails ends with an error.
LEMMA FailedEnd ==
  ASSUME TypeOK, NEW c \in Calls, Running(c),
         calls' = [calls EXCEPT ![c].pc = "done", ![c].outcome = "error"]
  PROVE  Ended(c) /\ calls'[c].outcome = "error"
<1> DEFINE e == [calls[c] EXCEPT !.pc = "done", !.outcome = "error"]
<1>1. calls \in [Calls -> Call] /\ calls[c] \in Call
  BY DEF TypeOK
<1>2. calls' = [calls EXCEPT ![c] = e]
  BY <1>1
<1>3. /\ e \in Call /\ e.pc = "done" /\ e.request = calls[c].request
      /\ e.outcome = "error" /\ e.effect = calls[c].effect
      /\ e.recorded = calls[c].recorded
  BY <1>1 DEF Call, Outcomes
<1> HIDE DEF e
<1> QED BY <1>1, <1>2, <1>3 DEF Ended, Moved

\* A crash ends the running calls, whatever they were doing.
LEMMA CrashFacts == ASSUME TypeOK, Crash PROVE Lost
<1> DEFINE e(c) == [calls[c] EXCEPT !.pc = "done", !.outcome = "lost"]
<1>1. calls \in [Calls -> Call]
  BY DEF TypeOK
<1>2. \A c \in Calls :
        /\ e(c) \in Call /\ e(c).pc = "done" /\ e(c).request = calls[c].request
        /\ e(c).outcome = "lost" /\ e(c).effect = calls[c].effect
        /\ e(c).recorded = calls[c].recorded
  <2> TAKE c \in Calls
  <2>1. calls[c] \in Call
    BY <1>1
  <2> QED BY <2>1 DEF Call, Outcomes
<1>3. calls' = [c \in Calls |-> IF Running(c) THEN e(c) ELSE calls[c]]
  BY DEF Crash
<1> HIDE DEF e
<1>4. calls' \in [Calls -> Call]
  BY <1>1, <1>2, <1>3
<1> QED BY <1>2, <1>3, <1>4 DEF Lost

\* The actions that turn a call away, and those that end one.
Refusing(c, r) ==
  \/ RefuseReuse(c, r)
  \/ Deny(c, r)
  \/ \E a \in Approvals : AskApproval(c, r, a)
  \/ RefuseToken(c, r)

Ending(c) ==
  \/ Finish(c)
  \/ FinishAuditFails(c)
  \/ FinishRecordFails(c)
  \/ ToolThrows(c)

\* A refusal before the tool runs writes BLOCKED at most.
LEMMA RefusingFacts ==
  ASSUME TypeOK, NEW c \in Calls, NEW r \in Requests, Refusing(c, r)
  PROVE  /\ TurnedAway(c, r)
         /\ calls'[c].outcome \in {"conflict", "denied"}
         /\ \E done \in SUBSET {"BLOCKED"} : Writes(c, {"BLOCKED"}, done)
<1>1. /\ Idle(c)
      /\ \E outcome \in {"conflict", "denied"} : Block(c, r, outcome)
  BY DEF Refusing, RefuseReuse, Deny, AskApproval, RefuseToken
<1> QED BY <1>1, EndFacts DEF Block

\* A call that comes back from the tool ends and releases its own lease.
LEMMA EndingFacts ==
  ASSUME TypeOK, NEW c \in Calls, Ending(c)
  PROVE  Ended(c) /\ Guard!Release(LeaseOf(c)) /\ UNCHANGED <<approvals, killSwitch>>
<1>1. CASE Finish(c)
  BY <1>1, RecordedEnd DEF Finish
<1>2. CASE FinishAuditFails(c)
  BY <1>2, RecordedEnd DEF FinishAuditFails
<1>3. CASE FinishRecordFails(c)
  BY <1>3, FailedEnd DEF FinishRecordFails
<1>4. CASE ToolThrows(c)
  BY <1>4, FailedEnd DEF ToolThrows
<1> QED BY <1>1, <1>2, <1>3, <1>4 DEF Ending

\* The actions by what they do to the calls, for the lemmas that follow.
LEMMA NextKinds ==
  ASSUME [Next]_vars
  PROVE  \/ \E c \in Calls, r \in Requests : Refusing(c, r)
         \/ \E c \in Calls, r \in Requests : ReturnCached(c, r)
         \/ \E c \in Calls, r \in Requests : LeaseClash(c, r)
         \/ \E c \in Calls, r \in Requests : Begin(c, r)
         \/ \E c \in Calls : Effect(c)
         \/ \E c \in Calls : Ending(c)
         \/ \E a \in Approvals : Decide(a)
         \/ SetGlobalKillSwitch
         \/ Tick
         \/ Crash
         \/ UNCHANGED vars
BY DEF Next, Refusing, Ending

\* A request that reaches the guardrails names a tenant and has a lease key.
LEMMA UserOfReaching ==
  ASSUME NEW r \in Requests, ReachesGuardrails(r)
  PROVE  r.user \in Tenants /\ LeaseKey(r) \in LeaseKeys
BY RequestsAssumption
DEF Request, ReachesGuardrails, LeaseKey, LeaseKeys

\* A call that meets another one's lease is turned away.
LEMMA ClashFacts ==
  ASSUME TypeOK, NEW c \in Calls, NEW r \in Requests, LeaseClash(c, r)
  PROVE  TurnedAway(c, r) /\ calls'[c].outcome = "clash"
BY EndFacts DEF LeaseClash

\* A cached answer is the entry of the same key, in the store of the caller, whose
\* arguments are the call's where both have any.
LEMMA CachedFacts ==
  ASSUME TypeOK, NEW c \in Calls, NEW r \in Requests, ReturnCached(c, r)
  PROVE  /\ StoreOf(r) \in Tenants /\ r.key \in Keys
         /\ entries[StoreOf(r)][r.key] # Store!NoEntry
         /\ Store!SamePayload(entries[StoreOf(r)][r.key], r.arguments)
         /\ TurnedAway(c, r) /\ calls'[c].outcome = "cached"
         /\ calls'[c].source = entries[StoreOf(r)][r.key].result
<1>1. /\ StoreOf(r) \in Tenants /\ r.key \in Keys
      /\ entries[StoreOf(r)][r.key] # Store!NoEntry
      /\ Store!SamePayload(entries[StoreOf(r)][r.key], r.arguments)
  BY RequestsAssumption, ClassesAssumption
  DEF ReturnCached, Store!Duplicate, Store!Current, Request, StoreOf
<1>2. entries[StoreOf(r)][r.key].result \in Calls
  BY <1>1 DEF TypeOK, Store!TypeOK, Store!Entry
<1> QED BY <1>1, <1>2, EndFacts DEF ReturnCached

\* Every step moves one call at most, or is a crash.
LEMMA NextMoves ==
  ASSUME TypeOK, [Next]_vars
  PROVE  \/ UNCHANGED calls
         \/ \E c \in Calls, r \in Requests : TurnedAway(c, r)
         \/ \E c \in Calls, r \in Requests : Begin(c, r) /\ Started(c, r)
         \/ \E c \in Calls : Worked(c) \/ Ended(c)
         \/ Lost
BY NextKinds, ClashFacts, CachedFacts, RefusingFacts, BeginFacts, EffectFacts,
   EndingFacts, CrashFacts
DEF Decide, SetGlobalKillSwitch, Tick, vars

\* Every step keeps the calls' types and their order: what a call has become it
\* keeps.
LEMMA NextCalls ==
  ASSUME TypeOK, CallsInOrder, [Next]_vars
  PROVE  calls' \in [Calls -> Call] /\ CallsInOrder'
<1>1. ASSUME NEW c \in Calls, NEW r \in Requests, TurnedAway(c, r)
      PROVE  calls' \in [Calls -> Call] /\ CallsInOrder'
  BY <1>1 DEF TurnedAway, Moved, CallsInOrder, Idle, Running, RequestOf
<1>2. ASSUME NEW c \in Calls, NEW r \in Requests, Begin(c, r), Started(c, r)
      PROVE  calls' \in [Calls -> Call] /\ CallsInOrder'
  <2>1. r.user \in Tenants
    BY <1>2, UserOfReaching DEF Begin, Authorise, PassesGuardrails
  <2> QED
    BY <1>2, <2>1 DEF Started, Moved, CallsInOrder, Idle, Running, RequestOf
<1>3. ASSUME NEW c \in Calls, Worked(c) \/ Ended(c)
      PROVE  calls' \in [Calls -> Call] /\ CallsInOrder'
  BY <1>3 DEF Worked, Ended, Moved, CallsInOrder, Idle, Running, RequestOf
<1>4. CASE Lost
  BY <1>4 DEF Lost, CallsInOrder, Idle, Running, RequestOf
<1>5. CASE UNCHANGED calls
  BY <1>5 DEF TypeOK, CallsInOrder, Idle, Running, RequestOf
<1> QED BY <1>1, <1>2, <1>3, <1>4, <1>5, NextMoves

\* A call that is over stays as it is.
LEMMA DoneStays ==
  ASSUME TypeOK, [Next]_vars, NEW c \in Calls, calls[c].pc = "done"
  PROVE  calls'[c] = calls[c]
BY NextMoves
DEF TurnedAway, Started, Worked, Ended, Lost, Moved, Idle, Running

-----------------------------------------------------------------------------
(***************************************************************************)
(* The calls and their leases                                              *)
(***************************************************************************)

\* A lease is that of a running call, made out for what the call asked for.
LeasesHeld ==
  \A l \in activeLeases :
    /\ l.id \in Calls /\ Running(l.id)
    /\ l.tenant = RequestOf(l.id).user /\ l.key = LeaseKey(RequestOf(l.id))

\* The calls that run go on, with the request that they have.
RunningGoOn ==
  \A c \in Calls : Running(c) => Running(c)' /\ RequestOf(c)' = RequestOf(c)

\* A call that goes on keeps its lease, if leases only shrink.
LEMMA HeldStays ==
  ASSUME LeasesHeld, RunningGoOn,
         \A m \in activeLeases' : \E l \in activeLeases :
           l.id = m.id /\ l.tenant = m.tenant /\ l.key = m.key
  PROVE  LeasesHeld'
BY DEF LeasesHeld, RunningGoOn, LeaseKey

\* Every step keeps each lease counted and held by a running call.
LEMMA NextLeases ==
  ASSUME TypeOK, CallsInOrder, LeasesInOrder, LeasesHeld, [Next]_vars
  PROVE  LeasesInOrder' /\ LeasesHeld'
<1> USE DEF Idle, Running, RequestOf
<1>1. ASSUME UNCHANGED leases \/ Guard!Clean, RunningGoOn
      PROVE  LeasesInOrder' /\ LeasesHeld'
  <2>1. CASE UNCHANGED leases
    <3>1. LeasesInOrder'
      BY <2>1 DEF leases, LeasesInOrder, Guard!TypeOK, Guard!CountsLeases,
         Guard!LeasesOf, Guard!LiveLeases
    <3> QED BY <1>1, <2>1, <3>1, HeldStays DEF leases
  <2>2. CASE Guard!Clean
    BY <1>1, <2>2, CleanKeepsOrder, HeldStays DEF Guard!Clean, Guard!LiveLeases
  <2> QED BY <1>1, <2>1, <2>2
<1>2. ASSUME NEW c \in Calls, NEW r \in Requests,
             Refusing(c, r) \/ ReturnCached(c, r) \/ LeaseClash(c, r)
      PROVE  (UNCHANGED leases \/ Guard!Clean) /\ RunningGoOn
  <2>1. TurnedAway(c, r)
    BY <1>2, RefusingFacts, CachedFacts, ClashFacts
  <2>2. RunningGoOn
    BY <2>1 DEF TurnedAway, Moved, RunningGoOn
  <2>3. UNCHANGED leases \/ Guard!Clean
    BY <1>2 DEF Refusing, RefuseReuse, Deny, AskApproval, RefuseToken,
       ReturnCached, LeaseClash
  <2> QED BY <2>2, <2>3
<1>3. ASSUME NEW c \in Calls, NEW r \in Requests, Begin(c, r)
      PROVE  LeasesInOrder' /\ LeasesHeld'
  <2>1. Started(c, r)
    BY <1>3, BeginFacts
  <2>2. /\ r.user \in Tenants /\ LeaseKey(r) \in LeaseKeys /\ Guard!Admits(r.user)
    BY <1>3, UserOfReaching DEF Begin, Authorise, PassesGuardrails
  <2>3. \A l \in activeLeases : l.id # c
    BY <2>1 DEF Started, LeasesHeld
  <2>4. /\ Guard!Acquire(c, r.user, LeaseKey(r))
        /\ ~Guard!LeaseConflict(r.user, LeaseKey(r))
    BY <1>3 DEF Begin
  <2>5. LeasesInOrder'
    BY <2>2, <2>3, <2>4, AcquireKeepsOrder
  <2>6. \A d \in Calls : Running(d) => calls'[d] = calls[d]
    BY <2>1 DEF Started, Moved
  <2>7. Running(c)' /\ RequestOf(c)' = r
    BY <2>1 DEF Started
  <2>8. \A l \in activeLeases' :
          l \in activeLeases
          \/ l = [id |-> c, tenant |-> r.user, key |-> LeaseKey(r), left |-> LeaseTTL]
    BY <2>4 DEF Guard!Acquire, Guard!LiveLeases
  <2>9. LeasesHeld'
    BY <2>6, <2>7, <2>8 DEF LeasesHeld, LeaseKey
  <2> QED BY <2>5, <2>9
<1>4. ASSUME NEW c \in Calls, Effect(c)
      PROVE  UNCHANGED leases /\ RunningGoOn
  <2>1. Worked(c)
    BY <1>4, EffectFacts
  <2> QED BY <1>4, <2>1 DEF Worked, Moved, RunningGoOn, Effect
<1>5. ASSUME NEW c \in Calls, Ending(c)
      PROVE  LeasesInOrder' /\ LeasesHeld'
  <2>1. Ended(c) /\ Guard!Release(LeaseOf(c))
    BY <1>5, EndingFacts
  <2>2. LeaseOf(c).id = c /\ LeaseOf(c).tenant = RequestOf(c).user
    BY DEF LeaseOf
  <2>3. RequestOf(c).user \in Tenants
    BY <2>1 DEF Ended, CallsInOrder
  <2>4. \A l \in activeLeases : l.id = c => l.tenant = RequestOf(c).user
    BY DEF LeasesHeld
  <2>5. LeasesInOrder'
    BY <2>1, <2>2, <2>3, <2>4, ReleaseKeepsOrder
  <2>6. \A l \in activeLeases' : l \in activeLeases /\ l.id # c
    BY <2>1, <2>2 DEF Guard!Release
  <2>7. \A d \in Calls \ {c} : calls'[d] = calls[d]
    BY <2>1 DEF Ended, Moved
  <2>8. LeasesHeld'
    BY <2>6, <2>7 DEF LeasesHeld, LeaseKey
  <2> QED BY <2>5, <2>8
<1>6. CASE Tick
  <2>1. RunningGoOn
    BY <1>6 DEF Tick, RunningGoOn
  <2> QED BY <1>6, <2>1, AgeKeepsOrder, HeldStays DEF Tick
<1>7. CASE Crash
  <2>1. LeasesHeld'
    BY <1>7 DEF Crash, LeasesHeld
  <2>2. LeasesInOrder'
    BY <1>7, NoLeasesInOrderNext DEF Crash
  <2> QED BY <2>1, <2>2
<1>8. CASE UNCHANGED <<calls, leases>>
  BY <1>1, <1>8 DEF RunningGoOn
<1> QED
  BY <1>1, <1>2, <1>3, <1>4, <1>5, <1>6, <1>7, <1>8, NextKinds
  DEF Decide, SetGlobalKillSwitch, vars

-----------------------------------------------------------------------------
(***************************************************************************)
(* The stored results                                                      *)
(***************************************************************************)

\* What is stored for tenant t under key k may be returned in answer to it.
Genuine(t, k) ==
  /\ calls[entries[t][k].result].effect
  /\ calls[entries[t][k].result].recorded
  /\ RequestOf(entries[t][k].result).key = k
  /\ RequestOf(entries[t][k].result).arguments \in
       {NoArguments, entries[t][k].arguments}
  /\ StoreOf(RequestOf(entries[t][k].result)) = t

EntriesGenuine ==
  \A t \in Tenants, k \in Keys : entries[t][k] # Store!NoEntry => Genuine(t, k)

\* Entries may go, and none is added or changed in more than its time.
EntriesKept ==
  /\ Store!TypeOK'
  /\ \A t \in Tenants, k \in Keys : entries'[t][k] # Store!NoEntry =>
       /\ entries[t][k] # Store!NoEntry
       /\ entries'[t][k].result = entries[t][k].result
       /\ entries'[t][k].arguments = entries[t][k].arguments

\* Entries that do not change are kept.
LEMMA UnchangedEntries ==
  ASSUME Store!TypeOK, UNCHANGED entries PROVE EntriesKept
BY DEF EntriesKept, Store!TypeOK

\* Looking up a key may drop what has expired, and changes no other entry.
LEMMA CheckedFacts ==
  ASSUME Store!TypeOK, NEW r \in Requests, CheckedEntries(r)
  PROVE  EntriesKept
<1>1. CASE entries' = entries
  BY <1>1, UnchangedEntries
<1>2. CASE entries' # entries
  <2>1. /\ r.key \in Keys /\ StoreOf(r) \in Tenants
    BY <1>2, RequestsAssumption, ClassesAssumption
    DEF CheckedEntries, Request, StoreOf
  <2>2. entries' = [entries EXCEPT ![StoreOf(r)] =
                      [entries[StoreOf(r)] EXCEPT ![r.key] = Store!NoEntry]]
    BY <1>2, <2>1 DEF CheckedEntries, Store!Checked, Store!TypeOK
  <2> QED BY <2>1, <2>2 DEF EntriesKept, Store!TypeOK
<1> QED BY <1>1, <1>2

\* Time takes entries away and changes no result.
LEMMA AgedFacts ==
  ASSUME Store!TypeOK, entries' = Store!AgedEntries PROVE EntriesKept
<1> DEFINE older(t, k) == [entries[t][k] EXCEPT !.left = @ - 1]
<1>1. ASSUME NEW t \in Tenants, NEW k \in Keys, Store!Current(t, k)
      PROVE  /\ older(t, k) \in Store!Entry
             /\ older(t, k).result = entries[t][k].result
             /\ older(t, k).arguments = entries[t][k].arguments
             /\ entries[t][k] # Store!NoEntry
  <2>1. entries[t][k] \in Store!Entry /\ entries[t][k] # Store!NoEntry
    BY <1>1 DEF Store!TypeOK, Store!Current
  <2>2. entries[t][k].left \in -1..EntryTTL /\ entries[t][k].left # -1
    BY <1>1, <2>1
    DEF Store!Current, Store!ExpiredEntry, Store!Entry, Store!Left, Store!Gone
  <2>3. entries[t][k].left - 1 \in -1..EntryTTL
    BY <2>2, BoundsAssumption
  <2> QED BY <2>1, <2>3 DEF Store!Entry, Store!Left, Store!Gone
<1>2. entries' = [t \in Tenants |-> [k \in Keys |->
                    IF Store!Current(t, k) THEN older(t, k) ELSE entries[t][k]]]
  BY DEF Store!AgedEntries
<1> HIDE DEF older
<1>3. \A t \in Tenants, k \in Keys :
        entries'[t][k] = IF Store!Current(t, k) THEN older(t, k)
                         ELSE entries[t][k]
  BY <1>2
<1>4. \A t \in Tenants, k \in Keys :
        entries'[t][k] \in Store!Entry \cup {Store!NoEntry}
  BY <1>1, <1>3 DEF Store!TypeOK
<1>5. Store!TypeOK'
  BY <1>2, <1>4 DEF Store!TypeOK
<1> QED BY <1>1, <1>3, <1>5 DEF EntriesKept

\* A result is recorded under the key of its own call, and its arguments if the
\* call gave any.
LEMMA RecordedFacts ==
  ASSUME Store!TypeOK, NEW c \in Calls, RequestOf(c) \in Requests,
         RecordResult(c)
  PROVE  /\ Store!TypeOK'
         /\ \A t \in Tenants, k \in Keys :
              \/ entries'[t][k] = entries[t][k]
              \/ /\ t = StoreOf(RequestOf(c)) /\ k = RequestOf(c).key
                 /\ entries'[t][k].result = c
                 /\ RequestOf(c).arguments \in {NoArguments, entries'[t][k].arguments}
<1> DEFINE r == RequestOf(c)
           s == StoreOf(r)
           args == IF r.arguments = NoArguments /\ entries[s][r.key] # Store!NoEntry
                   THEN entries[s][r.key].arguments ELSE r.arguments
           e == [arguments |-> args, result |-> c,
                 left |-> IF entries[s][r.key] = Store!NoEntry THEN EntryTTL
                          ELSE entries[s][r.key].left]
<1>1. CASE entries' = entries
  BY <1>1 DEF Store!TypeOK
<1>2. CASE entries' # entries
  <2>1. /\ r.key \in Keys /\ s \in Tenants
        /\ r.arguments \in Arguments \cup {NoArguments}
    BY <1>2, RequestsAssumption, ClassesAssumption
    DEF RecordResult, Request, StoreOf
  <2>2. e \in Store!Entry
    <3>1. entries[s][r.key] \in Store!Entry \cup {Store!NoEntry}
      BY <2>1 DEF Store!TypeOK
    <3>2. args \in Arguments \cup {NoArguments}
      BY <2>1, <3>1 DEF Store!Entry
    <3>3. (IF entries[s][r.key] = Store!NoEntry THEN EntryTTL
           ELSE entries[s][r.key].left) \in Store!Left
      BY <3>1, BoundsAssumption DEF Store!Entry, Store!Left, Store!Gone
    <3> QED  BY <3>2, <3>3 DEF Store!Entry
  <2>3. entries' = [entries EXCEPT ![s] = [entries[s] EXCEPT ![r.key] = e]]
    BY <1>2, <2>1 DEF RecordResult, Store!Recorded, Store!TypeOK
  <2>4. e.result = c /\ r.arguments \in {NoArguments, e.arguments}
    OBVIOUS
  <2> HIDE DEF e, args, s, r
  <2>5. Store!TypeOK'
    BY <2>1, <2>2, <2>3 DEF Store!TypeOK
  <2>6. \A t \in Tenants, k \in Keys :
          entries'[t][k] = IF t = s /\ k = r.key THEN e ELSE entries[t][k]
    BY <2>1, <2>3 DEF Store!TypeOK
  <2> QED BY <2>4, <2>5, <2>6 DEF s, r
<1> QED BY <1>1, <1>2

\* Calls whose results are stored are over and stay as they are.
LEMMA GenuineStays ==
  ASSUME TypeOK, CallsInOrder, [Next]_vars, NEW t \in Tenants, NEW k \in Keys,
         entries[t][k] # Store!NoEntry, Genuine(t, k),
         entries'[t][k] # Store!NoEntry,
         entries'[t][k].result = entries[t][k].result,
         entries'[t][k].arguments = entries[t][k].arguments
  PROVE  Genuine(t, k)'
<1>1. entries[t][k].result \in Calls
  BY DEF TypeOK, Store!TypeOK, Store!Entry
<1>2. calls[entries[t][k].result].pc = "done"
  BY <1>1 DEF Genuine, CallsInOrder
<1>3. calls'[entries[t][k].result] = calls[entries[t][k].result]
  BY <1>1, <1>2, DoneStays
<1> QED BY <1>3 DEF Genuine, RequestOf, StoreOf

\* Every step keeps each entry the result of a call that ran under its key and
\* arguments.
LEMMA NextEntries ==
  ASSUME TypeOK, CallsInOrder, EntriesGenuine, [Next]_vars
  PROVE  Store!TypeOK' /\ EntriesGenuine'
<1>1. ASSUME EntriesKept PROVE Store!TypeOK' /\ EntriesGenuine'
  BY <1>1, GenuineStays DEF EntriesKept, EntriesGenuine
<1>2. ASSUME NEW c \in Calls, Ending(c), RecordResult(c)
      PROVE  Store!TypeOK' /\ EntriesGenuine'
  <2>1. RequestOf(c) \in Requests /\ Ended(c)
    BY <1>2, EndingFacts DEF Ended, CallsInOrder, Idle, Running
  <2>2. Store!TypeOK'
    BY <1>2, <2>1, RecordedFacts DEF TypeOK
  <2> SUFFICES ASSUME NEW t \in Tenants, NEW k \in Keys,
                      entries'[t][k] # Store!NoEntry
               PROVE  Genuine(t, k)'
    BY <2>2 DEF EntriesGenuine
  <2>3. CASE entries'[t][k] = entries[t][k]
    BY <2>3, GenuineStays DEF EntriesGenuine
  <2>4. CASE entries'[t][k] # entries[t][k]
    <3>1. /\ t = StoreOf(RequestOf(c)) /\ k = RequestOf(c).key
          /\ entries'[t][k].result = c
          /\ RequestOf(c).arguments \in {NoArguments, entries'[t][k].arguments}
      BY <1>2, <2>1, <2>4, RecordedFacts DEF TypeOK
    <3>2. calls'[c].recorded /\ calls'[c].effect
      <4>1. CASE Finish(c)
        BY <2>1, <4>1, RecordedEnd DEF Finish, Ended
      <4>2. CASE FinishAuditFails(c)
        BY <2>1, <4>2, RecordedEnd DEF FinishAuditFails, Ended
      <4>3. CASE FinishRecordFails(c) \/ ToolThrows(c)
        BY <2>4, <4>3 DEF FinishRecordFails, ToolThrows
      <4> QED BY <1>2, <4>1, <4>2, <4>3 DEF Ending
    <3>3. calls'[c].request = calls[c].request
      BY <2>1 DEF Ended
    <3> QED BY <3>1, <3>2, <3>3 DEF Genuine, RequestOf, StoreOf
  <2> QED BY <2>3, <2>4
<1>3. ASSUME NEW c \in Calls, Ending(c)
      PROVE  RecordResult(c) \/ UNCHANGED entries
  BY <1>3 DEF Ending, Finish, FinishAuditFails, FinishRecordFails, ToolThrows
<1>4. ASSUME NEW c \in Calls, NEW r \in Requests,
             Refusing(c, r) \/ LeaseClash(c, r) \/ Begin(c, r)
      PROVE  EntriesKept
  BY <1>4, CheckedFacts, UnchangedEntries
  DEF Refusing, RefuseReuse, Deny, AskApproval, RefuseToken, LeaseClash, Begin,
      TypeOK
<1>5. CASE Tick
  BY <1>1, <1>5, AgedFacts DEF Tick, TypeOK
<1>6. CASE UNCHANGED entries
  BY <1>1, <1>6, UnchangedEntries DEF TypeOK
<1> QED
  BY <1>1, <1>2, <1>3, <1>4, <1>5, <1>6, NextKinds
  DEF ReturnCached, Effect, Decide, SetGlobalKillSwitch, Crash, vars

\* What a later step stores or forgets does not make a cached answer false.
LEMMA NextCached ==
  ASSUME TypeOK, CallsInOrder, EntriesGenuine, CachedIsGenuine, [Next]_vars
  PROVE  CachedIsGenuine'
<1> SUFFICES ASSUME NEW c \in Calls, calls'[c].outcome = "cached"
             PROVE  /\ calls'[calls'[c].source].effect
                    /\ calls'[calls'[c].source].recorded
                    /\ calls'[calls'[c].source].request.key
                         = calls'[c].request.key
                    /\ \/ calls'[calls'[c].source].request.arguments
                            = calls'[c].request.arguments
                       \/ NoArguments \in {calls'[calls'[c].source].request.arguments,
                                          calls'[c].request.arguments}
                    /\ StoreOf(calls'[calls'[c].source].request)
                         = StoreOf(calls'[c].request)
  BY DEF CachedIsGenuine, RequestOf, StoreOf
<1>1. ASSUME NEW d \in Calls, calls[d].recorded
      PROVE  calls'[d] = calls[d]
  BY <1>1, DoneStays DEF CallsInOrder
<1>2. CASE calls[c].outcome = "cached"
  <2>1. calls[c].pc = "done" /\ calls[c].source \in Calls
    BY <1>2 DEF CallsInOrder, Idle, Running, TypeOK, Call
  <2>2. calls'[c] = calls[c]
    BY <2>1, DoneStays
  <2>3. calls[calls[c].source].recorded
    BY <1>2 DEF CachedIsGenuine
  <2>4. calls'[calls[c].source] = calls[calls[c].source]
    BY <1>1, <2>1, <2>3
  <2> QED BY <1>2, <2>2, <2>4 DEF CachedIsGenuine, RequestOf
<1>3. CASE calls[c].outcome # "cached"
  <2>1. PICK r \in Requests : ReturnCached(c, r)
    <3>1. \A d \in Calls, r \in Requests : TurnedAway(d, r) =>
            (c = d \/ calls'[c] = calls[c])
      BY DEF TurnedAway, Moved
    <3>2. \A d \in Calls, r \in Requests :
            Refusing(d, r) \/ LeaseClash(d, r) \/ Begin(d, r)
              => (c # d /\ calls'[c] = calls[c]) \/ calls'[c].outcome # "cached"
      BY <1>3, <3>1, RefusingFacts, ClashFacts, BeginFacts DEF Started, Moved
    <3>3. \A d \in Calls : Effect(d) \/ Ending(d) => calls'[c].outcome # "cached"
      BY <1>3, EffectFacts, EndingFacts DEF Worked, Ended, Moved
    <3>4. Crash => calls'[c].outcome # "cached"
      BY <1>3, CrashFacts DEF Lost
    <3> QED
      BY <1>3, <3>1, <3>2, <3>3, <3>4, NextKinds, CachedFacts
      DEF Decide, SetGlobalKillSwitch, Tick, vars
  <2>2. /\ StoreOf(r) \in Tenants /\ r.key \in Keys
        /\ entries[StoreOf(r)][r.key] # Store!NoEntry
        /\ Store!SamePayload(entries[StoreOf(r)][r.key], r.arguments)
        /\ calls'[c].source = entries[StoreOf(r)][r.key].result
        /\ calls'[c].request = r
    BY <2>1, CachedFacts DEF TurnedAway
  <2>3. Genuine(StoreOf(r), r.key)
    BY <2>2 DEF EntriesGenuine
  <2>4. calls'[c].source \in Calls /\ calls[calls'[c].source].recorded
    BY <2>2, <2>3 DEF Genuine, TypeOK, Store!TypeOK, Store!Entry
  <2>5. calls'[calls'[c].source] = calls[calls'[c].source]
    BY <1>1, <2>4
  <2> QED BY <2>2, <2>3, <2>5 DEF Genuine, RequestOf, Store!SamePayload
<1> QED BY <1>2, <1>3

-----------------------------------------------------------------------------
(***************************************************************************)
(* The approvals                                                           *)
(***************************************************************************)

ApprovalTypes ==
  /\ Human!TypeOK
  /\ approvedFor \in [Approvals -> [user : Tenants, tool : Tools,
                                    arguments : Arguments \cup {NoArguments}] \cup {NoRequest}]

\* What is used stays used, and what it was approved for does not change.
UsedStays ==
  \A a \in Approvals : used[a] = 1 => /\ used'[a] = 1
                                      /\ approvedFor'[a] = approvedFor[a]

\* A token that is presented is an approval's.
LEMMA TokenIsApproval ==
  ASSUME NEW r \in Requests, r.token # NoToken PROVE r.token \in Approvals
BY RequestsAssumption DEF Request

\* Every step is one of the human's status machine: an approval is used once at
\* most, and stays used.
LEMMA NextApprovals ==
  ASSUME TypeOK, Human!AtMostOneUse, [Next]_vars
  PROVE  ApprovalTypes' /\ Human!AtMostOneUse' /\ UsedStays
<1> USE DEF TypeOK, ApprovalTypes, Human!TypeOK, Human!AtMostOneUse, UsedStays
<1>1. CASE UNCHANGED approvals
  BY <1>1 DEF approvals
<1>2. ASSUME NEW a \in Approvals, Human!Approve(a) \/ Human!Close(a),
             UNCHANGED approvedFor
      PROVE  ApprovalTypes' /\ Human!AtMostOneUse' /\ UsedStays
  BY <1>2 DEF Human!Approve, Human!Close, Human!Move, Human!Phases
<1>3. ASSUME NEW c \in Calls, NEW r \in Requests, NEW a \in Approvals,
             AskApproval(c, r, a)
      PROVE  ApprovalTypes' /\ Human!AtMostOneUse' /\ UsedStays
  <2> DEFINE e == [user |-> r.user, tool |-> r.tool, arguments |-> r.arguments]
  <2>1. e \in [user : Tenants, tool : Tools, arguments : Arguments \cup {NoArguments}]
    BY <1>3, RequestsAssumption, UserOfReaching
    DEF Request, AskApproval, PassesGuardrails
  <2>2. /\ phase[a] = "none" /\ phase' = [phase EXCEPT ![a] = "pending"]
        /\ used' = used /\ approvedFor' = [approvedFor EXCEPT ![a] = e]
    BY <1>3 DEF AskApproval, Human!Request, Human!Move
  <2> HIDE DEF e
  <2>3. ApprovalTypes'
    BY <2>1, <2>2 DEF Human!Phases
  <2>4. Human!AtMostOneUse' /\ UsedStays
    BY <2>2
  <2> QED BY <2>3, <2>4
<1>4. ASSUME NEW r \in Requests, Authorise(r)
      PROVE  ApprovalTypes' /\ Human!AtMostOneUse' /\ UsedStays
  <2>1. CASE UNCHANGED approvals
    BY <1>1, <2>1
  <2>2. CASE TokenAccepted(r) /\ Human!Use(r.token) /\ UNCHANGED approvedFor
    <3>1. r.token \in Approvals
      BY <2>2, TokenIsApproval DEF TokenAccepted
    <3>2. used[r.token] = 0
      BY <2>2, <3>1 DEF TokenAccepted
    <3> QED BY <2>2, <3>1, <3>2 DEF Human!Use, Human!Move, Human!Phases
  <2> QED BY <1>4, <2>1, <2>2 DEF Authorise
<1>5. ASSUME NEW c \in Calls, NEW r \in Requests, RefuseToken(c, r)
      PROVE  ApprovalTypes' /\ Human!AtMostOneUse' /\ UsedStays
  BY <1>1, <1>2, <1>5, TokenIsApproval DEF RefuseToken, approvals
<1>6. ASSUME NEW c \in Calls, NEW r \in Requests, Refusing(c, r)
      PROVE  ApprovalTypes' /\ Human!AtMostOneUse' /\ UsedStays
  BY <1>1, <1>3, <1>5, <1>6 DEF Refusing, RefuseReuse, Deny
<1> QED
  BY <1>1, <1>2, <1>4, <1>6, NextKinds, EndingFacts
  DEF ReturnCached, LeaseClash, Begin, Effect, Decide, SetGlobalKillSwitch,
      Tick, Crash, vars

\* The executions of HIGH_IMPACT tools.
Executed(c) == Begun(c) /\ ClassOf[RequestOf(c).tool] = "HIGH_IMPACT"

\* The approval under which c was executed.
UnderApproval(c) ==
  /\ RequestOf(c).token # NoToken
  /\ used[RequestOf(c).token] = 1
  /\ approvedFor[RequestOf(c).token] =
       [user |-> RequestOf(c).user, tool |-> RequestOf(c).tool,
        arguments |-> RequestOf(c).arguments]

\* The property in terms of single calls, and of pairs of calls ...
LEMMA OneExecutionUnfolded ==
  OneExecutionPerApproval <=>
    /\ \A c \in Calls : Executed(c) => UnderApproval(c)
    /\ \A c, d \in Calls : Executed(c) /\ Executed(d)
         /\ RequestOf(c).token = RequestOf(d).token => c = d
BY DEF OneExecutionPerApproval, Executed, UnderApproval

\* ... and the same after a step.
LEMMA OneExecutionUnfoldedNext ==
  (OneExecutionPerApproval <=>
    /\ \A c \in Calls : Executed(c) => UnderApproval(c)
    /\ \A c, d \in Calls : Executed(c) /\ Executed(d)
         /\ RequestOf(c).token = RequestOf(d).token => c = d)'
BY OneExecutionUnfolded, PTL

\* Calls are not started but by Begin, and keep their requests.
LEMMA NextBegun ==
  ASSUME TypeOK, CallsInOrder, [Next]_vars, NEW c \in Calls, Begun(c)'
  PROVE  \/ Begun(c) /\ RequestOf(c)' = RequestOf(c)
         \/ \E r \in Requests : Begin(c, r) /\ RequestOf(c)' = r
<1>1. calls[c] \in Call
  BY DEF TypeOK
<1>2. Running(c) \/ calls[c].pc = "done" \/ Idle(c)
  BY <1>1 DEF Call, Idle, Running
<1>3. CASE calls[c].pc = "done"
  BY <1>3, DoneStays DEF Begun, RequestOf, Running
<1>4. CASE Running(c)
  BY <1>4, NextMoves
  DEF Begun, RequestOf, Running, Idle, TurnedAway, Started, Worked, Ended, Lost,
      Moved
<1>5. CASE Idle(c)
  <2>1. calls'[c] # calls[c]
    BY <1>5 DEF Begun, Idle, Running, CallsInOrder
  <2> QED
    BY <1>5, <2>1, NextMoves
    DEF Begun, RequestOf, Running, Idle, TurnedAway, Started, Worked, Ended,
        Lost, Moved
<1> QED BY <1>2, <1>3, <1>4, <1>5

\* A call that starts under an approval finds it unused: no other call has
\* executed under it.
LEMMA NextExecutions ==
  ASSUME TypeOK, CallsInOrder, Human!AtMostOneUse, OneExecutionPerApproval,
         [Next]_vars
  PROVE  OneExecutionPerApproval'
<1>1. /\ \A c \in Calls : Executed(c) => UnderApproval(c)
      /\ \A c, d \in Calls : Executed(c) /\ Executed(d)
           /\ RequestOf(c).token = RequestOf(d).token => c = d
  BY OneExecutionUnfolded
<1>2. ASSUME NEW c \in Calls, Executed(c) PROVE RequestOf(c).token \in Approvals
  <2>1. RequestOf(c) \in Requests
    BY <1>2 DEF Executed, Begun, CallsInOrder, Idle, Running
  <2> QED BY <1>1, <1>2, <2>1, TokenIsApproval DEF UnderApproval
<1>3. ASSUME NEW c \in Calls, Executed(c), RequestOf(c)' = RequestOf(c)
      PROVE  UnderApproval(c)'
  BY <1>1, <1>2, <1>3, NextApprovals DEF UsedStays, UnderApproval
\* The token that Begin uses was not used before.
<1>4. ASSUME NEW c \in Calls, NEW r \in Requests, Begin(c, r),
             RequestOf(c)' = r, ClassOf[r.tool] = "HIGH_IMPACT"
      PROVE  /\ UnderApproval(c)' /\ r.token \in Approvals
             /\ used[r.token] = 0
  <2>1. TokenAccepted(r) /\ Human!Use(r.token) /\ UNCHANGED approvedFor
    BY <1>4 DEF Begin, Authorise, PermittedByRole
  <2>2. r.token \in Approvals /\ r.token # NoToken /\ phase[r.token] = "approved"
    BY <2>1, TokenIsApproval DEF TokenAccepted
  <2>3. used[r.token] = 0
    BY <2>2 DEF TypeOK, Human!TypeOK, Human!AtMostOneUse
  <2>4. used'[r.token] = 1
    BY <2>1, <2>2, <2>3 DEF Human!Use, TypeOK, Human!TypeOK
  <2> QED BY <1>4, <2>1, <2>2, <2>3, <2>4 DEF UnderApproval, TokenAccepted
<1>5. ASSUME NEW c \in Calls, Executed(c)'
      PROVE  \/ Executed(c) /\ RequestOf(c)' = RequestOf(c)
             \/ \E r \in Requests : /\ Begin(c, r) /\ RequestOf(c)' = r
                                    /\ ClassOf[r.tool] = "HIGH_IMPACT"
  BY <1>5, NextBegun DEF Executed
<1>6. \A c \in Calls : Executed(c)' => UnderApproval(c)'
  BY <1>3, <1>4, <1>5
<1>7. ASSUME NEW c \in Calls, NEW r \in Requests, Begin(c, r),
             RequestOf(c)' = r, ClassOf[r.tool] = "HIGH_IMPACT",
             NEW d \in Calls, Executed(d)
      PROVE  RequestOf(d).token # r.token
  <2>1. used[r.token] = 0 /\ used[RequestOf(d).token] = 1
    BY <1>1, <1>4, <1>7 DEF UnderApproval
  <2> QED BY <2>1
<1>8. ASSUME NEW c \in Calls, NEW d \in Calls, Executed(c)', Executed(d)',
             RequestOf(c)'.token = RequestOf(d)'.token
      PROVE  c = d
  <2>1. CASE Executed(c) /\ RequestOf(c)' = RequestOf(c)
    <3>1. CASE Executed(d) /\ RequestOf(d)' = RequestOf(d)
      BY <1>1, <1>8, <2>1, <3>1
    <3>2. CASE \E r \in Requests : /\ Begin(d, r) /\ RequestOf(d)' = r
                                   /\ ClassOf[r.tool] = "HIGH_IMPACT"
      BY <1>7, <1>8, <2>1, <3>2
    <3> QED BY <1>5, <1>8, <3>1, <3>2
  <2>2. CASE \E r \in Requests : /\ Begin(c, r) /\ RequestOf(c)' = r
                                 /\ ClassOf[r.tool] = "HIGH_IMPACT"
    <3>1. CASE Executed(d) /\ RequestOf(d)' = RequestOf(d)
      BY <1>7, <1>8, <2>2, <3>1
    <3>2. CASE \E r \in Requests : Begin(d, r)
      BY <2>2, <3>2, BeginFacts DEF Started, Moved, Idle
    <3> QED BY <1>5, <1>8, <3>1, <3>2
  <2> QED BY <1>5, <1>8, <2>1, <2>2
<1> QED BY <1>6, <1>8, OneExecutionUnfoldedNext

-----------------------------------------------------------------------------
(***************************************************************************)
(* The ledger                                                              *)
(***************************************************************************)

Event(c, s) == [call |-> c, status |-> s]

\* What the ledger says of one call.
Told(c) ==
  /\ Event(c, "BLOCKED") \in ledger =>
       calls[c].outcome \in {"denied", "conflict"} /\ ~calls[c].effect
  /\ Event(c, "SUCCESS") \in ledger <=> calls[c].outcome = "result"
  /\ Event(c, "FAILURE") \in ledger => calls[c].outcome = "error"
  /\ diskFailures = 0 =>
       /\ calls[c].outcome = "error" => Event(c, "FAILURE") \in ledger
       /\ calls[c].outcome \in {"denied", "conflict"} =>
            Event(c, "BLOCKED") \in ledger

\* The property call by call ...
LEMMA LedgerUnfolded == LedgerTruthful <=> \A c \in Calls : Told(c)
BY DEF LedgerTruthful, Told, Event

\* ... and the same after a step.
LEMMA LedgerUnfoldedNext == (LedgerTruthful <=> \A c \in Calls : Told(c))'
BY LedgerUnfolded, PTL

LedgerTypes ==
  /\ ledger \subseteq [call : Calls, status : {"SUCCESS", "FAILURE", "BLOCKED"}]
  /\ diskFailures \in 0..MaxDiskFailures

\* The events of other calls are not touched; a failed write is counted.
LEMMA WritesFacts ==
  ASSUME LedgerTypes, NEW c \in Calls, NEW tried, IsFiniteSet(tried),
         NEW done \in SUBSET tried, Writes(c, tried, done),
         done \subseteq {"SUCCESS", "FAILURE", "BLOCKED"}
  PROVE  /\ LedgerTypes'
         /\ \A d \in Calls \ {c} : \A s : Event(d, s) \in ledger' <=> Event(d, s) \in ledger
         /\ \A s : Event(c, s) \in ledger' <=> Event(c, s) \in ledger \/ s \in done
         /\ diskFailures' = 0 => diskFailures = 0 /\ done = tried
<1>1. /\ diskFailures' = diskFailures + Cardinality(tried \ done)
      /\ diskFailures' <= MaxDiskFailures
      /\ ledger' = ledger \cup {Event(c, s) : s \in done}
  BY DEF Writes, Event
<1>2. /\ IsFiniteSet(tried \ done) /\ Cardinality(tried \ done) \in Nat
      /\ Cardinality(tried \ done) = 0 <=> tried \ done = {}
  BY FS_Difference, FS_CardinalityType, FS_EmptySet
<1>3. diskFailures \in Nat /\ MaxDiskFailures \in Nat
  BY BoundsAssumption DEF LedgerTypes
<1>4. diskFailures' = 0 => diskFailures = 0 /\ done = tried
  <2>1. diskFailures' = 0 => diskFailures = 0 /\ Cardinality(tried \ done) = 0
    BY <1>1, <1>2, <1>3
  <2>2. tried \ done = {} => done = tried
    OBVIOUS
  <2> QED BY <1>2, <2>1, <2>2
<1>5. diskFailures' \in 0..MaxDiskFailures
  BY <1>1, <1>2, <1>3
<1>6. ledger' \subseteq
        [call : Calls, status : {"SUCCESS", "FAILURE", "BLOCKED"}]
  BY <1>1 DEF LedgerTypes, Event
<1> QED BY <1>1, <1>4, <1>5, <1>6 DEF LedgerTypes, Event

\* What a call writes to the ledger is one or two events.
LEMMA FiniteWrites ==
  ASSUME NEW a, NEW b
  PROVE  IsFiniteSet({a}) /\ IsFiniteSet({a, b})
<1>1. IsFiniteSet({a}) /\ IsFiniteSet({a} \cup {b})
  BY FS_Singleton, FS_AddElement
<1>2. {a, b} = {a} \cup {b}
  OBVIOUS
<1> QED BY <1>1, <1>2

\* What an ending call leaves in the ledger.
LEMMA EndingWrites ==
  ASSUME LedgerTypes, TypeOK, NEW c \in Calls, Ending(c)
  PROVE  /\ LedgerTypes'
         /\ \A d \in Calls \ {c} : \A s : Event(d, s) \in ledger' <=> Event(d, s) \in ledger
         /\ diskFailures' = 0 => diskFailures = 0
         /\ Event(c, "BLOCKED") \in ledger' <=> Event(c, "BLOCKED") \in ledger
         /\ \/ /\ calls'[c].outcome = "result"
               /\ Event(c, "SUCCESS") \in ledger'
               /\ Event(c, "FAILURE") \in ledger' <=> Event(c, "FAILURE") \in ledger
            \/ /\ calls'[c].outcome = "error"
               /\ Event(c, "SUCCESS") \in ledger' <=> Event(c, "SUCCESS") \in ledger
               /\ diskFailures' = 0 => Event(c, "FAILURE") \in ledger'
<1>1. CASE Finish(c)
  <2>1. calls'[c].outcome = "result"
    BY <1>1, RecordedEnd DEF Finish
  <2>2. Writes(c, {"SUCCESS"}, {"SUCCESS"})
    BY <1>1 DEF Finish
  <2>3. /\ LedgerTypes'
        /\ \A d \in Calls \ {c} : \A s : Event(d, s) \in ledger' <=> Event(d, s) \in ledger
        /\ \A s : Event(c, s) \in ledger' <=> Event(c, s) \in ledger \/ s \in {"SUCCESS"}
        /\ diskFailures' = 0 => diskFailures = 0
    BY <2>2, WritesFacts, FiniteWrites
  <2> QED BY <2>1, <2>3
<1>2. CASE FinishAuditFails(c)
  <2>1. calls'[c].outcome = "error"
    BY <1>2, RecordedEnd DEF FinishAuditFails
  <2>2. PICK done \in SUBSET {"FAILURE"} : Writes(c, {"SUCCESS", "FAILURE"}, done)
    BY <1>2 DEF FinishAuditFails
  <2>3. done # {"SUCCESS", "FAILURE"}
    BY <2>2
  <2>4. /\ LedgerTypes'
        /\ \A d \in Calls \ {c} : \A s : Event(d, s) \in ledger' <=> Event(d, s) \in ledger
        /\ \A s : Event(c, s) \in ledger' <=> Event(c, s) \in ledger \/ s \in done
        /\ diskFailures' = 0 => diskFailures = 0 /\ done = {"SUCCESS", "FAILURE"}
    BY <2>2, WritesFacts, FiniteWrites
  <2> QED BY <2>1, <2>3, <2>4
<1>3. CASE FinishRecordFails(c)
  <2>1. calls'[c].outcome = "error"
    BY <1>3, FailedEnd DEF FinishRecordFails
  <2>2. PICK done \in SUBSET {"FAILURE"} : Writes(c, {"RECORD", "FAILURE"}, done)
    BY <1>3 DEF FinishRecordFails
  <2>3. /\ LedgerTypes'
        /\ \A d \in Calls \ {c} : \A s : Event(d, s) \in ledger' <=> Event(d, s) \in ledger
        /\ \A s : Event(c, s) \in ledger' <=> Event(c, s) \in ledger \/ s \in done
        /\ diskFailures' = 0 => diskFailures = 0 /\ done = {"RECORD", "FAILURE"}
    BY <2>2, WritesFacts, FiniteWrites
  <2> QED BY <2>1, <2>2, <2>3
<1>4. CASE ToolThrows(c)
  <2>1. calls'[c].outcome = "error"
    BY <1>4, FailedEnd DEF ToolThrows
  <2>2. PICK done \in SUBSET {"FAILURE"} : Writes(c, {"FAILURE"}, done)
    BY <1>4 DEF ToolThrows
  <2>3. /\ LedgerTypes'
        /\ \A d \in Calls \ {c} : \A s : Event(d, s) \in ledger' <=> Event(d, s) \in ledger
        /\ \A s : Event(c, s) \in ledger' <=> Event(c, s) \in ledger \/ s \in done
        /\ diskFailures' = 0 => diskFailures = 0 /\ done = {"FAILURE"}
    BY <2>2, WritesFacts, FiniteWrites
  <2> QED BY <2>1, <2>2, <2>3
<1> QED BY <1>1, <1>2, <1>3, <1>4 DEF Ending

\* Every step leaves each call that ended told in the ledger as it ended.
LEMMA NextLedger ==
  ASSUME TypeOK, CallsInOrder, LedgerTruthful, [Next]_vars
  PROVE  LedgerTypes' /\ LedgerTruthful'
<1>0. LedgerTypes /\ \A c \in Calls : Told(c)
  BY LedgerUnfolded DEF TypeOK, LedgerTypes
<1>1. ASSUME NEW c \in Calls, NEW r \in Requests, Refusing(c, r)
      PROVE  LedgerTypes' /\ \A d \in Calls : Told(d)'
  <2>1. /\ TurnedAway(c, r) /\ calls'[c].outcome \in {"conflict", "denied"}
        /\ \E done \in SUBSET {"BLOCKED"} : Writes(c, {"BLOCKED"}, done)
    BY <1>1, RefusingFacts
  <2>2. PICK done \in SUBSET {"BLOCKED"} : Writes(c, {"BLOCKED"}, done)
    BY <2>1
  <2>3. /\ LedgerTypes'
        /\ \A d \in Calls \ {c} : \A s : Event(d, s) \in ledger' <=> Event(d, s) \in ledger
        /\ \A s : Event(c, s) \in ledger' <=> Event(c, s) \in ledger \/ s \in done
        /\ diskFailures' = 0 => diskFailures = 0 /\ done = {"BLOCKED"}
    BY <1>0, <2>2, WritesFacts, FiniteWrites
  <2>4. calls[c].outcome = "none" /\ ~calls[c].effect /\ calls'[c].effect = calls[c].effect
    BY <2>1 DEF TurnedAway, CallsInOrder
  <2>5. Told(c)'
    BY <1>0, <2>1, <2>3, <2>4 DEF Told, Event
  <2>6. \A d \in Calls \ {c} : calls'[d] = calls[d]
    BY <2>1 DEF TurnedAway, Moved
  <2>7. \A d \in Calls \ {c} : Told(d)'
    BY <1>0, <2>3, <2>6 DEF Told, Event
  <2> QED BY <2>3, <2>5, <2>7
<1>2. ASSUME NEW c \in Calls, Ending(c)
      PROVE  LedgerTypes' /\ \A d \in Calls : Told(d)'
  <2>1. Ended(c)
    BY <1>2, EndingFacts
  <2>2. calls[c].outcome = "none"
    BY <2>1 DEF Ended, CallsInOrder
  <2>3. Told(c)'
    BY <1>0, <1>2, <2>2, EndingWrites DEF Told, Event
  <2>4. \A d \in Calls \ {c} : calls'[d] = calls[d]
    BY <2>1 DEF Ended, Moved
  <2>5. \A d \in Calls \ {c} : Told(d)'
    BY <1>0, <1>2, <2>4, EndingWrites DEF Told, Event
  <2> QED BY <1>0, <1>2, <2>3, <2>5, EndingWrites
<1>3. ASSUME UNCHANGED <<ledger, diskFailures>>,
             \A c \in Calls :
               \/ calls'[c] = calls[c]
               \/ /\ calls[c].outcome = "none"
                  /\ calls'[c].outcome \in {"none", "cached", "clash", "lost"}
      PROVE  LedgerTypes' /\ \A d \in Calls : Told(d)'
  BY <1>0, <1>3 DEF Told, Event, LedgerTypes
<1>4. ASSUME NEW c \in Calls, NEW r \in Requests,
             ReturnCached(c, r) \/ LeaseClash(c, r) \/ Begin(c, r)
      PROVE  LedgerTypes' /\ \A d \in Calls : Told(d)'
  <2>1. UNCHANGED <<ledger, diskFailures>>
    BY <1>4 DEF ReturnCached, LeaseClash, Begin
  <2>2. \A d \in Calls \ {c} : calls'[d] = calls[d]
    BY <1>4, CachedFacts, ClashFacts, BeginFacts DEF TurnedAway, Started, Moved
  <2>3. calls[c].outcome = "none"
    BY <1>4 DEF ReturnCached, LeaseClash, Begin, CallsInOrder
  <2>4. calls'[c].outcome \in {"none", "cached", "clash"}
    BY <1>4, <2>3, CachedFacts, ClashFacts, BeginFacts DEF Started
  <2> QED BY <1>3, <2>1, <2>2, <2>3, <2>4
<1>5. ASSUME NEW c \in Calls, Effect(c)
      PROVE  LedgerTypes' /\ \A d \in Calls : Told(d)'
  <2>1. UNCHANGED <<ledger, diskFailures>>
    BY <1>5 DEF Effect
  <2>2. Worked(c) /\ calls[c].outcome = "none"
    BY <1>5, EffectFacts DEF Effect, CallsInOrder
  <2> QED BY <1>3, <2>1, <2>2 DEF Worked, Moved
<1>6. ASSUME Crash
      PROVE  LedgerTypes' /\ \A d \in Calls : Told(d)'
  <2>1. UNCHANGED <<ledger, diskFailures>> /\ Lost
    BY <1>6, CrashFacts DEF Crash
  <2>2. \A c \in Calls :
          \/ calls'[c] = calls[c]
          \/ calls[c].outcome = "none" /\ calls'[c].outcome = "lost"
    BY <2>1 DEF Lost, CallsInOrder, Running
  <2>3. \A c \in Calls :
          \/ calls'[c] = calls[c]
          \/ /\ calls[c].outcome = "none"
             /\ calls'[c].outcome \in {"none", "cached", "clash", "lost"}
    BY <2>2
  <2> QED BY <1>3, <2>1, <2>3
<1>7. ASSUME UNCHANGED <<calls, ledger, diskFailures>>
      PROVE  LedgerTypes' /\ \A d \in Calls : Told(d)'
  <2>1. \A c \in Calls : calls'[c] = calls[c]
    BY <1>7
  <2> QED BY <1>3, <1>7, <2>1
<1>8. LedgerTypes' /\ \A d \in Calls : Told(d)'
  BY <1>1, <1>2, <1>4, <1>5, <1>6, <1>7, NextKinds
  DEF Decide, SetGlobalKillSwitch, Tick, vars
<1> QED BY <1>8, LedgerUnfoldedNext

-----------------------------------------------------------------------------
(***************************************************************************)
(* The inductive invariant                                                 *)
(***************************************************************************)
IInv ==
  /\ TypeOK
  /\ CallsInOrder
  /\ LeasesInOrder
  /\ LeasesHeld
  /\ EntriesGenuine
  /\ Human!AtMostOneUse
  /\ OneExecutionPerApproval
  /\ LedgerTruthful
  /\ CachedIsGenuine

\* The program starts with no call, no lease and no entry.
LEMMA InitIInv == Init => IInv
<1> SUFFICES ASSUME Init PROVE IInv
  OBVIOUS
<1>1. LeasesInOrder /\ LeasesHeld
  BY NoLeasesInOrder DEF Init, Guard!Init, LeasesHeld
<1>2. calls \in [Calls -> Call]
  BY DEF Init, Call, Outcomes
<1>3. Store!TypeOK /\ EntriesGenuine
  BY DEF Init, Store!Init, Store!TypeOK, EntriesGenuine
<1>4. Human!TypeOK /\ Human!AtMostOneUse
  BY DEF Init, Human!Init, Human!TypeOK, Human!AtMostOneUse, Human!Phases
<1>5. TypeOK
  <2>1. killSwitch \in BOOLEAN /\ ledger = {} /\ diskFailures = 0
    BY DEF Init
  <2>2. 0 \in 0..MaxDiskFailures
    BY BoundsAssumption
  <2>3. approvedFor \in [Approvals -> [user : Tenants, tool : Tools,
                                      arguments : Arguments \cup {NoArguments}] \cup {NoRequest}]
    BY DEF Init
  <2> QED BY <1>1, <1>2, <1>3, <1>4, <2>1, <2>2, <2>3 DEF TypeOK, LeasesInOrder
<1>6. CallsInOrder /\ CachedIsGenuine
  BY DEF Init, CallsInOrder, Idle, Running, CachedIsGenuine
<1>7. \A c \in Calls : ~Begun(c)
  BY DEF Init, Begun, Running
<1>8. OneExecutionPerApproval
  BY <1>7 DEF OneExecutionPerApproval
<1>9. LedgerTruthful
  BY DEF Init, LedgerTruthful
<1> QED BY <1>1, <1>3, <1>4, <1>5, <1>6, <1>8, <1>9 DEF IInv

\* The kill switch is on or off after every step.
LEMMA NextKillSwitch ==
  ASSUME TypeOK, [Next]_vars PROVE killSwitch' \in BOOLEAN
BY NextKinds
DEF TypeOK, Refusing, RefuseReuse, Deny, AskApproval, RefuseToken,
    ReturnCached, LeaseClash, Begin, Effect, Ending, Finish, FinishAuditFails,
    FinishRecordFails, ToolThrows, Decide, SetGlobalKillSwitch, Tick, Crash, vars

\* Every step keeps the invariant, part by part.
LEMMA NextIInv == IInv /\ [Next]_vars => IInv'
<1> SUFFICES ASSUME IInv, [Next]_vars PROVE IInv'
  OBVIOUS
<1> USE DEF IInv
<1>1. calls' \in [Calls -> Call] /\ CallsInOrder'
  BY NextCalls
<1>2. LeasesInOrder' /\ LeasesHeld'
  BY NextLeases
<1>3. Store!TypeOK' /\ EntriesGenuine'
  BY NextEntries
<1>4. ApprovalTypes' /\ Human!AtMostOneUse'
  BY NextApprovals
<1>5. LedgerTypes' /\ LedgerTruthful'
  BY NextLedger
<1>6. OneExecutionPerApproval' /\ CachedIsGenuine'
  BY NextExecutions, NextCached
<1>7. TypeOK'
  BY <1>1, <1>2, <1>3, <1>4, <1>5, NextKillSwitch
  DEF TypeOK, LeasesInOrder, ApprovalTypes, LedgerTypes
<1> QED BY <1>1, <1>2, <1>3, <1>4, <1>5, <1>6, <1>7

\* The invariant holds in every reachable state.
LEMMA InvariantHolds == Spec => []IInv
BY InitIInv, NextIInv, PTL DEF Spec

-----------------------------------------------------------------------------
(***************************************************************************)
(* The theorems                                                            *)
(***************************************************************************)

\* executeTool, with the stores, the enforcement point, the guardrails and the
\* ledger that it calls, keeps its types.
THEOREM TypeCorrect == Spec => []TypeOK
BY InvariantHolds, PTL DEF IInv

\* releaseExecutionLease and cleanExpiredLeases, in whatever order a lease
\* meets them, keep the tenant's counter equal to its leases in the map.
THEOREM CounterMatchesLeasesHolds == Spec => []CounterMatchesLeases
BY InvariantHolds, PTL DEF IInv, LeasesInOrder, CounterMatchesLeases

\* The finally block of executeTool releases the lease of its call, and a
\* restart begins without leases: none is left behind by a call that is over.
THEOREM LeasesBelongToRunningCallsHolds == Spec => []LeasesBelongToRunningCalls
<1>1. IInv => LeasesBelongToRunningCalls
  BY DEF IInv, LeasesHeld, LeasesBelongToRunningCalls
<1> QED BY <1>1, InvariantHolds, PTL

\* evaluateGuardrails and acquireExecutionLease, called without an await in
\* between, admit no more than the limit of a tenant, and never two executions
\* of the same correlation and tool, as long as leases are in time.
THEOREM AdmissionControlHolds == Spec => []AdmissionControl
<1>1. IInv => AdmissionControl
  <2> SUFFICES ASSUME IInv, NEW t \in Tenants
               PROVE  LET busy == {c \in Calls :
                                     /\ Running(c) /\ RequestOf(c).user = t
                                     /\ \E l \in Guard!LiveLeases : l.id = c}
                      IN  /\ Cardinality(busy) <= ConcurrencyLimit
                          /\ \A c, d \in busy :
                               LeaseKey(RequestOf(c)) = LeaseKey(RequestOf(d))
                                 => c = d
    BY DEF AdmissionControl
  <2> DEFINE busy == {c \in Calls : /\ Running(c) /\ RequestOf(c).user = t
                                    /\ \E l \in Guard!LiveLeases : l.id = c}
             mine == Guard!LeasesOf(t)
             ids  == {l.id : l \in mine}
             name == [l \in mine |-> l.id]
  <2>1. LeasesInOrder /\ LeasesHeld
    BY DEF IInv
  <2>2. /\ IsFiniteSet(mine) /\ Cardinality(mine) \in Nat
        /\ Cardinality(mine) <= ConcurrencyLimit
    BY <2>1, LeaseSetsAreFinite DEF LeasesInOrder
  <2>3. name \in Surjection(mine, ids)
    BY DEF Surjection
  <2>4. IsFiniteSet(ids) /\ Cardinality(ids) <= Cardinality(mine)
    BY <2>2, <2>3, FS_Surjection
  <2>5. busy \in SUBSET ids
    BY <2>1 DEF LeasesHeld, Guard!LiveLeases, Guard!LeasesOf
  <2>6. IsFiniteSet(busy) /\ Cardinality(busy) <= Cardinality(ids)
    BY <2>4, <2>5, FS_Subset
  <2>7. /\ Cardinality(busy) \in Nat /\ Cardinality(ids) \in Nat
        /\ ConcurrencyLimit \in Nat
    BY <2>4, <2>6, FS_CardinalityType, BoundsAssumption
  <2>8. Cardinality(busy) <= ConcurrencyLimit
    BY <2>2, <2>4, <2>6, <2>7
  <2>9. \A c, d \in busy :
          LeaseKey(RequestOf(c)) = LeaseKey(RequestOf(d)) => c = d
    BY <2>1 DEF LeasesInOrder, LeasesHeld, Guard!LiveLeases
  <2> QED BY <2>8, <2>9
<1> QED BY <1>1, InvariantHolds, PTL

\* releaseExecutionLease goes by the id of the lease, so the late end of an
\* earlier execution does not take the lease of a running one.
THEOREM LiveLeaseKeptHolds == Spec => LiveLeaseKept
<1> DEFINE Kept == \A l \in Guard!LiveLeases :
                     Running(l.id)' => \E m \in activeLeases' : m.id = l.id
<1>1. IInv /\ [Next]_vars => Kept
  <2> SUFFICES ASSUME IInv, [Next]_vars, NEW l \in Guard!LiveLeases,
                      Running(l.id)'
               PROVE  \E m \in activeLeases' : m.id = l.id
    OBVIOUS
  <2>1. l \in activeLeases /\ l.id \in Calls /\ TypeOK
    BY DEF Guard!LiveLeases, IInv, LeasesHeld
  <2>2. CASE UNCHANGED leases \/ Guard!Clean
    BY <2>1, <2>2 DEF leases, Guard!Clean
  <2>3. ASSUME NEW c \in Calls, NEW r \in Requests,
               Refusing(c, r) \/ ReturnCached(c, r) \/ LeaseClash(c, r)
        PROVE  UNCHANGED leases \/ Guard!Clean
    BY <2>3 DEF Refusing, RefuseReuse, Deny, AskApproval, RefuseToken,
       ReturnCached, LeaseClash
  <2>4. ASSUME NEW c \in Calls, NEW r \in Requests, Begin(c, r)
        PROVE  \E m \in activeLeases' : m.id = l.id
    BY <2>1, <2>4 DEF Begin, Guard!Acquire
  <2>5. ASSUME NEW c \in Calls, Ending(c)
        PROVE  \E m \in activeLeases' : m.id = l.id
    <3>1. Ended(c) /\ Guard!Release(LeaseOf(c))
      BY <2>1, <2>5, EndingFacts
    <3>2. l.id # c
      BY <3>1 DEF Ended, Running
    <3> QED BY <2>1, <3>1, <3>2 DEF Guard!Release, LeaseOf
  <2>6. CASE Tick
    <3> DEFINE m == [l EXCEPT !.left = IF @ = Guard!Lapsed THEN @ ELSE @ - 1]
    <3>1. m \in activeLeases'
      BY <2>1, <2>6 DEF Tick, Guard!AgedLeases
    <3>2. m.id = l.id
      BY <2>1 DEF IInv, TypeOK, Guard!TypeOK, Guard!Lease
    <3> QED BY <3>1, <3>2
  <2>7. CASE Crash
    BY <2>1, <2>7, CrashFacts DEF Lost, Running, IInv, LeasesHeld
  <2> QED
    BY <2>1, <2>2, <2>3, <2>4, <2>5, <2>6, <2>7, NextKinds
    DEF Effect, Decide, SetGlobalKillSwitch, vars
<1>2. IInv /\ [Next]_vars => [Kept]_vars
  BY <1>1
<1> QED BY <1>2, InvariantHolds, PTL DEF Spec, LiveLeaseKept

\* validateAndConsumeToken writes the consumption before the tool starts, so
\* that retries, crashes and concurrent calls with one token share no approval.
THEOREM OneExecutionPerApprovalHolds == Spec => []OneExecutionPerApproval
BY InvariantHolds, PTL DEF IInv

\* What executeTool appends to the audit ledger, on each of its paths, is what
\* became of the call.
THEOREM LedgerTruthfulHolds == Spec => []LedgerTruthful
BY InvariantHolds, PTL DEF IInv

\* DurableIdempotencyStore.check returns what an execution under this key, with
\* these arguments and for this partition, has recorded.
THEOREM CachedIsGenuineHolds == Spec => []CachedIsGenuine
BY InvariantHolds, PTL DEF IInv

=============================================================================
