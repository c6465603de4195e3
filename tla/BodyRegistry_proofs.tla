-------------------------- MODULE BodyRegistry_proofs --------------------------
(***************************************************************************)
(* Proofs about BodyRegistry, for any number of bodies, connections and    *)
(* calls, and any ids that the calls may come with.                        *)
(***************************************************************************)
EXTENDS BodyRegistry, TLAPS

-----------------------------------------------------------------------------
(***************************************************************************)
(* The inductive invariant                                                 *)
(***************************************************************************)

OwnWaiting == Waiting \cap OwnId

\* Entries and timers stay under ids of their calls; the entry, the promise and
\* the timer of a call with an id of its own tell the same.
Agree ==
  /\ \A id \in CommandIds : pendingCommands[id] # NoEntry =>
       LET c == pendingCommands[id].call IN
       /\ id \in IdsOf[c]
       /\ c \in OwnId => c \in Waiting /\ calls[c].id = id
  /\ \A c \in OwnWaiting :
       /\ calls[c].id \in IdsOf[c]
       /\ pendingCommands[calls[c].id] # NoEntry
       /\ pendingCommands[calls[c].id].call = c
       /\ pendingCommands[calls[c].id].bodyId = connectedBodyId[calls[c].socket]
       /\ [call |-> c, id |-> calls[c].id] \in timers
  /\ \A t \in timers :
       t.call \in OwnId => t.call \in Waiting /\ t.id = calls[t.call].id

\* The connection of a registered body is the newest that advertised it.
Connected ==
  \A b \in Registered :
    /\ connectedBodyId[bodies[b].connection] = b
    /\ sockets[bodies[b].connection] # "closed"
    /\ newest[b] = bodies[b].connection

ServedInv == TypeOK /\ Connected /\ NewestConnectionServed

BInv == ServedInv /\ Agree /\ NoHangingCommand

-----------------------------------------------------------------------------
(***************************************************************************)
(* What a step does to the commands                                        *)
(***************************************************************************)

\* What stands where something is missing is no record of that kind.
LEMMA Absent ==
  /\ NoRecord \notin BodyRecord
  /\ NoEntry \notin Entry
  /\ Idle \notin Pending /\ Settled \notin Pending
  /\ Idle.pc # "waiting" /\ Settled.pc # "waiting"
  /\ \A p \in Pending : p.pc = "waiting"
BY BodiesAssumption
DEF NoRecord, BodyRecord, NoEntry, Entry, Idle, Settled, Pending

\* The entries of these ids are taken out, their promises settled and their
\* timers cleared; a call may also be settled before it has an entry, and
\* calls under shared ids may lose their entry or their timer alone.
TakenOut(ids) ==
  LET gone == {pendingCommands[id].call : id \in ids} IN
  /\ ids \subseteq {id \in CommandIds : pendingCommands[id] # NoEntry}
  /\ pendingCommands' \in [CommandIds -> Entry \cup {NoEntry}]
  /\ \A id \in CommandIds :
       \/ pendingCommands'[id] = NoEntry /\ id \in ids
       \/ pendingCommands'[id] = pendingCommands[id] /\ id \notin ids
       \/ /\ pendingCommands'[id] = NoEntry
          /\ pendingCommands[id] # NoEntry => pendingCommands[id].call \notin OwnId
  /\ calls' \in [Calls -> Pending \cup {Idle, Settled}]
  /\ \A c \in Calls :
       IF c \in gone THEN calls'[c] = Settled
       ELSE calls'[c] = calls[c] \/ (calls[c] = Idle /\ calls'[c] = Settled)
  /\ timers' \subseteq {t \in timers : t.call \notin gone}
  /\ \A t \in timers : t.call \in OwnId \ gone => t \in timers'

\* A promise that is settled stays a promise.
LEMMA SettleType ==
  ASSUME TypeOK, NEW cs
  PROVE  Settle(cs) \in [Calls -> Pending \cup {Idle, Settled}]
BY DEF TypeOK, Settle

\* Unregistering bodies settles the commands that wait on them, and takes them
\* out of the registry.
LEMMA UnregisterTakesOut ==
  ASSUME TypeOK, NEW gone, Unregister(gone)
  PROVE  TakenOut(PendingOf(gone)) /\ bodies' = BodiesWithout(gone)
<1>1. /\ calls' = Settle({pendingCommands[id].call : id \in PendingOf(gone)})
      /\ bodies' = BodiesWithout(gone)
  BY DEF Unregister, FailedCalls
<1>2. calls' \in [Calls -> Pending \cup {Idle, Settled}]
  BY <1>1, SettleType
<1>3. \A c \in Calls :
        IF c \in {pendingCommands[id].call : id \in PendingOf(gone)}
        THEN calls'[c] = Settled ELSE calls'[c] = calls[c]
  BY <1>1 DEF Settle
<1>4. /\ PendingOf(gone) \subseteq
           {id \in CommandIds : pendingCommands[id] # NoEntry}
      /\ pendingCommands' = [id \in CommandIds |->
           IF id \in PendingOf(gone) THEN NoEntry ELSE pendingCommands[id]]
      /\ timers' = {t \in timers : t.call \notin
           {pendingCommands[id].call : id \in PendingOf(gone)}}
  BY DEF Unregister, PendingOf, FailedCalls, EntriesWithout, TimersWithout
<1>5. pendingCommands' \in [CommandIds -> Entry \cup {NoEntry}]
  BY <1>4 DEF TypeOK
<1> QED BY <1>1, <1>2, <1>3, <1>4, <1>5 DEF TakenOut

\* An answer, a timer that fires and an abort take out at most the entry of
\* their id; the timer that fired was of the same call, or of one under a
\* shared id.
LEMMA ResolveTakesOut ==
  ASSUME TypeOK, NEW id \in CommandIds, Resolve(id),
         NEW fired, timers' = TimersAfter(id, fired),
         \A t \in fired : t.call \in OwnId =>
           pendingCommands[id] # NoEntry /\ pendingCommands[id].call = t.call
  PROVE  \E ids : TakenOut(ids)
<1>1. CASE pendingCommands[id] = NoEntry
  <2>1. /\ UNCHANGED <<pendingCommands, calls>> /\ timers' = timers \ fired
        /\ \A t \in fired : t.call \notin OwnId
    BY <1>1 DEF Resolve, TimersAfter
  <2>2. TakenOut({})
    BY <2>1 DEF TakenOut, Settle, TypeOK
  <2> QED BY <2>2
<1>2. CASE pendingCommands[id] # NoEntry
  <2>1. /\ pendingCommands' = [pendingCommands EXCEPT ![id] = NoEntry]
        /\ calls' = Settle({pendingCommands[id].call})
        /\ timers' = {t \in timers \ fired : t.call # pendingCommands[id].call}
    BY <1>2 DEF Resolve, TimersAfter
  <2>2. {pendingCommands[i].call : i \in {id}} = {pendingCommands[id].call}
    OBVIOUS
  <2>3. /\ pendingCommands' \in [CommandIds -> Entry \cup {NoEntry}]
        /\ \A i \in CommandIds : pendingCommands'[i] =
             IF i \in {id} THEN NoEntry ELSE pendingCommands[i]
    BY <2>1 DEF TypeOK
  <2>4. /\ calls' \in [Calls -> Pending \cup {Idle, Settled}]
        /\ \A c \in Calls :
             calls'[c] = IF c \in {pendingCommands[id].call} THEN Settled
                         ELSE calls[c]
    BY <2>1, SettleType DEF Settle
  <2> DEFINE gone == {pendingCommands[i].call : i \in {id}}
  <2>5. /\ timers' \subseteq {t \in timers : t.call \notin gone}
        /\ \A t \in timers : t.call \in OwnId \ gone => t \in timers'
    BY <1>2, <2>1, <2>2
  <2>6. \A c \in Calls :
          IF c \in gone THEN calls'[c] = Settled
          ELSE calls'[c] = calls[c] \/ (calls[c] = Idle /\ calls'[c] = Settled)
    BY <2>2, <2>4
  <2>7. {id} \subseteq {i \in CommandIds : pendingCommands[i] # NoEntry}
    BY <1>2
  <2>8. \A i \in CommandIds :
          \/ pendingCommands'[i] = NoEntry /\ i \in {id}
          \/ pendingCommands'[i] = pendingCommands[i] /\ i \notin {id}
    BY <2>3
  <2>9. TakenOut({id})
    BY <2>3, <2>4, <2>5, <2>6, <2>7, <2>8 DEF TakenOut
  <2> QED BY <2>9
<1> QED BY <1>1, <1>2

\* A timer takes its own command out, or finds that it has gone; under a
\* shared id it may take out another's.
LEMMA TimerTakesOut ==
  ASSUME TypeOK, Agree, NEW c \in Calls, TimerFires(c)
  PROVE  \E ids : TakenOut(ids)
<1>1. PICK t \in timers :
        t.call = c /\ Resolve(t.id) /\ timers' = TimersAfter(t.id, {t})
  BY DEF TimerFires, Timeout
<1>2. t.id \in CommandIds
  BY DEF TypeOK, Command
<1>3. ASSUME c \in OwnId
      PROVE  pendingCommands[t.id] # NoEntry /\ pendingCommands[t.id].call = c
  <2>1. c \in OwnWaiting /\ t.id = calls[c].id
    BY <1>1, <1>3 DEF Agree, OwnWaiting
  <2> QED BY <2>1 DEF Agree
<1> QED BY <1>1, <1>2, <1>3, ResolveTakesOut

CommandTypes ==
  /\ pendingCommands \in [CommandIds -> Entry \cup {NoEntry}]
  /\ timers \subseteq Command
  /\ calls \in [Calls -> Pending \cup {Idle, Settled}]

\* What waits after entries have been taken out did so before.
LEMMA TakenOutFacts ==
  ASSUME TypeOK, Agree, NEW ids, TakenOut(ids)
  PROVE  /\ CommandTypes'
         /\ \A c \in OwnWaiting' : c \in OwnWaiting /\ calls'[c] = calls[c]
                                   /\ calls[c].id \notin ids
         /\ \A c \in OwnWaiting : calls[c].id \notin ids =>
              /\ c \in OwnWaiting' /\ calls'[c] = calls[c]
              /\ pendingCommands'[calls[c].id] = pendingCommands[calls[c].id]
              /\ [call |-> c, id |-> calls[c].id] \in timers'
         /\ \A id \in CommandIds : pendingCommands'[id] # NoEntry =>
              id \notin ids /\ pendingCommands'[id] = pendingCommands[id]
<1> DEFINE gone == {pendingCommands[id].call : id \in ids}
<1>1. timers \subseteq Command
  BY DEF TypeOK
<1>2. CommandTypes'
  BY <1>1 DEF CommandTypes, TakenOut
<1>3. /\ \A c \in Calls :
           IF c \in gone THEN calls'[c] = Settled
           ELSE calls'[c] = calls[c] \/ (calls[c] = Idle /\ calls'[c] = Settled)
      /\ \A t \in timers : t.call \in OwnId \ gone => t \in timers'
  BY DEF TakenOut
<1>4. \A c \in OwnWaiting : c \in gone <=> calls[c].id \in ids
  <2> TAKE c \in OwnWaiting
  <2>1. ASSUME NEW id \in ids, pendingCommands[id].call = c
        PROVE  calls[c].id \in ids
    <3>1. id \in CommandIds /\ pendingCommands[id] # NoEntry
      BY DEF TakenOut
    <3>2. calls[c].id = id
      BY <2>1, <3>1 DEF Agree, OwnWaiting
    <3> QED BY <3>2
  <2>2. ASSUME calls[c].id \in ids PROVE c \in gone
    <3>1. pendingCommands[calls[c].id].call = c
      BY DEF Agree
    <3> QED BY <2>2, <3>1
  <2> QED BY <2>1, <2>2
<1> HIDE DEF gone
<1>5. \A c \in OwnWaiting' : c \in OwnWaiting /\ calls'[c] = calls[c]
                             /\ calls[c].id \notin ids
  <2> SUFFICES ASSUME NEW c \in OwnId, c \in Calls, calls'[c].pc = "waiting"
               PROVE  c \in OwnWaiting /\ calls'[c] = calls[c]
                      /\ calls[c].id \notin ids
    BY DEF OwnWaiting, Waiting, OwnId
  <2>1. calls'[c] = calls[c]
    BY <1>3, Absent
  <2>2. c \notin gone
    BY <1>3, Absent
  <2>3. c \in OwnWaiting
    BY <2>1 DEF OwnWaiting, Waiting
  <2> QED BY <1>4, <2>1, <2>2, <2>3
<1>6. ASSUME NEW c \in OwnWaiting, calls[c].id \notin ids
      PROVE  /\ c \in OwnWaiting' /\ calls'[c] = calls[c]
             /\ pendingCommands'[calls[c].id] = pendingCommands[calls[c].id]
             /\ [call |-> c, id |-> calls[c].id] \in timers'
  <2>1. c \in Calls /\ c \in OwnId /\ calls[c] # Idle /\ calls[c].id \in CommandIds
    BY Absent DEF OwnWaiting, Waiting, TypeOK, Pending
  <2>2. c \notin gone /\ calls'[c] = calls[c]
    BY <1>3, <1>4, <1>6, <2>1
  <2>3. c \in OwnWaiting'
    BY <2>1, <2>2 DEF OwnWaiting, Waiting, OwnId
  <2>4. /\ pendingCommands[calls[c].id] # NoEntry
        /\ pendingCommands[calls[c].id].call \in OwnId
        /\ [call |-> c, id |-> calls[c].id] \in timers
    BY <2>1 DEF Agree
  <2>5. pendingCommands'[calls[c].id] = pendingCommands[calls[c].id]
    BY <1>6, <2>1, <2>4 DEF TakenOut
  <2>6. [call |-> c, id |-> calls[c].id] \in timers'
    BY <1>3, <2>1, <2>2, <2>4
  <2> QED BY <2>2, <2>3, <2>5, <2>6
<1>7. \A id \in CommandIds : pendingCommands'[id] # NoEntry =>
        id \notin ids /\ pendingCommands'[id] = pendingCommands[id]
  BY DEF TakenOut
<1> QED BY <1>2, <1>5, <1>6, <1>7

\* Commands that are taken out leave promise, timer and entry in agreement.
LEMMA TakenOutAgree ==
  ASSUME TypeOK, Agree, NEW ids, TakenOut(ids), UNCHANGED connectedBodyId
  PROVE  Agree'
<1>1. /\ \A c \in OwnWaiting' : c \in OwnWaiting /\ calls'[c] = calls[c]
                                /\ calls[c].id \notin ids
      /\ \A c \in OwnWaiting : calls[c].id \notin ids =>
           /\ c \in OwnWaiting' /\ calls'[c] = calls[c]
           /\ pendingCommands'[calls[c].id] = pendingCommands[calls[c].id]
           /\ [call |-> c, id |-> calls[c].id] \in timers'
      /\ \A id \in CommandIds : pendingCommands'[id] # NoEntry =>
           id \notin ids /\ pendingCommands'[id] = pendingCommands[id]
  BY TakenOutFacts
<1>2. ASSUME NEW id \in CommandIds, pendingCommands'[id] # NoEntry
      PROVE  /\ id \in IdsOf[pendingCommands'[id].call]
             /\ pendingCommands'[id].call \in OwnId =>
                  /\ pendingCommands'[id].call \in Waiting'
                  /\ calls'[pendingCommands'[id].call].id = id
  <2>1. id \notin ids /\ pendingCommands'[id] = pendingCommands[id]
    BY <1>1, <1>2
  <2>2. id \in IdsOf[pendingCommands'[id].call]
    BY <1>2, <2>1 DEF Agree
  <2>3. ASSUME pendingCommands[id].call \in OwnId
        PROVE  /\ pendingCommands[id].call \in Waiting'
               /\ calls'[pendingCommands[id].call].id = id
    <3>1. /\ pendingCommands[id].call \in OwnWaiting
          /\ calls[pendingCommands[id].call].id = id
      BY <1>2, <2>1, <2>3 DEF Agree, OwnWaiting
    <3> QED BY <1>1, <2>1, <3>1 DEF OwnWaiting
  <2> QED BY <2>1, <2>2, <2>3
<1>3. ASSUME NEW c \in OwnWaiting'
      PROVE  /\ calls'[c].id \in IdsOf[c]
             /\ pendingCommands'[calls'[c].id] # NoEntry
             /\ pendingCommands'[calls'[c].id].call = c
             /\ pendingCommands'[calls'[c].id].bodyId
                  = connectedBodyId'[calls'[c].socket]
             /\ [call |-> c, id |-> calls'[c].id] \in timers'
  BY <1>1 DEF Agree
<1>4. ASSUME NEW t \in timers', t.call \in OwnId
      PROVE  t.call \in Waiting' /\ t.id = calls'[t.call].id
  <2>1. /\ t \in timers
        /\ t.call \notin {pendingCommands[id].call : id \in ids}
    BY <1>4 DEF TakenOut
  <2>2. t.call \in OwnWaiting /\ t.id = calls[t.call].id
    BY <1>4, <2>1 DEF Agree, OwnWaiting
  <2>3. pendingCommands[calls[t.call].id].call = t.call
    BY <2>2 DEF Agree
  <2>4. calls[t.call].id \notin ids
    BY <2>1, <2>3
  <2> QED BY <1>1, <2>2, <2>4 DEF OwnWaiting
<1>5. OwnId' = OwnId
  BY DEF OwnId
<1> QED BY <1>2, <1>3, <1>4, <1>5 DEF Agree

\* A step that leaves the commands alone.
LEMMA NothingTakenOut ==
  ASSUME TypeOK, UNCHANGED <<pendingCommands, timers, calls>>
  PROVE  TakenOut({})
BY DEF TypeOK, TakenOut, Settle

-----------------------------------------------------------------------------
(***************************************************************************)
(* The kinds of step                                                       *)
(***************************************************************************)

\* An event that only answers, times out or aborts commands.
LEMMA AnswerKinds ==
  ASSUME TypeOK, Agree,
         \/ \E s \in Sockets : CommandResult(s)
         \/ \E c \in Calls : TimerFires(c) \/ AbortCommand(c)
  PROVE  /\ \E ids : TakenOut(ids)
         /\ UNCHANGED <<bodies, sockets, connectedBodyId, newest>>
         /\ inbox' \in [Sockets -> SUBSET Command]
<1>1. ASSUME NEW s \in Sockets, CommandResult(s)
      PROVE  /\ \E ids : TakenOut(ids)
             /\ UNCHANGED <<bodies, sockets, connectedBodyId, newest>>
             /\ inbox' \in [Sockets -> SUBSET Command]
  <2>1. PICK command \in inbox[s] :
          /\ inbox' = [inbox EXCEPT ![s] = @ \ {command}]
          /\ Resolve(command.id) /\ timers' = TimersAfter(command.id, {})
    BY <1>1 DEF CommandResult
  <2>2. command.id \in CommandIds /\ inbox' \in [Sockets -> SUBSET Command]
    BY <2>1 DEF TypeOK, Command
  <2> QED BY <1>1, <2>1, <2>2, ResolveTakesOut DEF CommandResult
<1>2. ASSUME NEW c \in Calls, TimerFires(c)
      PROVE  /\ \E ids : TakenOut(ids)
             /\ UNCHANGED <<bodies, sockets, connectedBodyId, newest>>
             /\ inbox' \in [Sockets -> SUBSET Command]
  BY <1>2, TimerTakesOut DEF TimerFires, network, TypeOK
<1>3. ASSUME NEW c \in Calls, AbortCommand(c)
      PROVE  /\ \E ids : TakenOut(ids)
             /\ UNCHANGED <<bodies, sockets, connectedBodyId, newest>>
             /\ inbox' \in [Sockets -> SUBSET Command]
  <2>1. calls[c].id \in CommandIds
    BY <1>3, Absent DEF AbortCommand, Waiting, TypeOK, Pending
  <2> QED BY <1>3, <2>1, ResolveTakesOut DEF AbortCommand, network, TypeOK
<1> QED BY <1>1, <1>2, <1>3

\* Bodies are unregistered and their connections hung up, or closed already.
Removed(gone) ==
  /\ bodies' = BodiesWithout(gone)
  /\ \A s \in Sockets : sockets'[s] = HungUp(gone)[s] \/ sockets'[s] = "closed"
  /\ sockets' \in [Sockets -> {"open", "closing", "closed"}]
  /\ UNCHANGED <<connectedBodyId, newest>>

\* A connection that is hung up is closing or was closed before.
LEMMA HungUpType == ASSUME TypeOK, NEW gone
                    PROVE  HungUp(gone) \in [Sockets -> {"open", "closing", "closed"}]
BY DEF TypeOK, HungUp

\* A body that is taken out of the registry loses its connection with it.
LEMMA RemovedServed ==
  ASSUME ServedInv, NEW gone, Removed(gone),
         \A b \in Registered \ gone : sockets'[bodies[b].connection] # "closed"
  PROVE  /\ bodies' \in [Bodies -> BodyRecord \cup {NoRecord}]
         /\ Registered' = Registered \ gone
         /\ Connected' /\ NewestConnectionServed'
<1> USE DEF ServedInv
<1>1. \A b \in Bodies : bodies'[b] = IF b \in gone THEN NoRecord ELSE bodies[b]
  BY DEF Removed, BodiesWithout
<1>2. bodies' \in [Bodies -> BodyRecord \cup {NoRecord}]
  BY DEF Removed, BodiesWithout, TypeOK
<1>3. Registered' = Registered \ gone
  BY <1>1 DEF Registered
<1>4. Connected'
  BY <1>1, <1>3 DEF Connected, Removed, Registered
<1>5. ASSUME NEW b \in Bodies, connectedBodyId[newest[b]] = b,
             sockets'[newest[b]] = "open"
      PROVE  b \in Registered' /\ bodies'[b].connection = newest[b]
  <2>1. newest[b] \in Sockets
    BY DEF TypeOK
  <2>2. /\ sockets[newest[b]] = "open"
        /\ ~ \E d \in gone \cap Registered : bodies[d].connection = newest[b]
    BY <1>5, <2>1 DEF Removed, HungUp
  <2>3. b \in Registered /\ bodies[b].connection = newest[b]
    BY <1>5, <2>2 DEF NewestConnectionServed
  <2> QED BY <1>1, <1>3, <2>2, <2>3
<1>6. NewestConnectionServed'
  BY <1>5 DEF NewestConnectionServed, Removed
<1> QED BY <1>2, <1>3, <1>4, <1>6

\* 'body.advertise' replaces the record of its body.
LEMMA AdvertiseServed ==
  ASSUME ServedInv, NEW s \in Sockets, NEW b \in Bodies, Advertise(s, b)
  PROVE  /\ bodies' \in [Bodies -> BodyRecord \cup {NoRecord}]
         /\ connectedBodyId' \in [Sockets -> Bodies \cup {NoBody}]
         /\ newest' \in [Bodies -> Sockets]
         /\ Registered' = Registered \cup {b}
         /\ Connected' /\ NewestConnectionServed'
<1> USE DEF ServedInv
<1> DEFINE e == [connection |-> s, expired |-> FALSE]
<1>1. e \in BodyRecord /\ e.connection = s /\ e # NoRecord
  <2>1. e \in BodyRecord /\ e.connection = s
    BY DEF BodyRecord
  <2> QED BY <2>1, Absent
<1>2. /\ sockets[s] # "closed" /\ connectedBodyId[s] \in {NoBody, b}
      /\ connectedBodyId' = [connectedBodyId EXCEPT ![s] = b]
      /\ bodies' = [bodies EXCEPT ![b] = e]
      /\ newest' = [newest EXCEPT ![b] = s]
      /\ sockets' = sockets
  BY DEF Advertise
<1> HIDE DEF e
<1>3. /\ bodies' \in [Bodies -> BodyRecord \cup {NoRecord}]
      /\ connectedBodyId' \in [Sockets -> Bodies \cup {NoBody}]
      /\ newest' \in [Bodies -> Sockets]
  BY <1>1, <1>2 DEF TypeOK
<1>4. /\ bodies'[b] = e /\ newest'[b] = s /\ connectedBodyId'[s] = b
      /\ \A d \in Bodies \ {b} : bodies'[d] = bodies[d] /\ newest'[d] = newest[d]
      /\ \A t \in Sockets : connectedBodyId'[t] = connectedBodyId[t]
                            \/ (t = s /\ connectedBodyId[t] = NoBody)
  <2>1. /\ bodies \in [Bodies -> BodyRecord \cup {NoRecord}]
        /\ newest \in [Bodies -> Sockets]
        /\ connectedBodyId \in [Sockets -> Bodies \cup {NoBody}]
    BY DEF TypeOK
  <2>2. bodies'[b] = e /\ newest'[b] = s /\ connectedBodyId'[s] = b
    BY <1>2, <2>1
  <2>3. \A d \in Bodies \ {b} : bodies'[d] = bodies[d] /\ newest'[d] = newest[d]
    BY <1>2, <2>1
  <2>4. \A t \in Sockets : connectedBodyId'[t] = IF t = s THEN b ELSE connectedBodyId[t]
    BY <1>2, <2>1
  <2>5. \A t \in Sockets : connectedBodyId'[t] = connectedBodyId[t]
                           \/ (t = s /\ connectedBodyId[t] = NoBody)
    <3> TAKE t \in Sockets
    <3>1. connectedBodyId[s] = NoBody \/ connectedBodyId[s] = b
      BY <1>2
    <3>2. CASE t = s
      BY <2>2, <3>1, <3>2
    <3>3. CASE t # s
      BY <2>4, <3>3
    <3> QED BY <3>2, <3>3
  <2> QED BY <2>2, <2>3, <2>5
<1>5. Registered' = Registered \cup {b}
  BY <1>1, <1>4 DEF Registered
<1>6. \A d \in Registered : bodies[d].connection \in Sockets
  BY DEF Registered, TypeOK, BodyRecord
<1>7. Connected'
  <2> SUFFICES ASSUME NEW d \in Registered'
               PROVE  /\ connectedBodyId'[bodies'[d].connection] = d
                      /\ sockets'[bodies'[d].connection] # "closed"
                      /\ newest'[d] = bodies'[d].connection
    BY DEF Connected
  <2>1. CASE d = b
    BY <1>1, <1>2, <1>4, <2>1
  <2>2. CASE d # b
    <3>1. d \in Registered /\ d \in Bodies /\ d # NoBody
      BY <1>5, <2>2, BodiesAssumption DEF Registered
    <3> QED BY <1>2, <1>4, <1>6, <2>2, <3>1 DEF Connected
  <2> QED BY <2>1, <2>2
<1>8. NewestConnectionServed'
  <2> SUFFICES ASSUME NEW d \in Bodies, connectedBodyId'[newest'[d]] = d,
                      sockets'[newest'[d]] = "open"
               PROVE  d \in Registered' /\ bodies'[d].connection = newest'[d]
    BY DEF NewestConnectionServed
  <2>1. CASE d = b
    BY <1>1, <1>4, <1>5, <2>1
  <2>2. CASE d # b
    <3>1. newest'[d] = newest[d] /\ newest[d] \in Sockets
      BY <1>4, <2>2 DEF TypeOK
    <3>2. connectedBodyId[newest[d]] = d
      BY <1>2, <2>2, <3>1 DEF TypeOK
    <3> QED BY <1>2, <1>4, <1>5, <2>2, <3>1, <3>2 DEF NewestConnectionServed
  <2> QED BY <2>1, <2>2
<1> QED BY <1>3, <1>5, <1>7, <1>8

\* The steps by which bodies leave the registry.
Leaving ==
  \/ \E s \in Sockets : CloseEvent(s)
  \/ Sweep
  \/ \E c \in Calls, id \in CommandIds, target \in Bodies \cup {NoBody} :
       Refuse(c, id, target) \/ Send(c, id, target)

\* When a connection or a stale body leaves, nobody stays registered on a
\* closed connection.
LEMMA LeavingRemoves ==
  ASSUME ServedInv, Leaving
  PROVE  \E gone : /\ Removed(gone)
                   /\ \A b \in Registered \ gone :
                        sockets'[bodies[b].connection] # "closed"
<1>0. \A b \in Registered :
        /\ bodies[b].connection \in Sockets
        /\ connectedBodyId[bodies[b].connection] = b
        /\ sockets[bodies[b].connection] # "closed"
  BY DEF ServedInv, TypeOK, Registered, BodyRecord, Connected
<1>1. ASSUME NEW gone, bodies' = BodiesWithout(gone), sockets' = HungUp(gone),
             UNCHANGED <<connectedBodyId, newest>>
      PROVE  /\ Removed(gone)
             /\ \A b \in Registered \ gone :
                  sockets'[bodies[b].connection] # "closed"
  <2>1. Removed(gone)
    BY <1>1, HungUpType DEF Removed, ServedInv
  <2> QED BY <1>0, <1>1, <2>1 DEF HungUp
<1>2. ASSUME NEW s \in Sockets, CloseEvent(s)
      PROVE  \E gone : /\ Removed(gone)
                       /\ \A b \in Registered \ gone :
                            sockets'[bodies[b].connection] # "closed"
  <2> DEFINE gone == Registered \cap {connectedBodyId[s]}
             hung == HungUp(gone)
  <2>1. /\ bodies' = BodiesWithout(gone)
        /\ sockets' = [hung EXCEPT ![s] = "closed"]
        /\ UNCHANGED <<connectedBodyId, newest>>
    BY <1>2 DEF CloseEvent, Unregister
  <2>2. hung \in [Sockets -> {"open", "closing", "closed"}]
    BY HungUpType DEF ServedInv
  <2>3. \A t \in Sockets : sockets[t] # "closed" => hung[t] # "closed"
    BY DEF HungUp
  <2> HIDE DEF hung
  <2>4. /\ sockets' \in [Sockets -> {"open", "closing", "closed"}]
        /\ \A t \in Sockets : sockets'[t] = hung[t] \/ sockets'[t] = "closed"
        /\ \A t \in Sockets \ {s} : sockets'[t] = hung[t]
    BY <2>1, <2>2
  <2>5. Removed(gone)
    BY <2>1, <2>4 DEF Removed, hung
  <2>6. \A b \in Registered \ gone : sockets'[bodies[b].connection] # "closed"
    BY <1>0, <2>3, <2>4
  <2> HIDE DEF gone
  <2> QED BY <2>5, <2>6
<1> QED BY <1>1, <1>2 DEF Leaving, Sweep, Unregister, Refuse, Send

\* The actions by what they do to the registry and to the commands.
LEMMA NextKinds ==
  ASSUME [Next]_vars
  PROVE  \/ \E s \in Sockets, b \in Bodies : Advertise(s, b)
         \/ \E b \in Bodies : Heartbeat(b) \/ HeartbeatLapses(b)
         \/ \E s \in Sockets : CommandResult(s)
         \/ \E c \in Calls : TimerFires(c) \/ AbortCommand(c)
         \/ \E s \in Sockets : PeerCloses(s)
         \/ Leaving
         \/ UNCHANGED vars
BY DEF Next, Leaving

-----------------------------------------------------------------------------
(***************************************************************************)
(* The types, and the connections of the bodies                            *)
(***************************************************************************)

\* Every step keeps the types of commands, timers and inboxes.
LEMMA NextCommandTypes ==
  ASSUME ServedInv, [Next]_vars
  PROVE  CommandTypes' /\ inbox' \in [Sockets -> SUBSET Command]
<1>0. TypeOK /\ Connected /\ CommandTypes
  BY DEF ServedInv, TypeOK, CommandTypes
<1>1. ASSUME NEW id \in CommandIds, Resolve(id), timers' \subseteq timers
      PROVE  CommandTypes'
  BY <1>0, <1>1, SettleType DEF Resolve, CommandTypes, TypeOK
<1>2. ASSUME NEW s \in Sockets, CommandResult(s)
      PROVE  CommandTypes' /\ inbox' \in [Sockets -> SUBSET Command]
  <2>1. PICK command \in inbox[s] :
          /\ inbox' = [inbox EXCEPT ![s] = @ \ {command}]
          /\ Resolve(command.id) /\ timers' = TimersAfter(command.id, {})
    BY <1>2 DEF CommandResult
  <2>2. command.id \in CommandIds /\ inbox' \in [Sockets -> SUBSET Command]
    BY <1>0, <2>1 DEF TypeOK, Command
  <2> QED BY <1>1, <2>1, <2>2 DEF TimersAfter
<1>3. ASSUME NEW c \in Calls, TimerFires(c)
      PROVE  CommandTypes' /\ inbox' \in [Sockets -> SUBSET Command]
  <2>1. PICK t \in timers : Resolve(t.id) /\ timers' = TimersAfter(t.id, {t})
    BY <1>3 DEF TimerFires, Timeout
  <2>2. t.id \in CommandIds
    BY <1>0, <2>1 DEF TypeOK, Command
  <2> QED BY <1>0, <1>1, <1>3, <2>1, <2>2
          DEF TimersAfter, TimerFires, network, TypeOK
<1>4. ASSUME NEW c \in Calls, AbortCommand(c)
      PROVE  CommandTypes' /\ inbox' \in [Sockets -> SUBSET Command]
  <2>1. calls[c].id \in CommandIds
    BY <1>0, <1>4, Absent DEF AbortCommand, Waiting, TypeOK, Pending
  <2> QED BY <1>0, <1>1, <1>4, <2>1
          DEF TimersAfter, AbortCommand, network, TypeOK
<1>5. ASSUME NEW gone
      PROVE  /\ EntriesWithout(gone) \in [CommandIds -> Entry \cup {NoEntry}]
             /\ TimersWithout(gone) \subseteq Command
             /\ Settle(FailedCalls(gone)) \in [Calls -> Pending \cup {Idle, Settled}]
  BY <1>0, SettleType DEF TypeOK, EntriesWithout, TimersWithout
<1>6. ASSUME Sweep \/ \E s \in Sockets : CloseEvent(s)
      PROVE  CommandTypes' /\ inbox' \in [Sockets -> SUBSET Command]
  <2>1. \E gone : Unregister(gone)
    BY <1>6 DEF Sweep, CloseEvent
  <2>2. inbox' \in [Sockets -> SUBSET Command]
    BY <1>0, <1>6 DEF Sweep, CloseEvent, TypeOK
  <2> QED BY <1>0, <1>5, <2>1, <2>2 DEF Unregister, CommandTypes
<1>7. ASSUME NEW c \in Calls, NEW id \in CommandIds,
             NEW target \in Bodies \cup {NoBody}, Refuse(c, id, target)
      PROVE  CommandTypes' /\ inbox' \in [Sockets -> SUBSET Command]
  <2> DEFINE gone == Evicted(target)
             entries == EntriesWithout(gone)
             settled == Settle(FailedCalls(gone))
  <2>1. /\ entries \in [CommandIds -> Entry \cup {NoEntry}]
        /\ settled \in [Calls -> Pending \cup {Idle, Settled}]
        /\ timers' \subseteq Command /\ inbox' = inbox
        /\ calls' = [settled EXCEPT ![c] = Settled]
        /\ \/ pendingCommands' = entries
           \/ pendingCommands' = [entries EXCEPT ![id] = NoEntry]
    BY <1>5, <1>7 DEF Refuse
  <2> HIDE DEF entries, settled
  <2> QED BY <1>0, <2>1 DEF CommandTypes, TypeOK
<1>8. ASSUME NEW c \in Calls, NEW id \in CommandIds,
             NEW target \in Bodies \cup {NoBody}, Send(c, id, target)
      PROVE  CommandTypes' /\ inbox' \in [Sockets -> SUBSET Command]
  <2> DEFINE gone == Evicted(target)
             entries == EntriesWithout(gone)
             settled == Settle(FailedCalls(gone))
  <2>1. PICK b \in Candidates(target) :
          LET s == bodies[b].connection IN
          /\ pendingCommands' = [entries EXCEPT
               ![id] = [bodyId |-> FiledUnder(s, target), call |-> c]]
          /\ calls' = [settled EXCEPT
               ![c] = [pc |-> "waiting", id |-> id, socket |-> s]]
          /\ inbox' = [inbox EXCEPT ![s] = @ \cup {[call |-> c, id |-> id]}]
    BY <1>8 DEF Send
  <2> DEFINE s == bodies[b].connection
             entry == [bodyId |-> FiledUnder(s, target), call |-> c]
             call == [pc |-> "waiting", id |-> id, socket |-> s]
  <2>2. b \in Registered /\ b \in Bodies
    BY DEF Candidates, Registered
  <2>3. s \in Sockets /\ connectedBodyId[s] = b
    BY <1>0, <2>2 DEF Connected, TypeOK, Registered, BodyRecord
  <2>4. entry \in Entry /\ call \in Pending
    BY <2>2, <2>3 DEF Entry, Pending, FiledUnder
  <2>5. /\ entries \in [CommandIds -> Entry \cup {NoEntry}]
        /\ settled \in [Calls -> Pending \cup {Idle, Settled}]
        /\ timers' = TimersWithout(gone) \cup {[call |-> c, id |-> id]}
    BY <1>5, <1>8 DEF Send
  <2>6. timers' \subseteq Command /\ [call |-> c, id |-> id] \in Command
    BY <1>5, <2>5 DEF Command
  <2>7. /\ pendingCommands' = [entries EXCEPT ![id] = entry]
        /\ calls' = [settled EXCEPT ![c] = call]
        /\ inbox' = [inbox EXCEPT ![s] = @ \cup {[call |-> c, id |-> id]}]
    BY <2>1
  <2> HIDE DEF entries, settled, entry, call, s
  <2> QED BY <1>0, <2>3, <2>4, <2>5, <2>6, <2>7 DEF CommandTypes, TypeOK
<1>9. ASSUME UNCHANGED <<pendingCommands, timers, calls, inbox>>
      PROVE  CommandTypes' /\ inbox' \in [Sockets -> SUBSET Command]
  BY <1>0, <1>9 DEF CommandTypes, TypeOK
<1> QED
  BY <1>2, <1>3, <1>4, <1>6, <1>7, <1>8, <1>9, NextKinds
  DEF Leaving, Advertise, Heartbeat, HeartbeatLapses, PeerCloses, network,
      registry, vars

\* Every step keeps the part of the invariant that is about bodies and
\* connections.
LEMMA NextServed ==
  ASSUME ServedInv, [Next]_vars
  PROVE  ServedInv'
<1> DEFINE Kept == /\ bodies' \in [Bodies -> BodyRecord \cup {NoRecord}]
                   /\ sockets' \in [Sockets -> {"open", "closing", "closed"}]
                   /\ connectedBodyId' \in [Sockets -> Bodies \cup {NoBody}]
                   /\ newest' \in [Bodies -> Sockets]
                   /\ Connected' /\ NewestConnectionServed'
<1>0. TypeOK /\ Connected /\ NewestConnectionServed
  BY DEF ServedInv
<1>1. ASSUME UNCHANGED <<bodies, sockets, connectedBodyId, newest>>
      PROVE  Kept
  BY <1>0, <1>1 DEF TypeOK, Connected, NewestConnectionServed, Registered
<1>2. ASSUME NEW s \in Sockets, NEW b \in Bodies, Advertise(s, b)
      PROVE  Kept
  <2>1. sockets' = sockets
    BY <1>2 DEF Advertise
  <2> QED BY <1>0, <1>2, <2>1, AdvertiseServed DEF TypeOK
<1>3. ASSUME NEW b \in Bodies, Heartbeat(b) \/ HeartbeatLapses(b)
      PROVE  Kept
  <2>1. PICK v \in BOOLEAN : bodies' = [bodies EXCEPT ![b].expired = v]
    BY <1>3 DEF Heartbeat, HeartbeatLapses
  <2>2. b \in Registered /\ UNCHANGED <<sockets, connectedBodyId, newest>>
    BY <1>3 DEF Heartbeat, HeartbeatLapses, Stale, network
  <2> DEFINE e == [bodies[b] EXCEPT !.expired = v]
  <2>3. bodies[b] \in BodyRecord
    BY <1>0, <2>2 DEF Registered, TypeOK
  <2>4. e \in BodyRecord /\ e.connection = bodies[b].connection
    BY <2>3 DEF BodyRecord
  <2>5. e # NoRecord
    BY <2>4, Absent
  <2>6. bodies' = [bodies EXCEPT ![b] = e]
    BY <2>1
  <2> HIDE DEF e
  <2>7. bodies' \in [Bodies -> BodyRecord \cup {NoRecord}]
    BY <1>0, <2>4, <2>6 DEF TypeOK
  <2>8. Registered' = Registered
    BY <1>0, <2>2, <2>5, <2>6 DEF Registered, TypeOK
  <2>9. \A d \in Registered : bodies'[d].connection = bodies[d].connection
    BY <1>0, <2>4, <2>6 DEF Registered, TypeOK
  <2> QED BY <1>0, <2>2, <2>7, <2>8, <2>9
          DEF TypeOK, Connected, NewestConnectionServed
<1>4. ASSUME NEW s \in Sockets, PeerCloses(s) PROVE Kept
  <2>1. /\ sockets' = [sockets EXCEPT ![s] = "closing"] /\ sockets[s] = "open"
        /\ UNCHANGED <<bodies, connectedBodyId, newest>>
    BY <1>4 DEF PeerCloses, registry
  <2>2. \A t \in Sockets : /\ sockets'[t] = "open" => sockets[t] = "open"
                           /\ sockets'[t] = "closed" => sockets[t] = "closed"
    BY <1>0, <2>1 DEF TypeOK
  <2>3. \A b \in Registered : b \in Bodies /\ bodies[b].connection \in Sockets
    BY <1>0 DEF Registered, TypeOK, BodyRecord
  <2> QED BY <1>0, <2>1, <2>2, <2>3
          DEF TypeOK, Connected, NewestConnectionServed, Registered
<1>5. ASSUME Leaving PROVE Kept
  <2>1. PICK gone : /\ Removed(gone)
                    /\ \A b \in Registered \ gone :
                         sockets'[bodies[b].connection] # "closed"
    BY <1>5, LeavingRemoves
  <2> QED BY <1>0, <2>1, RemovedServed DEF Removed, TypeOK
<1> HIDE DEF Kept
<1>6. Kept
  <2>1. ASSUME NEW s \in Sockets, CommandResult(s)
        PROVE  Kept
    BY <1>1, <2>1 DEF CommandResult
  <2>2. ASSUME NEW c \in Calls, TimerFires(c) \/ AbortCommand(c) PROVE Kept
    BY <1>1, <2>2 DEF TimerFires, AbortCommand, network
  <2>3. CASE UNCHANGED vars
    BY <1>1, <2>3 DEF registry, network, vars
  <2> QED BY <1>2, <1>3, <1>4, <1>5, <2>1, <2>2, <2>3, NextKinds
<1>7. CommandTypes' /\ inbox' \in [Sockets -> SUBSET Command]
  BY NextCommandTypes
<1> QED BY <1>6, <1>7 DEF Kept, ServedInv, TypeOK, CommandTypes

-----------------------------------------------------------------------------
(***************************************************************************)
(* The entries, the promises and the timers                                *)
(***************************************************************************)

\* An id that an unmade call may come with is of no call that waits under an id
\* of its own.
LEMMA FreshId ==
  ASSUME TypeOK, Agree, NEW c \in Calls, calls[c] = Idle, NEW id \in IdsOf[c]
  PROVE  /\ id \in CommandIds /\ c \notin Waiting
         /\ pendingCommands[id] # NoEntry => pendingCommands[id].call \notin OwnId
         /\ \A d \in OwnWaiting : calls[d].id # id
<1>1. id \in CommandIds /\ c \notin Waiting
  BY BodiesAssumption, Absent DEF Waiting
<1>2. ASSUME NEW d \in OwnWaiting PROVE id \notin IdsOf[d]
  <2>1. d \in OwnId /\ d # c
    BY <1>1 DEF OwnWaiting
  <2> QED BY <2>1 DEF OwnId
<1>3. \A d \in OwnWaiting : calls[d].id # id
  BY <1>2 DEF Agree
<1>4. ASSUME pendingCommands[id] # NoEntry, pendingCommands[id].call \in OwnId
      PROVE  FALSE
  <2>1. pendingCommands[id].call \in OwnWaiting /\ id \in IdsOf[pendingCommands[id].call]
    BY <1>1, <1>4 DEF Agree, OwnWaiting
  <2> QED BY <1>2, <2>1
<1> QED BY <1>1, <1>3, <1>4

\* A command that finds no open connection still evicts what the lookup found
\* stale; an entry under its id that it takes out is none of a call with an id
\* of its own.
LEMMA RefuseTakesOut ==
  ASSUME TypeOK, Agree, NEW c \in Calls, NEW id \in CommandIds,
         NEW target, Refuse(c, id, target)
  PROVE  TakenOut(PendingOf(Evicted(target)))
<1> DEFINE gone == Evicted(target)
           ids == PendingOf(gone)
           entries == EntriesWithout(gone)
           settled == Settle(FailedCalls(gone))
<1>1. /\ calls[c] = Idle /\ id \in IdsOf[c]
      /\ pendingCommands[id] # NoEntry => pendingCommands[id].call \notin OwnId
  BY FreshId DEF Refuse
<1>2. /\ ids \subseteq {i \in CommandIds : pendingCommands[i] # NoEntry}
      /\ FailedCalls(gone) = {pendingCommands[i].call : i \in ids}
  BY DEF PendingOf, FailedCalls
<1>3. /\ entries \in [CommandIds -> Entry \cup {NoEntry}]
      /\ \A i \in CommandIds : entries[i] =
           IF i \in ids THEN NoEntry ELSE pendingCommands[i]
  BY DEF EntriesWithout, TypeOK
<1>4. timers' = {t \in timers : t.call \notin FailedCalls(gone)}
  BY DEF Refuse, TimersWithout
<1>5. settled \in [Calls -> Pending \cup {Idle, Settled}]
  BY SettleType
<1>6. /\ calls' = [settled EXCEPT ![c] = Settled]
      /\ pendingCommands' = entries \/ pendingCommands' = [entries EXCEPT ![id] = NoEntry]
  BY DEF Refuse
<1>7. \A d \in Calls : settled[d] = IF d \in FailedCalls(gone) THEN Settled ELSE calls[d]
  BY DEF Settle
<1> HIDE DEF settled, entries
<1>8. calls' \in [Calls -> Pending \cup {Idle, Settled}]
  BY <1>5, <1>6
<1>9. \A d \in Calls :
        IF d \in FailedCalls(gone) THEN calls'[d] = Settled
        ELSE calls'[d] = calls[d] \/ (calls[d] = Idle /\ calls'[d] = Settled)
  BY <1>1, <1>5, <1>6, <1>7
<1>10. /\ pendingCommands' \in [CommandIds -> Entry \cup {NoEntry}]
       /\ \A i \in CommandIds \ {id} : pendingCommands'[i] = entries[i]
       /\ pendingCommands'[id] = entries[id] \/ pendingCommands'[id] = NoEntry
  BY <1>3, <1>6
<1>11. \A i \in CommandIds :
         \/ pendingCommands'[i] = NoEntry /\ i \in ids
         \/ pendingCommands'[i] = pendingCommands[i] /\ i \notin ids
         \/ /\ pendingCommands'[i] = NoEntry
            /\ pendingCommands[i] # NoEntry => pendingCommands[i].call \notin OwnId
  BY <1>1, <1>3, <1>10
<1> QED BY <1>2, <1>4, <1>8, <1>9, <1>10, <1>11 DEF TakenOut

\* A command that is sent: what it adds to what is left.
LEMMA SendFacts ==
  ASSUME ServedInv, Agree, NEW c \in Calls, NEW id \in CommandIds,
         NEW target, NEW gone, gone = Evicted(target), Send(c, id, target)
  PROVE  \E s \in Sockets, b \in Registered \ gone :
           /\ connectedBodyId[s] = b /\ sockets[s] = "open"
           /\ pendingCommands'[id] = [bodyId |-> b, call |-> c]
           /\ \A i \in CommandIds \ {id} :
                pendingCommands'[i] =
                  IF i \in PendingOf(gone) THEN NoEntry ELSE pendingCommands[i]
           /\ calls'[c] = [pc |-> "waiting", id |-> id, socket |-> s]
           /\ \A d \in Calls \ {c} :
                calls'[d] = IF d \in FailedCalls(gone) THEN Settled ELSE calls[d]
           /\ timers' = {t \in timers : t.call \notin FailedCalls(gone)}
                          \cup {[call |-> c, id |-> id]}
<1> DEFINE ids == PendingOf(gone)
           entries == EntriesWithout(gone)
           settled == Settle(FailedCalls(gone))
<1>0. TypeOK /\ Connected
  BY DEF ServedInv
<1>1. PICK b \in Candidates(target) :
        /\ sockets[bodies[b].connection] = "open"
        /\ pendingCommands' = [entries EXCEPT ![id] =
             [bodyId |-> FiledUnder(bodies[b].connection, target), call |-> c]]
        /\ calls' = [settled EXCEPT ![c] =
             [pc |-> "waiting", id |-> id, socket |-> bodies[b].connection]]
  BY DEF Send
<1>2. b \in Registered \ gone
  BY DEF Candidates, Evicted, Registered
<1>3. /\ bodies[b].connection \in Sockets
      /\ connectedBodyId[bodies[b].connection] = b
  BY <1>0, <1>2 DEF Connected, TypeOK, Registered, BodyRecord
<1>4. /\ DOMAIN entries = CommandIds /\ DOMAIN settled = Calls
      /\ \A i \in CommandIds :
           entries[i] = IF i \in ids THEN NoEntry ELSE pendingCommands[i]
      /\ \A d \in Calls :
           settled[d] = IF d \in FailedCalls(gone) THEN Settled ELSE calls[d]
  BY DEF EntriesWithout, Settle
<1>5. timers' = {t \in timers : t.call \notin FailedCalls(gone)}
                  \cup {[call |-> c, id |-> id]}
  BY DEF Send, TimersWithout
<1>6. FiledUnder(bodies[b].connection, target) = b
  BY <1>3 DEF FiledUnder
<1> HIDE DEF entries, settled, ids
<1>7. /\ pendingCommands'[id] = [bodyId |-> b, call |-> c]
      /\ \A i \in CommandIds \ {id} : pendingCommands'[i] = entries[i]
  BY <1>1, <1>4, <1>6 DEF entries
<1>8. /\ calls'[c] =
           [pc |-> "waiting", id |-> id, socket |-> bodies[b].connection]
      /\ \A d \in Calls \ {c} : calls'[d] = settled[d]
  BY <1>1, <1>4 DEF settled
<1> QED BY <1>1, <1>2, <1>3, <1>4, <1>5, <1>7, <1>8 DEF ids

\* A command that is sent is filed under its id, on an open connection of a
\* registered body, and disturbs no call with an id of its own.
LEMMA SendAgree ==
  ASSUME ServedInv, Agree, NEW c \in Calls, NEW id \in CommandIds,
         NEW target, Send(c, id, target)
  PROVE  /\ Agree'
         /\ calls'[c].socket \in Sockets
         /\ connectedBodyId[calls'[c].socket] \in Registered \ Evicted(target)
         /\ sockets[calls'[c].socket] = "open"
         /\ \A d \in OwnWaiting' \ {c} :
              /\ d \in OwnWaiting /\ calls'[d] = calls[d]
              /\ calls[d].id \notin PendingOf(Evicted(target))
<1> DEFINE gone == Evicted(target)
           ids == PendingOf(gone)
<1>0. PICK s \in Sockets, b \in Registered \ gone :
        /\ connectedBodyId[s] = b /\ sockets[s] = "open"
        /\ pendingCommands'[id] = [bodyId |-> b, call |-> c]
        /\ \A i \in CommandIds \ {id} :
             pendingCommands'[i] =
               IF i \in PendingOf(gone) THEN NoEntry ELSE pendingCommands[i]
        /\ calls'[c] = [pc |-> "waiting", id |-> id, socket |-> s]
        /\ \A d \in Calls \ {c} :
             calls'[d] = IF d \in FailedCalls(gone) THEN Settled ELSE calls[d]
        /\ timers' = {t \in timers : t.call \notin FailedCalls(gone)}
                       \cup {[call |-> c, id |-> id]}
  BY SendFacts
<1>1. /\ TypeOK /\ id \in IdsOf[c] /\ c \notin Waiting
      /\ \A d \in OwnWaiting : calls[d].id # id
      /\ UNCHANGED connectedBodyId
  BY FreshId DEF ServedInv, Send
<1>2. \A d \in OwnWaiting : /\ d \in Calls \ {c} /\ calls[d].id \in CommandIds
                            /\ d \in FailedCalls(gone) <=> calls[d].id \in ids
  <2> TAKE d \in OwnWaiting
  <2>1. d \in Calls \ {c} /\ calls[d].id \in CommandIds
    BY <1>1, Absent DEF OwnWaiting, Waiting, TypeOK, Pending
  <2>2. ASSUME NEW i \in ids, pendingCommands[i].call = d
        PROVE  calls[d].id \in ids
    <3>1. i \in CommandIds /\ pendingCommands[i] # NoEntry
      BY DEF PendingOf
    <3>2. calls[d].id = i
      BY <2>2, <3>1 DEF Agree, OwnWaiting
    <3> QED BY <3>2
  <2>3. ASSUME calls[d].id \in ids PROVE d \in FailedCalls(gone)
    <3>1. pendingCommands[calls[d].id].call = d
      BY DEF Agree
    <3> QED BY <2>3, <3>1 DEF FailedCalls
  <2> QED BY <2>1, <2>2, <2>3 DEF FailedCalls
<1> HIDE DEF gone
<1> HIDE DEF ids
<1>3. \A d \in OwnWaiting' \ {c} : /\ d \in OwnWaiting /\ calls'[d] = calls[d]
                                   /\ calls[d].id \notin ids
  <2> SUFFICES ASSUME NEW d \in OwnId \ {c}, d \in Calls, calls'[d].pc = "waiting"
               PROVE  /\ d \in OwnWaiting /\ calls'[d] = calls[d]
                      /\ calls[d].id \notin ids
    BY DEF OwnWaiting, Waiting, OwnId
  <2>1. d \notin FailedCalls(gone) /\ calls'[d] = calls[d]
    BY <1>0, Absent
  <2>2. d \in OwnWaiting
    BY <2>1 DEF OwnWaiting, Waiting
  <2> QED BY <1>2, <2>1, <2>2
<1>4. ASSUME NEW d \in OwnWaiting, calls[d].id \notin ids
      PROVE  /\ calls'[d] = calls[d] /\ d \in Waiting'
             /\ pendingCommands'[calls[d].id] = pendingCommands[calls[d].id]
             /\ [call |-> d, id |-> calls[d].id] \in timers'
  <2>1. d \in Calls \ {c} /\ d \notin FailedCalls(gone) /\ calls[d].id \in CommandIds \ {id}
    BY <1>1, <1>2, <1>4
  <2>2. calls'[d] = calls[d] /\ d \in Waiting'
    BY <1>0, <2>1 DEF OwnWaiting, Waiting
  <2>3. pendingCommands'[calls[d].id] = pendingCommands[calls[d].id]
    BY <1>0, <1>4, <2>1 DEF ids
  <2>4. [call |-> d, id |-> calls[d].id] \in timers
    BY DEF Agree
  <2>5. [call |-> d, id |-> calls[d].id] \in timers'
    BY <1>0, <2>1, <2>4
  <2> QED BY <2>2, <2>3, <2>5
<1>5. /\ calls'[c].pc = "waiting" /\ calls'[c].id = id /\ calls'[c].socket = s
      /\ c \in Waiting'
  BY <1>0 DEF Waiting
<1>6. ASSUME NEW i \in CommandIds, pendingCommands'[i] # NoEntry
      PROVE  /\ i \in IdsOf[pendingCommands'[i].call]
             /\ pendingCommands'[i].call \in OwnId =>
                  /\ pendingCommands'[i].call \in Waiting'
                  /\ calls'[pendingCommands'[i].call].id = i
  <2>1. CASE i = id
    BY <1>0, <1>1, <1>5, <2>1
  <2>2. CASE i # id
    <3>1. i \notin ids /\ pendingCommands'[i] = pendingCommands[i]
      BY <1>0, <1>6, <2>2 DEF ids
    <3>2. i \in IdsOf[pendingCommands[i].call]
      BY <1>6, <3>1 DEF Agree
    <3>3. ASSUME pendingCommands[i].call \in OwnId
          PROVE  /\ pendingCommands[i].call \in OwnWaiting
                 /\ calls[pendingCommands[i].call].id = i
      BY <1>6, <3>1, <3>3 DEF Agree, OwnWaiting
    <3> QED BY <1>4, <3>1, <3>2, <3>3
  <2> QED BY <2>1, <2>2
<1>7. ASSUME NEW d \in OwnWaiting'
      PROVE  /\ calls'[d].id \in IdsOf[d]
             /\ pendingCommands'[calls'[d].id] # NoEntry
             /\ pendingCommands'[calls'[d].id].call = d
             /\ pendingCommands'[calls'[d].id].bodyId
                  = connectedBodyId'[calls'[d].socket]
             /\ [call |-> d, id |-> calls'[d].id] \in timers'
  <2>1. CASE d = c
    <3>1. [bodyId |-> b, call |-> c] # NoEntry
      BY Absent, BodiesAssumption DEF Registered, Entry
    <3> QED BY <1>0, <1>1, <1>5, <2>1, <3>1
  <2>2. CASE d # c
    <3>1. d \in OwnWaiting /\ calls'[d] = calls[d] /\ calls[d].id \notin ids
      BY <1>3, <1>7, <2>2
    <3>2. /\ pendingCommands'[calls[d].id] = pendingCommands[calls[d].id]
          /\ [call |-> d, id |-> calls[d].id] \in timers'
      BY <1>4, <3>1
    <3> QED BY <1>1, <3>1, <3>2 DEF Agree
  <2> QED BY <2>1, <2>2
<1>8. ASSUME NEW t \in timers', t.call \in OwnId
      PROVE  t.call \in Waiting' /\ t.id = calls'[t.call].id
  <2>1. CASE t = [call |-> c, id |-> id]
    BY <1>5, <2>1
  <2>2. CASE t \in timers /\ t.call \notin FailedCalls(gone)
    <3>1. t.call \in OwnWaiting /\ t.id = calls[t.call].id
      BY <1>8, <2>2 DEF Agree, OwnWaiting
    <3> QED BY <1>2, <1>4, <2>2, <3>1
  <2> QED BY <1>0, <2>1, <2>2
<1>9. OwnId' = OwnId
  BY DEF OwnId
<1>10. Agree'
  BY <1>6, <1>7, <1>8, <1>9 DEF Agree
<1> QED BY <1>0, <1>3, <1>5, <1>10 DEF ids, gone

-----------------------------------------------------------------------------
(***************************************************************************)
(* Nobody waits on what is gone                                            *)
(***************************************************************************)

\* What is left waiting after bodies have gone waits for none of them.
LEMMA OthersWait ==
  ASSUME ServedInv, Agree, NoHangingCommand, NEW gone, Removed(gone),
         NEW c \in OwnWaiting, calls[c].id \notin PendingOf(gone)
  PROVE  /\ calls[c].socket \in Sockets
         /\ connectedBodyId[calls[c].socket] \in Registered'
<1>1. /\ calls[c].id \in CommandIds /\ calls[c].socket \in Sockets
  BY Absent DEF ServedInv, TypeOK, OwnWaiting, Waiting, Pending
<1>2. connectedBodyId[calls[c].socket] \notin gone
  BY <1>1 DEF Agree, PendingOf
<1>3. connectedBodyId[calls[c].socket] \in Registered
  BY DEF NoHangingCommand, OwnWaiting
<1>4. \A b \in Registered \ gone : b \in Registered'
  BY DEF Registered, Removed, BodiesWithout
<1> QED BY <1>1, <1>2, <1>3, <1>4

\* Every step keeps promise, timer and entry in agreement, and each waiting
\* command on a live connection.
LEMMA NextAgree ==
  ASSUME BInv, [Next]_vars
  PROVE  Agree' /\ NoHangingCommand'
<1>0. ServedInv /\ TypeOK /\ Agree /\ NoHangingCommand
  BY DEF BInv, ServedInv
<1>1. \A c \in OwnWaiting : /\ c \in Calls /\ calls[c].socket \in Sockets
                         /\ sockets[calls[c].socket] # "closed"
                         /\ connectedBodyId[calls[c].socket] \in Registered
  BY <1>0, Absent DEF NoHangingCommand, OwnWaiting, Waiting, OwnId, TypeOK, Pending
<1>2. ASSUME NEW s \in Sockets, NEW b \in Bodies, Advertise(s, b)
      PROVE  Agree' /\ NoHangingCommand'
  <2>1. UNCHANGED <<pendingCommands, timers, calls, sockets>>
    BY <1>2 DEF Advertise
  <2>2. Registered' = Registered \cup {b} /\ OwnWaiting' = OwnWaiting
    BY <1>0, <1>2, <2>1, AdvertiseServed DEF OwnWaiting, Waiting, OwnId
  <2>3. \A t \in Sockets : connectedBodyId[t] # NoBody =>
          connectedBodyId'[t] = connectedBodyId[t]
    BY <1>0, <1>2 DEF Advertise, TypeOK
  <2>4. NoBody \notin Registered
    BY BodiesAssumption DEF Registered
  <2>5. \A c \in OwnWaiting :
          connectedBodyId'[calls[c].socket] = connectedBodyId[calls[c].socket]
    BY <1>1, <2>3, <2>4
  <2>6. Agree'
    BY <1>0, <2>1, <2>2, <2>5 DEF Agree, OwnWaiting, Waiting, OwnId
  <2>7. NoHangingCommand'
    BY <1>1, <2>1, <2>2, <2>5 DEF NoHangingCommand, OwnWaiting, Waiting, OwnId
  <2> QED BY <2>6, <2>7
<1>3. ASSUME UNCHANGED <<pendingCommands, timers, calls, connectedBodyId>>,
             Registered \subseteq Registered',
             \A s \in Sockets : sockets'[s] = "closed" => sockets[s] = "closed"
      PROVE  Agree' /\ NoHangingCommand'
  <2>1. OwnWaiting' = OwnWaiting
    BY <1>3 DEF OwnWaiting, Waiting, OwnId
  <2> QED BY <1>0, <1>1, <1>3, <2>1 DEF Agree, NoHangingCommand, OwnWaiting, Waiting, OwnId
<1>4. ASSUME NEW b \in Bodies, Heartbeat(b) \/ HeartbeatLapses(b)
      PROVE  Agree' /\ NoHangingCommand'
  <2>1. /\ UNCHANGED <<pendingCommands, timers, calls, sockets, connectedBodyId>>
        /\ b \in Registered
        /\ \E v \in BOOLEAN : bodies' = [bodies EXCEPT ![b].expired = v]
    BY <1>4 DEF Heartbeat, HeartbeatLapses, network, Stale
  <2>2. bodies[b] \in BodyRecord
    BY <1>0, <2>1 DEF Registered, TypeOK
  <2>3. bodies'[b] \in BodyRecord
    BY <1>0, <2>1, <2>2 DEF TypeOK, BodyRecord
  <2>4. \A d \in Bodies \ {b} : bodies'[d] = bodies[d]
    BY <1>0, <2>1 DEF TypeOK
  <2>5. Registered \subseteq Registered'
    BY <2>3, <2>4, Absent DEF Registered
  <2> QED BY <1>3, <2>1, <2>5
<1>5. ASSUME NEW ids, TakenOut(ids),
             UNCHANGED <<bodies, sockets, connectedBodyId>>
      PROVE  Agree' /\ NoHangingCommand'
  <2>1. \A c \in OwnWaiting' : c \in OwnWaiting /\ calls'[c] = calls[c]
    BY <1>0, <1>5, TakenOutFacts
  <2>2. Registered' = Registered
    BY <1>5 DEF Registered
  <2>3. NoHangingCommand'
    BY <1>1, <1>5, <2>1, <2>2 DEF NoHangingCommand, OwnWaiting, Waiting, OwnId
  <2> QED BY <1>0, <1>5, <2>3, TakenOutAgree
<1>6. ASSUME \/ \E s \in Sockets : CommandResult(s)
             \/ \E c \in Calls : TimerFires(c) \/ AbortCommand(c)
      PROVE  Agree' /\ NoHangingCommand'
  BY <1>0, <1>5, <1>6, AnswerKinds
<1>7. ASSUME NEW s \in Sockets, PeerCloses(s) PROVE Agree' /\ NoHangingCommand'
  <2>1. /\ UNCHANGED <<bodies, pendingCommands, timers, calls, connectedBodyId>>
        /\ sockets' = [sockets EXCEPT ![s] = "closing"]
    BY <1>7 DEF PeerCloses, registry
  <2>2. \A t \in Sockets : sockets'[t] = "closed" => sockets[t] = "closed"
    BY <1>0, <2>1 DEF TypeOK
  <2>3. Registered \subseteq Registered'
    BY <2>1 DEF Registered
  <2> QED BY <1>3, <2>1, <2>2, <2>3
<1>8. ASSUME NEW gone, TakenOut(PendingOf(gone)), Removed(gone),
             \A c \in OwnWaiting : calls[c].id \notin PendingOf(gone) =>
               sockets'[calls[c].socket] # "closed"
      PROVE  Agree' /\ NoHangingCommand'
  <2>1. \A c \in OwnWaiting' : /\ c \in OwnWaiting /\ calls'[c] = calls[c]
                            /\ calls[c].id \notin PendingOf(gone)
    BY <1>0, <1>8, TakenOutFacts
  <2>2. \A c \in OwnWaiting' : connectedBodyId[calls[c].socket] \in Registered'
    BY <1>0, <1>8, <2>1, OthersWait
  <2>3. NoHangingCommand'
    BY <1>8, <2>1, <2>2 DEF NoHangingCommand, OwnWaiting, Waiting, OwnId, Removed
  <2> QED BY <1>0, <1>8, <2>3, TakenOutAgree DEF Removed
<1>9. ASSUME NEW gone, bodies' = BodiesWithout(gone), sockets' = HungUp(gone),
             UNCHANGED <<connectedBodyId, newest>>
      PROVE  /\ Removed(gone)
             /\ \A c \in OwnWaiting : sockets'[calls[c].socket] # "closed"
  BY <1>0, <1>1, <1>9, HungUpType DEF Removed, HungUp
<1>10. CASE Sweep
  <2>1. TakenOut(PendingOf(Stale))
    BY <1>0, <1>10, UnregisterTakesOut DEF Sweep
  <2> QED BY <1>8, <1>9, <1>10, <2>1 DEF Sweep, Unregister
<1>11. ASSUME NEW s \in Sockets, CloseEvent(s) PROVE Agree' /\ NoHangingCommand'
  <2> DEFINE gone == Registered \cap {connectedBodyId[s]}
             hung == HungUp(gone)
  <2>1. /\ Unregister(gone) /\ sockets' = [hung EXCEPT ![s] = "closed"]
        /\ UNCHANGED <<connectedBodyId, newest>>
    BY <1>11 DEF CloseEvent
  <2>2. TakenOut(PendingOf(gone)) /\ bodies' = BodiesWithout(gone)
    BY <1>0, <2>1, UnregisterTakesOut
  <2>3. /\ hung \in [Sockets -> {"open", "closing", "closed"}]
        /\ \A t \in Sockets : sockets[t] # "closed" => hung[t] # "closed"
    BY <1>0, HungUpType DEF HungUp
  <2> HIDE DEF hung
  <2>4. /\ sockets' \in [Sockets -> {"open", "closing", "closed"}]
        /\ \A t \in Sockets : sockets'[t] = hung[t] \/ sockets'[t] = "closed"
        /\ \A t \in Sockets \ {s} : sockets'[t] = hung[t]
    BY <2>1, <2>3
  <2>5. Removed(gone)
    BY <2>1, <2>2, <2>4 DEF Removed, hung
  <2>6. ASSUME NEW c \in OwnWaiting, calls[c].id \notin PendingOf(gone)
        PROVE  sockets'[calls[c].socket] # "closed"
    <3>1. calls[c].id \in CommandIds
      BY <1>0, <1>1, Absent DEF OwnWaiting, Waiting, TypeOK, Pending
    <3>2. connectedBodyId[calls[c].socket] \notin gone
      BY <1>0, <2>6, <3>1 DEF Agree, PendingOf
    <3>3. calls[c].socket # s
      BY <1>1, <3>2
    <3> QED BY <1>1, <2>3, <2>4, <3>3
  <2> HIDE DEF gone
  <2> QED BY <1>8, <2>2, <2>5, <2>6
<1>12. ASSUME NEW c \in Calls, NEW id \in CommandIds,
              NEW target \in Bodies \cup {NoBody}, Refuse(c, id, target)
       PROVE  Agree' /\ NoHangingCommand'
  <2>1. TakenOut(PendingOf(Evicted(target)))
    BY <1>0, <1>12, RefuseTakesOut
  <2> QED BY <1>8, <1>9, <1>12, <2>1 DEF Refuse
<1>13. ASSUME NEW c \in Calls, NEW id \in CommandIds,
              NEW target \in Bodies \cup {NoBody}, Send(c, id, target)
       PROVE  Agree' /\ NoHangingCommand'
  <2> DEFINE gone == Evicted(target)
  <2>1. /\ Agree'
        /\ calls'[c].socket \in Sockets
        /\ connectedBodyId[calls'[c].socket] \in Registered \ gone
        /\ sockets[calls'[c].socket] = "open"
        /\ \A d \in OwnWaiting' \ {c} : /\ d \in OwnWaiting /\ calls'[d] = calls[d]
                                     /\ calls[d].id \notin PendingOf(gone)
    BY <1>0, <1>13, SendAgree
  <2>2. /\ bodies' = BodiesWithout(gone) /\ sockets' = HungUp(gone)
        /\ UNCHANGED <<connectedBodyId, newest>>
    BY <1>13 DEF Send
  <2> HIDE DEF gone
  <2>3. /\ Removed(gone)
        /\ \A d \in OwnWaiting : sockets'[calls[d].socket] # "closed"
    BY <1>9, <2>2
  <2>4. \A d \in OwnWaiting' \ {c} :
          connectedBodyId[calls[d].socket] \in Registered'
    BY <1>0, <2>1, <2>3, OthersWait
  <2>5. connectedBodyId[calls'[c].socket] \in Registered'
    BY <2>1, <2>2 DEF Registered, BodiesWithout
  <2>6. sockets'[calls'[c].socket] # "closed"
    BY <2>1, <2>2 DEF HungUp
  <2>7. NoHangingCommand'
    BY <2>1, <2>2, <2>3, <2>4, <2>5, <2>6 DEF NoHangingCommand, OwnWaiting, Waiting, OwnId
  <2> QED BY <2>1, <2>7
<1>14. CASE UNCHANGED vars
  BY <1>3, <1>14 DEF vars, registry, network, Registered
<1>15. CASE Leaving
  BY <1>10, <1>11, <1>12, <1>13, <1>15 DEF Leaving
<1> QED BY <1>2, <1>4, <1>6, <1>7, <1>14, <1>15, NextKinds

-----------------------------------------------------------------------------
(***************************************************************************)
(* The theorems                                                            *)
(***************************************************************************)

\* The server starts with no body and no command.
LEMMA InitBInv == Init => BInv
<1> SUFFICES ASSUME Init PROVE BInv
  OBVIOUS
<1>1. (CHOOSE s \in Sockets : TRUE) \in Sockets
  BY BodiesAssumption
<1>2. TypeOK
  BY <1>1 DEF Init, TypeOK
<1>3. Waiting = {} /\ Registered = {}
  BY Absent DEF Init, Waiting, Registered
<1>4. Agree /\ NoHangingCommand /\ Connected
  BY <1>3 DEF OwnWaiting, Init, Agree, NoHangingCommand, Connected
<1>5. NewestConnectionServed
  BY <1>2, BodiesAssumption DEF Init, TypeOK, NewestConnectionServed
<1> QED BY <1>2, <1>4, <1>5 DEF BInv, ServedInv

\* The part about bodies.
LEMMA ServedInvHolds == Spec => []ServedInv
<1>1. Init => ServedInv
  BY InitBInv DEF BInv
<1>2. ServedInv /\ [Next]_vars => ServedInv'
  BY NextServed
<1> QED BY <1>1, <1>2, PTL DEF Spec

\* The whole invariant.
LEMMA BInvHolds == Spec => []BInv
<1>1. BInv /\ [Next]_vars => BInv'
  BY NextServed, NextAgree DEF BInv
<1> QED BY <1>1, InitBInv, PTL DEF Spec

\* The handlers of the sockets, the sweep, the callers and their timers keep
\* the types of the registry and of the connections.
THEOREM TypeCorrect == Spec => []TypeOK
BY ServedInvHolds, PTL DEF ServedInv

\* unregisterBody hangs up on the body's connection, so that a body whose
\* newest connection is open is registered with it, whatever closes and
\* evictions came before.
THEOREM NewestConnectionServedHolds == Spec => []NewestConnectionServed
BY ServedInvHolds, PTL DEF ServedInv

\* registerPendingCommand, resolvePendingCommand, failPendingCommandsForBody
\* and the timers keep the entry, the promise and the timeout of a call with an
\* id of its own together, whatever calls under shared ids do.
THEOREM WaitingIsFiledHolds == Spec => []WaitingIsFiled
<1>1. BInv => WaitingIsFiled
  <2> SUFFICES ASSUME BInv, NEW c \in OwnId
               PROVE  LET known == IF c \in Waiting THEN {calls[c].id} ELSE {} IN
                      Filed(c) = known /\ Armed(c) = known
    BY DEF WaitingIsFiled
  <2>1. Agree /\ (c \in Waiting => calls[c].id \in CommandIds)
    BY Absent DEF BInv, ServedInv, TypeOK, Waiting, Pending
  <2>2. /\ \A id \in Filed(c) : c \in Waiting /\ id = calls[c].id
        /\ \A id \in Armed(c) : c \in Waiting /\ id = calls[c].id
    BY <2>1 DEF Agree, Filed, Armed
  <2>3. ASSUME c \in Waiting
        PROVE  calls[c].id \in Filed(c) /\ calls[c].id \in Armed(c)
    <3>1. /\ pendingCommands[calls[c].id] # NoEntry
          /\ pendingCommands[calls[c].id].call = c
          /\ [call |-> c, id |-> calls[c].id] \in timers
      BY <2>1, <2>3 DEF Agree, OwnWaiting
    <3> DEFINE t == [call |-> c, id |-> calls[c].id]
    <3>2. t \in {u \in timers : u.call = c} /\ t.id = calls[c].id
      BY <3>1
    <3>3. calls[c].id \in Armed(c)
      BY <3>2 DEF Armed
    <3> QED BY <2>1, <2>3, <3>1, <3>3 DEF Filed
  <2> QED BY <2>2, <2>3
<1> QED BY <1>1, BInvHolds, PTL

\* failPendingCommandsForBody rejects all that waits on a connection whose
\* body goes, by a close, an eviction or a newer connection's close; calls under
\* shared ids do not get in the way of a call with an id of its own.
THEOREM NoHangingCommandHolds == Spec => []NoHangingCommand
BY BInvHolds, PTL DEF BInv

=============================================================================
