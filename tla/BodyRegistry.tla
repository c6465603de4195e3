----------------------------- MODULE BodyRegistry -----------------------------
(***************************************************************************)
(* src/core/bodyProtocol/bodyRegistry.ts with the socket handlers of       *)
(* src/server.ts: peripheral bodies (a desktop, a phone) advertise         *)
(* themselves over a WebSocket, and callers send them commands and wait.   *)
(*                                                                         *)
(* Every handler runs to its end before the next one.  A heartbeat that    *)
(* does not come in time is the action HeartbeatLapses, and a due timer    *)
(* may fire at any moment: how long the periods are is left out.  The      *)
(* program asks for one capability at a time, so a body either offers it   *)
(* or not.  registry.stop has no caller in the program.                    *)
(*                                                                         *)
(* The clients (bodies/desktop) advertise one body on a connection and     *)
(* answer a command once or never; the server does not check either.       *)
(***************************************************************************)
EXTENDS FiniteSets

CONSTANTS
  Bodies, NoBody,
  Capable,             \* the bodies that offer the capability asked for
  Sockets,             \* WebSocket connections, each used once
  BodiesOf,            \* the bodies that may advertise on a connection
  Calls,               \* calls of executeBodyCommand
  CommandIds,
  IdsOf                \* the command ids that a call may come with

ASSUME BodiesAssumption ==
  /\ Capable \subseteq Bodies /\ NoBody \notin Bodies /\ Sockets # {}
  /\ BodiesOf \in [Sockets -> SUBSET Bodies]
  /\ IdsOf \in [Calls -> SUBSET CommandIds]

VARIABLES
  bodies,            \* the record of each registered body
  pendingCommands,   \* the entry of each command id that waits
  timers,            \* the armed timeouts
  calls,             \* the promise of each call
  sockets,           \* the server's view of each connection
  connectedBodyId,   \* per connection: what it advertised
  inbox,             \* per connection: commands sent and not answered
  newest             \* history: the last connection each body advertised on

registry == <<bodies, pendingCommands, timers, calls>>
network  == <<sockets, connectedBodyId, inbox, newest>>
vars     == <<registry, network>>

NoRecord == [expired |-> FALSE]

BodyRecord == [connection : Sockets, expired : BOOLEAN]

NoEntry == [bodyId |-> NoBody]

\* A command that was sent, for a call and under an id.
Command == [call : Calls, id : CommandIds]

Entry == [bodyId : Bodies, call : Calls]

\* A call that has not been made: it has no id and no connection.
Idle == [pc |-> "idle"]

\* A call whose promise waits, with the connection its command went over.
Pending == [pc : {"waiting"}, id : CommandIds, socket : Sockets]

\* The promise is resolved or rejected; with what is left out.
Settled == [pc |-> "settled"]

Init ==
  /\ bodies = [b \in Bodies |-> NoRecord]
  /\ pendingCommands = [id \in CommandIds |-> NoEntry]
  /\ timers = {}
  /\ calls = [c \in Calls |-> Idle]
  /\ sockets = [s \in Sockets |-> "open"]
  /\ connectedBodyId = [s \in Sockets |-> NoBody]
  /\ inbox = [s \in Sockets |-> {}]
  /\ newest = [b \in Bodies |-> CHOOSE s \in Sockets : TRUE]

Registered == {b \in Bodies : bodies[b] # NoRecord}

Stale == {b \in Registered : bodies[b].expired}

Waiting == {c \in Calls : calls[c].pc = "waiting"}

-----------------------------------------------------------------------------
(***************************************************************************)
(* unregisterBody of every body of a set                                   *)
(***************************************************************************)

\* failPendingCommandsForBody: the ids whose entries it takes out.
PendingOf(gone) ==
  {id \in CommandIds : pendingCommands[id] # NoEntry
                       /\ pendingCommands[id].bodyId \in gone}

FailedCalls(gone) == {pendingCommands[id].call : id \in PendingOf(gone)}

EntriesWithout(gone) ==
  [id \in CommandIds |->
     IF id \in PendingOf(gone) THEN NoEntry ELSE pendingCommands[id]]

\* The promises of these calls are settled.
Settle(cs) ==
  [c \in Calls |-> IF c \in cs THEN Settled ELSE calls[c]]

BodiesWithout(gone) ==
  [b \in Bodies |-> IF b \in gone THEN NoRecord ELSE bodies[b]]

\* Faulty: the connection is left open.
HungUpNothing(gone) == sockets

\* connection.close: the close event comes later.
HungUp(gone) ==
  [s \in Sockets |->
     IF sockets[s] = "open" /\ \E b \in gone \cap Registered :
                                 bodies[b].connection = s
     THEN "closing" ELSE sockets[s]]

\* Faulty: the timers of rejected commands stay armed.
TimersKept(gone) == timers

TimersWithout(gone) == {t \in timers : t.call \notin FailedCalls(gone)}

Unregister(gone) ==
  /\ bodies' = BodiesWithout(gone)
  /\ pendingCommands' = EntriesWithout(gone)
  /\ calls' = Settle(FailedCalls(gone))
  /\ timers' = TimersWithout(gone)

-----------------------------------------------------------------------------
(***************************************************************************)
(* Messages and events of a connection                                     *)
(***************************************************************************)

\* 'body.advertise': the record is replaced; entries that wait on an earlier
\* connection of the body stay.
Advertise(s, b) ==
  /\ sockets[s] # "closed"
  /\ b \in BodiesOf[s] /\ connectedBodyId[s] \in {NoBody, b}
  /\ connectedBodyId' = [connectedBodyId EXCEPT ![s] = b]
  /\ bodies' = [bodies EXCEPT ![b] = [connection |-> s, expired |-> FALSE]]
  /\ newest' = [newest EXCEPT ![b] = s]
  /\ UNCHANGED <<pendingCommands, timers, calls, sockets, inbox>>

\* 'body.heartbeat', from whichever connection it comes.
Heartbeat(b) ==
  /\ b \in Stale
  /\ \E s \in Sockets : sockets[s] # "closed" /\ connectedBodyId[s] = b
  /\ bodies' = [bodies EXCEPT ![b].expired = FALSE]
  /\ UNCHANGED <<pendingCommands, timers, calls, network>>

\* heartbeatTimeoutMs passes without a heartbeat.
HeartbeatLapses(b) ==
  /\ b \in Registered \ Stale
  /\ bodies' = [bodies EXCEPT ![b].expired = TRUE]
  /\ UNCHANGED <<pendingCommands, timers, calls, network>>

\* resolvePendingCommand: settles whichever call the entry belongs to.
Resolve(id) ==
  IF pendingCommands[id] = NoEntry
  THEN UNCHANGED <<pendingCommands, calls>>
  ELSE /\ pendingCommands' = [pendingCommands EXCEPT ![id] = NoEntry]
       /\ calls' = Settle({pendingCommands[id].call})

\* resolvePendingCommand clears the timer of the entry; `fired' has run.
TimersAfter(id, fired) ==
  {t \in timers \ fired : pendingCommands[id] # NoEntry =>
                             t.call # pendingCommands[id].call}

\* 'body.command_result': the body did what the command says and answers.
CommandResult(s) ==
  /\ sockets[s] # "closed"
  /\ \E command \in inbox[s] :
       /\ inbox' = [inbox EXCEPT ![s] = @ \ {command}]
       /\ Resolve(command.id)
       /\ timers' = TimersAfter(command.id, {})
  /\ UNCHANGED <<bodies, sockets, connectedBodyId, newest>>

\* The peer closes the connection, or it breaks.
PeerCloses(s) ==
  /\ sockets[s] = "open"
  /\ sockets' = [sockets EXCEPT ![s] = "closing"]
  /\ UNCHANGED <<registry, connectedBodyId, inbox, newest>>

\* ws.on('close'): unregisters the body that the connection advertised, also
\* when the body has a newer connection, which is then closed.  What was not
\* answered on the connection never will be.
CloseEvent(s) ==
  LET gone == Registered \cap {connectedBodyId[s]} IN
  /\ sockets[s] = "closing"
  /\ Unregister(gone)
  /\ sockets' = [HungUp(gone) EXCEPT ![s] = "closed"]
  /\ inbox' = [inbox EXCEPT ![s] = {}]
  /\ UNCHANGED <<connectedBodyId, newest>>

-----------------------------------------------------------------------------
(***************************************************************************)
(* The sweep, the callers and their timers                                 *)
(***************************************************************************)

\* The interval timer; getBody, findBodiesWithCapability and
\* getAllActiveBodies do the same on their way.
Sweep ==
  /\ Stale # {}
  /\ Unregister(Stale)
  /\ sockets' = HungUp(Stale)
  /\ UNCHANGED <<connectedBodyId, inbox, newest>>

\* executeBodyCommand evicts what it finds stale, unless the target is fresh.
Evicted(target) == IF target \in Registered \ Stale THEN {} ELSE Stale

\* The bodies the command may go to: the target, or else any capable one.
Candidates(target) ==
  IF target \in Registered \ Stale THEN {target}
  ELSE Capable \cap (Registered \ Stale)

\* Faulty: the entry is filed under the body that the caller named.
FiledUnderTarget(s, target) ==
  IF target # NoBody THEN target ELSE connectedBodyId[s]

\* registerPendingCommand files the entry under the body of the connection.
FiledUnder(s, target) == connectedBodyId[s]

\* No body is found, or sendCommand meets a socket that is not open: it files
\* an entry and resolves it at once.
Refuse(c, id, target) ==
  LET gone == Evicted(target) IN
  /\ calls[c] = Idle /\ id \in IdsOf[c]
  /\ bodies' = BodiesWithout(gone)
  /\ sockets' = HungUp(gone)
  /\ timers' = TimersWithout(gone)
  /\ calls' = [Settle(FailedCalls(gone)) EXCEPT ![c] = Settled]
  /\ \/ Candidates(target) = {} /\ pendingCommands' = EntriesWithout(gone)
     \/ /\ \E b \in Candidates(target) : sockets[bodies[b].connection] # "open"
        /\ pendingCommands' = [EntriesWithout(gone) EXCEPT ![id] = NoEntry]
  /\ UNCHANGED <<connectedBodyId, inbox, newest>>

\* The command is sent and the call waits.  An entry under the same id is
\* replaced, and its call keeps waiting.
Send(c, id, target) ==
  LET gone == Evicted(target) IN
  /\ calls[c] = Idle /\ id \in IdsOf[c]
  /\ \E b \in Candidates(target) :
       LET s == bodies[b].connection IN
       /\ sockets[s] = "open"
       /\ pendingCommands' = [EntriesWithout(gone) EXCEPT
            ![id] = [bodyId |-> FiledUnder(s, target), call |-> c]]
       /\ calls' = [Settle(FailedCalls(gone)) EXCEPT
            ![c] = [pc |-> "waiting", id |-> id, socket |-> s]]
       /\ inbox' = [inbox EXCEPT ![s] = @ \cup {[call |-> c, id |-> id]}]
  /\ bodies' = BodiesWithout(gone)
  /\ sockets' = HungUp(gone)
  /\ timers' = TimersWithout(gone) \cup {[call |-> c, id |-> id]}
  /\ UNCHANGED <<connectedBodyId, newest>>

\* Faulty: the timer removes the entry and settles nothing.
TimeoutForgets(id) ==
  /\ pendingCommands' = [pendingCommands EXCEPT ![id] = NoEntry]
  /\ UNCHANGED calls

Timeout(id) == Resolve(id)

\* The timer of a call fires: COMMAND_TIMEOUT, for the entry under its id.
TimerFires(c) ==
  \E t \in timers :
    /\ t.call = c
    /\ Timeout(t.id)
    /\ timers' = TimersAfter(t.id, {t})
    /\ UNCHANGED <<bodies, network>>

\* abortCommand, when the voice pipeline gives up.
AbortCommand(c) ==
  /\ c \in Waiting
  /\ Resolve(calls[c].id)
  /\ timers' = TimersAfter(calls[c].id, {})
  /\ UNCHANGED <<bodies, network>>

Next ==
  \/ \E b \in Bodies :
       \/ \E s \in Sockets : Advertise(s, b)
       \/ Heartbeat(b)
       \/ HeartbeatLapses(b)
  \/ \E s \in Sockets :
       \/ CommandResult(s)
       \/ PeerCloses(s)
       \/ CloseEvent(s)
  \/ Sweep
  \/ \E c \in Calls :
       \/ \E id \in CommandIds, target \in Bodies \cup {NoBody} :
            \/ Refuse(c, id, target)
            \/ Send(c, id, target)
       \/ TimerFires(c)
       \/ AbortCommand(c)

\* The event loop runs a timer that is due and delivers a close event.
Fairness ==
  /\ \A c \in Calls : WF_vars(TimerFires(c))
  /\ \A s \in Sockets : WF_vars(CloseEvent(s))

Spec == Init /\ [][Next]_vars

FairSpec == Spec /\ Fairness

-----------------------------------------------------------------------------
(***************************************************************************)
(* Properties                                                              *)
(***************************************************************************)

\* The type invariant of the registry and of the server's connections.
TypeOK ==
  /\ bodies \in [Bodies -> BodyRecord \cup {NoRecord}]
  /\ pendingCommands \in [CommandIds -> Entry \cup {NoEntry}]
  /\ timers \subseteq Command
  /\ calls \in [Calls -> Pending \cup {Idle, Settled}]
  /\ sockets \in [Sockets -> {"open", "closing", "closed"}]
  /\ connectedBodyId \in [Sockets -> Bodies \cup {NoBody}]
  /\ inbox \in [Sockets -> SUBSET Command]
  /\ newest \in [Bodies -> Sockets]

\* The calls whose command id no other call may come with.  The callers inside
\* the program draw it at random; a request to /api/body/command may bring any,
\* and of two calls under one id the registry forgets the first: its promise
\* stays open for good.
OwnId == {c \in Calls : \A d \in Calls \ {c} : IdsOf[c] \cap IdsOf[d] = {}}

\* The ids under which a call has an entry, and those for which it has a timer.
Filed(c) == {id \in CommandIds : /\ pendingCommands[id] # NoEntry
                                 /\ pendingCommands[id].call = c}

Armed(c) == {t.id : t \in {u \in timers : u.call = c}}

\* The three places that know of a command agree: the promise of a call with an
\* id of its own waits exactly as long as its entry is filed and its timer
\* armed, whatever calls under shared ids do to each other's: no settled
\* command leaves a timer behind, and none waits without one.
WaitingIsFiled ==
  \A c \in OwnId :
    LET known == IF c \in Waiting THEN {calls[c].id} ELSE {} IN
    Filed(c) = known /\ Armed(c) = known

\* failPendingCommandsForBody: "reject all pending commands" whatever ends the
\* connection; no caller with an id of its own waits for the answer of a
\* connection that is closed, or of a body that is no longer registered, with
\* reconnects and evictions in any order and shared ids beside it.
NoHangingCommand ==
  \A c \in Waiting \cap OwnId :
    LET s == calls[c].socket IN
    /\ sockets[s] # "closed"
    /\ connectedBodyId[s] \in Registered

\* An evicted body is told: as long as the newest connection of a body is
\* open, the registry sends the body's commands over it; a body is never left
\* connected and unknown.
NewestConnectionServed ==
  \A b \in Bodies :
    LET s == newest[b] IN
    (connectedBodyId[s] = b /\ sockets[s] = "open") =>
      b \in Registered /\ bodies[b].connection = s

\* "The system never hangs": every command that is sent under an id of its own
\* is settled, by an answer, its timer, an abort or the end of the connection.
EveryCallSettles == \A c \in OwnId : c \in Waiting ~> c \notin Waiting
=============================================================================
