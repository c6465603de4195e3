-------------------------- MODULE IdempotencyStore --------------------------
(***************************************************************************)
(* src/core/idempotencyStore.ts: the results of earlier executions, kept   *)
(* under the caller's idempotency key in the file of the caller's          *)
(* partition.  ToolRegistry.executeTool calls check before an execution    *)
(* and record after it.  reserve and purgeExpired have no caller in the    *)
(* program and are not modelled: an entry here is always COMPLETED.        *)
(*                                                                         *)
(* An entry keeps the time it has left, expiresAt - Date.now(), from       *)
(* EntryTTL down to 0; Gone stands for every negative value.               *)
(***************************************************************************)
EXTENDS Integers

CONSTANTS
  Tenants,     \* partition keys of users
  Keys,        \* idempotency keys
  Arguments,   \* the arguments of a tool call: what payloadHash tells apart
  NoArguments, \* a call that gives none: no hash, and no comparison
  Results,     \* what an execution can return
  EntryTTL     \* defaultTtlMs, in ticks

VARIABLE entries   \* durable: the entry of each tenant and key

Gone == -1

Left == Gone..EntryTTL

NoEntry == [arguments |-> "none"]

\* payloadHash is empty for NoArguments.
Entry ==
  [arguments : Arguments \cup {NoArguments}, result : Results, left : Left]

ExpiredEntry(e) == e.left = Gone

\* The entry that check finds still in time: it compares now > expiresAt.
Current(t, k) == entries[t][k] # NoEntry /\ ~ ExpiredEntry(entries[t][k])

\* Faulty: the arguments are not compared.
DuplicateOfAnyArguments(t, k, args) == Current(t, k)

\* The hashes are compared where the call and the entry both have one.
SamePayload(e, args) ==
  args = NoArguments \/ e.arguments \in {NoArguments, args}

\* check's answers: a key reused with other arguments, and a duplicate.
Conflicts(t, k, args) == Current(t, k) /\ ~ SamePayload(entries[t][k], args)

Duplicate(t, k, args) == Current(t, k) /\ SamePayload(entries[t][k], args)

\* The entries after check: an entry past its time is deleted.
Checked(t, k) ==
  IF Current(t, k) THEN entries ELSE [entries EXCEPT ![t][k] = NoEntry]

\* record: an entry that is there, in time or not, keeps its expiry, and its
\* hash when the new result is of a call without arguments.
Recorded(t, k, args, result) ==
  [entries EXCEPT ![t][k] =
     [arguments |-> IF args = NoArguments /\ @ # NoEntry THEN @.arguments ELSE args,
      result |-> result,
      left |-> IF @ = NoEntry THEN EntryTTL ELSE @.left]]

\* A tick of the clock.
AgedEntries ==
  [t \in Tenants |-> [k \in Keys |->
     IF Current(t, k) THEN [entries[t][k] EXCEPT !.left = @ - 1]
                      ELSE entries[t][k]]]

Init == entries = [t \in Tenants |-> [k \in Keys |-> NoEntry]]

TypeOK == entries \in [Tenants -> [Keys -> Entry \cup {NoEntry}]]
=============================================================================
