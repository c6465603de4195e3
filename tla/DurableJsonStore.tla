------------------------- MODULE DurableJsonStore -------------------------
(***************************************************************************)
(* DurableJsonStore.update (core/persistence/durableJsonStore.ts): read,   *)
(* change, write to a temporary file, rename.  Within a process the calls  *)
(* are synchronous; the system calls of several processes interleave, and  *)
(* a process may end between any two of them.  The store keeps nothing in  *)
(* memory from one call to the next.                                       *)
(*                                                                         *)
(* The document is the set of the updates applied to it; the default is    *)
(* the empty one.  The disk keeps what it was given (nothing is forced out *)
(* with fsync: the end of a process is modelled, a loss of power is not).  *)
(***************************************************************************)
EXTENDS Naturals

CONSTANTS Updates,       \* calls of update
          Processes,
          ProcessOf,     \* [Updates -> Processes]
          MaxRetries,    \* maxRetries of the constructor
          MaxFailures,   \* bound on system calls that fail
          Missing, Damaged \* contents of a file

ASSUME StoreAssumption ==
    /\ ProcessOf \in [Updates -> Processes]
    /\ MaxRetries \in Nat
    /\ MaxFailures \in Nat
    /\ Missing # Damaged
    /\ \A us \in SUBSET Updates : us \notin {Missing, Damaged}

VARIABLES target,        \* the file
          quarantined,   \* copies .corrupted.<time> were made
          temporary,     \* [Updates -> contents of the call's temporary file]
          pc,            \* where each call stands
          data,          \* what it is going to write
          attempt,       \* renames tried
          failures

files == <<target, quarantined, temporary>>
vars == <<files, pc, data, attempt, failures>>

Contents == SUBSET Updates
Over == {"new", "done", "failed", "ended"}

TypeOK ==
    /\ target \in {Missing, Damaged} \cup Contents
    /\ quarantined \in BOOLEAN
    /\ temporary \in [Updates -> {Missing, Damaged} \cup Contents]
    /\ pc \in [Updates -> Over \cup {"read", "initialise", "renameInitial",
                                     "write", "rename", "return"}]
    /\ data \in [Updates -> Contents]
    /\ attempt \in [Updates -> 0..MaxRetries]
    /\ failures \in 0..MaxFailures

Init == /\ target = Missing /\ quarantined = FALSE
        /\ temporary = [u \in Updates |-> Missing]
        /\ pc = [u \in Updates |-> "new"]
        /\ data = [u \in Updates |-> {}]
        /\ attempt = [u \in Updates |-> 0]
        /\ failures = 0

Move(u, from, to) == /\ pc[u] \in from
                     /\ pc' = [pc EXCEPT ![u] = to]

Fault == /\ failures < MaxFailures
         /\ failures' = failures + 1

Begin(u) ==
    /\ \A w \in Updates : ProcessOf[w] = ProcessOf[u] => pc[w] \in Over
    /\ Move(u, {"new"}, "read")
    /\ UNCHANGED <<files, data, attempt, failures>>

\* read: a missing file is written with the default first.
ReadMissing(u) ==
    /\ target = Missing
    /\ Move(u, {"read"}, "initialise")
    /\ data' = [data EXCEPT ![u] = {}]
    /\ UNCHANGED <<files, attempt, failures>>

ReadPresent(u) ==
    /\ target \notin {Missing, Damaged}
    /\ Move(u, {"read"}, "write")
    /\ data' = [data EXCEPT ![u] = target \cup {u}]
    /\ UNCHANGED <<files, attempt, failures>>

\* The file is there and cannot be read.
ReadFails(u) ==
    /\ target # Missing
    /\ Fault
    /\ Move(u, {"read"}, "failed")
    /\ UNCHANGED <<files, data, attempt>>

\* Faulty: a damaged file is taken for the default.
ReadDamagedAsDefault(u) ==
    /\ target = Damaged
    /\ Move(u, {"read"}, "write")
    /\ data' = [data EXCEPT ![u] = {u}]
    /\ quarantined' = TRUE
    /\ UNCHANGED <<target, temporary, attempt, failures>>

\* Malformed JSON, or not of the schema: a copy is kept, and the call throws.
ReadDamaged(u) ==
    /\ target = Damaged
    /\ Move(u, {"read"}, "failed")
    /\ quarantined' = TRUE
    /\ UNCHANGED <<target, temporary, data, attempt, failures>>

\* write: the temporary file has a name of its own.  It is opened ...
OpenTemporary(u) ==
    /\ pc[u] \in {"initialise", "write"}
    /\ temporary[u] = Missing
    /\ temporary' = [temporary EXCEPT ![u] = Damaged]
    /\ UNCHANGED <<target, quarantined, pc, data, attempt, failures>>

\* ... and filled,
FillTemporary(u) ==
    /\ temporary[u] = Damaged
    /\ \/ Move(u, {"initialise"}, "renameInitial")
       \/ Move(u, {"write"}, "rename")
    /\ temporary' = [temporary EXCEPT ![u] = data[u]]
    /\ attempt' = [attempt EXCEPT ![u] = 0]
    /\ UNCHANGED <<target, quarantined, data, failures>>

\* or that fails, and it is removed.
TemporaryFails(u) ==
    /\ Fault
    /\ Move(u, {"initialise", "write"}, "failed")
    /\ temporary' = [temporary EXCEPT ![u] = Missing]
    /\ UNCHANGED <<target, quarantined, data, attempt>>

\* The rename replaces the file; after the default, update goes on to change
\* what read returned.
RenameInitial(u) ==
    /\ Move(u, {"renameInitial"}, "write")
    /\ target' = temporary[u]
    /\ temporary' = [temporary EXCEPT ![u] = Missing]
    /\ data' = [data EXCEPT ![u] = {u}]
    /\ UNCHANGED <<quarantined, attempt, failures>>

Rename(u) ==
    /\ Move(u, {"rename"}, "return")
    /\ target' = temporary[u]
    /\ temporary' = [temporary EXCEPT ![u] = Missing]
    /\ UNCHANGED <<quarantined, data, attempt, failures>>

\* A rename that fails is tried again, maxRetries times; then the temporary
\* file is removed and the call throws.
RenameFails(u) ==
    /\ pc[u] \in {"renameInitial", "rename"}
    /\ Fault
    /\ IF attempt[u] < MaxRetries
       THEN /\ attempt' = [attempt EXCEPT ![u] = @ + 1]
            /\ UNCHANGED <<pc, temporary>>
       ELSE /\ pc' = [pc EXCEPT ![u] = "failed"]
            /\ temporary' = [temporary EXCEPT ![u] = Missing]
            /\ UNCHANGED attempt
    /\ UNCHANGED <<target, quarantined, data>>

Return(u) ==
    /\ Move(u, {"return"}, "done")
    /\ UNCHANGED <<files, data, attempt, failures>>

\* A process ends; the temporary file of its call stays.
Crash(p) ==
    /\ \E u \in Updates : ProcessOf[u] = p /\ pc[u] \notin Over
    /\ pc' = [u \in Updates |->
                IF ProcessOf[u] = p /\ pc[u] \notin Over THEN "ended" ELSE pc[u]]
    /\ UNCHANGED <<files, data, attempt, failures>>

\* The file is damaged from outside.
Damage ==
    /\ target # Missing
    /\ Fault
    /\ target' = Damaged
    /\ UNCHANGED <<quarantined, temporary, pc, data, attempt>>

Step(u) ==
    \/ Begin(u) \/ ReadMissing(u) \/ ReadPresent(u) \/ ReadFails(u)
    \/ ReadDamaged(u)
    \/ OpenTemporary(u) \/ FillTemporary(u) \/ TemporaryFails(u)
    \/ RenameInitial(u) \/ Rename(u) \/ RenameFails(u) \/ Return(u)

Next ==
    \/ \E u \in Updates : Step(u)
    \/ \E p \in Processes : Crash(p)
    \/ Damage

Spec == Init /\ [][Next]_vars

-----------------------------------------------------------------------------
(* Properties *)

StatusOf(u) ==
    CASE pc[u] = "read" -> "begun"
      [] pc[u] \in {"initialise", "renameInitial", "write", "rename"} -> "looked"
      [] pc[u] = "return" -> "applied"
      [] OTHER -> pc[u]

Document == INSTANCE AtomicDocument WITH
    document <- IF target = Missing THEN {} ELSE target,
    status <- [u \in Updates |-> StatusOf(u)],
    base <- [u \in Updates |-> data[u] \ {u}]

\* Crashes, full disks, locked files and other processes leave a document
\* that some update wrote as a whole, on top of a document it had read: zero
\* partial writes, and no silent reset of a damaged file (class comment).
ImplementsAtomicDocument == Document!Spec
=============================================================================
