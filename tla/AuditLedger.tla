----------------------------- MODULE AuditLedger -----------------------------
(***************************************************************************)
(* src/core/auditLedger.ts: the hash-chained audit trail, held in memory   *)
(* and appended line by line to a file that is renamed away when it is     *)
(* full.  The ledger of the program is one object in one process.          *)
(*                                                                         *)
(* The signature of an event is named by the event, and so a line is an    *)
(* event with the signature it follows; the file's size is its number of   *)
(* lines.  A write that the disk refuses leaves nothing, or the beginning  *)
(* of a line without its newline (a disk that fills up): the next line     *)
(* then goes on the same physical line.  MaxFailures bounds the refusals.  *)
(***************************************************************************)
EXTENDS Integers, Sequences, SequencesExt

CONSTANTS
  Events,          \* the events that may be recorded, each once
  Genesis,         \* the hash before the first event
  Garbage,         \* what a physical line holds that does not parse
  RotateAt,        \* maxFileSizeBytes, in lines
  MaxFailures

ASSUME LedgerAssumption ==
  /\ Genesis \notin Events /\ Garbage \notin Events \cup {Genesis}
  /\ RotateAt \in Nat \ {0} /\ MaxFailures \in Nat

VARIABLES
  auditLog, lastHash, hasCorruption,   \* in memory
  file,          \* on disk: the lines of the current file
  unfinished,    \* on disk: the last line of the file has no newline
  archive,       \* on disk: the lines of the files renamed away
  acknowledged,  \* history: the events whose record() returned
  failures       \* history: refused writes and renames

disk   == <<file, unfinished, archive>>
memory == <<auditLog, lastHash, hasCorruption>>
vars   == <<memory, disk, acknowledged, failures>>

Line == [event : Events, previousHash : Events \cup {Genesis}]

GarbageLine == [event |-> Garbage, previousHash |-> Garbage]

Init ==
  /\ auditLog = <<>> /\ lastHash = Genesis /\ hasCorruption = FALSE
  /\ file = <<>> /\ unfinished = FALSE /\ archive = <<>>
  /\ acknowledged = {} /\ failures = 0

-----------------------------------------------------------------------------
\* The hash after the first n lines of a chain.
HashAfter(lines, n) == IF n = 0 THEN Genesis ELSE lines[n].event

\* The lines of which each follows the one before it, from the first on.
ChainLength(lines) ==
  CHOOSE n \in 0..Len(lines) :
    /\ \A i \in 1..n : lines[i].previousHash = HashAfter(lines, i - 1)
    /\ n < Len(lines) => lines[n + 1].previousHash # HashAfter(lines, n)

\* verifyChainIntegrity
VerifyChainIntegrity == ChainLength(auditLog) = Len(auditLog)

Fails == failures < MaxFailures /\ failures' = failures + 1

\* rotateFileIfNeeded renames a full file; a failing rename is ignored.
Rotated(full) == IF full THEN <<>> ELSE file

\* Faulty: every full file is renamed to the same name.
ArchivedOverOlder(renamed) == IF renamed THEN file ELSE archive

\* The new name holds the time, so it is a name of its own.
Archived(renamed) == IF renamed THEN archive \o file ELSE archive

\* What appendFileSync leaves in the file whose lines are `lines'; a line
\* that is still open takes in the new one.
Written(lines, open, line) ==
  IF open THEN lines ELSE Append(lines, line)

\* record() of an event: rotate, chain and keep the event in memory, append
\* it.  An event that cannot be appended stays in memory and in lastHash, and
\* record() throws.
Record(e) ==
  LET line == [event |-> e, previousHash |-> lastHash] IN
  /\ \A i \in 1..Len(auditLog) : auditLog[i].event # e
  /\ e \notin acknowledged
  /\ auditLog' = Append(auditLog, line)
  /\ lastHash' = e
  /\ \E renamed \in BOOLEAN :
       LET lines == Rotated(renamed)
           open  == unfinished /\ ~renamed
       IN
       /\ renamed => Len(file) >= RotateAt
       /\ archive' = Archived(renamed)
       /\ \/ /\ file' = Written(lines, open, line)
             /\ unfinished' = FALSE
             /\ acknowledged' = acknowledged \cup {e}
             /\ IF Len(file) >= RotateAt /\ ~renamed
                THEN Fails ELSE UNCHANGED failures
          \/ /\ renamed <=> Len(file) >= RotateAt
             /\ Fails
             /\ UNCHANGED acknowledged
             /\ \/ file' = lines /\ unfinished' = open
                \/ /\ file' = Written(lines, open, GarbageLine)
                   /\ unfinished' = TRUE
  /\ UNCHANGED hasCorruption

\* Faulty: the hash of the last line read is not taken over.
LoadedHashForgotten(n) == Genesis

\* The lastHash after a load that read n good lines: an unreadable line ends
\* the load by an exception, before lastHash is set.
LoadedHash(n) ==
  IF n < Len(file) /\ file[n + 1] = GarbageLine THEN Genesis
  ELSE HashAfter(file, n)

\* Faulty: a break in the chain only stops the load.
LoadFlagsNothing(n) == FALSE

LoadFlags(n) == n < Len(file)

\* The constructor of a new process, after the old one ended or died: loads
\* and verifies the current file, and rotates it unless the load threw.
Restart ==
  LET n == ChainLength(file)
      threw == n < Len(file) /\ file[n + 1] = GarbageLine
  IN
  /\ auditLog' = SubSeq(file, 1, n)
  /\ lastHash' = LoadedHash(n)
  /\ hasCorruption' = LoadFlags(n)
  /\ \E renamed \in BOOLEAN :
       /\ renamed => ~threw /\ Len(file) >= RotateAt
       /\ file' = Rotated(renamed)
       /\ unfinished' = (unfinished /\ ~renamed)
       /\ archive' = Archived(renamed)
       /\ IF Len(file) >= RotateAt /\ ~threw /\ ~renamed
          THEN Fails ELSE UNCHANGED failures
  /\ UNCHANGED acknowledged

Next == (\E e \in Events : Record(e)) \/ Restart

Spec == Init /\ [][Next]_vars

-----------------------------------------------------------------------------
(***************************************************************************)
(* Properties                                                              *)
(***************************************************************************)

\* The type invariant of the ledger in memory and on disk.
TypeOK ==
  /\ auditLog \in Seq(Line)
  /\ lastHash \in Events \cup {Genesis}
  /\ hasCorruption \in BOOLEAN
  /\ file \in Seq(Line \cup {GarbageLine})
  /\ archive \in Seq(Line \cup {GarbageLine})
  /\ unfinished \in BOOLEAN
  /\ acknowledged \subseteq Events
  /\ failures \in 0..MaxFailures

\* The events that a reader of the files finds, in their order.
ReadableEvents(lines) ==
  LET upTo[n \in 0..Len(lines)] ==
        IF n = 0 THEN <<>>
        ELSE IF lines[n] = GarbageLine THEN upTo[n - 1]
        ELSE Append(upTo[n - 1], lines[n].event)
  IN  upTo[Len(lines)]

Trail == ReadableEvents(archive \o file)

\* "Fails closed if disk persistence fails": of the events whose record()
\* returned, a failed write makes one at most unreadable (the one that went on
\* the line that it left open), and rotations and restarts none.
AcknowledgedIsDurable ==
  Cardinality(acknowledged \ ToSet(Trail)) <= failures

\* Unless the ledger reported corruption when it was opened, the trail in
\* memory verifies: a restart continues the chain where the file ends.
MemoryVerifies == hasCorruption \/ VerifyChainIntegrity

\* A ledger that reports no corruption answers queries from a trail in memory
\* that holds every line of the current file: no load goes over a gap that a
\* failed write left in the chain.
MemoryKnowsFile == 
  ~hasCorruption => ToSet(file) \subseteq ToSet(auditLog) \cup {GarbageLine}

\* verifyChainIntegrity's comment and the restore runbook: an audit trail that
\* nobody modified, deleted from or reordered, and no write of which failed,
\* is found intact.
NoFalseAlarm == failures = 0 => ~hasCorruption

\* AuditLedger implements AppendOnlyLog: recording, rotating, failing and
\* restarting only ever add one new event to the end of what is on disk.
LogOnDisk == INSTANCE AppendOnlyLog WITH trail <- Trail

ImplementsAppendOnlyLog == LogOnDisk!Spec
=============================================================================
