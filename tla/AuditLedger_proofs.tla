-------------------------- MODULE AuditLedger_proofs --------------------------
(***************************************************************************)
(* Proofs about AuditLedger, for any events, any size at which the file is *)
(* renamed, and any number of refused writes and restarts.                 *)
(***************************************************************************)
EXTENDS AuditLedger, FiniteSetTheorems, TLAPS

-----------------------------------------------------------------------------
(***************************************************************************)
(* Chains of lines                                                         *)
(***************************************************************************)

DiskLine == Line \cup {GarbageLine}

\* The first n lines follow each other, and the next one does not.
IsChain(lines, n) ==
  /\ n \in 0..Len(lines)
  /\ \A i \in 1..n : lines[i].previousHash = HashAfter(lines, i - 1)
  /\ n < Len(lines) => lines[n + 1].previousHash # HashAfter(lines, n)

\* What ChainLength chooses is there, and garbage is no part of it.
HasChain(lines) ==
  \E n \in 0..Len(lines) : IsChain(lines, n) /\ \A i \in 1..n : lines[i] \in Line

-----------------------------------------------------------------------------
(***************************************************************************)
(* The invariant                                                           *)
(***************************************************************************)

\* The trail in memory is one chain, and the next event follows its last.
MemoryIsChain ==
  ~hasCorruption =>
    /\ IsChain(auditLog, Len(auditLog))
    /\ lastHash = HashAfter(auditLog, Len(auditLog))

\* The lines on disk, in the order in which they were written.
Disk == archive \o file

\* The recursive function of ReadableEvents.
IsUpTo(f, lines) ==
  f = [n \in 0..Len(lines) |->
         IF n = 0 THEN <<>>
         ELSE IF lines[n] = GarbageLine THEN f[n - 1]
         ELSE Append(f[n - 1], lines[n].event)]

\* It is there, and there is one.
HasUpTo(lines) == \E f : IsUpTo(f, lines) /\ \A g : IsUpTo(g, lines) => g = f

EventsIn(lines) == {lines[i].event : i \in {j \in DOMAIN lines : lines[j] # GarbageLine}}

TrailIsReadable ==
  /\ HasUpTo(Disk)
  /\ Trail \in Seq(Events)
  /\ ToSet(Trail) = EventsIn(Disk)

Lost == acknowledged \ EventsIn(Disk)

\* An open line is a failure that has not cost an event yet.
LostIsPaid ==
  /\ IsFiniteSet(Lost)
  /\ Cardinality(Lost) + (IF unfinished THEN 1 ELSE 0) <= failures

IInv ==
  /\ TypeOK
  /\ HasChain(file)
  /\ MemoryIsChain
  /\ MemoryKnowsFile
  /\ TrailIsReadable
  /\ ToSet(Trail) \subseteq acknowledged
  /\ LostIsPaid

-----------------------------------------------------------------------------
(***************************************************************************)
(* Lemmas about chains                                                     *)
(***************************************************************************)

\* A line cut short cannot be taken for an event's line.
LEMMA GarbageIsNoLine == GarbageLine \notin Line
BY LedgerAssumption DEF GarbageLine, Line

\* The length that the loader finds is the one the invariant carries: there is
\* only one.
LEMMA ChainLengthIs ==
  ASSUME NEW lines \in Seq(DiskLine), NEW n, IsChain(lines, n)
  PROVE  ChainLength(lines) = n
<1>1. n \in 0..Len(lines) /\ Len(lines) \in Nat
  BY DEF IsChain
<1> DEFINE m == ChainLength(lines)
<1>2. IsChain(lines, m)
  BY <1>1 DEF ChainLength, IsChain
<1> HIDE DEF m
<1>3. m \in 0..Len(lines)
  BY <1>2 DEF IsChain
<1>4. ASSUME NEW a \in 0..Len(lines), NEW b \in 0..Len(lines), a < b,
             IsChain(lines, a), IsChain(lines, b)
      PROVE  FALSE
  <2>1. a < Len(lines) /\ a + 1 \in 1..b /\ (a + 1) - 1 = a
    BY <1>1, <1>4
  <2>2. lines[a + 1].previousHash # HashAfter(lines, a)
    BY <1>4, <2>1 DEF IsChain
  <2>3. lines[a + 1].previousHash = HashAfter(lines, (a + 1) - 1)
    BY <1>4, <2>1 DEF IsChain
  <2> QED
    BY <2>1, <2>2, <2>3
<1>5. ~(m < n) /\ ~(n < m)
  BY <1>1, <1>2, <1>3, <1>4
<1>6. m = n
  BY <1>1, <1>3, <1>5
<1> QED
  BY <1>6 DEF m

\* The facts about sequences that the lemmas below use.
LEMMA Appended ==
  ASSUME NEW S, NEW s \in Seq(S), NEW x \in S
  PROVE  /\ Append(s, x) \in Seq(S)
         /\ Len(s) \in Nat /\ Len(Append(s, x)) = Len(s) + 1
         /\ DOMAIN s = 1..Len(s)
         /\ DOMAIN Append(s, x) = 1..(Len(s) + 1)
         /\ \A i \in 1..Len(s) : Append(s, x)[i] = s[i]
         /\ Append(s, x)[Len(s) + 1] = x
OBVIOUS

\* A line that follows a whole chain continues it; behind a break, or after a
\* line that does not follow, nothing changes.
LEMMA ChainOfAppended ==
  ASSUME NEW lines \in Seq(DiskLine), NEW line \in DiskLine, NEW n, IsChain(lines, n)
  PROVE  /\ n = Len(lines) /\ line.previousHash = HashAfter(lines, n) =>
              IsChain(Append(lines, line), n + 1)
         /\ ~(n = Len(lines) /\ line.previousHash = HashAfter(lines, n)) =>
              IsChain(Append(lines, line), n)
<1> DEFINE more == Append(lines, line)
<1>1. /\ Len(lines) \in Nat /\ Len(more) = Len(lines) + 1
      /\ \A i \in 1..Len(lines) : more[i] = lines[i]
      /\ more[Len(lines) + 1] = line
  BY Appended
<1> HIDE DEF more
<1>2. n \in 0..Len(lines)
  BY DEF IsChain
<1>3. \A i \in 0..Len(lines) : HashAfter(more, i) = HashAfter(lines, i)
  BY <1>1 DEF HashAfter
<1>4. \A i \in 1..n : more[i].previousHash = HashAfter(more, i - 1)
  <2> TAKE i \in 1..n
  <2>1. i \in 1..Len(lines) /\ i - 1 \in 0..Len(lines)
    BY <1>1, <1>2
  <2>2. lines[i].previousHash = HashAfter(lines, i - 1)
    BY DEF IsChain
  <2> QED
    BY <1>1, <1>3, <2>1, <2>2
<1>5. ASSUME n = Len(lines), line.previousHash = HashAfter(lines, n)
      PROVE  IsChain(more, n + 1)
  <2>1. n + 1 \in 0..Len(more) /\ ~(n + 1 < Len(more)) /\ n \in 0..Len(lines)
    BY <1>1, <1>2, <1>5
  <2>2. \A i \in 1..(n + 1) : more[i].previousHash = HashAfter(more, i - 1)
    <3> TAKE i \in 1..(n + 1)
    <3>1. CASE i \in 1..n
      BY <1>4, <3>1
    <3>2. CASE i = n + 1
      <4>1. i - 1 = n
        BY <1>2, <3>2
      <4> QED
        BY <1>1, <1>3, <1>5, <2>1, <3>2, <4>1
    <3> QED
      BY <1>2, <3>1, <3>2
  <2> QED
    BY <2>1, <2>2 DEF IsChain
<1>6. ASSUME ~(n = Len(lines) /\ line.previousHash = HashAfter(lines, n))
      PROVE  IsChain(more, n)
  <2>1. n \in 0..Len(more)
    BY <1>1, <1>2
  <2>2. more[n + 1].previousHash # HashAfter(more, n)
    <3>1. CASE n = Len(lines)
      BY <1>1, <1>2, <1>3, <1>6, <3>1
    <3>2. CASE n # Len(lines)
      <4>1. n < Len(lines) /\ n + 1 \in 1..Len(lines)
        BY <1>1, <1>2, <3>2
      <4>2. lines[n + 1].previousHash # HashAfter(lines, n)
        BY <4>1 DEF IsChain
      <4> QED
        BY <1>1, <1>2, <1>3, <4>1, <4>2
    <3> QED
      BY <3>1, <3>2
  <2> QED
    BY <1>4, <2>1, <2>2 DEF IsChain
<1> QED
  BY <1>5, <1>6 DEF more

\* Whatever is appended, the file still has a longest chain at its start.
LEMMA HasChainAppended ==
  ASSUME NEW lines \in Seq(DiskLine), NEW line \in DiskLine, HasChain(lines)
  PROVE  HasChain(Append(lines, line))
<1> DEFINE more == Append(lines, line)
<1>1. PICK n \in 0..Len(lines) : IsChain(lines, n) /\ \A i \in 1..n : lines[i] \in Line
  BY DEF HasChain
<1>2. /\ Len(lines) \in Nat /\ Len(more) = Len(lines) + 1
      /\ \A i \in 1..Len(lines) : more[i] = lines[i]
      /\ more[Len(lines) + 1] = line
  BY Appended
<1>3. \A i \in 1..n : more[i] \in Line
  BY <1>1, <1>2
<1>4. CASE n = Len(lines) /\ line.previousHash = HashAfter(lines, n)
  <2>1. IsChain(more, n + 1)
    BY <1>1, <1>4, ChainOfAppended
  <2>2. HashAfter(lines, n) \in Events \cup {Genesis}
    BY <1>1 DEF HashAfter, Line
  <2>3. line \in Line
    BY <1>4, <2>2, LedgerAssumption DEF DiskLine, GarbageLine
  <2> HIDE DEF more
  <2>4. n + 1 \in 0..Len(more) /\ \A i \in 1..(n + 1) : more[i] \in Line
    <3>1. \A i \in 1..(n + 1) : i \in 1..n \/ i = n + 1
      OBVIOUS
    <3> QED
      BY <1>2, <1>3, <1>4, <2>3, <3>1
  <2> QED
    BY <2>1, <2>4 DEF HasChain, more
<1>5. CASE ~(n = Len(lines) /\ line.previousHash = HashAfter(lines, n))
  <2>1. IsChain(more, n)
    BY <1>1, <1>5, ChainOfAppended
  <2>2. n \in 0..Len(more)
    BY <1>2
  <2> QED
    BY <1>3, <2>1, <2>2 DEF HasChain
<1> QED
  BY <1>4, <1>5

\* An empty file is a chain of no lines.
LEMMA EmptyChain == HasChain(<<>>) /\ IsChain(<<>>, 0)
BY DEF HasChain, IsChain

\* The good lines of a file are a whole chain, and end with the same hash.
LEMMA ChainPrefix ==
  ASSUME NEW lines \in Seq(DiskLine), NEW n, IsChain(lines, n)
  PROVE  /\ SubSeq(lines, 1, n) \in Seq(DiskLine) /\ Len(SubSeq(lines, 1, n)) = n
         /\ IsChain(SubSeq(lines, 1, n), n)
         /\ HashAfter(SubSeq(lines, 1, n), n) = HashAfter(lines, n)
<1> DEFINE start == SubSeq(lines, 1, n)
<1>1. n \in 0..Len(lines) /\ Len(lines) \in Nat
  BY DEF IsChain
<1>2. start \in Seq(DiskLine) /\ Len(start) = n
  BY <1>1
<1>3. \A i \in 1..n : start[i] = lines[i]
  BY <1>1
<1> HIDE DEF start
<1>4. \A i \in 0..n : HashAfter(start, i) = HashAfter(lines, i)
  BY <1>1, <1>3 DEF HashAfter
<1>5. \A i \in 1..n : start[i].previousHash = HashAfter(start, i - 1)
  <2> TAKE i \in 1..n
  <2>1. i - 1 \in 0..n
    BY <1>1
  <2>2. lines[i].previousHash = HashAfter(lines, i - 1)
    BY DEF IsChain
  <2> QED
    BY <1>3, <1>4, <2>1, <2>2
<1>6. IsChain(start, n)
  BY <1>1, <1>2, <1>5 DEF IsChain
<1>7. HashAfter(start, n) = HashAfter(lines, n)
  BY <1>1, <1>4
<1> QED
  BY <1>2, <1>6, <1>7 DEF start

-----------------------------------------------------------------------------
(***************************************************************************)
(* Lemmas about the readable events                                        *)
(***************************************************************************)

\* The readable events of a file are what the function carried by the invariant
\* says.
LEMMA ReadableIs ==
  ASSUME NEW lines, NEW f, IsUpTo(f, lines), \A g : IsUpTo(g, lines) => g = f
  PROVE  ReadableEvents(lines) = f[Len(lines)]
<1> DEFINE h == CHOOSE g : g = [n \in 0..Len(lines) |->
                                 IF n = 0 THEN <<>>
                                 ELSE IF lines[n] = GarbageLine THEN g[n - 1]
                                 ELSE Append(g[n - 1], lines[n].event)]
<1>1. IsUpTo(h, lines)
  BY DEF IsUpTo
<1>2. h = f
  BY <1>1
<1>3. ReadableEvents(lines) = h[Len(lines)]
  BY DEF ReadableEvents
<1> QED
  BY <1>2, <1>3

\* An empty file has no events.
LEMMA NothingReadable ==
  /\ HasUpTo(<<>>) /\ ReadableEvents(<<>>) = <<>> /\ EventsIn(<<>>) = {}
<1> DEFINE f == [n \in {0} |-> <<>>]
<1>1. ASSUME NEW g
      PROVE  IsUpTo(g, <<>>) <=> g = f
  <2>1. Len(<<>>) = 0 /\ 0..0 = {0}
    OBVIOUS
  <2> QED
    BY <2>1 DEF IsUpTo
<1>2. IsUpTo(f, <<>>) /\ \A g : IsUpTo(g, <<>>) => g = f
  BY <1>1
<1> HIDE DEF f
<1>3. ReadableEvents(<<>>) = f[Len(<<>>)]
  BY <1>2, ReadableIs
<1>4. f[Len(<<>>)] = <<>>
  BY DEF f
<1> QED
  BY <1>2, <1>3, <1>4 DEF HasUpTo, EventsIn

\* A further line adds its event to what is readable, and garbage nothing.
LEMMA ReadableOfAppended ==
  ASSUME NEW lines \in Seq(DiskLine), NEW line \in DiskLine, HasUpTo(lines)
  PROVE  /\ HasUpTo(Append(lines, line))
         /\ ReadableEvents(Append(lines, line)) =
              IF line = GarbageLine THEN ReadableEvents(lines)
              ELSE Append(ReadableEvents(lines), line.event)
         /\ EventsIn(Append(lines, line)) =
              IF line = GarbageLine THEN EventsIn(lines)
              ELSE EventsIn(lines) \cup {line.event}
<1> DEFINE more == Append(lines, line)
           last == Len(lines) + 1
<1>1. /\ Len(lines) \in Nat /\ Len(more) = last /\ last \in Nat /\ last # 0
      /\ DOMAIN lines = 1..Len(lines) /\ DOMAIN more = 1..last
      /\ \A i \in 1..Len(lines) : more[i] = lines[i]
      /\ more[last] = line /\ last - 1 = Len(lines)
  BY Appended
<1> HIDE DEF more
<1>2. PICK f : IsUpTo(f, lines) /\ \A g : IsUpTo(g, lines) => g = f
  BY DEF HasUpTo
<1> DEFINE value == IF line = GarbageLine THEN f[Len(lines)]
                    ELSE Append(f[Len(lines)], line.event)
           next == [n \in 0..last |-> IF n = last THEN value ELSE f[n]]
<1>3. \A n \in 0..Len(lines) : f[n] = IF n = 0 THEN <<>>
                                      ELSE IF lines[n] = GarbageLine THEN f[n - 1]
                                      ELSE Append(f[n - 1], lines[n].event)
  BY <1>2 DEF IsUpTo
<1>4. next[last] = value /\ \A n \in 0..Len(lines) : next[n] = f[n]
  BY <1>1
<1> HIDE DEF value
<1>5. ASSUME NEW n \in 0..last
      PROVE  next[n] = IF n = 0 THEN <<>>
                       ELSE IF more[n] = GarbageLine THEN next[n - 1]
                       ELSE Append(next[n - 1], more[n].event)
  <2>1. CASE n = last
    <3>1. n - 1 = Len(lines) /\ n - 1 \in 0..Len(lines) /\ more[n] = line /\ n # 0
      BY <1>1, <2>1
    <3>2. next[n - 1] = f[Len(lines)] /\ next[n] = value
      BY <1>4, <2>1, <3>1
    <3> HIDE DEF next, last
    <3> QED
      BY <3>1, <3>2 DEF value
  <2>2. CASE n # last
    <3>1. n \in 0..Len(lines)
      BY <1>1, <2>2
    <3>2. n # 0 => n - 1 \in 0..Len(lines) /\ more[n] = lines[n]
      BY <1>1, <3>1
    <3>3. next[n] = f[n] /\ (n # 0 => next[n - 1] = f[n - 1])
      BY <1>4, <3>1, <3>2
    <3> HIDE DEF next, last
    <3> QED
      BY <1>3, <3>1, <3>2, <3>3
  <2> QED
    BY <2>1, <2>2
<1>6. IsUpTo(next, more)
  <2>1. next = [n \in 0..last |-> next[n]]
    OBVIOUS
  <2> HIDE DEF next
  <2> QED
    BY <1>1, <1>5, <2>1 DEF IsUpTo
<1>7. ASSUME NEW g, IsUpTo(g, more)
      PROVE  g = next
  <2> DEFINE before == [n \in 0..Len(lines) |-> g[n]]
  <2>1. g = [n \in 0..last |-> g[n]]
    BY <1>1, <1>7 DEF IsUpTo
  <2>2. \A n \in 0..last : g[n] = IF n = 0 THEN <<>>
                                  ELSE IF more[n] = GarbageLine THEN g[n - 1]
                                  ELSE Append(g[n - 1], more[n].event)
    BY <1>1, <1>7 DEF IsUpTo
  <2>3. ASSUME NEW n \in 0..Len(lines)
        PROVE  before[n] = IF n = 0 THEN <<>>
                           ELSE IF lines[n] = GarbageLine THEN before[n - 1]
                           ELSE Append(before[n - 1], lines[n].event)
    <3>1. n \in 0..last
      BY <1>1
    <3>2. n # 0 => n - 1 \in 0..Len(lines) /\ more[n] = lines[n]
      BY <1>1
    <3>3. before[n] = g[n] /\ (n # 0 => before[n - 1] = g[n - 1])
      BY <3>2
    <3> HIDE DEF before, last
    <3> QED
      BY <2>2, <3>1, <3>2, <3>3
  <2>4. IsUpTo(before, lines)
    <3>1. before = [n \in 0..Len(lines) |-> before[n]]
      OBVIOUS
    <3> HIDE DEF before
    <3> QED
      BY <2>3, <3>1 DEF IsUpTo
  <2>5. before = f
    BY <1>2, <2>4
  <2>6. \A n \in 0..Len(lines) : g[n] = f[n]
    BY <2>5
  <2>7. g[last] = value
    <3>1. last \in 0..last /\ Len(lines) \in 0..Len(lines)
      BY <1>1
    <3>2. g[last] = IF line = GarbageLine THEN g[Len(lines)]
                    ELSE Append(g[Len(lines)], line.event)
      BY <1>1, <2>2, <3>1
    <3> QED
      BY <2>6, <3>1, <3>2 DEF value
  <2>8. \A n \in 0..last : g[n] = next[n]
    BY <1>1, <1>4, <2>6, <2>7
  <2>9. next = [n \in 0..last |-> next[n]]
    OBVIOUS
  <2> HIDE DEF next, last
  <2> QED
    BY <2>1, <2>8, <2>9
<1>8. ReadableEvents(more) = value /\ HasUpTo(more)
  <2>1. ReadableEvents(more) = next[Len(more)]
    BY <1>6, <1>7, ReadableIs
  <2> HIDE DEF next
  <2> QED
    BY <1>1, <1>4, <1>6, <1>7, <2>1 DEF HasUpTo
<1>9. ReadableEvents(lines) = f[Len(lines)]
  BY <1>2, ReadableIs
<1>10. EventsIn(more) = IF line = GarbageLine THEN EventsIn(lines)
                        ELSE EventsIn(lines) \cup {line.event}
  <2>1. \A i \in 1..last : i \in 1..Len(lines) \/ i = last
    BY <1>1
  <2>2. last \in 1..last /\ \A i \in 1..Len(lines) : i \in 1..last
    BY <1>1
  <2> HIDE DEF last
  <2> QED
    BY <1>1, <2>1, <2>2 DEF EventsIn
<1> QED
  BY <1>8, <1>9, <1>10 DEF more, value

-----------------------------------------------------------------------------
(***************************************************************************)
(* What an action does to the disk                                         *)
(***************************************************************************)

\* Sequences: appending to the end of the current file is appending to all
\* files.
LEMMA Concatenated ==
  ASSUME NEW S, NEW s \in Seq(S), NEW t \in Seq(S), NEW x \in S
  PROVE  /\ s \o t \in Seq(S) /\ s \o <<>> = s
         /\ s \o Append(t, x) = Append(s \o t, x)
<1>1. s \o t \in Seq(S) /\ s \o <<>> = s
  OBVIOUS
<1> DEFINE l == s \o Append(t, x)
           r == Append(s \o t, x)
<1>2. l \in Seq(S) /\ r \in Seq(S) /\ Len(l) = Len(r)
  OBVIOUS
<1>3. \A i \in 1..Len(l) : l[i] = r[i]
  OBVIOUS
<1>4. l = r
  <2> HIDE DEF l, r
  <2>1. l = [i \in 1..Len(l) |-> l[i]] /\ r = [i \in 1..Len(r) |-> r[i]]
    BY <1>2
  <2> QED
    BY <1>2, <1>3, <2>1
<1> QED
  BY <1>1, <1>4

\* The file before the write, renamed away or not, and the archive behind it.
Base(lines) ==
  /\ lines \in {<<>>, file}
  /\ archive' \in Seq(DiskLine)
  /\ archive' \o lines = Disk

\* A rotation starts an empty file, or goes on with the old one if the rename
\* fails.
LEMMA Rotation ==
  ASSUME TypeOK, NEW renamed \in BOOLEAN, archive' = Archived(renamed)
  PROVE  Base(Rotated(renamed))
<1>1. archive \in Seq(DiskLine) /\ file \in Seq(DiskLine)
  BY DEF TypeOK, DiskLine
<1>2. archive \o file \in Seq(DiskLine) /\ (archive \o file) \o <<>> = archive \o file
  BY <1>1
<1> QED
  BY <1>1, <1>2 DEF Base, Rotated, Archived, Disk

\* What the next line is appended to holds lines of the file only.
LEMMA BaseIs ==
  ASSUME TypeOK, HasChain(file), NEW lines, Base(lines)
  PROVE  lines \in Seq(DiskLine) /\ HasChain(lines) /\ ToSet(lines) \subseteq ToSet(file)
<1>1. CASE lines = file
  BY <1>1 DEF TypeOK, DiskLine
<1>2. CASE lines = <<>>
  <2>1. ToSet(<<>>) = {}
    BY DEF ToSet
  <2> QED
    BY <1>2, <2>1, EmptyChain
<1> QED
  BY <1>1, <1>2 DEF Base

\* The event is on a line of its own.
Stored(e, line) ==
  /\ \E lines : Base(lines) /\ file' = Append(lines, line)
  /\ acknowledged' = acknowledged \cup {e}
  /\ unfinished' = FALSE
  /\ failures' \in {failures, failures + 1}

\* The event went on the line that was open.
Swallowed(e) ==
  /\ file' = file /\ archive' = archive
  /\ acknowledged' = acknowledged \cup {e}
  /\ unfinished = TRUE /\ unfinished' = FALSE
  /\ failures' \in {failures, failures + 1}

\* The disk took nothing, or the beginning of a line.
Refused ==
  /\ \E lines : Base(lines) /\ file' \in {lines, Append(lines, GarbageLine)}
  /\ acknowledged' = acknowledged
  /\ unfinished' \in BOOLEAN
  /\ failures' = failures + 1

\* recordEvent extends the memory; the line reaches the disk, is swallowed by
\* an unfinished one, or is refused.
LEMMA WhatRecordDoes ==
  ASSUME TypeOK, NEW e \in Events, Record(e), NEW line,
         line = [event |-> e, previousHash |-> lastHash]
  PROVE  /\ e \notin acknowledged /\ line \in Line
         /\ auditLog' = Append(auditLog, line) /\ lastHash' = e
         /\ hasCorruption' = hasCorruption
         /\ failures' \in 0..MaxFailures
         /\ Stored(e, line) \/ Swallowed(e) \/ Refused
<1>1. /\ e \notin acknowledged /\ line \in Line
      /\ auditLog' = Append(auditLog, line) /\ lastHash' = e
      /\ hasCorruption' = hasCorruption
  BY DEF Record, TypeOK, Line
<1>2. PICK renamed \in BOOLEAN :
        /\ archive' = Archived(renamed)
        /\ \/ /\ file' = Written(Rotated(renamed), unfinished /\ ~renamed, line)
              /\ unfinished' = FALSE
              /\ acknowledged' = acknowledged \cup {e}
              /\ Fails \/ UNCHANGED failures
           \/ /\ Fails
              /\ UNCHANGED acknowledged
              /\ \/ file' = Rotated(renamed) /\ unfinished' = (unfinished /\ ~renamed)
                 \/ /\ file' = Written(Rotated(renamed), unfinished /\ ~renamed, GarbageLine)
                    /\ unfinished' = TRUE
  BY DEF Record
<1>3. Base(Rotated(renamed))
  BY <1>2, Rotation
<1>4. Fails => failures' = failures + 1 /\ failures' \in 0..MaxFailures
  BY LedgerAssumption DEF Fails, TypeOK
<1>5. failures \in 0..MaxFailures
  BY DEF TypeOK
<1>6. failures' \in 0..MaxFailures
  BY <1>2, <1>4, <1>5
<1>7. CASE /\ file' = Written(Rotated(renamed), unfinished /\ ~renamed, line)
           /\ unfinished' = FALSE
           /\ acknowledged' = acknowledged \cup {e}
           /\ Fails \/ UNCHANGED failures
  <2>1. failures' \in {failures, failures + 1}
    BY <1>4, <1>7
  <2>2. CASE unfinished /\ ~renamed
    <3>1. file' = file /\ archive' = archive
      BY <1>2, <1>7, <2>2 DEF Written, Rotated, Archived
    <3> QED
      BY <1>1, <1>6, <1>7, <2>1, <2>2, <3>1 DEF Swallowed, TypeOK
  <2>3. CASE ~(unfinished /\ ~renamed)
    <3>1. file' = Append(Rotated(renamed), line)
      BY <1>7, <2>3 DEF Written
    <3> QED
      BY <1>1, <1>3, <1>6, <1>7, <2>1, <3>1 DEF Stored
  <2> QED
    BY <1>1, <1>6, <2>2, <2>3 DEF Stored, Swallowed
<1>8. CASE /\ Fails
           /\ UNCHANGED acknowledged
           /\ \/ file' = Rotated(renamed) /\ unfinished' = (unfinished /\ ~renamed)
              \/ /\ file' = Written(Rotated(renamed), unfinished /\ ~renamed, GarbageLine)
                 /\ unfinished' = TRUE
  <2>1. file' \in {Rotated(renamed), Append(Rotated(renamed), GarbageLine)}
    BY <1>8 DEF Written
  <2>2. unfinished' \in BOOLEAN
    BY <1>8 DEF TypeOK
  <2>3. Refused
    BY <1>3, <1>4, <1>8, <2>1, <2>2 DEF Refused
  <2> QED
    BY <1>1, <1>6, <2>3
<1> QED
  BY <1>2, <1>7, <1>8

\* loadFromDisk keeps the longest chain at the start of the file, and flags the
\* rest.
LEMMA WhatRestartDoes ==
  ASSUME TypeOK, HasChain(file), Restart
  PROVE  \E n :
           /\ IsChain(file, n) /\ \A i \in 1..n : file[i] \in Line
           /\ auditLog' = SubSeq(file, 1, n)
           /\ lastHash' = LoadedHash(n)
           /\ hasCorruption' = (n < Len(file))
           /\ Base(file') /\ unfinished' \in {unfinished, FALSE}
           /\ failures' \in {failures, failures + 1} /\ failures' \in 0..MaxFailures
           /\ acknowledged' = acknowledged
<1>1. PICK n \in 0..Len(file) : IsChain(file, n) /\ \A i \in 1..n : file[i] \in Line
  BY DEF HasChain
<1>2. ChainLength(file) = n
  BY <1>1, ChainLengthIs DEF TypeOK, DiskLine
<1>3. /\ auditLog' = SubSeq(file, 1, n) /\ lastHash' = LoadedHash(n)
      /\ hasCorruption' = (n < Len(file)) /\ acknowledged' = acknowledged
  BY <1>2 DEF Restart, LoadFlags
<1>4. PICK renamed \in BOOLEAN :
        /\ file' = Rotated(renamed)
        /\ unfinished' = (unfinished /\ ~renamed)
        /\ archive' = Archived(renamed)
        /\ Fails \/ UNCHANGED failures
  BY DEF Restart
<1>5. Base(file')
  BY <1>4, Rotation
<1>6. failures' \in {failures, failures + 1} /\ failures' \in 0..MaxFailures
  BY <1>4, LedgerAssumption DEF Fails, TypeOK
<1>7. unfinished' \in {unfinished, FALSE}
  BY <1>4 DEF TypeOK
<1> QED
  BY <1>1, <1>3, <1>5, <1>6, <1>7

-----------------------------------------------------------------------------
(***************************************************************************)
(* Types, and the chain in the file                                        *)
(***************************************************************************)

\* Every line that is written, and one that was cut short, may be on disk.
LEMMA LineTypes == Line \subseteq DiskLine /\ GarbageLine \in DiskLine
BY DEF DiskLine

\* recordEvent keeps the types, and the file's chain.
LEMMA RecordTyped ==
  ASSUME TypeOK, HasChain(file), NEW e \in Events, Record(e)
  PROVE  TypeOK' /\ HasChain(file')
<1> DEFINE line == [event |-> e, previousHash |-> lastHash]
<1>1. /\ line \in Line
      /\ auditLog' = Append(auditLog, line) /\ lastHash' = e
      /\ hasCorruption' = hasCorruption
      /\ failures' \in 0..MaxFailures
      /\ Stored(e, line) \/ Swallowed(e) \/ Refused
  BY WhatRecordDoes
<1> HIDE DEF line
<1>2. auditLog' \in Seq(Line)
  BY <1>1 DEF TypeOK
<1>3. ASSUME NEW lines, Base(lines), NEW x \in DiskLine
      PROVE  /\ lines \in Seq(DiskLine) /\ HasChain(lines)
             /\ Append(lines, x) \in Seq(DiskLine) /\ HasChain(Append(lines, x))
  BY <1>3, BaseIs, HasChainAppended
<1>4. /\ file' \in Seq(DiskLine) /\ HasChain(file') /\ archive' \in Seq(DiskLine)
      /\ unfinished' \in BOOLEAN /\ acknowledged' \subseteq Events
  <2>1. CASE Stored(e, line)
    <3>1. PICK lines : Base(lines) /\ file' = Append(lines, line)
      BY <2>1 DEF Stored
    <3>2. file' \in Seq(DiskLine) /\ HasChain(file') /\ archive' \in Seq(DiskLine)
      BY <1>1, <1>3, <3>1, LineTypes DEF Base
    <3> QED
      BY <2>1, <3>2 DEF Stored, TypeOK
  <2>2. CASE Swallowed(e)
    BY <2>2 DEF Swallowed, TypeOK, DiskLine
  <2>3. CASE Refused
    <3>1. PICK lines : Base(lines) /\ file' \in {lines, Append(lines, GarbageLine)}
      BY <2>3 DEF Refused
    <3>2. file' \in Seq(DiskLine) /\ HasChain(file') /\ archive' \in Seq(DiskLine)
      BY <1>3, <3>1, LineTypes DEF Base
    <3> QED
      BY <2>3, <3>2 DEF Refused, TypeOK
  <2> QED
    BY <1>1, <2>1, <2>2, <2>3
<1> QED
  BY <1>1, <1>2, <1>4 DEF TypeOK, DiskLine

\* A restart keeps the types, and the file's chain.
LEMMA RestartTyped ==
  ASSUME TypeOK, HasChain(file), Restart
  PROVE  TypeOK' /\ HasChain(file')
<1>1. PICK n :
           /\ IsChain(file, n) /\ \A i \in 1..n : file[i] \in Line
           /\ auditLog' = SubSeq(file, 1, n)
           /\ lastHash' = LoadedHash(n)
           /\ hasCorruption' = (n < Len(file))
           /\ Base(file') /\ unfinished' \in {unfinished, FALSE}
           /\ failures' \in 0..MaxFailures
           /\ acknowledged' = acknowledged
  BY WhatRestartDoes
<1>2. file \in Seq(DiskLine) /\ n \in 0..Len(file) /\ Len(file) \in Nat
  BY <1>1 DEF TypeOK, DiskLine, IsChain
<1>3. file' \in Seq(DiskLine) /\ HasChain(file') /\ archive' \in Seq(DiskLine)
  BY <1>1, BaseIs DEF Base
<1>4. lastHash' \in Events \cup {Genesis}
  BY <1>1, <1>2 DEF LoadedHash, HashAfter, Line
<1>5. auditLog' \in Seq(Line)
  <2> DEFINE start == SubSeq(file, 1, n)
  <2>1. start \in Seq(DiskLine) /\ Len(start) = n /\ \A i \in 1..n : start[i] = file[i]
    BY <1>2
  <2>2. auditLog' = start
    BY <1>1
  <2> HIDE DEF start
  <2>3. start = [i \in 1..n |-> start[i]] /\ n \in Nat
    BY <1>2, <2>1
  <2>4. \A i \in 1..n : start[i] \in Line
    BY <1>1, <2>1
  <2>5. start \in Seq(Line)
    BY <2>3, <2>4
  <2> QED
    BY <2>5, <2>2
<1>6. hasCorruption' \in BOOLEAN
  BY <1>1
<1>7. unfinished' \in BOOLEAN /\ acknowledged' \subseteq Events
  BY <1>1 DEF TypeOK
<1> QED
  BY <1>1, <1>3, <1>4, <1>5, <1>6, <1>7 DEF TypeOK, DiskLine

-----------------------------------------------------------------------------
(***************************************************************************)
(* The trail in memory                                                     *)
(***************************************************************************)

\* Sequences: the set of a sequence grows by what is appended.
LEMMA ToSetAppended ==
  ASSUME NEW S, NEW s \in Seq(S), NEW x \in S
  PROVE  ToSet(Append(s, x)) = ToSet(s) \cup {x}
<1> DEFINE more == Append(s, x)
<1>1. /\ Len(s) \in Nat /\ DOMAIN s = 1..Len(s) /\ DOMAIN more = 1..(Len(s) + 1)
      /\ \A i \in 1..Len(s) : more[i] = s[i]
      /\ more[Len(s) + 1] = x
  BY Appended
<1> HIDE DEF more
<1>2. \A i : i \in 1..(Len(s) + 1) <=> i \in 1..Len(s) \/ i = Len(s) + 1
  BY <1>1
<1>3. ToSet(more) = ToSet(s) \cup {x}
  BY <1>1, <1>2 DEF ToSet
<1> QED
  BY <1>3 DEF more

\* The memory's lines are lines that a file may hold.
LEMMA SeqOfLines ==
  ASSUME NEW s \in Seq(Line)
  PROVE  s \in Seq(DiskLine)
BY DEF DiskLine

\* recordEvent keeps the memory a chain that ends at lastHash, and known to the
\* file.
LEMMA RecordMemory ==
  ASSUME TypeOK, HasChain(file), MemoryIsChain, MemoryKnowsFile,
         NEW e \in Events, Record(e)
  PROVE  MemoryIsChain' /\ MemoryKnowsFile'
<1> DEFINE line == [event |-> e, previousHash |-> lastHash]
<1>1. /\ line \in Line
      /\ auditLog' = Append(auditLog, line) /\ lastHash' = e
      /\ hasCorruption' = hasCorruption
      /\ Stored(e, line) \/ Swallowed(e) \/ Refused
  BY WhatRecordDoes
<1>2. line.event = e /\ line.previousHash = lastHash
  OBVIOUS
<1> HIDE DEF line
<1>3. CASE hasCorruption
  BY <1>1, <1>3 DEF MemoryIsChain, MemoryKnowsFile
<1>4. CASE ~hasCorruption
  <2>1. /\ auditLog \in Seq(Line) /\ auditLog \in Seq(DiskLine) /\ line \in DiskLine
        /\ Len(auditLog) \in Nat /\ Len(auditLog') = Len(auditLog) + 1
        /\ auditLog'[Len(auditLog) + 1] = line
    BY <1>1, SeqOfLines, LineTypes DEF TypeOK
  <2>2. IsChain(auditLog, Len(auditLog)) /\ lastHash = HashAfter(auditLog, Len(auditLog))
    BY <1>4 DEF MemoryIsChain
  <2>3. IsChain(auditLog', Len(auditLog'))
    BY <1>1, <1>2, <2>1, <2>2, ChainOfAppended
  <2>4. lastHash' = HashAfter(auditLog', Len(auditLog'))
    BY <1>1, <1>2, <2>1 DEF HashAfter
  <2>5. ToSet(auditLog') = ToSet(auditLog) \cup {line}
    BY <1>1, <2>1, ToSetAppended
  <2>6. ToSet(file') \subseteq ToSet(file) \cup {line, GarbageLine}
    <3>1. ASSUME NEW lines, Base(lines), NEW x \in DiskLine
          PROVE  /\ ToSet(lines) \subseteq ToSet(file)
                 /\ ToSet(Append(lines, x)) \subseteq ToSet(file) \cup {x}
      BY <3>1, BaseIs, ToSetAppended
    <3>2. CASE Stored(e, line)
      BY <2>1, <3>1, <3>2 DEF Stored
    <3>3. CASE Swallowed(e)
      BY <3>3 DEF Swallowed
    <3>4. CASE Refused
      BY <3>1, <3>4, LineTypes DEF Refused
    <3> QED
      BY <1>1, <3>2, <3>3, <3>4
  <2>7. MemoryIsChain'
    BY <2>3, <2>4 DEF MemoryIsChain
  <2>8. MemoryKnowsFile'
    BY <1>4, <2>5, <2>6 DEF MemoryKnowsFile
  <2> QED
    BY <2>7, <2>8
<1> QED
  BY <1>3, <1>4

\* A load that finds no break has read the whole file.
LEMMA RestartMemory ==
  ASSUME TypeOK, HasChain(file), Restart
  PROVE  MemoryIsChain' /\ MemoryKnowsFile'
<1>1. PICK n :
           /\ IsChain(file, n)
           /\ auditLog' = SubSeq(file, 1, n)
           /\ lastHash' = LoadedHash(n)
           /\ hasCorruption' = (n < Len(file))
           /\ Base(file')
  BY WhatRestartDoes
<1>2. file \in Seq(DiskLine) /\ n \in 0..Len(file) /\ Len(file) \in Nat
  BY <1>1 DEF TypeOK, DiskLine, IsChain
<1>3. CASE hasCorruption'
  BY <1>3 DEF MemoryIsChain, MemoryKnowsFile
<1>4. CASE ~hasCorruption'
  <2>1. ~(n < Len(file)) /\ n = Len(file)
    <3>1. ~(n < Len(file))
      BY <1>1, <1>4
    <3> QED
      BY <1>2, <3>1
  <2>2. SubSeq(file, 1, n) = file
    BY <1>2, <2>1
  <2>3. auditLog' = file /\ Len(auditLog') = n
    BY <1>1, <2>1, <2>2
  <2>4. lastHash' = HashAfter(file, n)
    BY <1>1, <2>1 DEF LoadedHash
  <2>5. MemoryIsChain'
    BY <1>1, <2>3, <2>4 DEF MemoryIsChain
  <2>6. ToSet(file') \subseteq ToSet(file)
    BY <1>1, BaseIs
  <2>7. MemoryKnowsFile'
    BY <2>3, <2>6 DEF MemoryKnowsFile
  <2> QED
    BY <2>5, <2>7
<1> QED
  BY <1>3, <1>4

-----------------------------------------------------------------------------
(***************************************************************************)
(* The trail on disk                                                       *)
(***************************************************************************)

\* A step leaves the lines on disk as they are, or adds one at their end.
LEMMA DiskKept ==
  ASSUME NEW lines, Base(lines), file' = lines
  PROVE  Disk' = Disk
BY DEF Base, Disk

\* Across a rotation too, a line that is appended comes after every line on
\* disk.
LEMMA DiskGrows ==
  ASSUME TypeOK, HasChain(file), NEW lines, Base(lines), NEW x \in DiskLine,
         file' = Append(lines, x)
  PROVE  Disk' = Append(Disk, x)
<1>1. lines \in Seq(DiskLine) /\ archive' \in Seq(DiskLine)
  BY BaseIs DEF Base
<1>2. archive' \o Append(lines, x) = Append(archive' \o lines, x)
  BY <1>1, Concatenated
<1> QED
  BY <1>2 DEF Base, Disk

\* The lines on disk, archived and current, are lines.
LEMMA DiskTyped == TypeOK => Disk \in Seq(DiskLine)
BY Concatenated DEF TypeOK, Disk, DiskLine

\* Where no file changes, the trail is the same.
LEMMA TrailOfKept ==
  ASSUME TrailIsReadable, Disk' = Disk
  PROVE  /\ TrailIsReadable' /\ Trail' = Trail /\ EventsIn(Disk)' = EventsIn(Disk)
<1>1. Trail = ReadableEvents(Disk) /\ Trail' = ReadableEvents(Disk')
  BY DEF Trail, Disk
<1> QED
  BY <1>1 DEF TrailIsReadable

\* A line cut short adds no event to the trail.
LEMMA TrailOfGarbage ==
  ASSUME TypeOK, TrailIsReadable, Disk' = Append(Disk, GarbageLine)
  PROVE  /\ TrailIsReadable' /\ Trail' = Trail /\ EventsIn(Disk)' = EventsIn(Disk)
<1>1. Trail = ReadableEvents(Disk) /\ Trail' = ReadableEvents(Disk')
  BY DEF Trail, Disk
<1>2. /\ HasUpTo(Append(Disk, GarbageLine))
      /\ ReadableEvents(Append(Disk, GarbageLine)) = ReadableEvents(Disk)
      /\ EventsIn(Append(Disk, GarbageLine)) = EventsIn(Disk)
  BY DiskTyped, LineTypes, ReadableOfAppended DEF TrailIsReadable
<1> QED
  BY <1>1, <1>2 DEF TrailIsReadable

\* A line that is written whole adds its event at the end of the trail.
LEMMA TrailOfLine ==
  ASSUME TypeOK, TrailIsReadable, NEW line \in Line, Disk' = Append(Disk, line)
  PROVE  /\ TrailIsReadable' /\ Trail' = Append(Trail, line.event)
         /\ EventsIn(Disk)' = EventsIn(Disk) \cup {line.event}
<1>1. Trail = ReadableEvents(Disk) /\ Trail' = ReadableEvents(Disk')
  BY DEF Trail, Disk
<1>2. line \in DiskLine /\ line # GarbageLine /\ line.event \in Events
  BY LineTypes, GarbageIsNoLine DEF Line
<1>3. /\ HasUpTo(Append(Disk, line))
      /\ ReadableEvents(Append(Disk, line)) = Append(ReadableEvents(Disk), line.event)
      /\ EventsIn(Append(Disk, line)) = EventsIn(Disk) \cup {line.event}
  BY <1>2, DiskTyped, ReadableOfAppended DEF TrailIsReadable
<1>4. Trail \in Seq(Events) /\ ToSet(Trail) = EventsIn(Disk)
  BY DEF TrailIsReadable
<1>5. /\ Append(Trail, line.event) \in Seq(Events)
      /\ ToSet(Append(Trail, line.event)) = ToSet(Trail) \cup {line.event}
  BY <1>2, <1>4, ToSetAppended
<1> QED
  BY <1>1, <1>3, <1>4, <1>5 DEF TrailIsReadable

\* Recording and restarting are steps of the log on disk, or none.
LEMMA RecordTrail ==
  ASSUME IInv, NEW e \in Events, Record(e)
  PROVE  /\ TrailIsReadable'
         /\ \/ /\ Trail' = Append(Trail, e) /\ e \notin ToSet(Trail)
               /\ EventsIn(Disk)' = EventsIn(Disk) \cup {e}
               /\ acknowledged' = acknowledged \cup {e}
               /\ unfinished' = FALSE /\ failures' \in {failures, failures + 1}
            \/ /\ Trail' = Trail /\ EventsIn(Disk)' = EventsIn(Disk)
               /\ Swallowed(e) \/ Refused
<1> DEFINE line == [event |-> e, previousHash |-> lastHash]
<1>1. /\ e \notin acknowledged /\ line \in Line
      /\ Stored(e, line) \/ Swallowed(e) \/ Refused
  BY WhatRecordDoes DEF IInv
<1>2. line.event = e
  OBVIOUS
<1> HIDE DEF line
<1>3. /\ TypeOK /\ HasChain(file) /\ TrailIsReadable
      /\ ToSet(Trail) \subseteq acknowledged
  BY DEF IInv
<1>4. CASE Stored(e, line)
  <2>1. Disk' = Append(Disk, line)
    BY <1>1, <1>3, <1>4, DiskGrows, LineTypes DEF Stored
  <2>2. /\ TrailIsReadable' /\ Trail' = Append(Trail, e)
        /\ EventsIn(Disk)' = EventsIn(Disk) \cup {e}
    BY <1>1, <1>2, <1>3, <2>1, TrailOfLine
  <2>3. e \notin ToSet(Trail)
    BY <1>1, <1>3
  <2> QED
    BY <1>4, <2>2, <2>3 DEF Stored
<1>5. CASE Swallowed(e)
  <2>1. Disk' = Disk
    BY <1>5 DEF Swallowed, Disk
  <2> QED
    BY <1>3, <1>5, <2>1, TrailOfKept
<1>6. CASE Refused
  <2>1. PICK lines : Base(lines) /\ file' \in {lines, Append(lines, GarbageLine)}
    BY <1>6 DEF Refused
  <2>2. CASE file' = lines
    <3>1. Disk' = Disk
      BY <2>1, <2>2, DiskKept
    <3> QED
      BY <1>3, <1>6, <3>1, TrailOfKept
  <2>3. CASE file' = Append(lines, GarbageLine)
    <3>1. Disk' = Append(Disk, GarbageLine)
      BY <1>3, <2>1, <2>3, DiskGrows, LineTypes
    <3> QED
      BY <1>3, <1>6, <3>1, TrailOfGarbage
  <2> QED
    BY <2>1, <2>2, <2>3
<1> QED
  BY <1>1, <1>4, <1>5, <1>6

\* A restart changes neither trail nor acknowledgements, although it may rotate
\* the file.
LEMMA RestartTrail ==
  ASSUME IInv, Restart
  PROVE  /\ TrailIsReadable' /\ Trail' = Trail /\ EventsIn(Disk)' = EventsIn(Disk)
         /\ acknowledged' = acknowledged /\ unfinished' \in {unfinished, FALSE}
         /\ failures' \in {failures, failures + 1}
<1>1. /\ Base(file') /\ unfinished' \in {unfinished, FALSE}
      /\ failures' \in {failures, failures + 1}
      /\ acknowledged' = acknowledged
  BY WhatRestartDoes DEF IInv
<1>2. Disk' = Disk
  BY <1>1, DiskKept
<1> QED
  BY <1>1, <1>2, TrailOfKept DEF IInv

-----------------------------------------------------------------------------
(***************************************************************************)
(* The invariant                                                           *)
(***************************************************************************)

\* No event is lost by a step that loses none.
LEMMA SameLost ==
  ASSUME TypeOK, LostIsPaid, Lost' \subseteq Lost,
         unfinished' \in {unfinished, FALSE}, failures' \in {failures, failures + 1}
  PROVE  LostIsPaid'
<1>1. /\ IsFiniteSet(Lost') /\ Cardinality(Lost') <= Cardinality(Lost)
  BY FS_Subset DEF LostIsPaid
<1>2. Cardinality(Lost') \in Nat /\ Cardinality(Lost) \in Nat
  BY <1>1, FS_CardinalityType DEF LostIsPaid
<1>3. failures \in Nat /\ failures' \in Nat /\ failures <= failures'
  BY LedgerAssumption DEF TypeOK
<1> DEFINE open == IF unfinished THEN 1 ELSE 0
           opened == IF unfinished' THEN 1 ELSE 0
<1>4. open \in Nat /\ opened \in Nat /\ opened <= open
  <2>1. CASE unfinished' = unfinished
    BY <2>1
  <2>2. CASE unfinished' = FALSE
    BY <2>2
  <2> QED
    BY <2>1, <2>2
<1>5. Cardinality(Lost) + open <= failures
  BY DEF LostIsPaid
<1> HIDE DEF open, opened
<1>6. Cardinality(Lost') + opened <= failures'
  BY <1>1, <1>2, <1>3, <1>4, <1>5
<1> QED
  BY <1>1, <1>6 DEF LostIsPaid, opened

\* An event that is acknowledged and swallowed is paid for by the failed write
\* before it.
LEMMA RecordLost ==
  ASSUME IInv, NEW e \in Events, Record(e)
  PROVE  LostIsPaid'
<1>1. TypeOK /\ LostIsPaid
  BY DEF IInv
<1>2. failures \in Nat /\ unfinished \in BOOLEAN
  BY <1>1, LedgerAssumption DEF TypeOK
<1>3. IsFiniteSet(Lost) /\ Cardinality(Lost) \in Nat
  BY <1>1, FS_CardinalityType DEF LostIsPaid
<1>4. CASE /\ EventsIn(Disk)' = EventsIn(Disk) \cup {e}
           /\ acknowledged' = acknowledged \cup {e}
           /\ unfinished' = FALSE /\ failures' \in {failures, failures + 1}
  <2>1. Lost' \subseteq Lost
    BY <1>4 DEF Lost
  <2> QED
    BY <1>1, <1>4, <2>1, SameLost
<1>5. CASE EventsIn(Disk)' = EventsIn(Disk) /\ Swallowed(e)
  <2>1. Lost' \in {Lost, Lost \cup {e}}
    BY <1>5 DEF Lost, Swallowed
  <2>2. IsFiniteSet(Lost \cup {e}) /\ Cardinality(Lost \cup {e}) \in Nat
    BY <1>3, FS_AddElement, FS_CardinalityType
  <2>3. Cardinality(Lost \cup {e}) <= Cardinality(Lost) + 1
    BY <1>3, FS_AddElement
  <2>4. IsFiniteSet(Lost') /\ Cardinality(Lost') \in Nat
    BY <1>3, <2>1, <2>2
  <2>5. Cardinality(Lost') <= Cardinality(Lost) + 1
    <3>1. CASE Lost' = Lost
      <4>1. Cardinality(Lost) <= Cardinality(Lost) + 1
        BY <1>3
      <4> QED
        BY <3>1, <4>1
    <3>2. CASE Lost' = Lost \cup {e}
      BY <2>3, <3>2
    <3> QED
      BY <2>1, <3>1, <3>2
  <2>6. Cardinality(Lost) + 1 <= failures
    BY <1>1, <1>5 DEF LostIsPaid, Swallowed
  <2>7. failures' \in {failures, failures + 1} /\ unfinished' = FALSE
    BY <1>5 DEF Swallowed
  <2>8. Cardinality(Lost') + 0 <= failures'
    BY <1>2, <1>3, <2>4, <2>5, <2>6, <2>7
  <2> QED
    BY <2>4, <2>7, <2>8 DEF LostIsPaid
<1>6. CASE EventsIn(Disk)' = EventsIn(Disk) /\ Refused
  <2>1. Lost' = Lost /\ unfinished' \in BOOLEAN /\ failures' = failures + 1
    BY <1>6 DEF Lost, Refused
  <2>2. Cardinality(Lost) <= failures
    BY <1>1, <1>2, <1>3 DEF LostIsPaid
  <2>3. Cardinality(Lost) + (IF unfinished' THEN 1 ELSE 0) <= failures'
    BY <1>2, <1>3, <2>1, <2>2
  <2> QED
    BY <1>3, <2>1, <2>3 DEF LostIsPaid
<1> QED
  BY <1>4, <1>5, <1>6, RecordTrail

\* recordEvent keeps the invariant.
LEMMA RecordInv == ASSUME IInv, NEW e \in Events, Record(e) PROVE IInv'
<1>1. TypeOK' /\ HasChain(file')
  BY RecordTyped DEF IInv
<1>2. MemoryIsChain' /\ MemoryKnowsFile'
  BY RecordMemory DEF IInv
<1>3. TrailIsReadable' /\ LostIsPaid'
  BY RecordTrail, RecordLost
<1>4. ToSet(Trail') \subseteq acknowledged'
  <2>1. CASE /\ Trail' = Append(Trail, e) /\ acknowledged' = acknowledged \cup {e}
    <3>1. ToSet(Append(Trail, e)) = ToSet(Trail) \cup {e}
      BY ToSetAppended DEF IInv, TrailIsReadable
    <3> QED
      BY <2>1, <3>1 DEF IInv
  <2>2. CASE Trail' = Trail /\ (Swallowed(e) \/ Refused)
    BY <2>2 DEF Swallowed, Refused, IInv
  <2> QED
    BY <2>1, <2>2, RecordTrail
<1>5. HasChain(file)' /\ (ToSet(Trail) \subseteq acknowledged)'
  BY <1>1, <1>4 DEF HasChain, IsChain, HashAfter, ToSet
<1> QED
  BY <1>1, <1>2, <1>3, <1>5 DEF IInv

\* A restart keeps the invariant.
LEMMA RestartInv == IInv /\ Restart => IInv'
<1> SUFFICES ASSUME IInv, Restart
             PROVE  IInv'
  OBVIOUS
<1>1. TypeOK' /\ HasChain(file')
  BY RestartTyped DEF IInv
<1>2. MemoryIsChain' /\ MemoryKnowsFile'
  BY RestartMemory DEF IInv
<1>3. /\ TrailIsReadable' /\ Trail' = Trail /\ EventsIn(Disk)' = EventsIn(Disk)
      /\ acknowledged' = acknowledged /\ unfinished' \in {unfinished, FALSE}
      /\ failures' \in {failures, failures + 1}
  BY RestartTrail
<1>4. LostIsPaid'
  BY <1>3, SameLost DEF IInv, Lost
<1> QED
  BY <1>1, <1>2, <1>3, <1>4 DEF IInv

\* A step that changes nothing keeps the invariant.
LEMMA StutterInv == IInv /\ UNCHANGED vars => IInv'
<1> SUFFICES ASSUME IInv, UNCHANGED vars
             PROVE  IInv'
  OBVIOUS
<1>1. TypeOK' /\ HasChain(file)'
  BY DEF IInv, TypeOK, vars, memory, disk
<1>2. MemoryIsChain' /\ MemoryKnowsFile'
  BY DEF IInv, MemoryIsChain, MemoryKnowsFile, vars, memory, disk
<1>3. Disk' = Disk /\ acknowledged' = acknowledged
  BY DEF vars, disk, Disk
<1>4. TrailIsReadable' /\ Trail' = Trail /\ EventsIn(Disk)' = EventsIn(Disk)
  BY <1>3, TrailOfKept DEF IInv
<1>5. LostIsPaid'
  BY <1>3, <1>4, SameLost DEF IInv, Lost, vars, disk
<1> QED
  BY <1>1, <1>2, <1>3, <1>4, <1>5 DEF IInv

\* Every step keeps the invariant.
LEMMA NextInv == IInv /\ [Next]_vars => IInv'
BY RecordInv, RestartInv, StutterInv DEF Next

\* A new deployment has empty files and an empty memory.
LEMMA InitInv == Init => IInv
<1> SUFFICES ASSUME Init
             PROVE  IInv
  OBVIOUS
<1>1. TypeOK
  <2>1. 0 \in 0..MaxFailures
    BY LedgerAssumption
  <2>2. <<>> \in Seq(Line) /\ <<>> \in Seq(Line \cup {GarbageLine})
    OBVIOUS
  <2> QED
    BY <2>1, <2>2 DEF Init, TypeOK
<1>2. HasChain(file) /\ MemoryIsChain /\ MemoryKnowsFile
  <2>1. Len(<<>>) = 0 /\ ToSet(<<>>) = {}
    BY DEF ToSet
  <2> QED
    BY <2>1, EmptyChain DEF Init, MemoryIsChain, MemoryKnowsFile, HashAfter
<1>3. Disk = <<>>
  BY DEF Init, Disk
<1>4. Trail = <<>> /\ EventsIn(Disk) = {} /\ HasUpTo(Disk) /\ ToSet(<<>>) = {}
  BY <1>3, NothingReadable DEF Trail, Disk, ToSet
<1>5. TrailIsReadable /\ ToSet(Trail) \subseteq acknowledged
  BY <1>4 DEF TrailIsReadable
<1>6. Lost = {}
  BY DEF Lost, Init
<1>7. LostIsPaid
  BY <1>6, FS_EmptySet DEF LostIsPaid, Init
<1> QED
  BY <1>1, <1>2, <1>5, <1>7 DEF IInv

\* The invariant holds in every reachable state.
LEMMA Invariance == Spec => []IInv
<1> QED
  BY InitInv, NextInv, PTL DEF Spec

-----------------------------------------------------------------------------
(***************************************************************************)
(* Theorems                                                                *)
(***************************************************************************)

\* Type correctness of the ledger: what is loaded into memory are lines that
\* parse, whatever the disk refused before.
THEOREM TypeCorrect == Spec => []TypeOK
<1>1. IInv => TypeOK
  BY DEF IInv
<1> QED
  BY <1>1, Invariance, PTL

\* Unless the ledger reported corruption when it was opened, the trail in
\* memory verifies: a restart continues the chain where the file ends, over
\* every rotation and every write that the disk refused.
THEOREM MemoryVerifiesHolds == Spec => []MemoryVerifies
<1>1. IInv => MemoryVerifies
  <2> SUFFICES ASSUME IInv, ~hasCorruption
               PROVE  ChainLength(auditLog) = Len(auditLog)
    BY DEF MemoryVerifies, VerifyChainIntegrity
  <2>1. IsChain(auditLog, Len(auditLog)) /\ auditLog \in Seq(DiskLine)
    BY SeqOfLines DEF IInv, MemoryIsChain, TypeOK
  <2> QED
    BY <2>1, ChainLengthIs
<1> QED
  BY <1>1, Invariance, PTL

\* A ledger that reports no corruption holds every line of the current file in
\* memory: no load goes over a gap that a refused write left in the chain.
THEOREM MemoryKnowsFileHolds == Spec => []MemoryKnowsFile
<1>1. IInv => MemoryKnowsFile
  BY DEF IInv
<1> QED
  BY <1>1, Invariance, PTL

\* Of the events whose record() returned, at most one for each refused write or
\* rename cannot be read from the files, however often the file is renamed and
\* the process starts again.
THEOREM AcknowledgedIsDurableHolds == Spec => []AcknowledgedIsDurable
<1>1. IInv => AcknowledgedIsDurable
  <2> SUFFICES ASSUME IInv
               PROVE  Cardinality(Lost) <= failures
    BY DEF AcknowledgedIsDurable, IInv, TrailIsReadable, Lost
  <2>1. IsFiniteSet(Lost) /\ Cardinality(Lost) + (IF unfinished THEN 1 ELSE 0) <= failures
    BY DEF IInv, LostIsPaid
  <2>2. Cardinality(Lost) \in Nat /\ failures \in Nat
    BY <2>1, FS_CardinalityType, LedgerAssumption DEF IInv, TypeOK
  <2> QED
    BY <2>1, <2>2
<1> QED
  BY <1>1, Invariance, PTL

\* Recording, rotating, refused writes and restarts only ever add one event to
\* the end of what the files hold, and each event once.
THEOREM ImplementsLog == Spec => ImplementsAppendOnlyLog
<1>1. Init => LogOnDisk!Init
  BY NothingReadable DEF Init, LogOnDisk!Init, Trail
<1>2. ASSUME IInv, [Next]_vars
      PROVE  [LogOnDisk!Next]_Trail
  <2>1. ASSUME NEW e \in Events, Record(e)
        PROVE  [LogOnDisk!Next]_Trail
    <3>1. \/ Trail' = Append(Trail, e) /\ e \notin ToSet(Trail)
          \/ Trail' = Trail
      BY <1>2, <2>1, RecordTrail
    <3> QED
      BY <3>1 DEF LogOnDisk!Next, LogOnDisk!Add, LogOnDisk!ToSet, ToSet
  <2>2. CASE Restart
    BY <1>2, <2>2, RestartTrail
  <2>3. CASE UNCHANGED vars
    BY <2>3 DEF vars, disk, Trail
  <2> QED
    BY <1>2, <2>1, <2>2, <2>3 DEF Next
<1> QED
  BY <1>1, <1>2, Invariance, PTL DEF Spec, ImplementsAppendOnlyLog, LogOnDisk!Spec

=============================================================================
