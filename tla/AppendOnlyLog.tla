---------------------------- MODULE AppendOnlyLog ----------------------------
(***************************************************************************)
(* What the audit ledger promises a reader of its files: a trail that only *)
(* grows at its end, one event at a time, each event once.  AuditLedger is *)
(* shown to implement it.                                                  *)
(***************************************************************************)
EXTENDS Sequences, SequencesExt

CONSTANT Events

VARIABLE trail     \* the events on disk, in order

Init == trail = <<>>

Add(e) == e \notin ToSet(trail) /\ trail' = Append(trail, e)

Next == \E e \in Events : Add(e)

Spec == Init /\ [][Next]_trail
=============================================================================
