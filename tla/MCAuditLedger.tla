---------------------------- MODULE MCAuditLedger ----------------------------
(***************************************************************************)
(* Small instances of AuditLedger for TLC.                                 *)
(***************************************************************************)
EXTENDS AuditLedger, TLC

CONSTANTS event1, event2, event3, event4, event5, event6

EventSymmetry == Permutations(Events)
=============================================================================
