-------------------------- MODULE MCApprovalService --------------------------
(***************************************************************************)
(* Small instances of ApprovalService for TLC.                             *)
(***************************************************************************)
EXTENDS ApprovalService

CONSTANTS boss, Boss, alice, approve1, pay, refund

\* The primary user's id in two spellings shares a partition; alice has one
\* of her own.
SharedPartition == [u \in Users |-> IF u = alice THEN "alice" ELSE "boss"]

LegacyRecord(owner, status) ==
  [ownerUserId |-> owner, partition |-> "boss", operation |-> pay,
   status |-> status, expiresAt |-> 1, hasToken |-> status # "PENDING"]

\* The legacy file holds approvals that the primary owner, another user and
\* an anonymous caller requested.
LegacyOfAll ==
  {LegacyRecord(o, s) : o \in {boss, alice, Nobody},
                        s \in {"PENDING", "APPROVED", "CONSUMED"}}

\* The legacy file holds an approval that another user requested.
LegacyOfAlice == {LegacyRecord(alice, "APPROVED")}
=============================================================================
