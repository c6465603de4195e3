------------------------- MODULE ApprovalTokenMachine -------------------------
(***************************************************************************)
(* What an approval promises, without stores, indexes, clocks or users:    *)
(* a human decision that can be used for one execution at most.  It is the *)
(* status machine of the header comment of src/core/approvalService.ts,    *)
(* with REJECTED, EXPIRED and REVOKED taken together as "closed".          *)
(* ApprovalService is shown to implement it.                               *)
(***************************************************************************)
EXTENDS Naturals

CONSTANT Approvals      \* the approval identifiers

VARIABLES
  phase,                \* the phase of each approval
  used                  \* how many executions each approval has authorised

vars == <<phase, used>>

Phases == {"none", "pending", "approved", "consumed", "closed"}

\* A deployment may start with approvals that an older version left behind.
Init ==
  /\ phase \in [Approvals -> Phases]
  /\ used = [a \in Approvals |-> 0]

Move(a, from, to) ==
  /\ phase[a] \in from
  /\ phase' = [phase EXCEPT ![a] = to]

Request(a) == Move(a, {"none"}, "pending") /\ UNCHANGED used

Approve(a) == Move(a, {"pending"}, "approved") /\ UNCHANGED used

Close(a) == Move(a, {"pending", "approved"}, "closed") /\ UNCHANGED used

\* The token authorises one execution.
Use(a) ==
  /\ Move(a, {"approved"}, "consumed")
  /\ used' = [used EXCEPT ![a] = @ + 1]

\* The token is consumed and nothing is executed under it.
Burn(a) == Move(a, {"approved"}, "consumed") /\ UNCHANGED used

Next ==
  \E a \in Approvals :
    Request(a) \/ Approve(a) \/ Close(a) \/ Use(a) \/ Burn(a)

Spec == Init /\ [][Next]_vars

-----------------------------------------------------------------------------
TypeOK ==
  /\ phase \in [Approvals -> Phases]
  /\ used \in [Approvals -> Nat]

\* One human approval authorises at most one execution, and only an approval
\* that is consumed has authorised any.
AtMostOneUse ==
  \A a \in Approvals :
    /\ used[a] <= 1
    /\ used[a] > 0 => phase[a] = "consumed"
=============================================================================
