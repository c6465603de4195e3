------------------------- MODULE MCGovernedExecution -------------------------
(***************************************************************************)
(* Instances of GovernedExecution for TLC.                                 *)
(***************************************************************************)
EXTENDS GovernedExecution, TLC

Symmetry == Permutations(Leases) \cup Permutations(Calls)

=============================================================================
