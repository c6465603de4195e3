------------------------ MODULE MCMultiStepExecution -------------------------
(***************************************************************************)
(* Instances of MultiStepExecution for TLC.                                *)
(***************************************************************************)
EXTENDS MultiStepExecution, TLC

\* The first step depends on the second: the order is not the indexes'.
FirstNeedsSecond == <<{2}, {}>>

Symmetry == Permutations(Calls)

=============================================================================
