--------------------------- MODULE MCBrainService ----------------------------
(***************************************************************************)
(* Instances of BrainService for TLC: its constants are model values and   *)
(* numbers (callers differ in nothing, but a liveness property excludes    *)
(* symmetry).                                                              *)
(***************************************************************************)
EXTENDS BrainService

=============================================================================
