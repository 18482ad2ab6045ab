------------------------- MODULE MCSpokeOperations -------------------------
(***************************************************************************)
(* SpokeOperations with model values for the operations.  They are         *)
(* interchangeable; the runs that check liveness do not use the symmetry.  *)
(***************************************************************************)
EXTENDS SpokeOperations, TLC

OpsSymmetry == Permutations(Ops)
=============================================================================
