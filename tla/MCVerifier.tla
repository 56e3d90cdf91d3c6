----------------------------- MODULE MCVerifier -----------------------------
(***************************************************************************)
(* Every witness for every trace of up to MaxEvents events.                *)
(***************************************************************************)
EXTENDS Verifier, TLC

Symmetry == Permutations(Values)
=============================================================================
