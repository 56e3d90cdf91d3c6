------------------------------ MODULE MCTrace -------------------------------
(***************************************************************************)
(* Every trace of up to MaxEvents events of a small program.               *)
(***************************************************************************)
EXTENDS Trace, TLC

Symmetry == Permutations(Vars) \cup Permutations(Values)
=============================================================================
