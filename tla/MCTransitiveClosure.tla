------------------------ MODULE MCTransitiveClosure -------------------------
(***************************************************************************)
(* Four events, so up to four groups numbered in any order, and up to      *)
(* three relations: the longest path runs through all four groups, in      *)
(* every order of the loop counters.                                       *)
(***************************************************************************)
EXTENDS TransitiveClosure
=============================================================================
