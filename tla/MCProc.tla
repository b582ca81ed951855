------------------------------- MODULE MCProc -------------------------------
(* Proc on a table of a few slots and two interchangeable harts. *)
EXTENDS Proc, TLC

Symmetry == Permutations(CPU)
=============================================================================
