----------------------------- MODULE MCExePak -----------------------------
(* Runs are interchangeable. *)
EXTENDS ExePak, TLC

Symmetry == Permutations(Runs)
=============================================================================
