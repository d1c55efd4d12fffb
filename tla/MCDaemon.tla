----------------------------- MODULE MCDaemon -----------------------------
(* Domains are interchangeable. *)
EXTENDS Daemon, TLC

Symmetry == Permutations(Doms)
=============================================================================
