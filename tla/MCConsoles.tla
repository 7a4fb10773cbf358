----------------------------- MODULE MCConsoles -----------------------------
(* Connections, and ids of consoles, are interchangeable.                  *)
EXTENDS Consoles, TLC

Symmetry == Permutations(Conns) \cup Permutations(Ids)
=============================================================================
