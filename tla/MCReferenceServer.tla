-------------------------- MODULE MCReferenceServer --------------------------
(* The in-memory engine with two keys and two transactions, which of each is  *)
(* which does not matter.                                                     *)
EXTENDS ReferenceServer, TLC

Symmetry == Permutations(Keys) \cup Permutations(Txs)
=============================================================================
