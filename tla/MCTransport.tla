----------------------------- MODULE MCTransport -----------------------------
(* Transport on two calls, exchangeable for the safety properties.            *)
EXTENDS Transport, TLC

Symmetry == Permutations(Calls)
=============================================================================
