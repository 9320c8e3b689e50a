----------------------------- MODULE MCClauses ------------------------------
(* Clauses with queries of up to two clauses.                                 *)
EXTENDS Clauses
=============================================================================
