-------------------------- MODULE MCLeaderRedirect ---------------------------
(* LeaderRedirect on two nodes with one single write, one bulk insert of two  *)
(* requests and one transaction.                                              *)
EXTENDS LeaderRedirect
=============================================================================
