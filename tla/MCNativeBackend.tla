-------------------------- MODULE MCNativeBackend --------------------------
(* A transaction, a write and a streamed query on one native connection.      *)
EXTENDS NativeBackend
=============================================================================
