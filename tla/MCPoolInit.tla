----------------------------- MODULE MCPoolInit -----------------------------
(* PoolInit with a few workers and two starts of the server.               *)
EXTENDS PoolInit
=============================================================================
