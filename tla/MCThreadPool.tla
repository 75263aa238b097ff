---------------------------- MODULE MCThreadPool ----------------------------
(* ThreadPool with two workers and three tasks, so that more tasks than    *)
(* workers are outstanding, and one token inherited in pool_sem, so that a *)
(* worker wakes up without work.                                           *)
EXTENDS ThreadPool
=============================================================================
