------------------------------ MODULE PoolSize ------------------------------
(* The worker threads of the pool: thread_pool_init starts all of them and *)
(* their number never changes.                                             *)
EXTENDS Integers

CONSTANT NumThreads        \* curr_size

ASSUME ThreadsAssumption == NumThreads \in Nat \ {0}

Workers == 1 .. NumThreads
=============================================================================
