---------------------------- MODULE MCFifoQueue ----------------------------
(* FifoQueue with three heap cells and two tasks: a list of every shape up *)
(* to length three, each built with fresh and with reused addresses.       *)
EXTENDS FifoQueue
=============================================================================
