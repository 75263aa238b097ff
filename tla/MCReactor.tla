----------------------------- MODULE MCReactor -----------------------------
(* Reactor with interchangeable clients, where every client sends.         *)
EXTENDS Reactor, TLC

Symmetry == Permutations(Clients)
=============================================================================
