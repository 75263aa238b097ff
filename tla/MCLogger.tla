------------------------------ MODULE MCLogger ------------------------------
(* Logger with three threads and five calls: a destroy meets a caller that *)
(* logs and one that reopens the log.                                      *)
EXTENDS Logger
=============================================================================
