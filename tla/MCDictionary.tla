---------------------------- MODULE MCDictionary ----------------------------
(* Dictionary with four keys, so that trees of every shape up to four      *)
(* nodes occur, and two values, so that a duplicate can differ.            *)
EXTENDS Dictionary
=============================================================================
