---------------------------- MODULE KeyValueMap ----------------------------
(***************************************************************************)
(* What Dictionary.h promises: a value is found under the key it was       *)
(* inserted with.  A key keeps its first value ("Duplicate nodes will not  *)
(* be added").                                                             *)
(***************************************************************************)
CONSTANTS Keys, Values, NULL

VARIABLES contents,      \* the value of each key
          reply          \* the latest search: its key and what it returned

vars == <<contents, reply>>

Init ==
  /\ contents = [k \in Keys |-> NULL]
  /\ reply = <<>>

Insert(k, v) ==
  /\ contents' = [contents EXCEPT ![k] = IF @ = NULL THEN v ELSE @]
  /\ UNCHANGED reply

Search(k) ==
  /\ reply' = <<k, contents[k]>>
  /\ UNCHANGED contents

Next == \E k \in Keys : Search(k) \/ \E v \in Values : Insert(k, v)

Spec == Init /\ [][Next]_vars
=============================================================================
