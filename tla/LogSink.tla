------------------------------ MODULE LogSink ------------------------------
(***************************************************************************)
(* What logger.h promises its callers, whatever their number: the calls    *)
(* take effect one at a time.  Opening an open log changes nothing, a line *)
(* reaches the destination that is open and is dropped when none is, and   *)
(* nothing is written behind a close.                                      *)
(***************************************************************************)
EXTENDS Sequences

CONSTANTS Threads,       \* the callers
          Dests          \* where a log can be opened: a file, stdout

VARIABLES dest,          \* the open destination, or "closed"
          output,        \* the lines written: where to and by whom
          reply          \* what the latest call of each thread did

vars == <<dest, output, reply>>

Init ==
  /\ dest = "closed"
  /\ output = <<>>
  /\ reply = [t \in Threads |-> "none"]

Answer(t, r) == reply' = [reply EXCEPT ![t] = r]

Open(t, d) ==
  /\ dest' = IF dest = "closed" THEN d ELSE dest
  /\ Answer(t, "ok")
  /\ UNCHANGED output

OpenFails(t) ==
  /\ dest = "closed"
  /\ Answer(t, "error")
  /\ UNCHANGED <<dest, output>>

Log(t) ==
  /\ dest # "closed"
  /\ output' = Append(output, [to |-> dest, by |-> t])
  /\ Answer(t, "logged")
  /\ UNCHANGED dest

Drop(t) ==
  /\ dest = "closed"
  /\ Answer(t, "dropped")
  /\ UNCHANGED <<dest, output>>

Close(t) ==
  /\ dest' = "closed"
  /\ Answer(t, "ok")
  /\ UNCHANGED output

Next ==
  \E t \in Threads :
    \/ \E d \in Dests : Open(t, d)
    \/ OpenFails(t)
    \/ Log(t)
    \/ Drop(t)
    \/ Close(t)

Spec == Init /\ [][Next]_vars
=============================================================================
