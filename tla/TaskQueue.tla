----------------------------- MODULE TaskQueue -----------------------------
(***************************************************************************)
(* What fifo_queue.h promises its caller: a first-in first-out queue of    *)
(* tasks.  push_last adds at the tail, pop_first takes from the head or    *)
(* reports EMPTY_QUEUE, a call with a NULL queue reports INVALID_INPUT and *)
(* changes nothing.  FifoQueue implements it with linked nodes.            *)
(***************************************************************************)
EXTENDS Sequences

CONSTANTS Tasks,         \* the struct ClientTask pointers that can be queued
          NULL,          \* the null pointer
          OK, INVALID_INPUT, EMPTY_QUEUE      \* return codes

VARIABLES contents,      \* the queued tasks, head first
          reply          \* return code and out-parameter of the latest call

vars == <<contents, reply>>

Reply(rc, t) == [rc |-> rc, task |-> t]

Init ==
  /\ contents = <<>>
  /\ reply = Reply(OK, NULL)

Push(t) ==
  /\ contents' = Append(contents, t)
  /\ reply' = Reply(OK, NULL)

Pop ==
  /\ contents # <<>>
  /\ contents' = Tail(contents)
  /\ reply' = Reply(OK, Head(contents))

PopEmpty ==
  /\ contents = <<>>
  /\ reply' = Reply(EMPTY_QUEUE, NULL)
  /\ UNCHANGED contents

Reject ==
  /\ reply' = Reply(INVALID_INPUT, NULL)
  /\ UNCHANGED contents

Next ==
  \/ \E t \in Tasks : Push(t)
  \/ Pop
  \/ PopEmpty
  \/ Reject

Spec == Init /\ [][Next]_vars
=============================================================================
