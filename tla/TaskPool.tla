------------------------------ MODULE TaskPool ------------------------------
(***************************************************************************)
(* What thread_pool.h promises its caller.  Tasks are submitted, started   *)
(* in the order of submission, and finished by the worker that started     *)
(* them.  Destroying the pool stops it: no task starts afterwards.  A SOFT *)
(* stop happens only when every submitted task has been started; a         *)
(* DRAIN_AND_DROP stop may leave tasks pending, which are dropped; a HARD  *)
(* stop cancels the workers, and only then may a started task be abandoned.*)
(* thread_pool_destroy returns when the pool is stopped and no task is     *)
(* running.                                                                *)
(***************************************************************************)
EXTENDS Naturals, Sequences

CONSTANTS Tasks, SOFT, HARD, DRAIN_AND_DROP

VARIABLES pending,       \* submitted, not started, in order of submission
          running,       \* started, not finished
          finished,      \* finished
          mode,          \* the destroy option in force, or "open"
          stopped,       \* no task may start any more
          returned       \* thread_pool_destroy returned

vars == <<pending, running, finished, mode, stopped, returned>>

Init ==
  /\ pending = <<>>
  /\ running = {}
  /\ finished = {}
  /\ mode = "open"
  /\ stopped = FALSE
  /\ returned = FALSE

Submit(t) ==
  /\ mode = "open"
  /\ t \notin running \cup finished
  /\ \A i \in 1 .. Len(pending) : pending[i] # t
  /\ pending' = Append(pending, t)
  /\ UNCHANGED <<running, finished, mode, stopped, returned>>

Start ==
  /\ ~stopped
  /\ pending # <<>>
  /\ running' = running \cup {Head(pending)}
  /\ pending' = Tail(pending)
  /\ UNCHANGED <<finished, mode, stopped, returned>>

Finish(t) ==
  /\ t \in running
  /\ running' = running \ {t}
  /\ finished' = finished \cup {t}
  /\ UNCHANGED <<pending, mode, stopped, returned>>

Abandon(t) ==
  /\ mode = HARD
  /\ t \in running
  /\ running' = running \ {t}
  /\ UNCHANGED <<pending, finished, mode, stopped, returned>>

Destroy(m) ==
  /\ mode = "open"
  /\ mode' = m
  /\ UNCHANGED <<pending, running, finished, stopped, returned>>

Stop ==
  /\ mode # "open"
  /\ ~stopped
  /\ mode = SOFT => pending = <<>>
  /\ mode = HARD => running = {}
  /\ stopped' = TRUE
  /\ UNCHANGED <<pending, running, finished, mode, returned>>

Return ==
  /\ stopped
  /\ running = {}
  /\ returned' = TRUE
  /\ UNCHANGED <<pending, running, finished, mode, stopped>>

Next ==
  \/ \E t \in Tasks : Submit(t) \/ Finish(t) \/ Abandon(t)
  \/ Start
  \/ \E m \in {SOFT, HARD, DRAIN_AND_DROP} : Destroy(m)
  \/ Stop
  \/ Return

Spec == Init /\ [][Next]_vars
=============================================================================
