------------------------------- MODULE Logger -------------------------------
(***************************************************************************)
(* webserver_project/src/logger/logger.c: logger_init, logger_log_request  *)
(* and logger_destroy, called by any threads at any time and again after a *)
(* destroy.  log_mutex is held over the body of each call; a body is split *)
(* at its library calls (fopen, fprintf, fflush, fclose) and at the writes *)
(* of the two variables the mutex protects.                                *)
(*                                                                         *)
(* A line is its author.  fprintf leaves it in the stream's buffer and     *)
(* fflush or fclose moves it to the file.                                  *)
(***************************************************************************)
EXTENDS Naturals, Sequences

CONSTANTS Threads,       \* the callers
          NULL, STDOUT,  \* values of log_stream that fopen does not return
          MaxCalls       \* bound on the calls of all threads together

UNLOCKED == "unlocked"

ASSUME LoggerAssumption == /\ MaxCalls \in Nat /\ NULL # STDOUT
                           /\ {NULL, STDOUT} \cap Nat = {}
                           /\ UNLOCKED \notin Threads

Files == 1 .. MaxCalls         \* the FILE pointers fopen returns, in order
Dests == {"file", "stdout"}
Ops == {"init_file", "init_stdout", "log", "destroy"}

VARIABLES
  log_mutex,                   \* owner
  log_stream,
  logger_initialized,
  open,                        \* the FILE pointers that are open
  buffer,                      \* the lines not yet flushed, per stream
  output,                      \* the lines written: where to and by whom
  op, pc,                      \* each thread's call and place in it
  reply,                       \* the result of each thread's latest call
  calls, files                 \* calls and fopens so far

state_vars == <<log_stream, logger_initialized, open, buffer, output, files>>
vars == <<log_mutex, state_vars, op, pc, reply, calls>>

Init ==
  /\ log_mutex = UNLOCKED
  /\ log_stream = NULL
  /\ logger_initialized = FALSE
  /\ open = {}
  /\ buffer = [s \in Files \cup {STDOUT} |-> <<>>]
  /\ output = <<>>
  /\ op = [t \in Threads |-> "log"]
  /\ pc = [t \in Threads |-> "idle"]
  /\ reply = [t \in Threads |-> "none"]
  /\ calls = 0
  /\ files = 0

-----------------------------------------------------------------------------
call(t, o) ==
  /\ pc[t] = "idle"
  /\ calls < MaxCalls
  /\ calls' = calls + 1
  /\ op' = [op EXCEPT ![t] = o]
  /\ pc' = [pc EXCEPT ![t] = "lock"]
  /\ UNCHANGED <<log_mutex, state_vars, reply>>

(* pthread_mutex_lock(&log_mutex).                                         *)
CanLock_Always == TRUE

CanLock == log_mutex = UNLOCKED

lock(t) ==
  /\ pc[t] = "lock"
  /\ CanLock
  /\ log_mutex' = t
  /\ pc' = [pc EXCEPT ![t] = "body"]
  /\ UNCHANGED <<state_vars, op, reply, calls>>

(* A call's last step unlocks and returns.                                 *)
Return(t, r) ==
  /\ log_mutex' = UNLOCKED
  /\ reply' = [reply EXCEPT ![t] = r]
  /\ pc' = [pc EXCEPT ![t] = "idle"]
  /\ UNCHANGED <<op, calls>>

(* A step inside the body.                                                 *)
Goto(t, place) ==
  /\ pc' = [pc EXCEPT ![t] = place]
  /\ UNCHANGED <<log_mutex, op, reply, calls>>

In(t, o, place) == op[t] = o /\ pc[t] = place
InInit(t, place) == In(t, "init_file", place) \/ In(t, "init_stdout", place)

-----------------------------------------------------------------------------
(* logger_init.  Prevent double initialization.                            *)
Ready_Never == FALSE

Ready == logger_initialized

init_again(t) ==
  /\ InInit(t, "body")
  /\ Ready
  /\ Return(t, "ok")
  /\ UNCHANGED state_vars

init_open(t) ==
  /\ InInit(t, "body")
  /\ ~Ready
  /\ IF op[t] = "init_stdout"
       THEN log_stream' = STDOUT /\ UNCHANGED <<open, files>>
       ELSE /\ log_stream' = files + 1
            /\ files' = files + 1
            /\ open' = open \cup {files + 1}
  /\ Goto(t, "set")
  /\ UNCHANGED <<logger_initialized, buffer, output>>

(* fopen fails: log_stream is NULL now, and the call returns -1.           *)
init_fails(t) ==
  /\ In(t, "init_file", "body")
  /\ ~Ready
  /\ log_stream' = NULL
  /\ Return(t, "error")
  /\ UNCHANGED <<logger_initialized, open, buffer, output, files>>

init_set(t) ==
  /\ InInit(t, "set")
  /\ logger_initialized' = TRUE
  /\ Return(t, "ok")
  /\ UNCHANGED <<log_stream, open, buffer, output, files>>

-----------------------------------------------------------------------------
(* logger_log_request.                                                     *)
Closed == ~logger_initialized \/ log_stream = NULL

(* The early return unlocks too.                                           *)
MutexAfterDrop_Held == log_mutex

MutexAfterDrop == UNLOCKED

log_drop(t) ==
  /\ In(t, "log", "body")
  /\ Closed
  /\ log_mutex' = MutexAfterDrop
  /\ reply' = [reply EXCEPT ![t] = "dropped"]
  /\ pc' = [pc EXCEPT ![t] = "idle"]
  /\ UNCHANGED <<op, calls, state_vars>>

log_print(t) ==
  /\ In(t, "log", "body")
  /\ ~Closed
  /\ buffer' = [buffer EXCEPT ![log_stream] = Append(@, t)]
  /\ Goto(t, "flush")
  /\ UNCHANGED <<log_stream, logger_initialized, open, output, files>>

Dest(s) == IF s = STDOUT THEN "stdout" ELSE "file"

(* The buffered lines of stream s reach its destination.                   *)
Flushed(s) ==
  output \o [n \in 1 .. Len(buffer[s]) |-> [to |-> Dest(s), by |-> buffer[s][n]]]

(* fflush(log_stream), without which a line waits for a later call.        *)
OutputAfterFlush_Missing == output

OutputAfterFlush == Flushed(log_stream)

log_flush(t) ==
  /\ In(t, "log", "flush")
  /\ output' = OutputAfterFlush
  /\ buffer' = [buffer EXCEPT ![log_stream] = <<>>]
  /\ Return(t, "logged")
  /\ UNCHANGED <<log_stream, logger_initialized, open, files>>

-----------------------------------------------------------------------------
(* logger_destroy.                                                         *)
destroy_not_open(t) ==
  /\ In(t, "destroy", "body")
  /\ ~logger_initialized
  /\ Return(t, "ok")
  /\ UNCHANGED state_vars

(* fclose flushes and closes; stdout is left alone.                        *)
destroy_close(t) ==
  /\ In(t, "destroy", "body")
  /\ logger_initialized
  /\ IF log_stream # STDOUT
       THEN /\ output' = Flushed(log_stream)
            /\ buffer' = [buffer EXCEPT ![log_stream] = <<>>]
            /\ open' = open \ {log_stream}
       ELSE UNCHANGED <<output, buffer, open>>
  /\ Goto(t, "clear")
  /\ UNCHANGED <<log_stream, logger_initialized, files>>

destroy_clear(t) ==
  /\ In(t, "destroy", "clear")
  /\ log_stream' = NULL
  /\ logger_initialized' = FALSE
  /\ Return(t, "ok")
  /\ UNCHANGED <<open, buffer, output, files>>

-----------------------------------------------------------------------------
Body(t) ==
  \/ lock(t)
  \/ init_again(t) \/ init_open(t) \/ init_fails(t) \/ init_set(t)
  \/ log_drop(t) \/ log_print(t) \/ log_flush(t)
  \/ destroy_not_open(t) \/ destroy_close(t) \/ destroy_clear(t)

(* Every call returned and no more are made.                               *)
Finished ==
  /\ calls = MaxCalls
  /\ \A t \in Threads : pc[t] = "idle"
  /\ UNCHANGED vars

Next ==
  \/ \E t \in Threads : Body(t) \/ \E o \in Ops : call(t, o)
  \/ Finished

(* A thread inside a call runs on when it can.                             *)
Fairness == \A t \in Threads : WF_vars(Body(t))

Spec == Init /\ [][Next]_vars
FairSpec == Spec /\ Fairness
-----------------------------------------------------------------------------
TypeOK ==
  /\ log_mutex \in Threads \cup {UNLOCKED}
  /\ log_stream \in Files \cup {NULL, STDOUT}
  /\ logger_initialized \in BOOLEAN
  /\ open \subseteq Files
  /\ buffer \in [Files \cup {STDOUT} -> Seq(Threads)]
  /\ output \in Seq([to : Dests, by : Threads])
  /\ op \in [Threads -> Ops]
  /\ pc \in [Threads -> {"idle", "lock", "body", "set", "flush", "clear"}]
  /\ reply \in [Threads -> {"none", "ok", "error", "logged", "dropped"}]
  /\ calls \in 0 .. MaxCalls /\ files \in 0 .. MaxCalls

(***************************************************************************)
(* logger.c, "Prevent race with destroy()": a thread between its fprintf   *)
(* and its fflush has an open stream under it, whatever the other threads  *)
(* call, and an initialized logger has an open stream.                     *)
(***************************************************************************)
StreamOpen == log_stream = STDOUT \/ log_stream \in open

NoUseAfterClose ==
  /\ \A t \in Threads : In(t, "log", "flush") => StreamOpen
  /\ logger_initialized => StreamOpen \/ \E t \in Threads : In(t, "destroy", "clear")

(***************************************************************************)
(* No FILE is lost: the only open one is log_stream, after double          *)
(* initializations, failed ones and reopening.                             *)
(***************************************************************************)
OneStream == open \subseteq {log_stream}

(***************************************************************************)
(* The logger implements LogSink: the calls take effect one at a time, and *)
(* when logger_log_request returns its line is in the file, whole.         *)
(***************************************************************************)
Abstract == INSTANCE LogSink WITH
              dest <- IF logger_initialized THEN Dest(log_stream) ELSE "closed"

ImplementsLogSink == Abstract!Spec

(***************************************************************************)
(* Every call returns: no path leaves log_mutex locked.                    *)
(***************************************************************************)
CallsReturn == \A t \in Threads : pc[t] = "lock" ~> pc[t] = "idle"
=============================================================================
