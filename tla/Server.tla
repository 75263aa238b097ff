------------------------------- MODULE Server -------------------------------
(***************************************************************************)
(* The whole process: main.c, network_init and network_shutdown, composed  *)
(* with the thread pool and the logger, which are used as TaskPool and     *)
(* LogSink promise (ThreadPool and Logger implement them), and with what a *)
(* worker touches while it handles a request: the routing table, the       *)
(* client's response and the log.                                          *)
(*                                                                         *)
(* main passes through its places in order; each place is one call.  The   *)
(* server loop is left when select fails; nothing else ends it, since      *)
(* setup_signals installs no handler that would.                           *)
(***************************************************************************)
EXTENDS Naturals, Sequences, FiniteSets, SequencesExt

CONSTANTS Tasks,                       \* the ClientTasks of the run
          SOFT, HARD, DRAIN_AND_DROP,
          MAIN                         \* the main thread

ASSUME ServerAssumption == MAIN \notin Tasks

Threads == Tasks \cup {MAIN}           \* a worker is named by its task
Dests == {"file"}                      \* main opens server.log

VARIABLES
  pending, running, finished, mode, stopped, returned,   \* the pool: TaskPool
  dest, output, reply,                                   \* the log: LogSink
  mpc,                                 \* the call main is at
  code,                                \* main's return value
  workers,                             \* the pool was initialized
  routes,                              \* the routing table
  server_fd,                           \* the listening socket
  stage,                               \* each task's place in its worker
  answered                             \* tasks that brought a request

pool_vars == <<pending, running, finished, mode, stopped, returned>>
log_vars == <<dest, output, reply>>
main_vars == <<mpc, code, workers, routes, server_fd>>
task_vars == <<stage, answered>>
vars == <<pool_vars, log_vars, main_vars, task_vars>>

Pool == INSTANCE TaskPool
Log == INSTANCE LogSink

Init ==
  /\ Pool!Init
  /\ Log!Init
  /\ mpc = "logger_init" /\ code = 0
  /\ workers = FALSE
  /\ routes = "none"
  /\ server_fd = "none"
  /\ stage = [t \in Tasks |-> "none"]
  /\ answered = {}

-----------------------------------------------------------------------------
(* The calls behind a place, up to main's return.  Each way out of main    *)
(* makes a suffix of the cleanup; a failed network_init has no socket to   *)
(* shut down.                                                              *)
Cleanup_LoggerFirst == <<"network_shutdown", "logger_destroy",
                         "thread_pool_destroy", "dictionary_destructor">>
Cleanup_RoutesFirst == <<"network_shutdown", "dictionary_destructor",
                         "thread_pool_destroy", "logger_destroy">>

Cleanup == <<"network_shutdown", "thread_pool_destroy",
             "dictionary_destructor", "logger_destroy">>

(* The call of the cleanup that follows `place'; main returns behind the   *)
(* last one.                                                               *)
After(place) ==
  LET n == CHOOSE k \in 1 .. Len(Cleanup) : Cleanup[k] = place
  IN  IF n = Len(Cleanup) THEN "exited" ELSE Cleanup[n + 1]

logger_init ==
  /\ mpc = "logger_init"
  /\ \/ Log!Open(MAIN, "file") /\ mpc' = "thread_pool_init" /\ UNCHANGED code
     \/ Log!OpenFails(MAIN) /\ mpc' = "exited" /\ code' = 1
  /\ UNCHANGED <<pool_vars, task_vars, workers, routes, server_fd>>

thread_pool_init ==
  /\ mpc = "thread_pool_init"
  /\ \/ workers' = TRUE /\ mpc' = "routes" /\ UNCHANGED code
     \/ code' = 1 /\ mpc' = "logger_destroy" /\ UNCHANGED workers
  /\ UNCHANGED <<pool_vars, log_vars, task_vars, routes, server_fd>>

(* dictionary_constructor and the insert of "*".                           *)
register_routes ==
  /\ mpc = "routes"
  /\ routes' = "live"
  /\ mpc' = "socket"
  /\ UNCHANGED <<pool_vars, log_vars, task_vars, code, workers, server_fd>>

(* network_init: the socket is created, then set up in four calls.         *)
Setup == <<"setsockopt", "make_nonblocking", "bind", "listen">>

network_init_socket ==
  /\ mpc = "socket"
  /\ \/ server_fd' = "open" /\ mpc' = "setsockopt" /\ UNCHANGED code
     \/ code' = 1 /\ mpc' = "thread_pool_destroy" /\ UNCHANGED server_fd
  /\ UNCHANGED <<pool_vars, log_vars, task_vars, workers, routes>>

(* A call that fails closes the socket.                                    *)
FdAfterSetupFails_Kept == server_fd

FdAfterSetupFails == "closed"

network_init_setup ==
  \E k \in 1 .. Len(Setup) :
    /\ mpc = Setup[k]
    /\ \/ /\ mpc' = IF k = Len(Setup) THEN "network_run_server" ELSE Setup[k + 1]
          /\ UNCHANGED <<code, server_fd>>
       \/ /\ server_fd' = FdAfterSetupFails
          /\ code' = 1
          /\ mpc' = "thread_pool_destroy"
    /\ UNCHANGED <<pool_vars, log_vars, task_vars, workers, routes>>

(* The server loop hands tasks to the pool until select fails.             *)
network_run_server(t) ==
  /\ mpc = "network_run_server"
  /\ stage[t] = "none"
  /\ Pool!Submit(t)
  /\ stage' = [stage EXCEPT ![t] = "queued"]
  /\ UNCHANGED <<log_vars, main_vars, answered>>

select_fails ==
  /\ mpc = "network_run_server"
  /\ mpc' = Cleanup[1]
  /\ UNCHANGED <<pool_vars, log_vars, task_vars, code, workers, routes, server_fd>>

network_shutdown ==
  /\ mpc = "network_shutdown"
  /\ server_fd' = "closed"
  /\ mpc' = After(mpc)
  /\ UNCHANGED <<pool_vars, log_vars, task_vars, code, workers, routes>>

(* thread_pool_destroy(&pool, THREAD_POOL_DESTROY_SOFT): the call, the     *)
(* pool's own stop, and the return.                                        *)
thread_pool_destroy ==
  /\ mpc = "thread_pool_destroy"
  /\ \/ Pool!Destroy(SOFT) /\ UNCHANGED mpc
     \/ Pool!Stop /\ UNCHANGED mpc
     \/ Pool!Return /\ mpc' = After(mpc)
  /\ UNCHANGED <<log_vars, task_vars, code, workers, routes, server_fd>>

dictionary_destructor ==
  /\ mpc = "dictionary_destructor"
  /\ routes' = "freed"
  /\ mpc' = After(mpc)
  /\ UNCHANGED <<pool_vars, log_vars, task_vars, code, workers, server_fd>>

logger_destroy ==
  /\ mpc = "logger_destroy"
  /\ Log!Close(MAIN)
  /\ mpc' = After(mpc)
  /\ UNCHANGED <<pool_vars, task_vars, code, workers, routes, server_fd>>

-----------------------------------------------------------------------------
(* What a worker does with a task, outside the reactor's business: receive *)
(* (which may bring no complete request), look the route up, run           *)
(* handle_filesystem_request, which responds and then logs, and end.       *)
Enter(t, s) == stage' = [stage EXCEPT ![t] = s]

worker_start ==
  /\ workers
  /\ pending # <<>>
  /\ Pool!Start
  /\ Enter(Head(pending), "recv")
  /\ UNCHANGED <<log_vars, main_vars, answered>>

worker_recv(t) ==
  /\ stage[t] = "recv"
  /\ Enter(t, "route") \/ Enter(t, "end")
  /\ UNCHANGED <<pool_vars, log_vars, main_vars, answered>>

worker_route(t) ==
  /\ stage[t] = "route"
  /\ Enter(t, "handler")
  /\ UNCHANGED <<pool_vars, log_vars, main_vars, answered>>

worker_respond(t) ==
  /\ stage[t] = "handler"
  /\ answered' = answered \cup {t}
  /\ Enter(t, "log")
  /\ UNCHANGED <<pool_vars, log_vars, main_vars>>

worker_log(t) ==
  /\ stage[t] = "log"
  /\ Log!Log(t) \/ Log!Drop(t)
  /\ Enter(t, "end")
  /\ UNCHANGED <<pool_vars, main_vars, answered>>

worker_finish(t) ==
  /\ stage[t] = "end"
  /\ Pool!Finish(t)
  /\ Enter(t, "done")
  /\ UNCHANGED <<log_vars, main_vars, answered>>

-----------------------------------------------------------------------------
Main ==
  \/ logger_init \/ thread_pool_init \/ register_routes
  \/ network_init_socket \/ network_init_setup
  \/ \E t \in Tasks : network_run_server(t)
  \/ select_fails
  \/ network_shutdown \/ thread_pool_destroy
  \/ dictionary_destructor \/ logger_destroy

Worker ==
  \/ worker_start
  \/ \E t \in Tasks :
       \/ worker_recv(t) \/ worker_route(t) \/ worker_respond(t)
       \/ worker_log(t) \/ worker_finish(t)

(* main returned, which ends the process and every thread in it.           *)
exited == mpc = "exited" /\ UNCHANGED vars

Next ==
  \/ mpc # "exited" /\ (Main \/ Worker)
  \/ exited

Spec == Init /\ [][Next]_vars
-----------------------------------------------------------------------------
TypeOK ==
  /\ mpc \in {"logger_init", "thread_pool_init", "routes", "socket",
              "network_run_server", "exited"} \cup Range(Setup) \cup Range(Cleanup)
  /\ code \in {0, 1}
  /\ workers \in BOOLEAN
  /\ routes \in {"none", "live", "freed"}
  /\ server_fd \in {"none", "open", "closed"}
  /\ stage \in [Tasks -> {"none", "queued", "recv", "route", "handler", "log",
                          "end", "done"}]
  /\ answered \subseteq Tasks

(***************************************************************************)
(* A worker that looks a route up or runs its handler finds the routing    *)
(* table alive: main frees it only when thread_pool_destroy has joined     *)
(* every worker.                                                           *)
(***************************************************************************)
RoutesAlive ==
  \A t \in Tasks : stage[t] \in {"route", "handler"} => routes = "live"

(***************************************************************************)
(* No request is missing from server.log: when main returns every answered *)
(* request has exactly one line, and main's cleanup closed the log behind  *)
(* the last of them.                                                       *)
(***************************************************************************)
EveryRequestLogged ==
  /\ \A t \in Tasks : reply[t] # "dropped"
  /\ mpc = "exited" => \A t \in answered :
       Cardinality({n \in 1 .. Len(output) : output[n].by = t}) = 1

(***************************************************************************)
(* Whichever call of main fails, and after the server loop ended, main     *)
(* returns with everything released: the listening socket, the workers     *)
(* with nothing left in the pool, the routing table and the log.           *)
(***************************************************************************)
CleanExit ==
  mpc = "exited" =>
    /\ server_fd # "open"
    /\ workers => returned /\ running = {} /\ pending = <<>>
    /\ routes # "live"
    /\ dest = "closed"
=============================================================================
