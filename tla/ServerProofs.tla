---------------------------- MODULE ServerProofs ----------------------------
(***************************************************************************)
(* The whole process, proved for every set of tasks: the order of main's   *)
(* cleanup against workers that are still running.                         *)
(***************************************************************************)
EXTENDS Server, SequenceTheorems, FiniteSetTheorems, TLAPS

-----------------------------------------------------------------------------
(* The inductive invariant.                                                *)

Working == {"recv", "route", "handler", "log", "end"}
Stages == {"none", "queued", "done"} \cup Working
SetupPlaces == {"setsockopt", "make_nonblocking", "bind", "listen"}

(* The places of main where workers may have tasks, where the listening    *)
(* socket is open, and where the routing table is alive.                   *)
ServingPlaces == {"network_run_server", "network_shutdown", "thread_pool_destroy"}
ListeningPlaces == SetupPlaces \cup {"network_run_server", "network_shutdown"}
RoutedPlaces == SetupPlaces \cup ServingPlaces \cup {"socket", "dictionary_destructor"}
OtherPlaces == {"logger_init", "thread_pool_init", "routes", "logger_destroy", "exited"}

Types ==
  /\ mpc \in RoutedPlaces \cup OtherPlaces
  /\ stage \in [Tasks -> Stages]
  /\ pending \in Seq(Tasks)
  /\ output \in Seq([to : Dests, by : Threads])
  /\ DOMAIN reply = Threads /\ answered \subseteq Tasks

(* What main has set up, and what it has released, by the place it is at.  *)
MainInv ==
  /\ dest = IF mpc \in {"logger_init", "exited"} THEN "closed" ELSE "file"
  /\ server_fd = "open" => mpc \in ListeningPlaces
  /\ routes = "live" <=> mpc \in RoutedPlaces
  /\ workers => mpc \notin {"logger_init", "thread_pool_init"}
  /\ workers /\ mpc \in {"dictionary_destructor", "logger_destroy", "exited"} => returned

(* main destroys the pool softly: it stops when nothing is pending.        *)
PoolInv ==
  /\ mode \in {"open", SOFT}
  /\ stopped => mode # "open" /\ pending = <<>>
  /\ returned => stopped
  /\ mpc \notin ServingPlaces => pending = <<>> /\ running = {}

(* A task's place agrees with the pool.                                    *)
StageInv ==
  /\ \A t \in Tasks : stage[t] \in Working => t \in running
  /\ \A n \in 1 .. Len(pending) : stage[pending[n]] = "queued"
  /\ \A m, n \in 1 .. Len(pending) : pending[m] = pending[n] => m = n

(* The lines of a task, by its place.                                      *)
LinesOf(t) == {n \in 1 .. Len(output) : output[n].by = t}
LoggedBy(t) ==
  /\ reply[t] # "dropped"
  /\ stage[t] \in {"none", "queued", "recv", "route", "handler"} => t \notin answered
  /\ stage[t] = "log" => t \in answered
  /\ IF t \in answered /\ stage[t] # "log"
       THEN \E n \in 1 .. Len(output) : LinesOf(t) = {n}
       ELSE LinesOf(t) = {}
LogInv == \A t \in Tasks : LoggedBy(t)

Inv == Types /\ MainInv /\ PoolInv /\ StageInv /\ LogInv
-----------------------------------------------------------------------------
(* main's order of calls.                                                  *)

LEMMA AfterPlace ==
  ASSUME NEW place, NEW k \in 1 .. 4, Cleanup[k] = place
  PROVE  After(place) = IF k = 4 THEN "exited" ELSE Cleanup[k + 1]
<1>1. /\ Len(Cleanup) = 4 /\ Cleanup[1] = "network_shutdown"
      /\ Cleanup[2] = "thread_pool_destroy" /\ Cleanup[3] = "dictionary_destructor"
      /\ Cleanup[4] = "logger_destroy"
  BY DEF Cleanup
<1> DEFINE n == CHOOSE m \in 1 .. Len(Cleanup) : Cleanup[m] = place
<1>2. \E m \in 1 .. Len(Cleanup) : Cleanup[m] = place
  BY <1>1
<1>3. n \in 1 .. Len(Cleanup) /\ Cleanup[n] = place
  BY <1>2, Zenon
<1> HIDE DEF n
<1>4. n = k
  <2>1. \/ n = 1 \/ n = 2 \/ n = 3 \/ n = 4
    BY <1>1, <1>3
  <2>2. \/ k = 1 \/ k = 2 \/ k = 3 \/ k = 4
    OBVIOUS
  <2> QED
    BY <1>1, <1>3, <2>1, <2>2
<1>5. After(place) = IF n = Len(Cleanup) THEN "exited" ELSE Cleanup[n + 1]
  BY Zenon DEF After, n
<1> QED
  BY <1>1, <1>4, <1>5

LEMMA CleanupOrder ==
  /\ Cleanup[1] = "network_shutdown"
  /\ After("network_shutdown") = "thread_pool_destroy"
  /\ After("thread_pool_destroy") = "dictionary_destructor"
  /\ After("dictionary_destructor") = "logger_destroy"
  /\ After("logger_destroy") = "exited"
<1>1. /\ Cleanup[1] = "network_shutdown" /\ Cleanup[2] = "thread_pool_destroy"
      /\ Cleanup[3] = "dictionary_destructor" /\ Cleanup[4] = "logger_destroy"
  BY DEF Cleanup
<1>2. /\ After("network_shutdown") = Cleanup[2] /\ After("thread_pool_destroy") = Cleanup[3]
      /\ After("dictionary_destructor") = Cleanup[4] /\ After("logger_destroy") = "exited"
  BY <1>1, AfterPlace
<1> QED
  BY <1>1, <1>2

LEMMA SetupOrder ==
  /\ Len(Setup) = 4
  /\ \A k \in 1 .. 4 : Setup[k] \in SetupPlaces
  /\ \A k \in 1 .. 4 : k # 4 => Setup[k + 1] \in SetupPlaces
<1>1. /\ Len(Setup) = 4 /\ Setup[1] = "setsockopt" /\ Setup[2] = "make_nonblocking"
      /\ Setup[3] = "bind" /\ Setup[4] = "listen"
  BY DEF Setup
<1>2. \A k \in 1 .. 4 : k = 1 \/ k = 2 \/ k = 3 \/ k = 4
  OBVIOUS
<1>3. \A k \in 1 .. 4 : Setup[k] \in SetupPlaces
  BY <1>1, <1>2 DEF SetupPlaces
<1>4. \A k \in 1 .. 4 : k # 4 => k + 1 \in 1 .. 4
  OBVIOUS
<1> QED
  BY <1>1, <1>3, <1>4

-----------------------------------------------------------------------------
(* The steps of main.                                                      *)

(* A step that no task notices.                                            *)
LEMMA TaskFrame ==
  ASSUME Inv, UNCHANGED <<pending, running, stage, answered, output>>,
         \A t \in Tasks : reply'[t] = reply[t], DOMAIN reply' = Threads,
         mpc' \in RoutedPlaces \cup OtherPlaces
  PROVE  Types' /\ StageInv' /\ LogInv'
<1>1. Types'
  BY DEF Inv, Types
<1>2. StageInv'
  BY DEF Inv, StageInv
<1>3. LogInv'
  BY DEF Inv, LogInv, LoggedBy, LinesOf
<1> QED
  BY <1>1, <1>2, <1>3

(* A step that moves main among places outside the pool's business.        *)
LEMMA PoolFrame ==
  ASSUME Inv, UNCHANGED <<pending, running, mode, stopped, returned>>,
         mpc' \in ServingPlaces \/ mpc \notin ServingPlaces
  PROVE  PoolInv'
  BY DEF Inv, PoolInv

LEMMA SetUpKeeps ==
  ASSUME Inv, UNCHANGED <<pool_vars, log_vars, task_vars>>,
         mpc' \in RoutedPlaces \cup OtherPlaces,
         mpc' \in ServingPlaces \/ mpc \notin ServingPlaces, MainInv'
  PROVE  Inv'
<1>1. /\ UNCHANGED <<pending, running, mode, stopped, returned>>
      /\ UNCHANGED <<stage, answered, output, reply>>
  BY DEF pool_vars, log_vars, task_vars
<1>2. DOMAIN reply' = Threads
  BY <1>1 DEF Inv, Types
<1> QED
  BY <1>1, <1>2, TaskFrame, PoolFrame DEF Inv

LEMMA PoolInitKeeps == ASSUME Inv, thread_pool_init PROVE Inv'
<1>1. /\ mpc = "thread_pool_init"
      /\ \/ mpc' = "routes"
         \/ mpc' = "logger_destroy" /\ workers' = workers
      /\ UNCHANGED <<pool_vars, log_vars, task_vars>> /\ UNCHANGED <<routes, server_fd>>
  BY DEF thread_pool_init
<1>2. UNCHANGED <<dest, returned>>
  BY <1>1 DEF pool_vars, log_vars
<1>3. MainInv'
  BY <1>1, <1>2 DEF Inv, MainInv, RoutedPlaces, ListeningPlaces, ServingPlaces, SetupPlaces
<1> QED
  BY <1>1, <1>3, SetUpKeeps DEF OtherPlaces, ServingPlaces

LEMMA RegisterKeeps == ASSUME Inv, register_routes PROVE Inv'
<1>1. /\ mpc = "routes" /\ mpc' = "socket" /\ routes' = "live"
      /\ UNCHANGED <<pool_vars, log_vars, task_vars>> /\ UNCHANGED <<workers, server_fd>>
  BY DEF register_routes
<1>2. UNCHANGED <<dest, returned>>
  BY <1>1 DEF pool_vars, log_vars
<1>3. MainInv'
  BY <1>1, <1>2 DEF Inv, MainInv, RoutedPlaces, ListeningPlaces, ServingPlaces, SetupPlaces
<1> QED
  BY <1>1, <1>3, SetUpKeeps DEF RoutedPlaces, ServingPlaces

LEMMA SocketKeeps == ASSUME Inv, network_init_socket PROVE Inv'
<1>1. /\ mpc = "socket"
      /\ \/ mpc' = "setsockopt"
         \/ mpc' = "thread_pool_destroy" /\ server_fd' = server_fd
      /\ UNCHANGED <<pool_vars, log_vars, task_vars>> /\ UNCHANGED <<workers, routes>>
  BY DEF network_init_socket
<1>2. UNCHANGED <<dest, returned>>
  BY <1>1 DEF pool_vars, log_vars
<1>3. MainInv'
  BY <1>1, <1>2 DEF Inv, MainInv, RoutedPlaces, ListeningPlaces, ServingPlaces, SetupPlaces
<1> QED
  BY <1>1, <1>3, SetUpKeeps DEF RoutedPlaces, ServingPlaces, SetupPlaces

LEMMA SetupKeeps == ASSUME Inv, network_init_setup PROVE Inv'
<1>1. PICK k \in 1 .. 4 :
        /\ mpc = Setup[k]
        /\ \/ /\ mpc' = IF k = 4 THEN "network_run_server" ELSE Setup[k + 1]
              /\ server_fd' = server_fd
           \/ server_fd' = "closed" /\ mpc' = "thread_pool_destroy"
        /\ UNCHANGED <<pool_vars, log_vars, task_vars>> /\ UNCHANGED <<workers, routes>>
  BY SetupOrder DEF network_init_setup, FdAfterSetupFails
<1>2. UNCHANGED <<dest, returned>>
  BY <1>1 DEF pool_vars, log_vars
<1>3. /\ mpc \in SetupPlaces
      /\ \/ mpc' \in SetupPlaces \cup {"network_run_server"} /\ server_fd' = server_fd
         \/ mpc' = "thread_pool_destroy" /\ server_fd' = "closed"
  BY <1>1, SetupOrder
<1>4. MainInv'
  BY <1>1, <1>2, <1>3
     DEF Inv, MainInv, RoutedPlaces, ListeningPlaces, ServingPlaces, SetupPlaces
<1> QED
  BY <1>1, <1>3, <1>4, SetUpKeeps DEF RoutedPlaces, ServingPlaces, SetupPlaces

LEMMA SelectFailsKeeps == ASSUME Inv, select_fails PROVE Inv'
<1>1. /\ mpc = "network_run_server" /\ mpc' = "network_shutdown"
      /\ UNCHANGED <<pool_vars, log_vars, task_vars>>
      /\ UNCHANGED <<workers, routes, server_fd>>
  BY CleanupOrder DEF select_fails
<1>2. UNCHANGED <<dest, returned>>
  BY <1>1 DEF pool_vars, log_vars
<1>3. MainInv'
  BY <1>1, <1>2 DEF Inv, MainInv, RoutedPlaces, ListeningPlaces, ServingPlaces, SetupPlaces
<1> QED
  BY <1>1, <1>3, SetUpKeeps DEF RoutedPlaces, ServingPlaces

LEMMA ShutdownKeeps == ASSUME Inv, network_shutdown PROVE Inv'
<1>1. /\ mpc = "network_shutdown" /\ mpc' = "thread_pool_destroy" /\ server_fd' = "closed"
      /\ UNCHANGED <<pool_vars, log_vars, task_vars>> /\ UNCHANGED <<workers, routes>>
  BY CleanupOrder DEF network_shutdown
<1>2. UNCHANGED <<dest, returned>>
  BY <1>1 DEF pool_vars, log_vars
<1>3. MainInv'
  BY <1>1, <1>2 DEF Inv, MainInv, RoutedPlaces, ListeningPlaces, ServingPlaces, SetupPlaces
<1> QED
  BY <1>1, <1>3, SetUpKeeps DEF RoutedPlaces, ServingPlaces

LEMMA DictionaryKeeps == ASSUME Inv, dictionary_destructor PROVE Inv'
<1>1. /\ mpc = "dictionary_destructor" /\ mpc' = "logger_destroy" /\ routes' = "freed"
      /\ UNCHANGED <<pool_vars, log_vars, task_vars>> /\ UNCHANGED <<workers, server_fd>>
  BY CleanupOrder DEF dictionary_destructor
<1>2. UNCHANGED <<dest, returned>>
  BY <1>1 DEF pool_vars, log_vars
<1>3. MainInv'
  BY <1>1, <1>2 DEF Inv, MainInv, RoutedPlaces, ListeningPlaces, ServingPlaces, SetupPlaces
<1> QED
  BY <1>1, <1>3, SetUpKeeps DEF OtherPlaces, ServingPlaces

(* main's own calls of the logger answer main only.                        *)
LEMMA AnswerMain ==
  ASSUME Inv, NEW r, Log!Answer(MAIN, r)
  PROVE  DOMAIN reply' = Threads /\ \A t \in Tasks : reply'[t] = reply[t]
<1>1. reply' = [reply EXCEPT ![MAIN] = r]
  BY DEF Log!Answer
<1> QED
  BY <1>1, ServerAssumption DEF Inv, Types, Threads

LEMMA LoggerInitKeeps == ASSUME Inv, logger_init PROVE Inv'
<1>1. /\ mpc = "logger_init" /\ UNCHANGED <<pool_vars, task_vars>>
      /\ \/ Log!Open(MAIN, "file") /\ mpc' = "thread_pool_init"
         \/ Log!OpenFails(MAIN) /\ mpc' = "exited"
      /\ UNCHANGED <<workers, routes, server_fd>>
  BY DEF logger_init
<1>2. dest = "closed"
  BY <1>1 DEF Inv, MainInv
<1>3. /\ UNCHANGED <<pending, running, mode, stopped, returned>>
      /\ UNCHANGED <<stage, answered>>
  BY <1>1 DEF pool_vars, task_vars
<1>4. /\ output' = output
      /\ \/ dest' = "file" /\ mpc' = "thread_pool_init"
         \/ dest' = "closed" /\ mpc' = "exited"
      /\ Log!Answer(MAIN, "ok") \/ Log!Answer(MAIN, "error")
  BY <1>1, <1>2 DEF Log!Open, Log!OpenFails
<1>5. DOMAIN reply' = Threads /\ \A t \in Tasks : reply'[t] = reply[t]
  BY <1>4, AnswerMain
<1>6. mpc' \in RoutedPlaces \cup OtherPlaces /\ mpc \notin ServingPlaces
  BY <1>1, <1>4 DEF OtherPlaces, ServingPlaces
<1>7. MainInv'
  BY <1>1, <1>3, <1>4
     DEF Inv, MainInv, RoutedPlaces, ListeningPlaces, ServingPlaces, SetupPlaces
<1> QED
  BY <1>3, <1>4, <1>5, <1>6, <1>7, TaskFrame, PoolFrame DEF Inv

LEMMA LoggerDestroyKeeps == ASSUME Inv, logger_destroy PROVE Inv'
<1>1. /\ mpc = "logger_destroy" /\ mpc' = "exited" /\ Log!Close(MAIN)
      /\ UNCHANGED <<pool_vars, task_vars>> /\ UNCHANGED <<workers, routes, server_fd>>
  BY CleanupOrder DEF logger_destroy
<1>2. /\ UNCHANGED <<pending, running, mode, stopped, returned>>
      /\ UNCHANGED <<stage, answered>>
  BY <1>1 DEF pool_vars, task_vars
<1>3. output' = output /\ dest' = "closed" /\ Log!Answer(MAIN, "ok")
  BY <1>1 DEF Log!Close
<1>4. DOMAIN reply' = Threads /\ \A t \in Tasks : reply'[t] = reply[t]
  BY <1>3, AnswerMain
<1>5. mpc' \in RoutedPlaces \cup OtherPlaces /\ mpc \notin ServingPlaces
  BY <1>1 DEF OtherPlaces, ServingPlaces
<1>6. MainInv'
  BY <1>1, <1>2, <1>3
     DEF Inv, MainInv, RoutedPlaces, ListeningPlaces, ServingPlaces, SetupPlaces
<1> QED
  BY <1>2, <1>3, <1>4, <1>5, <1>6, TaskFrame, PoolFrame DEF Inv

LEMMA PoolDestroyKeeps == ASSUME Inv, thread_pool_destroy PROVE Inv'
<1>1. /\ mpc = "thread_pool_destroy"
      /\ \/ Pool!Destroy(SOFT) /\ mpc' = mpc
         \/ Pool!Stop /\ mpc' = mpc
         \/ Pool!Return /\ mpc' = "dictionary_destructor"
      /\ UNCHANGED <<log_vars, task_vars>> /\ UNCHANGED <<workers, routes, server_fd>>
  BY CleanupOrder DEF thread_pool_destroy
<1>2. UNCHANGED <<pending, running>>
  BY <1>1 DEF Pool!Destroy, Pool!Stop, Pool!Return
<1>3. UNCHANGED <<dest, output, reply, stage, answered>>
  BY <1>1 DEF log_vars, task_vars
<1>4. Types' /\ StageInv' /\ LogInv'
  <2>1. mpc' \in RoutedPlaces \cup OtherPlaces
    BY <1>1 DEF RoutedPlaces, ServingPlaces
  <2>2. DOMAIN reply' = Threads
    BY <1>3 DEF Inv, Types
  <2> QED
    BY <1>2, <1>3, <2>1, <2>2, TaskFrame
<1>5. PoolInv' /\ (mpc' = mpc \/ (mpc' = "dictionary_destructor" /\ returned'))
  <2>1. CASE Pool!Destroy(SOFT) /\ mpc' = mpc
    BY <1>1, <2>1 DEF Pool!Destroy, Inv, PoolInv
  <2>2. CASE Pool!Stop /\ mpc' = mpc
    BY <1>1, <2>2 DEF Pool!Stop, Inv, PoolInv
  <2>3. CASE Pool!Return /\ mpc' = "dictionary_destructor"
    BY <1>1, <2>3 DEF Pool!Return, Inv, PoolInv
  <2> QED
    BY <1>1, <2>1, <2>2, <2>3
<1>6. MainInv'
  BY <1>1, <1>3, <1>5
     DEF Inv, MainInv, RoutedPlaces, ListeningPlaces, ServingPlaces, SetupPlaces
<1> QED
  BY <1>4, <1>5, <1>6 DEF Inv
-----------------------------------------------------------------------------
(* The steps of tasks: submitted by main, then taken on by a worker.       *)

LEMMA RunKeeps == ASSUME Inv, NEW t \in Tasks, network_run_server(t) PROVE Inv'
<1>1. /\ mpc = "network_run_server" /\ stage[t] = "none"
      /\ pending' = Append(pending, t) /\ mode = "open"
      /\ stage' = [stage EXCEPT ![t] = "queued"]
      /\ UNCHANGED <<running, mode, stopped, returned>>
      /\ UNCHANGED <<dest, output, reply, mpc, workers, routes, server_fd, answered>>
  BY DEF network_run_server, Pool!Submit, log_vars, main_vars
<1>2. pending \in Seq(Tasks) /\ stage \in [Tasks -> Stages]
  BY DEF Inv, Types
<1>3. /\ pending' \in Seq(Tasks) /\ Len(pending') = Len(pending) + 1 /\ Len(pending) \in Nat
      /\ pending'[Len(pending) + 1] = t /\ \A n \in 1 .. Len(pending) : pending'[n] = pending[n]
  BY <1>1, <1>2, AppendProperties, LenProperties
<1>4. stage' \in [Tasks -> Stages] /\ stage'[t] = "queued"
      /\ \A u \in Tasks : u # t => stage'[u] = stage[u]
  BY <1>1, <1>2 DEF Stages
<1>5. \A n \in 1 .. Len(pending) : pending[n] \in Tasks /\ stage[pending[n]] = "queued"
  BY <1>2, ElementOfSeq DEF Inv, StageInv
<1>6. \A n \in 1 .. Len(pending') :
        \/ n = Len(pending) + 1 /\ pending'[n] = t
        \/ n \in 1 .. Len(pending) /\ pending'[n] = pending[n] /\ pending[n] # t
  BY <1>1, <1>3, <1>5
<1>7. Types' /\ MainInv'
  BY <1>1, <1>3, <1>4 DEF Inv, Types, MainInv
<1>8. PoolInv'
  BY <1>1 DEF Inv, PoolInv, ServingPlaces
<1>9. StageInv'
  <2>1. \A u \in Tasks : stage'[u] \in Working => u \in running'
    BY <1>1, <1>4 DEF Inv, StageInv, Working
  <2>2. \A n \in 1 .. Len(pending') : stage'[pending'[n]] = "queued"
    BY <1>4, <1>5, <1>6
  <2>3. \A m, n \in 1 .. Len(pending') : pending'[m] = pending'[n] => m = n
    BY <1>6 DEF Inv, StageInv
  <2> QED
    BY <2>1, <2>2, <2>3 DEF StageInv
<1>10. LogInv'
  BY <1>1, <1>4 DEF Inv, LogInv, LoggedBy, LinesOf
<1> QED
  BY <1>7, <1>8, <1>9, <1>10 DEF Inv

LEMMA StartKeeps == ASSUME Inv, worker_start PROVE Inv'
<1> DEFINE t == Head(pending)
<1>1. /\ pending # <<>> /\ ~stopped /\ running' = running \cup {t} /\ pending' = Tail(pending)
      /\ stage' = [stage EXCEPT ![t] = "recv"] /\ UNCHANGED <<mode, stopped, returned>>
      /\ UNCHANGED <<dest, output, reply, mpc, workers, routes, server_fd, answered>>
  BY DEF worker_start, Pool!Start, Enter, log_vars, main_vars
<1>2. pending \in Seq(Tasks) /\ stage \in [Tasks -> Stages]
  BY DEF Inv, Types
<1>3. /\ t \in Tasks /\ t = pending[1] /\ pending' \in Seq(Tasks)
      /\ Len(pending) \in Nat \ {0} /\ Len(pending') = Len(pending) - 1
      /\ \A n \in 1 .. Len(pending) - 1 : pending'[n] = pending[n + 1]
  BY <1>1, <1>2, HeadTailProperties, EmptySeq
<1> HIDE DEF t
<1>4. /\ stage' \in [Tasks -> Stages] /\ stage'[t] = "recv"
      /\ \A u \in Tasks : u # t => stage'[u] = stage[u]
  BY <1>1, <1>2, <1>3 DEF Stages, Working
<1>5. 1 \in 1 .. Len(pending) /\ stage[t] = "queued"
  BY <1>3 DEF Inv, StageInv
<1>6. \A n \in 1 .. Len(pending') :
        /\ n + 1 \in 1 .. Len(pending) /\ pending'[n] = pending[n + 1]
        /\ pending'[n] \in Tasks /\ pending'[n] # t /\ stage[pending'[n]] = "queued"
  <2> TAKE n \in 1 .. Len(pending')
  <2>1. n + 1 \in 1 .. Len(pending) /\ pending'[n] = pending[n + 1] /\ n + 1 # 1
    BY <1>3
  <2>2. pending[n + 1] \in Tasks
    BY <1>2, <2>1, ElementOfSeq
  <2>3. pending[n + 1] # pending[1] /\ stage[pending[n + 1]] = "queued"
    BY <1>5, <2>1 DEF Inv, StageInv
  <2> QED
    BY <1>3, <2>1, <2>2, <2>3
<1>7. Types' /\ MainInv'
  BY <1>1, <1>3, <1>4 DEF Inv, Types, MainInv
<1>8. PoolInv'
  BY <1>1 DEF Inv, PoolInv
<1>9. StageInv'
  <2>1. \A u \in Tasks : stage'[u] \in Working => u \in running'
    BY <1>1, <1>4 DEF Inv, StageInv
  <2>2. \A n \in 1 .. Len(pending') : stage'[pending'[n]] = "queued"
    BY <1>4, <1>6
  <2>3. ASSUME NEW m \in 1 .. Len(pending'), NEW n \in 1 .. Len(pending'),
               pending'[m] = pending'[n]
        PROVE  m = n
    <3>1. m + 1 = n + 1
      BY <1>6, <2>3 DEF Inv, StageInv
    <3> QED
      BY <3>1
  <2> QED
    BY <2>1, <2>2, <2>3 DEF StageInv
<1>10. LogInv'
  BY <1>1, <1>4, <1>5 DEF Inv, LogInv, LoggedBy, LinesOf
<1> QED
  BY <1>7, <1>8, <1>9, <1>10 DEF Inv

(* A step of the worker that has task t, inside its work.                  *)
LEMMA WorkingFacts ==
  ASSUME Inv, NEW t \in Tasks, stage[t] \in Working
  PROVE  /\ t \in running /\ mpc \in ServingPlaces /\ routes = "live" /\ dest = "file"
         /\ \A n \in 1 .. Len(pending) : pending[n] \in Tasks /\ pending[n] # t
<1>1. t \in running
  BY DEF Inv, StageInv
<1>2. mpc \in ServingPlaces
  BY <1>1 DEF Inv, PoolInv
<1>3. routes = "live" /\ dest = "file"
  BY <1>2 DEF Inv, MainInv, RoutedPlaces, ServingPlaces
<1>4. "queued" \notin Working
  BY DEF Working
<1>5. \A n \in 1 .. Len(pending) : pending[n] \in Tasks /\ pending[n] # t
  BY <1>4, ElementOfSeq DEF Inv, Types, StageInv
<1> QED
  BY <1>1, <1>2, <1>3, <1>5

LEMMA EnterKeeps ==
  ASSUME Inv, NEW t \in Tasks, NEW s \in Working, stage[t] \in Working, Enter(t, s),
         UNCHANGED <<pool_vars, main_vars, dest>>
  PROVE  /\ MainInv' /\ PoolInv' /\ StageInv'
         /\ stage' \in [Tasks -> Stages] /\ stage'[t] = s
         /\ \A u \in Tasks : u # t => stage'[u] = stage[u]
         /\ UNCHANGED <<pending, mpc>>
<1>1. /\ UNCHANGED <<pending, running, mode, stopped, returned>>
      /\ UNCHANGED <<mpc, workers, routes, server_fd, dest>>
  BY DEF pool_vars, main_vars
<1>2. /\ stage' \in [Tasks -> Stages] /\ stage'[t] = s
      /\ \A u \in Tasks : u # t => stage'[u] = stage[u]
  BY DEF Inv, Types, Enter, Stages
<1>3. MainInv' /\ PoolInv'
  BY <1>1 DEF Inv, MainInv, PoolInv
<1>4. StageInv'
  BY <1>1, <1>2, WorkingFacts DEF Inv, StageInv
<1> QED
  BY <1>1, <1>2, <1>3, <1>4

LEMMA RecvKeeps ==
  ASSUME Inv, NEW t \in Tasks, worker_recv(t) \/ worker_route(t)
  PROVE  Inv'
<1>1. PICK s \in {"route", "handler", "end"} : Enter(t, s)
  BY DEF worker_recv, worker_route
<1>2. /\ stage[t] \in {"recv", "route"} /\ UNCHANGED <<pool_vars, main_vars>>
      /\ UNCHANGED <<dest, output, reply, answered>>
  BY DEF worker_recv, worker_route, log_vars
<1>3. /\ MainInv' /\ PoolInv' /\ StageInv' /\ UNCHANGED mpc
      /\ stage' \in [Tasks -> Stages] /\ stage'[t] = s
      /\ \A u \in Tasks : u # t => stage'[u] = stage[u]
      /\ UNCHANGED pending
  BY <1>1, <1>2, EnterKeeps DEF Working
<1>4. Types'
  BY <1>2, <1>3 DEF Inv, Types
<1>5. LogInv'
  BY <1>2, <1>3 DEF Inv, LogInv, LoggedBy, LinesOf
<1> QED
  BY <1>3, <1>4, <1>5 DEF Inv

LEMMA RespondKeeps ==
  ASSUME Inv, NEW t \in Tasks, worker_respond(t)
  PROVE  Inv'
<1>1. /\ stage[t] = "handler" /\ Enter(t, "log") /\ UNCHANGED <<pool_vars, main_vars>>
      /\ answered' = answered \cup {t} /\ UNCHANGED <<dest, output, reply>>
  BY DEF worker_respond, log_vars
<1>2. /\ MainInv' /\ PoolInv' /\ StageInv' /\ UNCHANGED mpc
      /\ stage' \in [Tasks -> Stages] /\ stage'[t] = "log"
      /\ \A u \in Tasks : u # t => stage'[u] = stage[u]
      /\ UNCHANGED pending
  BY <1>1, EnterKeeps DEF Working
<1>3. Types'
  BY <1>1, <1>2 DEF Inv, Types
<1>4. LogInv'
  BY <1>1, <1>2 DEF Inv, LogInv, LoggedBy, LinesOf
<1> QED
  BY <1>2, <1>3, <1>4 DEF Inv

LEMMA LogKeeps ==
  ASSUME Inv, NEW t \in Tasks, worker_log(t)
  PROVE  Inv'
<1> DEFINE line == [to |-> dest, by |-> t]
<1>1. /\ stage[t] = "log" /\ Enter(t, "end") /\ UNCHANGED <<pool_vars, main_vars>>
      /\ UNCHANGED answered
      /\ Log!Log(t) \/ Log!Drop(t)
  BY DEF worker_log
<1>2. dest = "file"
  BY <1>1, WorkingFacts DEF Working
<1>3. /\ output' = Append(output, line) /\ dest' = dest
      /\ reply' = [reply EXCEPT ![t] = "logged"]
  BY <1>1, <1>2 DEF Log!Log, Log!Drop, Log!Answer
<1>4. line \in [to : Dests, by : Threads] /\ line.by = t
  BY <1>2 DEF Dests, Threads
<1> HIDE DEF line
<1>5. output \in Seq([to : Dests, by : Threads])
  BY DEF Inv, Types
<1>6. /\ output' \in Seq([to : Dests, by : Threads]) /\ Len(output) \in Nat
      /\ Len(output') = Len(output) + 1 /\ output'[Len(output) + 1] = line
      /\ \A n \in 1 .. Len(output) : output'[n] = output[n]
  BY <1>3, <1>4, <1>5, AppendProperties, LenProperties
<1>7. /\ MainInv' /\ PoolInv' /\ StageInv' /\ UNCHANGED mpc
      /\ stage' \in [Tasks -> Stages] /\ stage'[t] = "end"
      /\ \A u \in Tasks : u # t => stage'[u] = stage[u]
      /\ UNCHANGED pending
  BY <1>1, <1>3, EnterKeeps DEF Working
<1>8. DOMAIN reply' = Threads /\ reply'[t] = "logged"
      /\ \A u \in Tasks : u # t => reply'[u] = reply[u]
  BY <1>3 DEF Inv, Types, Threads
<1>9. Types'
  BY <1>1, <1>6, <1>7, <1>8 DEF Inv, Types
<1>10. /\ \A n \in 1 .. Len(output') :
            \/ n = Len(output) + 1 /\ output'[n].by = t
            \/ n \in 1 .. Len(output) /\ output'[n].by = output[n].by
       /\ 1 .. Len(output) \subseteq 1 .. Len(output')
       /\ Len(output) + 1 \in 1 .. Len(output')
  BY <1>4, <1>6
<1>11. t \in answered /\ LinesOf(t) = {}
  BY <1>1 DEF Inv, LogInv, LoggedBy
<1>12. LinesOf(t)' = {Len(output) + 1}
  BY <1>6, <1>10, <1>11 DEF LinesOf
<1>13. \A u \in Tasks : u # t => LinesOf(u)' = LinesOf(u)
  BY <1>6, <1>10 DEF LinesOf
<1>14. LogInv'
  <2> SUFFICES ASSUME NEW u \in Tasks PROVE LoggedBy(u)'
    BY DEF LogInv
  <2>1. CASE u = t
    BY <1>1, <1>7, <1>8, <1>10, <1>11, <1>12, <2>1 DEF LoggedBy
  <2>2. CASE u # t
    BY <1>1, <1>7, <1>8, <1>10, <1>13, <2>2 DEF Inv, LogInv, LoggedBy
  <2> QED
    BY <2>1, <2>2
<1> QED
  BY <1>7, <1>9, <1>14 DEF Inv

LEMMA FinishKeeps ==
  ASSUME Inv, NEW t \in Tasks, worker_finish(t)
  PROVE  Inv'
<1>1. /\ stage[t] = "end" /\ stage' = [stage EXCEPT ![t] = "done"]
      /\ running' = running \ {t} /\ UNCHANGED <<pending, mode, stopped, returned>>
      /\ UNCHANGED <<dest, output, reply, mpc, workers, routes, server_fd, answered>>
  BY DEF worker_finish, Pool!Finish, Enter, log_vars, main_vars
<1>2. /\ stage' \in [Tasks -> Stages] /\ stage'[t] = "done"
      /\ \A u \in Tasks : u # t => stage'[u] = stage[u]
  BY <1>1 DEF Inv, Types, Stages
<1>3. Types' /\ MainInv' /\ PoolInv'
  BY <1>1, <1>2 DEF Inv, Types, MainInv, PoolInv
<1>4. \A n \in 1 .. Len(pending) : pending[n] \in Tasks /\ pending[n] # t
  BY <1>1, WorkingFacts DEF Working
<1>5. StageInv'
  BY <1>1, <1>2, <1>4 DEF Inv, StageInv, Working
<1>6. LogInv'
  BY <1>1, <1>2 DEF Inv, LogInv, LoggedBy, LinesOf
<1> QED
  BY <1>3, <1>5, <1>6 DEF Inv

-----------------------------------------------------------------------------
(* The invariant is inductive.                                             *)

LEMMA InitInv == Init => Inv
<1> SUFFICES ASSUME Init PROVE Inv
  OBVIOUS
<1>1. /\ pending = <<>> /\ running = {} /\ mode = "open" /\ stopped = FALSE
      /\ returned = FALSE /\ dest = "closed" /\ output = <<>>
      /\ reply = [t \in Threads |-> "none"]
      /\ mpc = "logger_init" /\ workers = FALSE /\ routes = "none" /\ server_fd = "none"
      /\ stage = [t \in Tasks |-> "none"] /\ answered = {}
  BY DEF Init, Pool!Init, Log!Init
<1>2. 1 .. Len(pending) = {} /\ 1 .. Len(output) = {}
  BY <1>1, EmptySeq
<1>3. Types
  BY <1>1, EmptySeq DEF Types, OtherPlaces, Stages
<1>4. MainInv
  BY <1>1 DEF MainInv, RoutedPlaces, ServingPlaces, SetupPlaces
<1>5. PoolInv
  BY <1>1 DEF PoolInv
<1>6. StageInv
  BY <1>1, <1>2 DEF StageInv, Working
<1>7. LogInv
  BY <1>1, <1>2 DEF LogInv, LoggedBy, LinesOf, Threads
<1> QED
  BY <1>3, <1>4, <1>5, <1>6, <1>7 DEF Inv

LEMMA StutterKeeps == ASSUME Inv, UNCHANGED vars PROVE Inv'
<1>1. /\ UNCHANGED <<pool_vars, log_vars, main_vars, task_vars>>
      /\ UNCHANGED <<mpc, workers, routes, server_fd, dest, returned>>
  BY DEF vars, pool_vars, log_vars, main_vars, task_vars
<1>2. MainInv'
  BY <1>1 DEF Inv, MainInv
<1>3. /\ mpc' \in RoutedPlaces \cup OtherPlaces
      /\ mpc' \in ServingPlaces \/ mpc \notin ServingPlaces
  BY <1>1 DEF Inv, Types
<1> QED
  BY <1>1, <1>2, <1>3, SetUpKeeps

LEMMA MainKeeps == ASSUME Inv, Main PROVE Inv'
  BY LoggerInitKeeps, PoolInitKeeps, RegisterKeeps, SocketKeeps, SetupKeeps, RunKeeps,
     SelectFailsKeeps, ShutdownKeeps, PoolDestroyKeeps, DictionaryKeeps,
     LoggerDestroyKeeps DEF Main

LEMMA WorkerKeeps == ASSUME Inv, Worker PROVE Inv'
  BY StartKeeps, RecvKeeps, RespondKeeps, LogKeeps, FinishKeeps DEF Worker

LEMMA NextInv == Inv /\ [Next]_vars => Inv'
  BY MainKeeps, WorkerKeeps, StutterKeeps DEF Next, exited

LEMMA Inductive == Spec => []Inv
  BY InitInv, NextInv, PTL DEF Spec

-----------------------------------------------------------------------------
(* What follows from it.                                                   *)

(* main frees the routing table (main.c, dictionary_destructor) only when  *)
(* thread_pool_destroy has drained the queue and joined the workers: none  *)
(* looks a route up, or runs a handler, in freed memory.                   *)
THEOREM RoutesStayAlive == Spec => []RoutesAlive
<1>1. Inv => RoutesAlive
  BY WorkingFacts DEF RoutesAlive, Working
<1> QED
  BY <1>1, Inductive, PTL

(* logger_destroy is main's last call, behind the workers: no request is   *)
(* dropped by a closed log, and each one answered has one line at the end. *)
THEOREM RequestsAreLogged == Spec => []EveryRequestLogged
<1>1. Inv => EveryRequestLogged
  <2> SUFFICES ASSUME Inv, NEW t \in Tasks
               PROVE  /\ reply[t] # "dropped"
                      /\ mpc = "exited" /\ t \in answered =>
                           Cardinality({n \in 1 .. Len(output) : output[n].by = t}) = 1
    BY DEF Inv, Types, EveryRequestLogged
  <2>1. reply[t] # "dropped"
    BY DEF Inv, LogInv, LoggedBy
  <2>2. ASSUME mpc = "exited", t \in answered
        PROVE  Cardinality({n \in 1 .. Len(output) : output[n].by = t}) = 1
    <3>1. stage[t] # "log"
      BY <2>2, WorkingFacts DEF Working, ServingPlaces
    <3>2. PICK n \in 1 .. Len(output) : LinesOf(t) = {n}
      BY <2>2, <3>1 DEF Inv, LogInv, LoggedBy
    <3> QED
      BY <3>2, FS_Singleton DEF LinesOf
  <2> QED
    BY <2>1, <2>2
<1> QED
  BY <1>1, Inductive, PTL

(* Whichever call of main fails, main returns with the socket closed, the  *)
(* workers joined and nothing left for them, the table and the log gone.   *)
THEOREM ExitsAreClean == Spec => []CleanExit
<1>1. Inv => CleanExit
  <2> SUFFICES ASSUME Inv, mpc = "exited"
               PROVE  /\ server_fd # "open" /\ routes # "live" /\ dest = "closed"
                      /\ workers => returned /\ running = {} /\ pending = <<>>
    BY DEF CleanExit
  <2>1. mpc \notin RoutedPlaces /\ mpc \notin ListeningPlaces /\ mpc \notin ServingPlaces
    BY DEF RoutedPlaces, ListeningPlaces, ServingPlaces, SetupPlaces
  <2> QED
    BY <2>1 DEF Inv, MainInv, PoolInv
<1> QED
  BY <1>1, Inductive, PTL

=============================================================================
