------------------------------ MODULE PoolInit ------------------------------
(***************************************************************************)
(* thread_pool_init of thread_pool.c and the prologue of _thread_task: the *)
(* main thread starts the workers one at a time, handing each its state    *)
(* pointer in ONE heap cell, args, that all of them share.  The semaphore  *)
(* INIT_SEM makes the main thread wait until the worker just created has   *)
(* read the cell; after the last worker the name is unlinked and the cell  *)
(* is freed.                                                               *)
(*                                                                         *)
(* INIT_SEM is a named semaphore opened with O_CREAT and no O_EXCL.  It    *)
(* outlives a process that is killed before sem_unlink, value included,    *)
(* and the next thread_pool_init opens it again.  MaxCrashes bounds the    *)
(* kills, MaxRuns the server's starts.  With CreateMayFail pthread_create, *)
(* whose result is not looked at, may fail.                                *)
(*                                                                         *)
(* A name that ThreadPool also has is prefixed with boot here, because     *)
(* ThreadPoolProofs extends both modules.                                  *)
(***************************************************************************)
EXTENDS PoolSize

CONSTANTS MaxRuns,         \* bound on the starts of the server
          MaxCrashes,      \* bound on the kills during thread_pool_init
          CreateMayFail    \* whether pthread_create may fail

ASSUME InitBoundsAssumption ==
  MaxRuns \in Nat /\ MaxCrashes \in Nat /\ CreateMayFail \in BOOLEAN

NONE == 0                  \* no state pointer

VARIABLES
  init_sem,                \* value of INIT_SEM
  named,                   \* the name INIT_SEM exists
  boot_pc,                 \* where the main thread is in thread_pool_init
  boot_i,                  \* its loop index
  args,                    \* args->state while args is allocated, else NONE
  tpc,                     \* where each worker is in its prologue
  own,                     \* the state pointer each worker got
  inherited,               \* history: the value of INIT_SEM when it was opened
  runs, crashes            \* starts and kills so far

boot_vars == <<init_sem, named, boot_pc, boot_i, args, tpc, own, inherited, runs, crashes>>

BootInit ==
  /\ boot_pc = "enter"
  /\ boot_i = 1
  /\ args = NONE
  /\ tpc = [w \in Workers |-> "none"]
  /\ own = [w \in Workers |-> NONE]
  /\ init_sem = 0
  /\ named = FALSE
  /\ inherited = 0
  /\ runs = 1
  /\ crashes = 0

-----------------------------------------------------------------------------
(* Invalid arguments, or sem_open of the pool's semaphore fails: an error  *)
(* code is returned before any thread exists.                              *)
init_error ==
  /\ boot_pc = "enter"
  /\ boot_pc' = "failed"
  /\ UNCHANGED <<init_sem, named, boot_i, args, tpc, own, inherited, runs, crashes>>

(* sem_open("INIT_SEM", O_CREAT, 0666, 0): the initial value is used only  *)
(* when the semaphore is created.                                          *)
open_init_sem ==
  /\ boot_pc = "enter"
  /\ init_sem' = IF named THEN init_sem ELSE 0
  /\ named' = TRUE
  /\ inherited' = init_sem'
  /\ boot_pc' = "create"
  /\ UNCHANGED <<boot_i, args, tpc, own, runs, crashes>>

(* The main thread waits for every worker, the last one included.          *)
AfterCreate_LastNotAwaited == IF boot_i = NumThreads THEN "unlink" ELSE "wait"

AfterCreate == "wait"

create_thread ==
  /\ boot_pc = "create"
  /\ args' = boot_i
  /\ \/ tpc' = [tpc EXCEPT ![boot_i] = "read_state"]
     \/ CreateMayFail /\ UNCHANGED tpc
  /\ boot_pc' = AfterCreate
  /\ UNCHANGED <<init_sem, named, boot_i, own, inherited, runs, crashes>>

(* sem_wait(pool_init_sem), then the next iteration or the code behind the *)
(* loop.                                                                   *)
Answered_NoWait == TRUE

Answered == init_sem > 0

wait_thread ==
  /\ boot_pc = "wait"
  /\ Answered
  /\ init_sem' = init_sem - 1
  /\ boot_i' = IF boot_i = NumThreads THEN 1 ELSE boot_i + 1
  /\ boot_pc' = IF boot_i = NumThreads THEN "unlink" ELSE "create"
  /\ UNCHANGED <<named, args, tpc, own, inherited, runs, crashes>>

unlink ==
  /\ boot_pc = "unlink"
  /\ named' = FALSE
  /\ boot_pc' = "free"
  /\ UNCHANGED <<init_sem, boot_i, args, tpc, own, inherited, runs, crashes>>

free_args ==
  /\ boot_pc = "free"
  /\ args' = NONE
  /\ boot_pc' = "returned"
  /\ UNCHANGED <<init_sem, named, boot_i, tpc, own, inherited, runs, crashes>>

-----------------------------------------------------------------------------
(* The prologue of worker w: read the state pointer, read the pool and     *)
(* semaphore pointers and post, enter the worker loop.                     *)
TokensAfterPost_Never == init_sem

TokensAfterPost == init_sem + 1

thread_read_state(w) ==
  /\ tpc[w] = "read_state"
  /\ own' = [own EXCEPT ![w] = args]
  /\ tpc' = [tpc EXCEPT ![w] = "post"]
  /\ UNCHANGED <<init_sem, named, boot_pc, boot_i, args, inherited, runs, crashes>>

thread_post(w) ==
  /\ tpc[w] = "post"
  /\ init_sem' = TokensAfterPost
  /\ tpc' = [tpc EXCEPT ![w] = "enter_loop"]
  /\ UNCHANGED <<named, boot_pc, boot_i, args, own, inherited, runs, crashes>>

thread_enter_loop(w) ==
  /\ tpc[w] = "enter_loop"
  /\ tpc' = [tpc EXCEPT ![w] = "loop"]
  /\ UNCHANGED <<init_sem, named, boot_pc, boot_i, args, own, inherited, runs, crashes>>

-----------------------------------------------------------------------------
(* A new process enters thread_pool_init.                                  *)
Start ==
  /\ runs < MaxRuns
  /\ runs' = runs + 1
  /\ boot_pc' = "enter"
  /\ boot_i' = 1
  /\ args' = NONE
  /\ tpc' = [w \in Workers |-> "none"]
  /\ own' = [w \in Workers |-> NONE]
  /\ inherited' = 0

(* The server stops after thread_pool_init and is started again.           *)
restart ==
  /\ boot_pc = "returned"
  /\ Start
  /\ UNCHANGED <<init_sem, named, crashes>>

(* The process is killed inside thread_pool_init and is started again: its *)
(* threads and heap are gone, the named semaphore is not.                  *)
crash ==
  /\ boot_pc \notin {"returned", "failed"}
  /\ crashes < MaxCrashes
  /\ crashes' = crashes + 1
  /\ Start
  /\ UNCHANGED <<init_sem, named>>

Main ==
  \/ init_error \/ open_init_sem \/ create_thread \/ wait_thread
  \/ unlink \/ free_args

BootWorker(w) == thread_read_state(w) \/ thread_post(w) \/ thread_enter_loop(w)

BootNext ==
  \/ Main
  \/ \E w \in Workers : BootWorker(w)
  \/ restart
  \/ crash

(* The scheduler runs the main thread and every worker that can step.      *)
BootFairness == WF_boot_vars(Main) /\ \A w \in Workers : WF_boot_vars(BootWorker(w))

BootSpec == BootInit /\ [][BootNext]_boot_vars
BootFairSpec == BootSpec /\ BootFairness
-----------------------------------------------------------------------------
BootTypeOK ==
  /\ init_sem \in Nat
  /\ named \in BOOLEAN
  /\ boot_pc \in {"enter", "create", "wait", "unlink", "free", "returned", "failed"}
  /\ boot_i \in Workers
  /\ args \in Workers \cup {NONE}
  /\ tpc \in [Workers -> {"none", "read_state", "post", "enter_loop", "loop"}]
  /\ own \in [Workers -> Workers \cup {NONE}]
  /\ inherited \in Nat
  /\ runs \in Nat /\ crashes \in Nat

(***************************************************************************)
(* thread_pool.c:81: "give each thread a pointer to its state information" *)
(* and thread_pool.c:89: "wait for the just created thread to complete its *)
(* initialization": each worker got a pointer to its own state.  Two       *)
(* workers on one state would set and clear each other's BUSY and leave    *)
(* the loop on each other's TERMINATED.                                    *)
(***************************************************************************)
OwnState ==
  \A w \in Workers : tpc[w] \in {"post", "enter_loop", "loop"} => own[w] = w

(***************************************************************************)
(* The handshake is right whenever INIT_SEM was opened with value 0, after *)
(* clean restarts and after kills that left no token behind: all workers   *)
(* read their pointer from the same cell and each still gets its own.      *)
(***************************************************************************)
OwnStateIfFresh == inherited = 0 => OwnState

(***************************************************************************)
(* Under the same condition no worker reads args once it is freed, and     *)
(* thread_pool_init returns only when every worker is past its prologue.   *)
(***************************************************************************)
ArgsLiveIfFresh ==
  inherited = 0 =>
    /\ \A w \in Workers : tpc[w] \in {"read_state", "post"} => args # NONE
    /\ boot_pc = "returned" => \A w \in Workers : tpc[w] \in {"enter_loop", "loop"}

(***************************************************************************)
(* thread_pool_init returns, with a pool or with an error code, after any  *)
(* number of kills: each worker that exists answers the wait for it.  The  *)
(* wait for a worker that pthread_create could not start has no answer.    *)
(***************************************************************************)
NotCreated == boot_pc = "wait" /\ tpc[boot_i] = "none"

InitReturns == boot_pc = "enter" ~> boot_pc \in {"returned", "failed"} \/ NotCreated
=============================================================================
