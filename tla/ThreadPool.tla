----------------------------- MODULE ThreadPool -----------------------------
(***************************************************************************)
(* The static thread pool of webserver_project/src/network/thread_pool.c   *)
(* after thread_pool_init: add_work, the worker loop _thread_task and      *)
(* thread_pool_destroy with its three options.  The queue is the sequence  *)
(* that FifoQueue implements; what a worker does with a task (recv, parse, *)
(* respond) is one step here and is modelled in Reactor.                   *)
(*                                                                         *)
(* One thread, the main thread, calls add_work and thread_pool_destroy:    *)
(* network_run_server and main are the only callers.  A critical section   *)
(* of pool_lock is a lock step followed by a step that does the section's  *)
(* work and unlocks; sem_post inside add_work's section is a step of its   *)
(* own because pool_sem is waited on without the lock.                     *)
(*                                                                         *)
(* pool_sem is a named semaphore opened with O_CREAT and no O_EXCL, and    *)
(* nothing but thread_pool_destroy unlinks it.  A server that is killed    *)
(* leaves it behind with the tokens of the tasks it had not started, and   *)
(* the next start inherits them: Init allows up to MaxStaleTokens.         *)
(***************************************************************************)
EXTENDS PoolSize, Sequences, FiniteSets

CONSTANTS Tasks,           \* the struct ClientTask pointers ever added
          NULL,            \* the null pointer
          SOFT, HARD, DRAIN_AND_DROP,
          Options,         \* the destroy options the caller may use
          MaxStaleTokens   \* bound on the tokens inherited in pool_sem

ASSUME TasksAssumption == NULL \notin Tasks
ASSUME OptionsAssumption ==
  /\ Options \subseteq {SOFT, HARD, DRAIN_AND_DROP}
  /\ SOFT # HARD /\ SOFT # DRAIN_AND_DROP /\ HARD # DRAIN_AND_DROP
  /\ "open" \notin {SOFT, HARD, DRAIN_AND_DROP}
ASSUME StaleAssumption == MaxStaleTokens \in Nat

MAIN == 0                  \* the main thread as owner of pool_lock
UNLOCKED == -1

VARIABLES
  pool_lock,               \* owner of the mutex
  pool_sem,                \* value of the named semaphore
  queue,                   \* thrd_pl->queue, head first
  available_work,
  busy_threads_num,
  state,                   \* *threads_states[w]
  wpc,                     \* where each worker is in _thread_task
  task,                    \* the task a worker holds
  mpc,                     \* where the main thread is in the pool's code
  idx,                     \* loop index of thread_pool_destroy
  option,                  \* the option passed to thread_pool_destroy
  cancelled,               \* workers that were sent pthread_cancel
  submitted,               \* tasks given to add_work
  done,                    \* tasks whose processing ended in free(task)
  log_mutex                \* the logger's mutex, which a task's log line takes

vars == <<pool_lock, pool_sem, queue, available_work, busy_threads_num, state,
          wpc, task, mpc, idx, option, cancelled, submitted, done, log_mutex>>

Init ==
  /\ pool_lock = UNLOCKED
  /\ pool_sem \in 0 .. MaxStaleTokens
  /\ queue = <<>>
  /\ available_work = 0
  /\ busy_threads_num = 0
  /\ state = [w \in Workers |-> "FREE"]
  /\ wpc = [w \in Workers |-> "sem_wait"]
  /\ task = [w \in Workers |-> NULL]
  /\ mpc = "caller"
  /\ idx = 1
  /\ option = "open"
  /\ cancelled = {}
  /\ submitted = {}
  /\ done = {}
  /\ log_mutex = UNLOCKED

-----------------------------------------------------------------------------
(* add_work, called by the main thread.                                    *)

add_work_lock ==
  /\ mpc = "caller"
  /\ submitted # Tasks
  /\ pool_lock = UNLOCKED
  /\ pool_lock' = MAIN
  /\ mpc' = "push"
  /\ UNCHANGED <<pool_sem, queue, available_work, busy_threads_num, state,
                 wpc, task, idx, option, cancelled, submitted, done,
                 log_mutex>>

add_work_push(t) ==
  /\ mpc = "push"
  /\ t \notin submitted
  /\ queue' = Append(queue, t)
  /\ available_work' = available_work + 1
  /\ submitted' = submitted \cup {t}
  /\ mpc' = "post"
  /\ UNCHANGED <<pool_lock, pool_sem, busy_threads_num, state, wpc, task, idx,
                 option, cancelled, done, log_mutex>>

(* sem_post, then unlock and return 0.                                     *)
TokensAfterAdd_OnlyIfIdle ==
  IF busy_threads_num = NumThreads THEN pool_sem ELSE pool_sem + 1

TokensAfterAdd == pool_sem + 1

add_work_post ==
  /\ mpc = "post"
  /\ pool_sem' = TokensAfterAdd
  /\ pool_lock' = UNLOCKED
  /\ mpc' = "caller"
  /\ UNCHANGED <<queue, available_work, busy_threads_num, state, wpc, task,
                 idx, option, cancelled, submitted, done, log_mutex>>

-----------------------------------------------------------------------------
(* _thread_task, the loop of worker w.                                     *)

worker_sem_wait(w) ==
  /\ wpc[w] = "sem_wait"
  /\ pool_sem > 0
  /\ pool_sem' = pool_sem - 1
  /\ wpc' = [wpc EXCEPT ![w] = "lock"]
  /\ UNCHANGED <<pool_lock, queue, available_work, busy_threads_num, state,
                 task, mpc, idx, option, cancelled, submitted, done,
                 log_mutex>>

(* pthread_mutex_lock before the task is taken and again after it is done. *)
worker_lock(w) ==
  /\ wpc[w] \in {"lock", "relock"}
  /\ pool_lock = UNLOCKED
  /\ pool_lock' = w
  /\ wpc' = [wpc EXCEPT ![w] = IF @ = "lock" THEN "check" ELSE "finish"]
  /\ UNCHANGED <<pool_sem, queue, available_work, busy_threads_num, state,
                 task, mpc, idx, option, cancelled, submitted, done,
                 log_mutex>>

(* The main thread demanded that this thread be closed: unlock and leave   *)
(* the loop, in front of the task or behind it.  Behind it, the exit skips *)
(* busy_threads_num--.                                                     *)
worker_terminate(w) ==
  /\ wpc[w] \in {"check", "finish"}
  /\ state[w] = "TERMINATED"
  /\ pool_lock' = UNLOCKED
  /\ wpc' = [wpc EXCEPT ![w] = "exited"]
  /\ UNCHANGED <<pool_sem, queue, available_work, busy_threads_num, state,
                 task, mpc, idx, option, cancelled, submitted, done,
                 log_mutex>>

(* pop_first leaves *task NULL when the queue is empty.                    *)
Popped == IF queue = <<>> THEN NULL ELSE Head(queue)

AfterPop_Peek == queue

AfterPop == IF queue = <<>> THEN queue ELSE Tail(queue)

(* if (available_work > 0): guards against a wake-up that brought no work. *)
HasWork_Trusting == TRUE

HasWork == available_work > 0

(* busy_threads_num++ when a task is taken.                                *)
BusyAfterTake_Forgotten == busy_threads_num

BusyAfterTake == busy_threads_num + 1

worker_take(w) ==
  /\ wpc[w] = "check"
  /\ state[w] # "TERMINATED"
  /\ HasWork
  /\ queue' = AfterPop
  /\ task' = [task EXCEPT ![w] = Popped]
  /\ available_work' = available_work - 1
  /\ busy_threads_num' = BusyAfterTake
  /\ state' = [state EXCEPT ![w] = "BUSY"]
  /\ pool_lock' = UNLOCKED
  /\ wpc' = [wpc EXCEPT ![w] = "work"]
  /\ UNCHANGED <<pool_sem, mpc, idx, option, cancelled, submitted, done,
                 log_mutex>>

(* No work: unlock and wait again.                                         *)
worker_spurious(w) ==
  /\ wpc[w] = "check"
  /\ state[w] # "TERMINATED"
  /\ ~HasWork
  /\ pool_lock' = UNLOCKED
  /\ wpc' = [wpc EXCEPT ![w] = "sem_wait"]
  /\ UNCHANGED <<pool_sem, queue, available_work, busy_threads_num, state,
                 task, mpc, idx, option, cancelled, submitted, done,
                 log_mutex>>

(* The body between the two critical sections.  A task that completes a    *)
(* request is logged once: logger_log_request takes log_mutex, writes the  *)
(* line, flushes, and releases it.                                         *)
Working == {"work", "log_lock", "logging", "logged"}

worker_log(w) ==
  /\ wpc[w] = "work"
  /\ wpc' = [wpc EXCEPT ![w] = "log_lock"]
  /\ UNCHANGED <<pool_lock, pool_sem, queue, available_work, busy_threads_num,
                 state, task, mpc, idx, option, cancelled, submitted, done,
                 log_mutex>>

worker_log_lock(w) ==
  /\ wpc[w] = "log_lock"
  /\ log_mutex = UNLOCKED
  /\ log_mutex' = w
  /\ wpc' = [wpc EXCEPT ![w] = "logging"]
  /\ UNCHANGED <<pool_lock, pool_sem, queue, available_work, busy_threads_num,
                 state, task, mpc, idx, option, cancelled, submitted, done>>

worker_log_unlock(w) ==
  /\ wpc[w] = "logging"
  /\ log_mutex' = UNLOCKED
  /\ wpc' = [wpc EXCEPT ![w] = "logged"]
  /\ UNCHANGED <<pool_lock, pool_sem, queue, available_work, busy_threads_num,
                 state, task, mpc, idx, option, cancelled, submitted, done>>

(* The end of the body, with or without a log line: free(task).            *)
worker_work(w) ==
  /\ wpc[w] \in {"work", "logged"}
  /\ done' = done \cup ({task[w]} \ {NULL})
  /\ task' = [task EXCEPT ![w] = NULL]
  /\ wpc' = [wpc EXCEPT ![w] = "relock"]
  /\ UNCHANGED <<pool_lock, pool_sem, queue, available_work, busy_threads_num,
                 state, mpc, idx, option, cancelled, submitted, log_mutex>>

worker_finish(w) ==
  /\ wpc[w] = "finish"
  /\ state[w] # "TERMINATED"
  /\ busy_threads_num' = busy_threads_num - 1
  /\ state' = [state EXCEPT ![w] = "FREE"]
  /\ pool_lock' = UNLOCKED
  /\ wpc' = [wpc EXCEPT ![w] = "sem_wait"]
  /\ UNCHANGED <<pool_sem, queue, available_work, task, mpc, idx, option,
                 cancelled, submitted, done, log_mutex>>

(* A cancelled thread exits at a cancellation point: sem_wait, or a system *)
(* call of the task's processing, the writes of its log line included.     *)
(* pthread_mutex_lock is none, and neither critical section of pool_lock   *)
(* contains one.  Nothing is cleaned up: log_mutex stays as it is.         *)
worker_cancel(w) ==
  /\ w \in cancelled
  /\ wpc[w] \in {"sem_wait", "work", "logging", "logged"}
  /\ wpc' = [wpc EXCEPT ![w] = "exited"]
  /\ task' = [task EXCEPT ![w] = NULL]
  /\ UNCHANGED <<pool_lock, pool_sem, queue, available_work, busy_threads_num,
                 state, mpc, idx, option, cancelled, submitted, done,
                 log_mutex>>

-----------------------------------------------------------------------------
(* thread_pool_destroy, called by the main thread.                         *)

thread_pool_destroy(opt) ==
  /\ mpc = "caller"
  /\ option' = opt
  /\ mpc' = CASE opt = SOFT -> "spin"
              [] opt = DRAIN_AND_DROP -> "stop_lock"
              [] opt = HARD -> "cancel"
  /\ UNCHANGED <<pool_lock, pool_sem, queue, available_work, busy_threads_num,
                 state, wpc, task, idx, cancelled, submitted, done,
                 log_mutex>>

(* SOFT: busy-wait until available_work reads 0.  The read takes no lock;  *)
(* the build does not optimise, so every iteration rereads the variable.   *)
SpinOver_FirstIdle == busy_threads_num < NumThreads

SpinOver == ~(available_work > 0)

destroy_spin ==
  /\ mpc = "spin"
  /\ SpinOver
  /\ mpc' = "stop_lock"
  /\ UNCHANGED <<pool_lock, pool_sem, queue, available_work, busy_threads_num,
                 state, wpc, task, idx, option, cancelled, submitted, done,
                 log_mutex>>

destroy_spin_again ==
  /\ mpc = "spin"
  /\ ~SpinOver
  /\ UNCHANGED vars

destroy_lock ==
  /\ mpc = "stop_lock"
  /\ pool_lock = UNLOCKED
  /\ pool_lock' = MAIN
  /\ mpc' = "mark"
  /\ UNCHANGED <<pool_sem, queue, available_work, busy_threads_num, state,
                 wpc, task, idx, option, cancelled, submitted, done,
                 log_mutex>>

(* Mark every thread TERMINATED.                                           *)
StatesAfterMark_SkipBusy ==
  [w \in Workers |-> IF state[w] = "BUSY" THEN "BUSY" ELSE "TERMINATED"]

StatesAfterMark == [w \in Workers |-> "TERMINATED"]

destroy_mark ==
  /\ mpc = "mark"
  /\ state' = StatesAfterMark
  /\ pool_lock' = UNLOCKED
  /\ mpc' = "signal"
  /\ UNCHANGED <<pool_sem, queue, available_work, busy_threads_num, wpc, task,
                 idx, option, cancelled, submitted, done, log_mutex>>

(* One iteration of a loop over the threads: move to the next thread, or   *)
(* after the last one start the loop at label `next'.                      *)
Advance(next) ==
  IF idx = NumThreads
    THEN /\ idx' = 1
         /\ mpc' = next
    ELSE /\ idx' = idx + 1
         /\ UNCHANGED mpc

destroy_signal ==
  /\ mpc = "signal"
  /\ pool_sem' = pool_sem + 1
  /\ Advance("join")
  /\ UNCHANGED <<pool_lock, queue, available_work, busy_threads_num, state,
                 wpc, task, option, cancelled, submitted, done, log_mutex>>

(* HARD: pthread_cancel on every thread.                                   *)
destroy_cancel ==
  /\ mpc = "cancel"
  /\ cancelled' = cancelled \cup {idx}
  /\ Advance("join")
  /\ UNCHANGED <<pool_lock, pool_sem, queue, available_work, busy_threads_num,
                 state, wpc, task, option, submitted, done, log_mutex>>

(* pthread_join, then free(threads_states[idx]).                           *)
destroy_join ==
  /\ mpc = "join"
  /\ wpc[idx] = "exited"
  /\ Advance("release")
  /\ UNCHANGED <<pool_lock, pool_sem, queue, available_work, busy_threads_num,
                 state, wpc, task, option, cancelled, submitted, done,
                 log_mutex>>

(* sem_close, sem_unlink, pthread_mutex_destroy and the frees.             *)
destroy_release ==
  /\ mpc = "release"
  /\ mpc' = "destroyed"
  /\ UNCHANGED <<pool_lock, pool_sem, queue, available_work, busy_threads_num,
                 state, wpc, task, idx, option, cancelled, submitted, done,
                 log_mutex>>

-----------------------------------------------------------------------------
AddWork == add_work_lock \/ (\E t \in Tasks : add_work_push(t)) \/ add_work_post

Destroy ==
  \/ destroy_spin \/ destroy_spin_again \/ destroy_lock \/ destroy_mark \/ destroy_signal
  \/ destroy_cancel \/ destroy_join \/ destroy_release

Worker(w) ==
  \/ worker_sem_wait(w) \/ worker_lock(w) \/ worker_terminate(w)
  \/ worker_take(w) \/ worker_spurious(w)
  \/ worker_log(w) \/ worker_log_lock(w) \/ worker_log_unlock(w)
  \/ worker_work(w) \/ worker_finish(w) \/ worker_cancel(w)

(* thread_pool_destroy returned; the pool is not used again.               *)
Finished == mpc = "destroyed" /\ UNCHANGED vars

(* A worker was cancelled in the middle of its log line.                   *)
LogAbandoned == \E w \in Workers : log_mutex = w /\ wpc[w] = "exited"

(* pthread_join for a worker that waits for the abandoned mutex: this is   *)
(* the one place where the pool stops.                                     *)
Hung == mpc = "join" /\ wpc[idx] = "log_lock" /\ LogAbandoned /\ UNCHANGED vars

Next ==
  \/ AddWork
  \/ \E opt \in Options : thread_pool_destroy(opt)
  \/ Destroy
  \/ \E w \in Workers : Worker(w)
  \/ Finished
  \/ Hung

(* The scheduler runs every thread that can run: a worker that can step    *)
(* does, and the main thread finishes the pool call it is in.  Whether and *)
(* when the caller adds work or destroys the pool is left open, so nothing *)
(* makes it enter a call.  Fairness of worker_work assumes that processing *)
(* a task ends: recv does not block and send_all gives up on a full socket *)
(* buffer, but send_file retries for as long as its client reads nothing.  *)
InAddWork == (\E t \in Tasks : add_work_push(t)) \/ add_work_post

Fairness ==
  /\ \A w \in Workers : WF_vars(Worker(w))
  /\ WF_vars(InAddWork)
  /\ WF_vars(Destroy)

Spec == Init /\ [][Next]_vars
FairSpec == Spec /\ Fairness
-----------------------------------------------------------------------------
TypeOK ==
  /\ pool_lock \in Workers \cup {MAIN, UNLOCKED}
  /\ pool_sem \in Nat
  /\ queue \in Seq(Tasks)
  /\ available_work \in Nat
  /\ busy_threads_num \in Int
  /\ state \in [Workers -> {"FREE", "BUSY", "TERMINATED"}]
  /\ wpc \in [Workers -> {"sem_wait", "lock", "check", "relock", "finish",
                          "exited"} \cup Working]
  /\ task \in [Workers -> Tasks \cup {NULL}]
  /\ mpc \in {"caller", "push", "post", "spin", "stop_lock", "mark", "signal",
              "cancel", "join", "release", "destroyed"}
  /\ idx \in Workers
  /\ option \in Options \cup {"open"}
  /\ cancelled \in SUBSET Workers
  /\ submitted \in SUBSET Tasks
  /\ done \in SUBSET Tasks
  /\ log_mutex \in Workers \cup {UNLOCKED}

(***************************************************************************)
(* available_work, the counter the workers and thread_pool_destroy test,   *)
(* is the length of the queue in every state: pop_first never meets an     *)
(* empty queue and the SOFT wait ends exactly when the queue is empty,     *)
(* whatever surplus of tokens pool_sem was created with.                   *)
(***************************************************************************)
WorkCount == available_work = Len(queue)

(* Workers that have a token of pool_sem and will look at the queue.       *)
Woken == {w \in Workers : wpc[w] \in {"lock", "check"}}

(* thread_pool_destroy has told the workers to leave the loop.             *)
Stopping == mpc \in {"signal", "cancel", "join", "release", "destroyed"}

(***************************************************************************)
(* No lost wake-up: while the pool is in service every queued task has a   *)
(* token in pool_sem, a worker already on its way with that token, or the  *)
(* add_work that is about to post it.                                      *)
(***************************************************************************)
NoLostWakeup ==
  ~Stopping =>
    Len(queue) <= pool_sem + Cardinality(Woken) + (IF mpc = "post" THEN 1 ELSE 0)

(***************************************************************************)
(* busy_threads_num is the number of threads in state BUSY until the pool  *)
(* is being stopped (the exit behind a task does not count down).          *)
(***************************************************************************)
BusyExact ==
  ~Stopping => busy_threads_num = Cardinality({w \in Workers : state[w] = "BUSY"})

Queued == {queue[i] : i \in 1 .. Len(queue)}
InHand == {task[w] : w \in Workers} \ {NULL}

(***************************************************************************)
(* A task is processed at most once and is never lost: it is queued once,  *)
(* in the hands of one worker, or done, and only a HARD destroy can make   *)
(* a submitted task disappear.                                             *)
(***************************************************************************)
TaskOnce ==
  /\ \A i, j \in 1 .. Len(queue) : queue[i] = queue[j] => i = j
  /\ \A v, w \in Workers : task[v] = task[w] /\ task[v] # NULL => v = w
  /\ Queued \cap InHand = {} /\ Queued \cap done = {} /\ InHand \cap done = {}
  /\ Queued \cup InHand \cup done \subseteq submitted
  /\ cancelled = {} => submitted \subseteq Queued \cup InHand \cup done

(***************************************************************************)
(* THREAD_POOL_DESTROY_SOFT returns only when every task that was ever     *)
(* added has been processed, although the wait reads available_work        *)
(* without the lock and the threads are marked while tasks are in hand.    *)
(***************************************************************************)
SoftDrains == mpc = "destroyed" /\ option = SOFT => done = submitted

(***************************************************************************)
(* The pool implements TaskPool: tasks start in the order they were added, *)
(* none starts once the threads are marked (or cancelled and joined), a    *)
(* started task is given up only by a HARD destroy, and when               *)
(* thread_pool_destroy returns none is running.                            *)
(***************************************************************************)
Marked == mpc \in {"signal", "join", "release", "destroyed"} /\ option # HARD
Stopped == Marked \/ mpc \in {"release", "destroyed"}

Abstract == INSTANCE TaskPool WITH
              pending <- queue, running <- InHand, finished <- done,
              mode <- option, stopped <- Stopped, returned <- mpc = "destroyed"

ImplementsTaskPool == Abstract!Spec

(***************************************************************************)
(* SOFT and DRAIN_AND_DROP return: each worker finds a token to wake up    *)
(* with and leaves, so every pthread_join completes.  HARD returns unless  *)
(* it cancels a worker that holds log_mutex: whoever waits for that mutex, *)
(* in a call that is no cancellation point, waits for ever, and so does    *)
(* the pthread_join for that worker.                                       *)
(***************************************************************************)
DestroyCompletes ==
  /\ option \in {SOFT, DRAIN_AND_DROP} ~> mpc = "destroyed"
  /\ option = HARD ~> mpc = "destroyed" \/ LogAbandoned

(***************************************************************************)
(* Every task that was added is processed, unless the pool is destroyed    *)
(* with an option that gives tasks up.                                     *)
(***************************************************************************)
EveryTaskRuns ==
  \A t \in Tasks : t \in submitted ~> t \in done \/ option \in {HARD, DRAIN_AND_DROP}
=============================================================================
