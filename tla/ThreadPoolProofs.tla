-------------------------- MODULE ThreadPoolProofs --------------------------
(***************************************************************************)
(* Proofs about ThreadPool for any number of workers and any set of tasks. *)
(* WorkCount, NoLostWakeup, BusyExact, TaskOnce and SoftDrains are not     *)
(* inductive: they lean on who holds pool_lock, on which option leads to   *)
(* which part of thread_pool_destroy, and on what a worker's place says of *)
(* its state and its task.  Those facts are the conjuncts below.  The last *)
(* section is about PoolInit, the start of the pool.                       *)
(***************************************************************************)
EXTENDS ThreadPool, PoolInit, FiniteSetTheorems, SequenceTheorems, TLAPS

(* pool_lock is held exactly inside the critical sections.                 *)
LockHeld ==
  /\ \A w \in Workers : pool_lock = w <=> wpc[w] \in {"check", "finish"}
  /\ pool_lock = MAIN <=> mpc \in {"push", "post", "mark"}

(* Where the main thread is tells the option, and only HARD cancels.       *)
OptionPlace ==
  /\ option = "open" <=> mpc \in {"caller", "push", "post"}
  /\ mpc = "spin" => option = SOFT
  /\ mpc \in {"stop_lock", "mark", "signal"} => option \in {SOFT, DRAIN_AND_DROP}
  /\ mpc = "cancel" => option = HARD
  /\ cancelled # {} => option = HARD

(* A worker's place tells its state until the pool is stopped, and its     *)
(* task always; marked threads stay marked.                                *)
WorkerPlace ==
  /\ ~Stopping => \A w \in Workers :
       state[w] = IF wpc[w] \in Working \cup {"relock", "finish"} THEN "BUSY" ELSE "FREE"
  /\ Marked => \A w \in Workers : state[w] = "TERMINATED"
  /\ \A w \in Workers : task[w] # NULL <=> wpc[w] \in Working

USE DEF Working

(* SOFT leaves the busy-wait with an empty queue, for good; the threads    *)
(* before idx are joined.                                                  *)
DestroyProgress ==
  /\ option = SOFT /\ mpc # "spin" => queue = <<>>
  /\ mpc = "join" => \A w \in Workers : w < idx => wpc[w] = "exited"
  /\ mpc \in {"release", "destroyed"} => \A w \in Workers : wpc[w] = "exited"

IInv ==
  /\ TypeOK /\ LockHeld /\ OptionPlace /\ WorkerPlace /\ DestroyProgress
  /\ WorkCount /\ NoLostWakeup /\ BusyExact /\ TaskOnce
-----------------------------------------------------------------------------
(* The types are preserved by every step.                                  *)
LEMMA TypeStep ==
  ASSUME TypeOK, Next
  PROVE  TypeOK'
<1>1. CASE add_work_lock
  BY <1>1 DEF TypeOK, add_work_lock
<1>2. ASSUME NEW t \in Tasks, add_work_push(t) PROVE TypeOK'
  BY <1>2 DEF TypeOK, add_work_push
<1>3. CASE add_work_post
  BY <1>3 DEF TypeOK, add_work_post, TokensAfterAdd
<1>4. ASSUME NEW opt \in Options, thread_pool_destroy(opt) PROVE TypeOK'
  BY <1>4, OptionsAssumption DEF TypeOK, thread_pool_destroy
<1>5. CASE destroy_spin
  BY <1>5 DEF TypeOK, destroy_spin, SpinOver
<1>6. CASE destroy_spin_again
  BY <1>6 DEF TypeOK, destroy_spin_again, SpinOver, vars
<1>7. CASE destroy_lock
  BY <1>7 DEF TypeOK, destroy_lock
<1>8. CASE destroy_mark
  BY <1>8 DEF TypeOK, destroy_mark, StatesAfterMark
<1>9. CASE destroy_signal
  BY <1>9, ThreadsAssumption DEF TypeOK, destroy_signal, Advance, Workers
<1>10. CASE destroy_cancel
  BY <1>10, ThreadsAssumption DEF TypeOK, destroy_cancel, Advance, Workers
<1>11. CASE destroy_join
  BY <1>11, ThreadsAssumption DEF TypeOK, destroy_join, Advance, Workers
<1>12. CASE destroy_release
  BY <1>12 DEF TypeOK, destroy_release
<1>13. ASSUME NEW w \in Workers, worker_sem_wait(w) PROVE TypeOK'
  BY <1>13 DEF TypeOK, worker_sem_wait
<1>14. ASSUME NEW w \in Workers, worker_lock(w) PROVE TypeOK'
  BY <1>14 DEF TypeOK, worker_lock
<1>15. ASSUME NEW w \in Workers, worker_terminate(w) PROVE TypeOK'
  BY <1>15 DEF TypeOK, worker_terminate
<1>16. ASSUME NEW w \in Workers, worker_take(w) PROVE TypeOK'
  BY <1>16 DEF TypeOK, worker_take, HasWork, Popped, AfterPop, BusyAfterTake
<1>17. ASSUME NEW w \in Workers, worker_spurious(w) PROVE TypeOK'
  BY <1>17 DEF TypeOK, worker_spurious, HasWork
<1>18. ASSUME NEW w \in Workers, worker_work(w) PROVE TypeOK'
  BY <1>18 DEF TypeOK, worker_work
<1>19. ASSUME NEW w \in Workers, worker_finish(w) PROVE TypeOK'
  BY <1>19 DEF TypeOK, worker_finish
<1>20. ASSUME NEW w \in Workers, worker_cancel(w) PROVE TypeOK'
  BY <1>20 DEF TypeOK, worker_cancel
<1>21. CASE Finished
  BY <1>21 DEF TypeOK, Finished, vars
<1>22. ASSUME NEW w \in Workers, worker_log(w) PROVE TypeOK'
  BY <1>22 DEF TypeOK, worker_log
<1>23. ASSUME NEW w \in Workers, worker_log_lock(w) PROVE TypeOK'
  BY <1>23 DEF TypeOK, worker_log_lock
<1>24. ASSUME NEW w \in Workers, worker_log_unlock(w) PROVE TypeOK'
  BY <1>24 DEF TypeOK, worker_log_unlock
<1>25. CASE Hung
  BY <1>25 DEF TypeOK, Hung, vars
<1> QED
  BY <1>1, <1>2, <1>3, <1>4, <1>5, <1>6, <1>7, <1>8, <1>9, <1>10, <1>11, <1>12,
     <1>13, <1>14, <1>15, <1>16, <1>17, <1>18, <1>19, <1>20, <1>21, <1>22, <1>23, <1>24,
     <1>25
     DEF Next, AddWork, Destroy, Worker

(* Every lock step and every unlock moves its thread in or out of a        *)
(* critical section.                                                       *)
LEMMA LockStep ==
  ASSUME TypeOK, LockHeld, Next
  PROVE  LockHeld'
<1>1. CASE add_work_lock
  BY <1>1, ThreadsAssumption
     DEF TypeOK, LockHeld, add_work_lock, Workers, MAIN, UNLOCKED
<1>2. ASSUME NEW t \in Tasks, add_work_push(t) PROVE LockHeld'
  BY <1>2 DEF TypeOK, LockHeld, add_work_push
<1>3. CASE add_work_post
  BY <1>3, ThreadsAssumption
     DEF TypeOK, LockHeld, add_work_post, TokensAfterAdd, Workers, MAIN,
         UNLOCKED
<1>4. ASSUME NEW opt \in Options, thread_pool_destroy(opt) PROVE LockHeld'
  BY <1>4, OptionsAssumption DEF TypeOK, LockHeld, thread_pool_destroy
<1>5. CASE destroy_spin
  BY <1>5 DEF TypeOK, LockHeld, destroy_spin, SpinOver
<1>6. CASE destroy_spin_again
  BY <1>6 DEF TypeOK, LockHeld, destroy_spin_again, SpinOver, vars
<1>7. CASE destroy_lock
  BY <1>7, ThreadsAssumption
     DEF TypeOK, LockHeld, destroy_lock, Workers, MAIN, UNLOCKED
<1>8. CASE destroy_mark
  BY <1>8, ThreadsAssumption
     DEF TypeOK, LockHeld, destroy_mark, StatesAfterMark, Workers, MAIN,
         UNLOCKED
<1>9. CASE destroy_signal
  BY <1>9 DEF TypeOK, LockHeld, destroy_signal, Advance
<1>10. CASE destroy_cancel
  BY <1>10 DEF TypeOK, LockHeld, destroy_cancel, Advance
<1>11. CASE destroy_join
  BY <1>11 DEF TypeOK, LockHeld, destroy_join, Advance
<1>12. CASE destroy_release
  BY <1>12 DEF TypeOK, LockHeld, destroy_release
<1>13. ASSUME NEW w \in Workers, worker_sem_wait(w) PROVE LockHeld'
  BY <1>13 DEF TypeOK, LockHeld, worker_sem_wait
<1>14. ASSUME NEW w \in Workers, worker_lock(w) PROVE LockHeld'
  BY <1>14, ThreadsAssumption
     DEF TypeOK, LockHeld, worker_lock, Workers, MAIN, UNLOCKED
<1>15. ASSUME NEW w \in Workers, worker_terminate(w) PROVE LockHeld'
  BY <1>15, ThreadsAssumption
     DEF TypeOK, LockHeld, worker_terminate, Workers, MAIN, UNLOCKED
<1>16. ASSUME NEW w \in Workers, worker_take(w) PROVE LockHeld'
  BY <1>16, ThreadsAssumption
     DEF TypeOK, LockHeld, worker_take, HasWork, Popped, AfterPop,
         BusyAfterTake, Workers, MAIN, UNLOCKED
<1>17. ASSUME NEW w \in Workers, worker_spurious(w) PROVE LockHeld'
  BY <1>17, ThreadsAssumption
     DEF TypeOK, LockHeld, worker_spurious, HasWork, Workers, MAIN, UNLOCKED
<1>18. ASSUME NEW w \in Workers, worker_work(w) PROVE LockHeld'
  BY <1>18 DEF TypeOK, LockHeld, worker_work
<1>19. ASSUME NEW w \in Workers, worker_finish(w) PROVE LockHeld'
  BY <1>19, ThreadsAssumption
     DEF TypeOK, LockHeld, worker_finish, Workers, MAIN, UNLOCKED
<1>20. ASSUME NEW w \in Workers, worker_cancel(w) PROVE LockHeld'
  BY <1>20 DEF TypeOK, LockHeld, worker_cancel
<1>21. CASE Finished
  BY <1>21 DEF TypeOK, LockHeld, Finished, vars
<1>22. ASSUME NEW w \in Workers, worker_log(w) PROVE LockHeld'
  BY <1>22 DEF TypeOK, LockHeld, worker_log
<1>23. ASSUME NEW w \in Workers, worker_log_lock(w) PROVE LockHeld'
  BY <1>23 DEF TypeOK, LockHeld, worker_log_lock
<1>24. ASSUME NEW w \in Workers, worker_log_unlock(w) PROVE LockHeld'
  BY <1>24 DEF TypeOK, LockHeld, worker_log_unlock
<1>25. CASE Hung
  BY <1>25 DEF TypeOK, LockHeld, Hung, vars
<1> QED
  BY <1>1, <1>2, <1>3, <1>4, <1>5, <1>6, <1>7, <1>8, <1>9, <1>10, <1>11, <1>12,
     <1>13, <1>14, <1>15, <1>16, <1>17, <1>18, <1>19, <1>20, <1>21, <1>22, <1>23, <1>24,
     <1>25
     DEF Next, AddWork, Destroy, Worker

(* The main thread takes the branch of thread_pool_destroy of its option.  *)
LEMMA OptionStep ==
  ASSUME TypeOK, OptionPlace, Next
  PROVE  OptionPlace'
<1>1. CASE add_work_lock
  BY <1>1 DEF TypeOK, OptionPlace, add_work_lock
<1>2. ASSUME NEW t \in Tasks, add_work_push(t) PROVE OptionPlace'
  BY <1>2 DEF TypeOK, OptionPlace, add_work_push
<1>3. CASE add_work_post
  BY <1>3 DEF TypeOK, OptionPlace, add_work_post, TokensAfterAdd
<1>4. ASSUME NEW opt \in Options, thread_pool_destroy(opt) PROVE OptionPlace'
  BY <1>4, OptionsAssumption DEF TypeOK, OptionPlace, thread_pool_destroy
<1>5. CASE destroy_spin
  BY <1>5 DEF TypeOK, OptionPlace, destroy_spin, SpinOver
<1>6. CASE destroy_spin_again
  BY <1>6 DEF TypeOK, OptionPlace, destroy_spin_again, SpinOver, vars
<1>7. CASE destroy_lock
  BY <1>7 DEF TypeOK, OptionPlace, destroy_lock
<1>8. CASE destroy_mark
  BY <1>8 DEF TypeOK, OptionPlace, destroy_mark, StatesAfterMark
<1>9. CASE destroy_signal
  BY <1>9 DEF TypeOK, OptionPlace, destroy_signal, Advance
<1>10. CASE destroy_cancel
  BY <1>10 DEF TypeOK, OptionPlace, destroy_cancel, Advance
<1>11. CASE destroy_join
  BY <1>11 DEF TypeOK, OptionPlace, destroy_join, Advance
<1>12. CASE destroy_release
  BY <1>12 DEF TypeOK, OptionPlace, destroy_release
<1>13. ASSUME NEW w \in Workers, worker_sem_wait(w) PROVE OptionPlace'
  BY <1>13 DEF TypeOK, OptionPlace, worker_sem_wait
<1>14. ASSUME NEW w \in Workers, worker_lock(w) PROVE OptionPlace'
  BY <1>14 DEF TypeOK, OptionPlace, worker_lock
<1>15. ASSUME NEW w \in Workers, worker_terminate(w) PROVE OptionPlace'
  BY <1>15 DEF TypeOK, OptionPlace, worker_terminate
<1>16. ASSUME NEW w \in Workers, worker_take(w) PROVE OptionPlace'
  BY <1>16
     DEF TypeOK, OptionPlace, worker_take, HasWork, Popped, AfterPop,
         BusyAfterTake
<1>17. ASSUME NEW w \in Workers, worker_spurious(w) PROVE OptionPlace'
  BY <1>17 DEF TypeOK, OptionPlace, worker_spurious, HasWork
<1>18. ASSUME NEW w \in Workers, worker_work(w) PROVE OptionPlace'
  BY <1>18 DEF TypeOK, OptionPlace, worker_work
<1>19. ASSUME NEW w \in Workers, worker_finish(w) PROVE OptionPlace'
  BY <1>19 DEF TypeOK, OptionPlace, worker_finish
<1>20. ASSUME NEW w \in Workers, worker_cancel(w) PROVE OptionPlace'
  BY <1>20 DEF TypeOK, OptionPlace, worker_cancel
<1>21. CASE Finished
  BY <1>21 DEF TypeOK, OptionPlace, Finished, vars
<1>22. ASSUME NEW w \in Workers, worker_log(w) PROVE OptionPlace'
  BY <1>22 DEF TypeOK, OptionPlace, worker_log
<1>23. ASSUME NEW w \in Workers, worker_log_lock(w) PROVE OptionPlace'
  BY <1>23 DEF TypeOK, OptionPlace, worker_log_lock
<1>24. ASSUME NEW w \in Workers, worker_log_unlock(w) PROVE OptionPlace'
  BY <1>24 DEF TypeOK, OptionPlace, worker_log_unlock
<1>25. CASE Hung
  BY <1>25 DEF TypeOK, OptionPlace, Hung, vars
<1> QED
  BY <1>1, <1>2, <1>3, <1>4, <1>5, <1>6, <1>7, <1>8, <1>9, <1>10, <1>11, <1>12,
     <1>13, <1>14, <1>15, <1>16, <1>17, <1>18, <1>19, <1>20, <1>21, <1>22, <1>23, <1>24,
     <1>25
     DEF Next, AddWork, Destroy, Worker

(* A worker is BUSY from taking a task until it has relocked, and holds a  *)
(* task only while it works on it.                                         *)
LEMMA WorkerStep ==
  ASSUME TypeOK, OptionPlace, LockHeld, WorkerPlace, WorkCount, Next
  PROVE  WorkerPlace'
<1>1. CASE add_work_lock
  BY <1>1
     DEF TypeOK, OptionPlace, LockHeld, WorkerPlace, WorkCount, Stopping,
         Marked, Workers, add_work_lock
<1>2. ASSUME NEW t \in Tasks, add_work_push(t) PROVE WorkerPlace'
  BY <1>2
     DEF TypeOK, OptionPlace, LockHeld, WorkerPlace, WorkCount, Stopping,
         Marked, Workers, add_work_push
<1>3. CASE add_work_post
  BY <1>3
     DEF TypeOK, OptionPlace, LockHeld, WorkerPlace, WorkCount, Stopping,
         Marked, Workers, add_work_post, TokensAfterAdd
<1>4. ASSUME NEW opt \in Options, thread_pool_destroy(opt) PROVE WorkerPlace'
  BY <1>4, OptionsAssumption
     DEF TypeOK, OptionPlace, LockHeld, WorkerPlace, WorkCount, Stopping,
         Marked, Workers, thread_pool_destroy
<1>5. CASE destroy_spin
  BY <1>5
     DEF TypeOK, OptionPlace, LockHeld, WorkerPlace, WorkCount, Stopping,
         Marked, Workers, destroy_spin, SpinOver
<1>6. CASE destroy_spin_again
  BY <1>6
     DEF TypeOK, OptionPlace, LockHeld, WorkerPlace, WorkCount, Stopping,
         Marked, Workers, destroy_spin_again, SpinOver, vars
<1>7. CASE destroy_lock
  BY <1>7
     DEF TypeOK, OptionPlace, LockHeld, WorkerPlace, WorkCount, Stopping,
         Marked, Workers, destroy_lock
<1>8. CASE destroy_mark
  BY <1>8
     DEF TypeOK, OptionPlace, LockHeld, WorkerPlace, WorkCount, Stopping,
         Marked, Workers, destroy_mark, StatesAfterMark
<1>9. CASE destroy_signal
  BY <1>9
     DEF TypeOK, OptionPlace, LockHeld, WorkerPlace, WorkCount, Stopping,
         Marked, Workers, destroy_signal, Advance
<1>10. CASE destroy_cancel
  BY <1>10
     DEF TypeOK, OptionPlace, LockHeld, WorkerPlace, WorkCount, Stopping,
         Marked, Workers, destroy_cancel, Advance
<1>11. CASE destroy_join
  BY <1>11
     DEF TypeOK, OptionPlace, LockHeld, WorkerPlace, WorkCount, Stopping,
         Marked, Workers, destroy_join, Advance
<1>12. CASE destroy_release
  BY <1>12
     DEF TypeOK, OptionPlace, LockHeld, WorkerPlace, WorkCount, Stopping,
         Marked, Workers, destroy_release
<1>13. ASSUME NEW w \in Workers, worker_sem_wait(w) PROVE WorkerPlace'
  BY <1>13
     DEF TypeOK, OptionPlace, LockHeld, WorkerPlace, WorkCount, Stopping,
         Marked, Workers, worker_sem_wait
<1>14. ASSUME NEW w \in Workers, worker_lock(w) PROVE WorkerPlace'
  BY <1>14
     DEF TypeOK, OptionPlace, LockHeld, WorkerPlace, WorkCount, Stopping,
         Marked, Workers, worker_lock
<1>15. ASSUME NEW w \in Workers, worker_terminate(w) PROVE WorkerPlace'
  BY <1>15
     DEF TypeOK, OptionPlace, LockHeld, WorkerPlace, WorkCount, Stopping,
         Marked, Workers, worker_terminate
<1>16. ASSUME NEW w \in Workers, worker_take(w) PROVE WorkerPlace'
  BY <1>16, TasksAssumption
     DEF TypeOK, OptionPlace, LockHeld, WorkerPlace, WorkCount, Stopping,
         Marked, Workers, worker_take, HasWork, Popped, AfterPop, BusyAfterTake
<1>17. ASSUME NEW w \in Workers, worker_spurious(w) PROVE WorkerPlace'
  BY <1>17
     DEF TypeOK, OptionPlace, LockHeld, WorkerPlace, WorkCount, Stopping,
         Marked, Workers, worker_spurious, HasWork
<1>18. ASSUME NEW w \in Workers, worker_work(w) PROVE WorkerPlace'
  BY <1>18
     DEF TypeOK, OptionPlace, LockHeld, WorkerPlace, WorkCount, Stopping,
         Marked, Workers, worker_work
<1>19. ASSUME NEW w \in Workers, worker_finish(w) PROVE WorkerPlace'
  BY <1>19
     DEF TypeOK, OptionPlace, LockHeld, WorkerPlace, WorkCount, Stopping,
         Marked, Workers, worker_finish
<1>20. ASSUME NEW w \in Workers, worker_cancel(w) PROVE WorkerPlace'
  BY <1>20, OptionsAssumption
     DEF TypeOK, OptionPlace, LockHeld, WorkerPlace, WorkCount, Stopping,
         Marked, Workers, worker_cancel
<1>21. CASE Finished
  BY <1>21
     DEF TypeOK, OptionPlace, LockHeld, WorkerPlace, WorkCount, Stopping,
         Marked, Workers, Finished, vars
<1>22. ASSUME NEW w \in Workers, worker_log(w) PROVE WorkerPlace'
  BY <1>22
     DEF TypeOK, OptionPlace, LockHeld, WorkerPlace, WorkCount, Stopping,
         Marked, Workers,
         worker_log
<1>23. ASSUME NEW w \in Workers, worker_log_lock(w) PROVE WorkerPlace'
  BY <1>23
     DEF TypeOK, OptionPlace, LockHeld, WorkerPlace, WorkCount, Stopping,
         Marked, Workers,
         worker_log_lock
<1>24. ASSUME NEW w \in Workers, worker_log_unlock(w) PROVE WorkerPlace'
  BY <1>24
     DEF TypeOK, OptionPlace, LockHeld, WorkerPlace, WorkCount, Stopping,
         Marked, Workers,
         worker_log_unlock
<1>25. CASE Hung
  BY <1>25
     DEF TypeOK, OptionPlace, LockHeld, WorkerPlace, WorkCount, Stopping,
         Marked, Workers, Hung, vars
<1> QED
  BY <1>1, <1>2, <1>3, <1>4, <1>5, <1>6, <1>7, <1>8, <1>9, <1>10, <1>11, <1>12,
     <1>13, <1>14, <1>15, <1>16, <1>17, <1>18, <1>19, <1>20, <1>21, <1>22, <1>23, <1>24,
     <1>25
     DEF Next, AddWork, Destroy, Worker

(* The queue and its counter change together.                              *)
LEMMA CountStep ==
  ASSUME TypeOK, WorkCount, Next
  PROVE  WorkCount'
<1>1. CASE add_work_lock
  BY <1>1 DEF TypeOK, WorkCount, add_work_lock
<1>2. ASSUME NEW t \in Tasks, add_work_push(t) PROVE WorkCount'
  BY <1>2 DEF TypeOK, WorkCount, add_work_push
<1>3. CASE add_work_post
  BY <1>3 DEF TypeOK, WorkCount, add_work_post, TokensAfterAdd
<1>4. ASSUME NEW opt \in Options, thread_pool_destroy(opt) PROVE WorkCount'
  BY <1>4 DEF TypeOK, WorkCount, thread_pool_destroy
<1>5. CASE destroy_spin
  BY <1>5 DEF TypeOK, WorkCount, destroy_spin, SpinOver
<1>6. CASE destroy_spin_again
  BY <1>6 DEF TypeOK, WorkCount, destroy_spin_again, SpinOver, vars
<1>7. CASE destroy_lock
  BY <1>7 DEF TypeOK, WorkCount, destroy_lock
<1>8. CASE destroy_mark
  BY <1>8 DEF TypeOK, WorkCount, destroy_mark, StatesAfterMark
<1>9. CASE destroy_signal
  BY <1>9 DEF TypeOK, WorkCount, destroy_signal, Advance
<1>10. CASE destroy_cancel
  BY <1>10 DEF TypeOK, WorkCount, destroy_cancel, Advance
<1>11. CASE destroy_join
  BY <1>11 DEF TypeOK, WorkCount, destroy_join, Advance
<1>12. CASE destroy_release
  BY <1>12 DEF TypeOK, WorkCount, destroy_release
<1>13. ASSUME NEW w \in Workers, worker_sem_wait(w) PROVE WorkCount'
  BY <1>13 DEF TypeOK, WorkCount, worker_sem_wait
<1>14. ASSUME NEW w \in Workers, worker_lock(w) PROVE WorkCount'
  BY <1>14 DEF TypeOK, WorkCount, worker_lock
<1>15. ASSUME NEW w \in Workers, worker_terminate(w) PROVE WorkCount'
  BY <1>15 DEF TypeOK, WorkCount, worker_terminate
<1>16. ASSUME NEW w \in Workers, worker_take(w) PROVE WorkCount'
  BY <1>16
     DEF TypeOK, WorkCount, worker_take, HasWork, Popped, AfterPop,
         BusyAfterTake
<1>17. ASSUME NEW w \in Workers, worker_spurious(w) PROVE WorkCount'
  BY <1>17 DEF TypeOK, WorkCount, worker_spurious, HasWork
<1>18. ASSUME NEW w \in Workers, worker_work(w) PROVE WorkCount'
  BY <1>18 DEF TypeOK, WorkCount, worker_work
<1>19. ASSUME NEW w \in Workers, worker_finish(w) PROVE WorkCount'
  BY <1>19 DEF TypeOK, WorkCount, worker_finish
<1>20. ASSUME NEW w \in Workers, worker_cancel(w) PROVE WorkCount'
  BY <1>20 DEF TypeOK, WorkCount, worker_cancel
<1>21. CASE Finished
  BY <1>21 DEF TypeOK, WorkCount, Finished, vars
<1>22. ASSUME NEW w \in Workers, worker_log(w) PROVE WorkCount'
  BY <1>22 DEF TypeOK, WorkCount, worker_log
<1>23. ASSUME NEW w \in Workers, worker_log_lock(w) PROVE WorkCount'
  BY <1>23 DEF TypeOK, WorkCount, worker_log_lock
<1>24. ASSUME NEW w \in Workers, worker_log_unlock(w) PROVE WorkCount'
  BY <1>24 DEF TypeOK, WorkCount, worker_log_unlock
<1>25. CASE Hung
  BY <1>25 DEF TypeOK, WorkCount, Hung, vars
<1> QED
  BY <1>1, <1>2, <1>3, <1>4, <1>5, <1>6, <1>7, <1>8, <1>9, <1>10, <1>11, <1>12,
     <1>13, <1>14, <1>15, <1>16, <1>17, <1>18, <1>19, <1>20, <1>21, <1>22, <1>23, <1>24,
     <1>25
     DEF Next, AddWork, Destroy, Worker

(* SOFT stops with nothing queued, and a join lets its worker pass.        *)
LEMMA DestroyStep ==
  ASSUME TypeOK, OptionPlace, WorkCount, DestroyProgress, Next
  PROVE  DestroyProgress'
<1>1. CASE add_work_lock
  BY <1>1
     DEF TypeOK, OptionPlace, WorkCount, DestroyProgress, Workers,
         add_work_lock
<1>2. ASSUME NEW t \in Tasks, add_work_push(t) PROVE DestroyProgress'
  BY <1>2, OptionsAssumption
     DEF TypeOK, OptionPlace, WorkCount, DestroyProgress, Workers,
         add_work_push
<1>3. CASE add_work_post
  BY <1>3
     DEF TypeOK, OptionPlace, WorkCount, DestroyProgress, Workers,
         add_work_post, TokensAfterAdd
<1>4. ASSUME NEW opt \in Options, thread_pool_destroy(opt) PROVE DestroyProgress'
  BY <1>4, OptionsAssumption
     DEF TypeOK, OptionPlace, WorkCount, DestroyProgress, Workers,
         thread_pool_destroy
<1>5. CASE destroy_spin
  BY <1>5
     DEF TypeOK, OptionPlace, WorkCount, DestroyProgress, Workers,
         destroy_spin, SpinOver
<1>6. CASE destroy_spin_again
  BY <1>6
     DEF TypeOK, OptionPlace, WorkCount, DestroyProgress, Workers,
         destroy_spin_again, SpinOver, vars
<1>7. CASE destroy_lock
  BY <1>7
     DEF TypeOK, OptionPlace, WorkCount, DestroyProgress, Workers, destroy_lock
<1>8. CASE destroy_mark
  BY <1>8
     DEF TypeOK, OptionPlace, WorkCount, DestroyProgress, Workers,
         destroy_mark, StatesAfterMark
<1>9. CASE destroy_signal
  BY <1>9
     DEF TypeOK, OptionPlace, WorkCount, DestroyProgress, Workers,
         destroy_signal, Advance
<1>10. CASE destroy_cancel
  BY <1>10
     DEF TypeOK, OptionPlace, WorkCount, DestroyProgress, Workers,
         destroy_cancel, Advance
<1>11. CASE destroy_join
  BY <1>11, ThreadsAssumption
     DEF TypeOK, OptionPlace, WorkCount, DestroyProgress, Workers,
         destroy_join, Advance
<1>12. CASE destroy_release
  BY <1>12
     DEF TypeOK, OptionPlace, WorkCount, DestroyProgress, Workers,
         destroy_release
<1>13. ASSUME NEW w \in Workers, worker_sem_wait(w) PROVE DestroyProgress'
  BY <1>13
     DEF TypeOK, OptionPlace, WorkCount, DestroyProgress, Workers,
         worker_sem_wait
<1>14. ASSUME NEW w \in Workers, worker_lock(w) PROVE DestroyProgress'
  BY <1>14
     DEF TypeOK, OptionPlace, WorkCount, DestroyProgress, Workers, worker_lock
<1>15. ASSUME NEW w \in Workers, worker_terminate(w) PROVE DestroyProgress'
  BY <1>15
     DEF TypeOK, OptionPlace, WorkCount, DestroyProgress, Workers,
         worker_terminate
<1>16. ASSUME NEW w \in Workers, worker_take(w) PROVE DestroyProgress'
  BY <1>16
     DEF TypeOK, OptionPlace, WorkCount, DestroyProgress, Workers, worker_take,
         HasWork, Popped, AfterPop, BusyAfterTake
<1>17. ASSUME NEW w \in Workers, worker_spurious(w) PROVE DestroyProgress'
  BY <1>17
     DEF TypeOK, OptionPlace, WorkCount, DestroyProgress, Workers,
         worker_spurious, HasWork
<1>18. ASSUME NEW w \in Workers, worker_work(w) PROVE DestroyProgress'
  BY <1>18
     DEF TypeOK, OptionPlace, WorkCount, DestroyProgress, Workers, worker_work
<1>19. ASSUME NEW w \in Workers, worker_finish(w) PROVE DestroyProgress'
  BY <1>19
     DEF TypeOK, OptionPlace, WorkCount, DestroyProgress, Workers,
         worker_finish
<1>20. ASSUME NEW w \in Workers, worker_cancel(w) PROVE DestroyProgress'
  BY <1>20
     DEF TypeOK, OptionPlace, WorkCount, DestroyProgress, Workers,
         worker_cancel
<1>21. CASE Finished
  BY <1>21
     DEF TypeOK, OptionPlace, WorkCount, DestroyProgress, Workers, Finished,
         vars
<1>22. ASSUME NEW w \in Workers, worker_log(w) PROVE DestroyProgress'
  BY <1>22
     DEF TypeOK, OptionPlace, WorkCount, DestroyProgress, Workers,
         worker_log
<1>23. ASSUME NEW w \in Workers, worker_log_lock(w) PROVE DestroyProgress'
  BY <1>23
     DEF TypeOK, OptionPlace, WorkCount, DestroyProgress, Workers,
         worker_log_lock
<1>24. ASSUME NEW w \in Workers, worker_log_unlock(w) PROVE DestroyProgress'
  BY <1>24
     DEF TypeOK, OptionPlace, WorkCount, DestroyProgress, Workers,
         worker_log_unlock
<1>25. CASE Hung
  BY <1>25
     DEF TypeOK, OptionPlace, WorkCount, DestroyProgress, Workers, Hung,
         vars
<1> QED
  BY <1>1, <1>2, <1>3, <1>4, <1>5, <1>6, <1>7, <1>8, <1>9, <1>10, <1>11, <1>12,
     <1>13, <1>14, <1>15, <1>16, <1>17, <1>18, <1>19, <1>20, <1>21, <1>22, <1>23, <1>24,
     <1>25
     DEF Next, AddWork, Destroy, Worker

-----------------------------------------------------------------------------
(* Counting workers.                                                       *)
LEMMA WorkerSets ==
  ASSUME NEW S \in SUBSET Workers
  PROVE  /\ IsFiniteSet(S) /\ Cardinality(S) \in Nat
         /\ \A w \in Workers : /\ w \notin S => Cardinality(S \cup {w}) = Cardinality(S) + 1
                              /\ w \in S => Cardinality(S \ {w}) = Cardinality(S) - 1
<1>1. IsFiniteSet(Workers)
  BY ThreadsAssumption, FS_Interval DEF Workers
<1>2. IsFiniteSet(S)
  BY <1>1, FS_Subset
<1>3. Cardinality(S) \in Nat
  BY <1>2, FS_CardinalityType
<1> QED
  BY <1>2, <1>3, FS_AddElement, FS_RemoveElement

(* Posts and waits of pool_sem keep up with pushes and pops.               *)
LEMMA WakeupStep ==
  ASSUME TypeOK, OptionPlace, WorkerPlace, WorkCount, NoLostWakeup, Next
  PROVE  NoLostWakeup'
<1>1. CASE add_work_lock
  BY <1>1 DEF NoLostWakeup, Woken, Stopping, add_work_lock
<1>2. ASSUME NEW t \in Tasks, add_work_push(t) PROVE NoLostWakeup'
  <2>1. Cardinality(Woken) \in Nat
    <3>1. Woken \in SUBSET Workers
      BY DEF Woken
    <3> QED
      BY <3>1, WorkerSets
  <2>2. Woken' = Woken
    BY <1>2 DEF add_work_push, Woken
  <2> QED
    BY <1>2, <2>1, <2>2 DEF add_work_push, TokensAfterAdd, NoLostWakeup, Stopping, TypeOK
<1>3. CASE add_work_post
  <2>1. Cardinality(Woken) \in Nat
    <3>1. Woken \in SUBSET Workers
      BY DEF Woken
    <3> QED
      BY <3>1, WorkerSets
  <2>2. Woken' = Woken
    BY <1>3 DEF add_work_post, Woken
  <2> QED
    BY <1>3, <2>1, <2>2 DEF add_work_post, TokensAfterAdd, NoLostWakeup, Stopping, TypeOK
<1>4. ASSUME NEW opt \in Options, thread_pool_destroy(opt) PROVE NoLostWakeup'
  <2>1. Woken' = Woken /\ mpc' \notin {"caller", "post"}
    BY <1>4, OptionsAssumption DEF thread_pool_destroy, Woken
  <2> QED
    BY <1>4, <2>1 DEF thread_pool_destroy, NoLostWakeup, Stopping
<1>5. CASE destroy_spin
  BY <1>5 DEF NoLostWakeup, Woken, Stopping, destroy_spin, SpinOver
<1>6. CASE destroy_spin_again
  BY <1>6 DEF NoLostWakeup, Woken, Stopping, destroy_spin_again, SpinOver, vars
<1>7. CASE destroy_lock
  BY <1>7 DEF NoLostWakeup, Woken, Stopping, destroy_lock
<1>8. CASE destroy_mark
  BY <1>8 DEF NoLostWakeup, Woken, Stopping, destroy_mark, StatesAfterMark
<1>9. CASE destroy_signal
  BY <1>9 DEF NoLostWakeup, Woken, Stopping, destroy_signal, Advance
<1>10. CASE destroy_cancel
  BY <1>10 DEF NoLostWakeup, Woken, Stopping, destroy_cancel, Advance
<1>11. CASE destroy_join
  BY <1>11 DEF NoLostWakeup, Woken, Stopping, destroy_join, Advance
<1>12. CASE destroy_release
  BY <1>12 DEF NoLostWakeup, Woken, Stopping, destroy_release
<1>13. ASSUME NEW w \in Workers, worker_sem_wait(w) PROVE NoLostWakeup'
  <2>1. Woken' = Woken \cup {w} /\ w \notin Woken
    BY <1>13 DEF worker_sem_wait, Woken, TypeOK
  <2>2. Woken \in SUBSET Workers
    BY DEF Woken
  <2>3. Cardinality(Woken') = Cardinality(Woken) + 1 /\ Cardinality(Woken) \in Nat
    BY <2>1, <2>2, WorkerSets
  <2> QED
    BY <1>13, <2>3 DEF worker_sem_wait, NoLostWakeup, Stopping, TypeOK
<1>14. ASSUME NEW w \in Workers, worker_lock(w) PROVE NoLostWakeup'
  <2>1. Woken' = Woken
    BY <1>14 DEF worker_lock, Woken, TypeOK
  <2> QED
    BY <1>14, <2>1 DEF worker_lock, NoLostWakeup, Stopping
<1>15. ASSUME NEW w \in Workers, worker_terminate(w) PROVE NoLostWakeup'
  BY <1>15 DEF worker_terminate, WorkerPlace, NoLostWakeup, Stopping
<1>16. ASSUME NEW w \in Workers, worker_take(w) PROVE NoLostWakeup'
  <2>1. Woken' = Woken \ {w} /\ w \in Woken
    BY <1>16 DEF worker_take, Woken, TypeOK
  <2>2. Woken \in SUBSET Workers
    BY DEF Woken
  <2>3. Cardinality(Woken') = Cardinality(Woken) - 1 /\ Cardinality(Woken) \in Nat
    BY <2>1, <2>2, WorkerSets
  <2>4. Len(queue') = Len(queue) - 1 /\ Len(queue) \in Nat
    BY <1>16 DEF worker_take, HasWork, AfterPop, WorkCount, TypeOK
  <2> QED
    BY <1>16, <2>3, <2>4 DEF worker_take, NoLostWakeup, Stopping, TypeOK
<1>17. ASSUME NEW w \in Workers, worker_spurious(w) PROVE NoLostWakeup'
  <2>1. Len(queue) = 0
    BY <1>17 DEF worker_spurious, HasWork, WorkCount, TypeOK
  <2>2. Woken' \in SUBSET Workers
    BY DEF Woken
  <2>3. Cardinality(Woken') \in Nat
    BY <2>2, WorkerSets
  <2> QED
    BY <1>17, <2>1, <2>3 DEF worker_spurious, NoLostWakeup, Stopping, TypeOK
<1>18. ASSUME NEW w \in Workers, worker_work(w) PROVE NoLostWakeup'
  <2>1. Woken' = Woken
    BY <1>18 DEF worker_work, Woken, TypeOK
  <2> QED
    BY <1>18, <2>1 DEF worker_work, NoLostWakeup, Stopping
<1>19. ASSUME NEW w \in Workers, worker_finish(w) PROVE NoLostWakeup'
  <2>1. Woken' = Woken
    BY <1>19 DEF worker_finish, Woken, TypeOK
  <2> QED
    BY <1>19, <2>1 DEF worker_finish, NoLostWakeup, Stopping
<1>20. ASSUME NEW w \in Workers, worker_cancel(w) PROVE NoLostWakeup'
  <2>1. Stopping
    BY <1>20, OptionsAssumption DEF worker_cancel, OptionPlace, Stopping, TypeOK
  <2> QED
    BY <1>20, <2>1 DEF worker_cancel, NoLostWakeup, Stopping
<1>21. CASE Finished
  BY <1>21 DEF NoLostWakeup, Woken, Stopping, Finished, vars
<1>22. ASSUME NEW w \in Workers, worker_log(w) PROVE NoLostWakeup'
  <2>1. Woken' = Woken
    BY <1>22 DEF worker_log, Woken, TypeOK
  <2> QED
    BY <1>22, <2>1 DEF worker_log, NoLostWakeup, Stopping
<1>23. ASSUME NEW w \in Workers, worker_log_lock(w) PROVE NoLostWakeup'
  <2>1. Woken' = Woken
    BY <1>23 DEF worker_log_lock, Woken, TypeOK
  <2> QED
    BY <1>23, <2>1 DEF worker_log_lock, NoLostWakeup, Stopping
<1>24. ASSUME NEW w \in Workers, worker_log_unlock(w) PROVE NoLostWakeup'
  <2>1. Woken' = Woken
    BY <1>24 DEF worker_log_unlock, Woken, TypeOK
  <2> QED
    BY <1>24, <2>1 DEF worker_log_unlock, NoLostWakeup, Stopping
<1>25. CASE Hung
  BY <1>25 DEF NoLostWakeup, Woken, Stopping, Hung, vars
<1> QED
  BY <1>1, <1>2, <1>3, <1>4, <1>5, <1>6, <1>7, <1>8, <1>9, <1>10, <1>11, <1>12,
     <1>13, <1>14, <1>15, <1>16, <1>17, <1>18, <1>19, <1>20, <1>21, <1>22, <1>23, <1>24,
     <1>25
     DEF Next, AddWork, Destroy, Worker

(* busy_threads_num follows the state of the worker that takes or finishes.*)
LEMMA BusyStep ==
  ASSUME TypeOK, WorkerPlace, BusyExact, Next
  PROVE  BusyExact'
<1>1. CASE add_work_lock
  BY <1>1 DEF BusyExact, Stopping, add_work_lock
<1>2. ASSUME NEW t \in Tasks, add_work_push(t) PROVE BusyExact'
  BY <1>2 DEF BusyExact, Stopping, add_work_push
<1>3. CASE add_work_post
  BY <1>3 DEF BusyExact, Stopping, add_work_post, TokensAfterAdd
<1>4. ASSUME NEW opt \in Options, thread_pool_destroy(opt) PROVE BusyExact'
  BY <1>4 DEF BusyExact, Stopping, thread_pool_destroy
<1>5. CASE destroy_spin
  BY <1>5 DEF BusyExact, Stopping, destroy_spin, SpinOver
<1>6. CASE destroy_spin_again
  BY <1>6 DEF BusyExact, Stopping, destroy_spin_again, SpinOver, vars
<1>7. CASE destroy_lock
  BY <1>7 DEF BusyExact, Stopping, destroy_lock
<1>8. CASE destroy_mark
  BY <1>8 DEF BusyExact, Stopping, destroy_mark, StatesAfterMark
<1>9. CASE destroy_signal
  BY <1>9 DEF BusyExact, Stopping, destroy_signal, Advance
<1>10. CASE destroy_cancel
  BY <1>10 DEF BusyExact, Stopping, destroy_cancel, Advance
<1>11. CASE destroy_join
  BY <1>11 DEF BusyExact, Stopping, destroy_join, Advance
<1>12. CASE destroy_release
  BY <1>12 DEF BusyExact, Stopping, destroy_release
<1>13. ASSUME NEW w \in Workers, worker_sem_wait(w) PROVE BusyExact'
  BY <1>13 DEF BusyExact, Stopping, worker_sem_wait
<1>14. ASSUME NEW w \in Workers, worker_lock(w) PROVE BusyExact'
  BY <1>14 DEF BusyExact, Stopping, worker_lock
<1>15. ASSUME NEW w \in Workers, worker_terminate(w) PROVE BusyExact'
  BY <1>15 DEF BusyExact, Stopping, worker_terminate
<1>16. ASSUME NEW w \in Workers, worker_take(w) PROVE BusyExact'
  <2> DEFINE Busy == {v \in Workers : state[v] = "BUSY"}
  <2>1. CASE Stopping
    BY <1>16, <2>1 DEF worker_take, BusyExact, Stopping
  <2>2. CASE ~Stopping
    <3>1. Busy' = Busy \cup {w} /\ w \notin Busy
      BY <1>16, <2>2 DEF worker_take, WorkerPlace, TypeOK
    <3>2. Cardinality(Busy') = Cardinality(Busy) + 1
      <4> HIDE DEF Busy
      <4>1. Busy \in SUBSET Workers
        BY DEF Busy
      <4> QED
        BY <3>1, <4>1, WorkerSets
    <3> QED
      BY <1>16, <2>2, <3>2 DEF worker_take, BusyAfterTake, BusyExact
  <2> QED
    BY <2>1, <2>2
<1>17. ASSUME NEW w \in Workers, worker_spurious(w) PROVE BusyExact'
  BY <1>17 DEF BusyExact, Stopping, worker_spurious, HasWork
<1>18. ASSUME NEW w \in Workers, worker_work(w) PROVE BusyExact'
  BY <1>18 DEF BusyExact, Stopping, worker_work
<1>19. ASSUME NEW w \in Workers, worker_finish(w) PROVE BusyExact'
  <2> DEFINE Busy == {v \in Workers : state[v] = "BUSY"}
  <2>1. CASE Stopping
    BY <1>19, <2>1 DEF worker_finish, BusyExact, Stopping
  <2>2. CASE ~Stopping
    <3>1. Busy' = Busy \ {w} /\ w \in Busy
      BY <1>19, <2>2 DEF worker_finish, WorkerPlace, TypeOK
    <3>2. Cardinality(Busy') = Cardinality(Busy) - 1
      <4> HIDE DEF Busy
      <4>1. Busy \in SUBSET Workers
        BY DEF Busy
      <4> QED
        BY <3>1, <4>1, WorkerSets
    <3> QED
      BY <1>19, <2>2, <3>2 DEF worker_finish, BusyExact
  <2> QED
    BY <2>1, <2>2
<1>20. ASSUME NEW w \in Workers, worker_cancel(w) PROVE BusyExact'
  BY <1>20 DEF BusyExact, Stopping, worker_cancel
<1>21. CASE Finished
  BY <1>21 DEF BusyExact, Stopping, Finished, vars
<1>22. ASSUME NEW w \in Workers, worker_log(w) PROVE BusyExact'
  BY <1>22 DEF BusyExact, Stopping, worker_log
<1>23. ASSUME NEW w \in Workers, worker_log_lock(w) PROVE BusyExact'
  BY <1>23 DEF BusyExact, Stopping, worker_log_lock
<1>24. ASSUME NEW w \in Workers, worker_log_unlock(w) PROVE BusyExact'
  BY <1>24 DEF BusyExact, Stopping, worker_log_unlock
<1>25. CASE Hung
  BY <1>25 DEF BusyExact, Stopping, Hung, vars
<1> QED
  BY <1>1, <1>2, <1>3, <1>4, <1>5, <1>6, <1>7, <1>8, <1>9, <1>10, <1>11, <1>12,
     <1>13, <1>14, <1>15, <1>16, <1>17, <1>18, <1>19, <1>20, <1>21, <1>22, <1>23, <1>24,
     <1>25
     DEF Next, AddWork, Destroy, Worker

-----------------------------------------------------------------------------
(* add_work queues its task.                                               *)
LEMMA PushTask ==
  ASSUME TypeOK, NEW t \in Tasks, add_work_push(t)
  PROVE  /\ Queued' = Queued \cup {t} /\ InHand' = InHand
         /\ \A k \in 1 .. Len(queue') :
              queue'[k] = IF k = Len(queue) + 1 THEN t ELSE queue[k]
         /\ Len(queue') = Len(queue) + 1
<1>1. /\ queue \in Seq(Tasks) /\ Len(queue) \in Nat
      /\ Len(queue') = Len(queue) + 1
      /\ queue'[Len(queue) + 1] = t
      /\ \A k \in 1 .. Len(queue) : queue'[k] = queue[k]
  BY DEF TypeOK, add_work_push
<1>2. Queued' = Queued \cup {t}
  BY <1>1 DEF Queued
<1> QED
  BY <1>1, <1>2 DEF InHand, add_work_push

(* A worker takes the head of the queue.                                   *)
LEMMA TakeTask ==
  ASSUME TypeOK, WorkerPlace, WorkCount, TaskOnce, NEW w \in Workers, worker_take(w)
  PROVE  /\ queue # <<>> /\ Head(queue) \in Tasks /\ queue' = Tail(queue)
         /\ Head(queue) \in Queued /\ Queued' = Queued \ {Head(queue)}
         /\ InHand' = InHand \cup {Head(queue)}
         /\ task' = [task EXCEPT ![w] = Head(queue)]
         /\ Len(queue') = Len(queue) - 1
         /\ \A k \in 1 .. Len(queue') : queue'[k] = queue[k + 1]
<1>1. /\ queue \in Seq(Tasks) /\ Len(queue) \in Nat /\ Len(queue) >= 1 /\ queue # <<>>
  BY DEF worker_take, HasWork, WorkCount, TypeOK
<1>2. /\ Head(queue) = queue[1] /\ Head(queue) \in Tasks /\ queue' = Tail(queue)
      /\ task' = [task EXCEPT ![w] = Head(queue)]
  BY <1>1 DEF worker_take, AfterPop, Popped
<1>3. /\ Len(queue') = Len(queue) - 1
      /\ \A k \in 1 .. Len(queue') : queue'[k] = queue[k + 1]
  BY <1>1, <1>2, HeadTailProperties
<1>4. Head(queue) \in Queued /\ Queued' = Queued \ {Head(queue)}
  <2>1. \A k \in 1 .. Len(queue') : k + 1 \in 1 .. Len(queue) /\ k + 1 # 1
    BY <1>1, <1>3
  <2>2. \A k \in 1 .. Len(queue) : k # 1 => k - 1 \in 1 .. Len(queue') /\ queue'[k - 1] = queue[k]
    BY <1>1, <1>3
  <2>3. 1 \in 1 .. Len(queue)
    BY <1>1
  <2>4. ASSUME NEW u \in Queued' PROVE u \in Queued /\ u # Head(queue)
    <3>1. PICK k \in 1 .. Len(queue') : u = queue'[k]
      BY DEF Queued
    <3>2. u = queue[k + 1] /\ k + 1 \in 1 .. Len(queue) /\ k + 1 # 1
      BY <1>3, <2>1, <3>1
    <3> QED
      BY <1>2, <2>3, <3>2 DEF Queued, TaskOnce
  <2>5. ASSUME NEW u \in Queued, u # Head(queue) PROVE u \in Queued'
    <3>1. PICK k \in 1 .. Len(queue) : u = queue[k]
      BY DEF Queued
    <3>2. k - 1 \in 1 .. Len(queue') /\ queue'[k - 1] = u
      BY <1>2, <2>2, <2>5, <3>1
    <3> QED
      BY <3>2 DEF Queued
  <2>6. Head(queue) \in Queued
    BY <1>2, <2>3 DEF Queued
  <2> QED
    BY <2>4, <2>5, <2>6
<1>5. InHand' = InHand \cup {Head(queue)}
  <2>1. task[w] = NULL
    BY DEF WorkerPlace, worker_take
  <2> QED
    BY <1>2, <2>1, TasksAssumption DEF InHand, TypeOK
<1> QED
  BY <1>1, <1>2, <1>3, <1>4, <1>5

(* A worker that finishes its task, or is cancelled, holds it no longer.   *)
LEMMA DropTask ==
  ASSUME TypeOK, WorkerPlace, TaskOnce, NEW w \in Workers, worker_work(w) \/ worker_cancel(w)
  PROVE  /\ InHand' = InHand \ {task[w]} /\ Queued' = Queued
         /\ task' = [task EXCEPT ![w] = NULL]
<1>1. /\ task' = [task EXCEPT ![w] = NULL] /\ queue' = queue
  BY DEF worker_work, worker_cancel
<1>2. \A v \in Workers \ {w} : task[v] = task[w] => task[v] = NULL
  BY DEF TaskOnce
<1> QED
  BY <1>1, <1>2 DEF InHand, Queued, TypeOK

(* A step that moves no task.                                              *)
LEMMA TaskSame ==
  ASSUME TaskOnce, UNCHANGED <<queue, task, done, submitted>>, cancelled \subseteq cancelled'
  PROVE  TaskOnce'
<1>1. Queued' = Queued /\ InHand' = InHand
  BY DEF Queued, InHand
<1> QED
  BY <1>1 DEF TaskOnce

(* A task moves from the queue to one worker and from there to done.       *)
LEMMA TaskStep ==
  ASSUME TypeOK, WorkerPlace, WorkCount, TaskOnce, Next
  PROVE  TaskOnce'
<1>1. CASE add_work_lock
  BY <1>1, TaskSame DEF add_work_lock
<1>2. ASSUME NEW t \in Tasks, add_work_push(t) PROVE TaskOnce'
  <2>1. t \notin Queued \cup InHand \cup done
    BY <1>2 DEF add_work_push, TaskOnce
  <2>2. \A j, k \in 1 .. Len(queue') : queue'[j] = queue'[k] => j = k
    <3>1. \A k \in 1 .. Len(queue) : queue[k] # t
      BY <2>1 DEF Queued
    <3>2. Len(queue) \in Nat
      BY DEF TypeOK
    <3> QED
      BY <1>2, <3>1, <3>2, PushTask DEF TaskOnce
  <2>3. task' = task /\ done' = done /\ cancelled' = cancelled /\ submitted' = submitted \cup {t}
    BY <1>2 DEF add_work_push
  <2>4. Queued' = Queued \cup {t} /\ InHand' = InHand
    BY <1>2, PushTask
  <2> QED
    BY <2>1, <2>2, <2>3, <2>4 DEF TaskOnce
<1>3. CASE add_work_post
  BY <1>3, TaskSame DEF add_work_post
<1>4. ASSUME NEW opt \in Options, thread_pool_destroy(opt) PROVE TaskOnce'
  BY <1>4, TaskSame DEF thread_pool_destroy
<1>5. CASE destroy_spin
  BY <1>5, TaskSame DEF destroy_spin
<1>6. CASE destroy_spin_again
  BY <1>6, TaskSame DEF destroy_spin_again, vars
<1>7. CASE destroy_lock
  BY <1>7, TaskSame DEF destroy_lock
<1>8. CASE destroy_mark
  BY <1>8, TaskSame DEF destroy_mark
<1>9. CASE destroy_signal
  BY <1>9, TaskSame DEF destroy_signal
<1>10. CASE destroy_cancel
  BY <1>10, TaskSame DEF destroy_cancel
<1>11. CASE destroy_join
  BY <1>11, TaskSame DEF destroy_join
<1>12. CASE destroy_release
  BY <1>12, TaskSame DEF destroy_release
<1>13. ASSUME NEW w \in Workers, worker_sem_wait(w) PROVE TaskOnce'
  BY <1>13, TaskSame DEF worker_sem_wait
<1>14. ASSUME NEW w \in Workers, worker_lock(w) PROVE TaskOnce'
  BY <1>14, TaskSame DEF worker_lock
<1>15. ASSUME NEW w \in Workers, worker_terminate(w) PROVE TaskOnce'
  BY <1>15, TaskSame DEF worker_terminate
<1>16. ASSUME NEW w \in Workers, worker_take(w) PROVE TaskOnce'
  <2> DEFINE t == Head(queue)
  <2>1. /\ t \in Queued /\ Queued' = Queued \ {t} /\ InHand' = InHand \cup {t}
        /\ task' = [task EXCEPT ![w] = t] /\ t # NULL
        /\ Len(queue') = Len(queue) - 1
        /\ \A k \in 1 .. Len(queue') : queue'[k] = queue[k + 1]
    BY <1>16, TakeTask, TasksAssumption
  <2>2. done' = done /\ submitted' = submitted /\ cancelled' = cancelled
    BY <1>16 DEF worker_take
  <2>3. \A j, k \in 1 .. Len(queue') : queue'[j] = queue'[k] => j = k
    <3>1. Len(queue) \in Nat
      BY DEF TypeOK
    <3> HIDE DEF t
    <3> QED
      BY <2>1, <3>1 DEF TaskOnce
  <2>4. \A v \in Workers : task[v] # t
    BY <2>1 DEF TaskOnce, InHand
  <2>5. \A u, v \in Workers : task'[u] = task'[v] /\ task'[u] # NULL => u = v
    <3> HIDE DEF t
    <3> QED
      BY <2>1, <2>4 DEF TaskOnce, TypeOK
  <2> HIDE DEF t
  <2> QED
    BY <2>1, <2>2, <2>3, <2>5 DEF TaskOnce
<1>17. ASSUME NEW w \in Workers, worker_spurious(w) PROVE TaskOnce'
  BY <1>17, TaskSame DEF worker_spurious
<1>18. ASSUME NEW w \in Workers, worker_work(w) PROVE TaskOnce'
  <2>1. /\ InHand' = InHand \ {task[w]} /\ Queued' = Queued
        /\ task' = [task EXCEPT ![w] = NULL]
    BY <1>18, DropTask
  <2>2. /\ done' = done \cup {task[w]} /\ task[w] \in InHand
        /\ queue' = queue /\ submitted' = submitted /\ cancelled' = cancelled
    BY <1>18 DEF worker_work, WorkerPlace, InHand
  <2>3. \A u, v \in Workers : task'[u] = task'[v] /\ task'[u] # NULL => u = v
    BY <2>1 DEF TaskOnce, TypeOK
  <2> QED
    BY <2>1, <2>2, <2>3 DEF TaskOnce
<1>19. ASSUME NEW w \in Workers, worker_finish(w) PROVE TaskOnce'
  BY <1>19, TaskSame DEF worker_finish
<1>20. ASSUME NEW w \in Workers, worker_cancel(w) PROVE TaskOnce'
  <2>1. /\ InHand' = InHand \ {task[w]} /\ Queued' = Queued
        /\ task' = [task EXCEPT ![w] = NULL]
    BY <1>20, DropTask
  <2>2. /\ done' = done /\ queue' = queue /\ submitted' = submitted
        /\ cancelled' = cancelled /\ cancelled # {}
    BY <1>20 DEF worker_cancel
  <2>3. \A u, v \in Workers : task'[u] = task'[v] /\ task'[u] # NULL => u = v
    BY <2>1 DEF TaskOnce, TypeOK
  <2> QED
    BY <2>1, <2>2, <2>3 DEF TaskOnce
<1>21. CASE Finished
  BY <1>21, TaskSame DEF Finished, vars
<1>22. ASSUME NEW w \in Workers, worker_log(w) PROVE TaskOnce'
  BY <1>22, TaskSame DEF worker_log
<1>23. ASSUME NEW w \in Workers, worker_log_lock(w) PROVE TaskOnce'
  BY <1>23, TaskSame DEF worker_log_lock
<1>24. ASSUME NEW w \in Workers, worker_log_unlock(w) PROVE TaskOnce'
  BY <1>24, TaskSame DEF worker_log_unlock
<1>25. CASE Hung
  BY <1>25, TaskSame DEF Hung, vars
<1> QED
  BY <1>1, <1>2, <1>3, <1>4, <1>5, <1>6, <1>7, <1>8, <1>9, <1>10, <1>11, <1>12,
     <1>13, <1>14, <1>15, <1>16, <1>17, <1>18, <1>19, <1>20, <1>21, <1>22, <1>23, <1>24,
     <1>25
     DEF Next, AddWork, Destroy, Worker

-----------------------------------------------------------------------------
LEMMA InitInv == Init => IInv
<1> SUFFICES ASSUME Init PROVE IInv
  OBVIOUS
<1> USE ThreadsAssumption, TasksAssumption, OptionsAssumption, StaleAssumption
<1>1. queue = <<>> /\ Len(queue) = 0
  BY DEF Init
<1>2. TypeOK
  BY DEF Init, TypeOK, Workers, MAIN, UNLOCKED
<1>3. LockHeld /\ OptionPlace /\ WorkerPlace /\ DestroyProgress /\ WorkCount
  BY <1>1 DEF Init, LockHeld, OptionPlace, WorkerPlace, DestroyProgress, WorkCount,
              Marked, Workers, MAIN, UNLOCKED
<1>4. NoLostWakeup
  <2>1. Woken = {}
    BY DEF Init, Woken
  <2>2. pool_sem \in Nat /\ mpc = "caller"
    BY DEF Init
  <2> QED
    BY <1>1, <2>1, <2>2, FS_EmptySet DEF NoLostWakeup
<1>5. BusyExact
  <2>1. {w \in Workers : state[w] = "BUSY"} = {}
    BY DEF Init
  <2> QED
    BY <2>1, FS_EmptySet DEF Init, BusyExact
<1>6. TaskOnce
  <2>1. Queued = {} /\ InHand = {}
    BY <1>1 DEF Init, Queued, InHand
  <2> QED
    BY <1>1, <2>1 DEF Init, TaskOnce
<1> QED
  BY <1>2, <1>3, <1>4, <1>5, <1>6 DEF IInv

LEMMA NextInv == IInv /\ [Next]_vars => IInv'
<1>1. CASE IInv /\ Next
  <2>1. /\ TypeOK /\ LockHeld /\ OptionPlace /\ WorkerPlace /\ DestroyProgress
        /\ WorkCount /\ NoLostWakeup /\ BusyExact /\ TaskOnce /\ Next
    BY <1>1 DEF IInv
  <2>2. TypeOK' /\ LockHeld'
    BY <2>1, TypeStep, LockStep
  <2>3. OptionPlace' /\ WorkerPlace'
    BY <2>1, OptionStep, WorkerStep
  <2>4. WorkCount' /\ DestroyProgress'
    BY <2>1, CountStep, DestroyStep
  <2>5. NoLostWakeup' /\ BusyExact'
    BY <2>1, WakeupStep, BusyStep
  <2>6. TaskOnce'
    BY <2>1, TaskStep
  <2> QED
    BY <2>2, <2>3, <2>4, <2>5, <2>6 DEF IInv
<1>2. CASE IInv /\ UNCHANGED vars
  <2>1. TypeOK' /\ LockHeld' /\ OptionPlace' /\ WorkerPlace' /\ DestroyProgress' /\ WorkCount'
    BY <1>2 DEF vars, IInv, TypeOK, LockHeld, OptionPlace, WorkerPlace, DestroyProgress,
                WorkCount, Stopping, Marked
  <2>2. NoLostWakeup' /\ BusyExact'
    BY <1>2 DEF vars, IInv, NoLostWakeup, BusyExact, Woken, Stopping
  <2>3. TaskOnce'
    BY <1>2, TaskSame DEF vars, IInv
  <2> QED
    BY <2>1, <2>2, <2>3 DEF IInv
<1> QED
  BY <1>1, <1>2

(* Behind a SOFT destroy the queue is empty and every worker has exited,   *)
(* hence without a task, and nothing was cancelled.                        *)
LEMMA InvSoftDrains == IInv => SoftDrains
<1> SUFFICES ASSUME IInv, mpc = "destroyed", option = SOFT PROVE done = submitted
  BY DEF SoftDrains
<1>1. queue = <<>> /\ Queued = {}
  BY DEF IInv, DestroyProgress, Queued
<1>2. InHand = {}
  BY DEF IInv, DestroyProgress, WorkerPlace, InHand
<1>3. cancelled = {}
  BY OptionsAssumption DEF IInv, OptionPlace
<1> QED
  BY <1>1, <1>2, <1>3 DEF IInv, TaskOnce

(***************************************************************************)
(* For any number of workers, any tasks and any tokens left in pool_sem by *)
(* an earlier process: available_work counts the queue, no queued task is  *)
(* without a wake-up, busy_threads_num counts the busy threads, no task is *)
(* lost or processed twice, and a SOFT destroy returns with every task     *)
(* processed.                                                              *)
(***************************************************************************)
THEOREM PoolInvariant ==
  Spec => [](TypeOK /\ WorkCount /\ NoLostWakeup /\ BusyExact /\ TaskOnce /\ SoftDrains)
<1>1. Spec => []IInv
  BY InitInv, NextInv, PTL DEF Spec
<1>2. IInv => TypeOK /\ WorkCount /\ NoLostWakeup /\ BusyExact /\ TaskOnce /\ SoftDrains
  BY InvSoftDrains DEF IInv
<1> QED
  BY <1>1, <1>2, PTL

-----------------------------------------------------------------------------
(* A step that moves no task and neither enters, stops nor ends a destroy. *)
LEMMA Stutter ==
  ASSUME UNCHANGED <<queue, task, done, option>>, Stopped' = Stopped,
         (mpc = "destroyed")' = (mpc = "destroyed")
  PROVE  UNCHANGED Abstract!vars
BY DEF Abstract!vars, InHand

(* Each step of the pool is the abstract step its name says, or a stutter. *)
LEMMA StepRefines == ASSUME IInv, Next PROVE Abstract!Next \/ UNCHANGED Abstract!vars
<1> DEFINE Goal == Abstract!Next \/ UNCHANGED Abstract!vars
<1> USE DEF IInv
<1>1. ASSUME NEW t \in Tasks, add_work_push(t) PROVE Goal
  <2>1. option = "open" /\ t \notin submitted
    BY <1>1 DEF add_work_push, OptionPlace
  <2>2. t \notin InHand \cup done /\ \A k \in 1 .. Len(queue) : queue[k] # t
    BY <2>1 DEF TaskOnce, Queued
  <2>3. Stopped' = Stopped /\ InHand' = InHand /\ mpc # "destroyed" /\ mpc' # "destroyed"
    BY <1>1 DEF add_work_push, Stopped, Marked, InHand
  <2> QED
    BY <1>1, <2>1, <2>2, <2>3 DEF add_work_push, Abstract!Next, Abstract!Submit
<1>2. ASSUME NEW w \in Workers, worker_take(w) PROVE Goal
  <2>1. ~Stopped /\ Stopped' = Stopped
    BY <1>2 DEF worker_take, WorkerPlace, DestroyProgress, Stopped, Marked
  <2>2. queue # <<>> /\ queue' = Tail(queue) /\ InHand' = InHand \cup {Head(queue)}
    BY <1>2, TakeTask
  <2> QED
    BY <1>2, <2>1, <2>2 DEF worker_take, Abstract!Next, Abstract!Start
<1>3. ASSUME NEW w \in Workers, worker_work(w) PROVE Goal
  <2>1. /\ task[w] \in InHand /\ task[w] \in Tasks
        /\ done' = done \cup {task[w]}
    BY <1>3 DEF worker_work, WorkerPlace, TypeOK, InHand
  <2>2. InHand' = InHand \ {task[w]}
    BY <1>3, DropTask
  <2>3. Stopped' = Stopped
    BY <1>3 DEF worker_work, Stopped, Marked
  <2> QED
    BY <1>3, <2>1, <2>2, <2>3 DEF worker_work, Abstract!Next, Abstract!Finish
<1>4. ASSUME NEW w \in Workers, worker_cancel(w) PROVE Goal
  <2>1. option = HARD /\ InHand' = InHand \ {task[w]}
    BY <1>4, DropTask DEF worker_cancel, OptionPlace
  <2>2. UNCHANGED <<queue, done, option, mpc>> /\ Stopped' = Stopped
    BY <1>4 DEF worker_cancel, Stopped, Marked
  <2>3. CASE task[w] = NULL
    <3>1. InHand' = InHand
      BY <2>1, <2>3 DEF InHand
    <3> QED
      BY <2>2, <3>1 DEF Abstract!vars
  <2>4. CASE task[w] # NULL
    <3>1. task[w] \in Tasks /\ task[w] \in InHand
      BY <2>4 DEF TypeOK, InHand
    <3> QED
      BY <2>1, <2>2, <3>1 DEF Abstract!Next, Abstract!Abandon
  <2> QED
    BY <2>3, <2>4
<1>5. ASSUME NEW opt \in Options, thread_pool_destroy(opt) PROVE Goal
  <2>1. option = "open" /\ option' = opt /\ opt \in {SOFT, HARD, DRAIN_AND_DROP}
    BY <1>5, OptionsAssumption DEF thread_pool_destroy, OptionPlace
  <2>2. mpc = "caller" /\ mpc' \in {"spin", "stop_lock", "cancel"}
    BY <1>5, <2>1 DEF thread_pool_destroy
  <2>3. UNCHANGED <<queue, done, InHand>> /\ Stopped' = Stopped
    BY <1>5, <2>2 DEF thread_pool_destroy, Stopped, Marked, InHand
  <2>4. (mpc = "destroyed")' = (mpc = "destroyed")
    BY <2>2
  <2> QED
    BY <2>1, <2>3, <2>4 DEF Abstract!Next, Abstract!Destroy
<1>6. CASE destroy_mark
  <2>1. option \in {SOFT, DRAIN_AND_DROP} /\ option' = option /\ (option = SOFT => queue = <<>>)
    BY <1>6, OptionsAssumption DEF destroy_mark, OptionPlace, DestroyProgress
  <2>2. ~Stopped /\ Stopped' /\ InHand' = InHand /\ UNCHANGED <<queue, done>>
    BY <1>6, <2>1, OptionsAssumption DEF destroy_mark, Stopped, Marked, InHand
  <2>3. mpc # "destroyed" /\ mpc' # "destroyed"
    BY <1>6 DEF destroy_mark
  <2> QED
    BY <2>1, <2>2, <2>3, OptionsAssumption DEF Abstract!Next, Abstract!Stop
<1>7. CASE destroy_join
  <2>1. /\ UNCHANGED <<queue, task, done, option>> /\ InHand' = InHand
        /\ mpc = "join" /\ mpc' \in {"join", "release"} /\ option # "open"
    BY <1>7 DEF destroy_join, Advance, InHand, OptionPlace
  <2>2. CASE option = HARD /\ mpc' = "release"
    <3>1. ~Stopped /\ Stopped'
      BY <2>1, <2>2 DEF Stopped, Marked
    <3>2. InHand = {}
      <4>1. DestroyProgress' /\ WorkerPlace'
        BY NextInv
      <4>2. InHand' = {}
        BY <2>2, <4>1 DEF DestroyProgress, WorkerPlace, InHand
      <4> QED
        BY <2>1, <4>2
    <3> QED
      BY <2>1, <2>2, <3>1, <3>2, OptionsAssumption DEF Abstract!Next, Abstract!Stop
  <2>3. CASE ~(option = HARD /\ mpc' = "release")
    <3>1. Stopped' = Stopped
      BY <2>1, <2>3 DEF Stopped, Marked
    <3> QED
      BY <2>1, <3>1, Stutter
  <2> QED
    BY <2>2, <2>3
<1>9. CASE destroy_release
  <2>1. Stopped /\ Stopped' /\ InHand' = InHand /\ InHand = {} /\ mpc' = "destroyed"
    BY <1>9 DEF destroy_release, Stopped, InHand, WorkerPlace, DestroyProgress
  <2>2. UNCHANGED <<queue, done, option>>
    BY <1>9 DEF destroy_release
  <2> QED
    BY <2>1, <2>2 DEF Abstract!Next, Abstract!Return
<1>8. ASSUME \/ add_work_lock \/ add_work_post
             \/ destroy_spin \/ destroy_spin_again \/ destroy_lock \/ destroy_signal
             \/ destroy_cancel \/ Finished \/ Hung
             \/ \E w \in Workers : \/ worker_sem_wait(w) \/ worker_lock(w)
                                   \/ worker_terminate(w) \/ worker_spurious(w)
                                   \/ worker_log(w) \/ worker_log_lock(w)
                                   \/ worker_log_unlock(w) \/ worker_finish(w)
      PROVE Goal
  <2>1. UNCHANGED <<queue, task, done, option>>
    BY <1>8 DEF add_work_lock, add_work_post, destroy_spin, destroy_spin_again,
                destroy_lock, destroy_signal, destroy_cancel, Finished, Hung,
                worker_sem_wait, worker_lock, worker_terminate, worker_spurious,
                worker_log, worker_log_lock, worker_log_unlock, worker_finish, vars
  <2>2. Stopped' = Stopped /\ (mpc = "destroyed")' = (mpc = "destroyed")
    <3>1. CASE destroy_cancel
      BY <3>1, <2>1 DEF destroy_cancel, Advance, OptionPlace, Stopped, Marked
    <3>2. CASE destroy_signal
      BY <3>2, <2>1, OptionsAssumption
         DEF destroy_signal, Advance, OptionPlace, Stopped, Marked
    <3>3. CASE UNCHANGED mpc
      BY <3>3, <2>1 DEF Stopped, Marked
    <3>4. CASE add_work_lock \/ add_work_post \/ destroy_spin \/ destroy_lock
      BY <3>4, <2>1 DEF add_work_lock, add_work_post, destroy_spin, destroy_lock,
                        Stopped, Marked
    <3> QED
      BY <1>8, <3>1, <3>2, <3>3, <3>4
         DEF destroy_spin_again, Finished, Hung, worker_sem_wait, worker_lock,
             worker_terminate, worker_spurious, worker_log, worker_log_lock,
             worker_log_unlock, worker_finish, vars
  <2> QED
    BY <2>1, <2>2, Stutter
<1> QED
  BY <1>1, <1>2, <1>3, <1>4, <1>5, <1>6, <1>7, <1>8, <1>9 DEF Next, AddWork, Destroy, Worker

(***************************************************************************)
(* The thread pool implements TaskPool for any number of workers: tasks    *)
(* are started in the order of add_work, none once the pool is stopped,    *)
(* SOFT stops only with nothing pending, only HARD abandons a task, and    *)
(* when thread_pool_destroy returns no task is running.                    *)
(***************************************************************************)
THEOREM Refinement == Spec => ImplementsTaskPool
<1>1. Init => Abstract!Init
  BY ThreadsAssumption DEF Init, Abstract!Init, InHand, Marked, Stopped, Workers
<1>2. IInv /\ [Next]_vars => [Abstract!Next]_(Abstract!vars)
  <2>1. CASE UNCHANGED vars
    BY <2>1 DEF vars, Abstract!vars, InHand, Marked, Stopped
  <2> QED
    BY <2>1, StepRefines
<1>3. Spec => []IInv
  BY InitInv, NextInv, PTL DEF Spec
<1> QED
  BY <1>1, <1>2, <1>3, PTL DEF Spec, ImplementsTaskPool, Abstract!Spec

-----------------------------------------------------------------------------
(* The parts of PoolInvariant by themselves.  available_work is the length *)
(* of the queue, although it is read and written apart from it.            *)
THEOREM WorkIsCounted == Spec => []WorkCount
  BY PoolInvariant, PTL

(* busy_threads_num counts the busy threads until the pool is stopped.     *)
THEOREM BusyIsCounted == Spec => []BusyExact
  BY PoolInvariant, PTL

(* A task is queued, in the hands of one worker or done, and only a HARD   *)
(* destroy loses one.                                                      *)
THEOREM TasksRunOnce == Spec => []TaskOnce
  BY PoolInvariant, PTL

(* A SOFT destroy returns with every task processed.                       *)
THEOREM SoftIsComplete == Spec => []SoftDrains
  BY PoolInvariant, PTL
-----------------------------------------------------------------------------
(***************************************************************************)
(* The start of the pool, thread_pool_init as PoolInit models it, for      *)
(* every number of workers, starts and kills: the handshake over the       *)
(* shared args cell is right whenever INIT_SEM was opened with value 0.    *)
(***************************************************************************)

(* A worker past its prologue has its own state pointer.                   *)
Settled(w) == tpc[w] \in {"enter_loop", "loop"} /\ own[w] = w

(* The worker just created is the only one that may read args, and it has  *)
(* not posted yet, or it has and its token is the only one.                *)
Answering ==
  \/ tpc[boot_i] = "none" /\ init_sem = 0
  \/ tpc[boot_i] = "read_state" /\ args = boot_i /\ init_sem = 0
  \/ tpc[boot_i] = "post" /\ args = boot_i /\ own[boot_i] = boot_i /\ init_sem = 0
  \/ Settled(boot_i) /\ init_sem = 1

(* Where the main thread is tells how far every worker is.                 *)
Handshake ==
  /\ boot_pc = "create" =>
       /\ init_sem = 0
       /\ \A w \in Workers : IF w < boot_i THEN Settled(w) ELSE tpc[w] = "none"
  /\ boot_pc = "wait" =>
       /\ Answering
       /\ \A w \in Workers : (w < boot_i => Settled(w)) /\ (w > boot_i => tpc[w] = "none")
  /\ boot_pc \in {"unlink", "free", "returned"} => \A w \in Workers : Settled(w)

(* Before the loop, and after an early error return, there is no thread.   *)
NoThreadYet ==
  boot_pc \in {"enter", "failed"} => boot_i = 1 /\ \A w \in Workers : tpc[w] = "none"

BootInv ==
  /\ BootTypeOK
  /\ NoThreadYet
  /\ inherited = 0 => Handshake
-----------------------------------------------------------------------------
(* No thread exists when a process enters thread_pool_init.                *)
LEMMA BootInitInv == BootInit => BootInv
<1> SUFFICES ASSUME BootInit PROVE BootInv
  OBVIOUS
<1>1. BootTypeOK
  <2>1. 1 \in Workers
    BY ThreadsAssumption DEF Workers
  <2> QED
    BY <2>1 DEF BootInit, BootTypeOK
<1>2. Handshake
  BY DEF BootInit, Handshake
<1>3. \A w \in Workers : tpc[w] = "none"
  BY DEF BootInit
<1> QED
  BY <1>1, <1>2, <1>3 DEF BootInv, BootInit, NoThreadYet

(* A new process starts where Init starts, except for INIT_SEM.            *)
LEMMA BootAgainInv ==
  ASSUME BootInv, Start, UNCHANGED <<init_sem, named>>, crashes' \in Nat
  PROVE  BootInv'
  BY ThreadsAssumption
  DEF Start, BootInv, BootTypeOK, NoThreadYet, Handshake, Workers, NONE

(* The types are preserved by every step of the main thread and a worker.  *)
LEMMA BootTypeStep ==
  ASSUME BootTypeOK, Main \/ \E w \in Workers : BootWorker(w)
  PROVE  BootTypeOK'
<1>1. CASE init_error
  BY <1>1 DEF BootTypeOK, init_error
<1>2. CASE open_init_sem
  BY <1>2 DEF BootTypeOK, open_init_sem
<1>3. CASE create_thread
  BY <1>3 DEF BootTypeOK, create_thread, AfterCreate
<1>4. CASE wait_thread
  BY <1>4, ThreadsAssumption DEF BootTypeOK, wait_thread, Answered, Workers
<1>5. CASE unlink
  BY <1>5 DEF BootTypeOK, unlink
<1>6. CASE free_args
  BY <1>6 DEF BootTypeOK, free_args
<1>7. ASSUME NEW w \in Workers, BootWorker(w) PROVE BootTypeOK'
  BY <1>7
     DEF BootTypeOK, BootWorker, thread_read_state, thread_post,
         TokensAfterPost, thread_enter_loop
<1> QED
  BY <1>1, <1>2, <1>3, <1>4, <1>5, <1>6, <1>7 DEF Main

(* With a fresh INIT_SEM every step keeps main thread and workers in step. *)
LEMMA HandshakeStep ==
  ASSUME BootTypeOK, NoThreadYet, Handshake, inherited' = 0,
         Main \/ \E w \in Workers : BootWorker(w)
  PROVE  Handshake'
<1>1. CASE init_error
  BY <1>1 DEF Handshake, init_error
<1>2. CASE open_init_sem
  <2>1. boot_pc' = "create" /\ boot_i' = 1 /\ init_sem' = 0 /\ tpc' = tpc
    BY <1>2 DEF NoThreadYet, open_init_sem
  <2>2. \A w \in Workers : ~(w < 1) /\ tpc[w] = "none"
    BY <1>2 DEF NoThreadYet, open_init_sem, Workers
  <2> QED
    BY <2>1, <2>2 DEF Handshake
<1>3. CASE create_thread
  <2>1. boot_pc' = "wait" /\ boot_i' = boot_i /\ own' = own /\ init_sem' = 0 /\ args' = boot_i
    BY <1>3 DEF Handshake, create_thread, AfterCreate
  <2>2. /\ tpc'[boot_i] \in {"none", "read_state"}
        /\ \A w \in Workers : w # boot_i => tpc'[w] = tpc[w]
    <3>1. boot_i \in Workers /\ ~(boot_i < boot_i)
      BY ThreadsAssumption DEF BootTypeOK, Workers
    <3>2. tpc[boot_i] = "none"
      BY <1>3, <3>1 DEF Handshake, create_thread
    <3> QED
      BY <1>3, <3>1, <3>2 DEF BootTypeOK, create_thread
  <2>3. Answering'
    BY <2>1, <2>2 DEF Answering
  <2>4. \A w \in Workers : (w < boot_i => Settled(w)') /\ (w > boot_i => tpc'[w] = "none")
    BY <1>3, <2>1, <2>2 DEF BootTypeOK, Handshake, Settled, create_thread, Workers
  <2> QED
    BY <2>1, <2>3, <2>4 DEF Handshake
<1>4. CASE wait_thread
  BY <1>4, ThreadsAssumption
     DEF BootTypeOK, Handshake, Answering, Settled, wait_thread, Answered, Workers
<1>5. CASE unlink
  BY <1>5 DEF BootTypeOK, Handshake, Answering, Settled, unlink
<1>6. CASE free_args
  BY <1>6 DEF BootTypeOK, Handshake, Answering, Settled, free_args
<1>7. ASSUME NEW w \in Workers, thread_read_state(w) PROVE Handshake'
  BY <1>7 DEF BootTypeOK, Handshake, Answering, Settled, thread_read_state, Workers
<1>8. ASSUME NEW w \in Workers, thread_post(w) PROVE Handshake'
  BY <1>8 DEF BootTypeOK, Handshake, Answering, Settled, thread_post,
              TokensAfterPost, Workers
<1>9. ASSUME NEW w \in Workers, thread_enter_loop(w) PROVE Handshake'
  BY <1>9 DEF BootTypeOK, Handshake, Answering, Settled, thread_enter_loop, Workers
<1> QED
  BY <1>1, <1>2, <1>3, <1>4, <1>5, <1>6, <1>7, <1>8, <1>9 DEF Main, BootWorker
-----------------------------------------------------------------------------
LEMMA BootNextInv ==
  ASSUME BootInv, [BootNext]_boot_vars
  PROVE  BootInv'
<1>1. CASE UNCHANGED boot_vars
  BY <1>1 DEF BootInv, BootTypeOK, NoThreadYet, Handshake, Answering, Settled, boot_vars
<1>2. CASE restart
  BY <1>2, BootAgainInv DEF restart, BootInv, BootTypeOK
<1>3. CASE crash
  BY <1>3, BootAgainInv DEF crash, BootInv, BootTypeOK
<1>4. ASSUME Main \/ \E w \in Workers : BootWorker(w) PROVE BootInv'
  <2>1. BootTypeOK'
    BY <1>4, BootTypeStep DEF BootInv
  <2>2. NoThreadYet'
    BY <1>4
       DEF BootInv, NoThreadYet, BootTypeOK, Main, BootWorker, init_error,
           open_init_sem, create_thread, AfterCreate, wait_thread,
           unlink, free_args, thread_read_state, thread_post,
           thread_enter_loop
  <2>3. inherited' = 0 => Handshake'
    <3>1. CASE open_init_sem
      BY <3>1, <1>4, HandshakeStep DEF BootInv, open_init_sem, Handshake
    <3>2. CASE ~open_init_sem
      <4>1. inherited' = inherited
        BY <1>4, <3>2
           DEF Main, BootWorker, init_error, create_thread,
               wait_thread, unlink, free_args, thread_read_state,
               thread_post, thread_enter_loop
      <4> QED
        BY <1>4, <4>1, HandshakeStep DEF BootInv
    <3> QED
      BY <3>1, <3>2
  <2> QED
    BY <2>1, <2>2, <2>3 DEF BootInv
<1> QED
  BY <1>1, <1>2, <1>3, <1>4 DEF BootNext

(***************************************************************************)
(* For every number of workers, starts and kills: every worker the main    *)
(* thread creates gets the pointer to its own state, whenever INIT_SEM was *)
(* opened with value 0 (thread_pool.c:78-91, the loop over the workers).   *)
(***************************************************************************)
THEOREM HandshakeRight == BootSpec => []OwnStateIfFresh
<1>1. BootInv => OwnStateIfFresh
  BY DEF BootInv, BootTypeOK, NoThreadYet, Handshake, Answering, Settled,
         OwnStateIfFresh, OwnState, Workers
<1> QED
  BY BootInitInv, BootNextInv, <1>1, PTL DEF BootSpec

(***************************************************************************)
(* Under the same condition args is allocated whenever a worker may still  *)
(* read it, and thread_pool_init returns only when every worker is past    *)
(* its prologue (thread_pool.c:93-95, sem_unlink and free).                *)
(***************************************************************************)
THEOREM ArgsOutliveReaders == BootSpec => []ArgsLiveIfFresh
<1>1. BootInv => ArgsLiveIfFresh
  BY DEF BootInv, BootTypeOK, NoThreadYet, Handshake, Answering, Settled,
         ArgsLiveIfFresh, Workers, NONE
<1> QED
  BY BootInitInv, BootNextInv, <1>1, PTL DEF BootSpec
=============================================================================
