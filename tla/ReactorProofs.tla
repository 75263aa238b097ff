--------------------------- MODULE ReactorProofs ---------------------------
(***************************************************************************)
(* The reactor, proved for every number of slots, workers, descriptors and *)
(* clients, every buffer size and every time limit: the safety invariants  *)
(* that the runs check on small instances, and that the timeout walk       *)
(* closes nothing that spoke lately.                                       *)
(***************************************************************************)
EXTENDS Reactor, SequenceTheorems, FiniteSetTheorems, WellFoundedInduction, TLAPS

-----------------------------------------------------------------------------
(* What the helpers of the community modules return.                       *)

Less == {p \in Nat \X Nat : p[1] < p[2]}

LEMMA LessWellFounded == IsWellFoundedOn(Less, Nat)
<1> USE DEF OpToRel
<1> QED
  BY NatLessThanWellFounded, Zenon DEF Less

LEMMA MinOf ==
  ASSUME NEW S \in SUBSET Nat, S # {}
  PROVE  Min(S) \in S /\ \A y \in S : Min(S) <= y
<1>1. \E x \in S : \A y \in S : <<y, x>> \notin Less
  BY WFMin, LessWellFounded
<1>2. PICK x \in S : \A y \in S : <<y, x>> \notin Less
  BY <1>1
<1>3. ASSUME NEW y \in S PROVE x <= y
  <2>1. x \in Nat /\ y \in Nat /\ <<y, x>> \in Nat \X Nat /\ <<y, x>> \notin Less
    BY <1>2
  <2>2. ~(y < x)
    BY <2>1 DEF Less
  <2> QED
    BY <2>1, <2>2
<1> QED
  BY <1>3 DEF Min

LEMMA SeqOfFacts ==
  ASSUME NEW S, NEW n \in Nat
  PROVE  \A s : s \in SeqOf(S, n) <=> s \in Seq(S) /\ Len(s) <= n
<1>1. ASSUME NEW s \in SeqOf(S, n) PROVE s \in Seq(S) /\ Len(s) <= n
  BY <1>1 DEF SeqOf
<1>2. ASSUME NEW s \in Seq(S), Len(s) <= n PROVE s \in SeqOf(S, n)
  BY <1>2, LenProperties DEF SeqOf
<1> QED
  BY <1>1, <1>2

LEMMA EmptySeqOf ==
  ASSUME NEW S, NEW n \in Nat
  PROVE  <<>> \in SeqOf(S, n)
<1>1. <<>> \in Seq(S) /\ Len(<<>>) = 0
  BY EmptySeq, Zenon
<1>2. Len(<<>>) <= n
  BY <1>1
<1> QED
  BY <1>1, <1>2, SeqOfFacts, Zenon

(* The task at the head of the queue, and the positions of the others.     *)
LEMMA TakeFacts ==
  ASSUME NEW S, NEW q \in Seq(S), q # <<>>
  PROVE  /\ Head(q) \in S /\ Tail(q) \in Seq(S)
         /\ Len(q) \in Nat \ {0} /\ Len(Tail(q)) = Len(q) - 1
         /\ Head(q) = q[1]
         /\ \A n \in 1 .. Len(q) - 1 : Tail(q)[n] = q[n + 1]
  BY HeadTailProperties, EmptySeq, LenProperties

LEMMA AddFacts ==
  ASSUME NEW S, NEW q \in Seq(S), NEW t \in S
  PROVE  /\ Append(q, t) \in Seq(S)
         /\ Len(q) \in Nat /\ Len(Append(q, t)) = Len(q) + 1
         /\ Append(q, t)[Len(q) + 1] = t
         /\ \A n \in 1 .. Len(q) : Append(q, t)[n] = q[n]
  BY AppendProperties, LenProperties

(* A sequence cut after n elements.                                        *)
LEMMA CutFacts ==
  ASSUME NEW S, NEW q \in Seq(S), NEW n \in Nat, n <= Len(q)
  PROVE  /\ SubSeq(q, 1, n) \in Seq(S) /\ Len(SubSeq(q, 1, n)) = n
         /\ SubSeq(q, n + 1, Len(q)) \in Seq(S)
         /\ Len(SubSeq(q, n + 1, Len(q))) = Len(q) - n
<1>1. SubSeq(q, 1, n) \in Seq(S)
  OBVIOUS
<1>2. Len(SubSeq(q, 1, n)) = n
  OBVIOUS
<1>3. SubSeq(q, n + 1, Len(q)) \in Seq(S)
  OBVIOUS
<1>4. Len(SubSeq(q, n + 1, Len(q))) = Len(q) - n
  OBVIOUS
<1> QED
  BY <1>1, <1>2, <1>3, <1>4, Zenon

LEMMA MinOfPair ==
  ASSUME NEW a \in Nat, NEW b \in Nat
  PROVE  Min({a, b}) \in Nat /\ Min({a, b}) <= a /\ Min({a, b}) <= b
<1>1. {a, b} \in SUBSET Nat /\ {a, b} # {}
  OBVIOUS
<1> QED
  BY <1>1, MinOf

(* The pieces a recv moves: the first n of the inbox go behind the buffer. *)
LEMMA MoveFacts ==
  ASSUME NEW S, NEW input \in Seq(S), NEW buffer \in Seq(S),
         NEW n \in Nat, n <= Len(input)
  PROVE  /\ buffer \o SubSeq(input, 1, n) \in Seq(S)
         /\ Len(buffer \o SubSeq(input, 1, n)) = Len(buffer) + n
         /\ SubSeq(input, n + 1, Len(input)) \in Seq(S)
         /\ Len(SubSeq(input, n + 1, Len(input))) = Len(input) - n
<1> DEFINE front == SubSeq(input, 1, n)
<1>1. /\ front \in Seq(S) /\ Len(front) = n
      /\ SubSeq(input, n + 1, Len(input)) \in Seq(S)
      /\ Len(SubSeq(input, n + 1, Len(input))) = Len(input) - n
  BY CutFacts, Zenon
<1> HIDE DEF front
<1>2. buffer \o front \in Seq(S) /\ Len(buffer \o front) = Len(buffer) + Len(front)
  BY <1>1, ConcatProperties
<1> QED
  BY <1>1, <1>2, Zenon DEF front
-----------------------------------------------------------------------------
(* The inductive invariant.                                                *)

Busy(s) == client_conns[s].is_active /\ client_conns[s].is_busy

(* Worker w has a task, and it is for slot s.                              *)
Working(w) == ~At(w, "idle")
Serves(w, s) == Working(w) /\ Slot(w) = s
Queued(s) == \E n \in 1 .. Len(queue) : queue[n].conn = s
Handing(s) == mpc = "hand_over" /\ i = s

(* A task names a busy slot and carries that slot's descriptor.            *)
Matches(t) == Busy(t.conn) /\ client_conns[t.conn].fd = t.client_fd

QueuedMatch == \A n \in 1 .. Len(queue) : Matches(queue[n])
HeldMatch == \A w \in Workers : Working(w) => Matches(worker[w].task)
QueuedOnce == \A m, n \in 1 .. Len(queue) : queue[m].conn = queue[n].conn => m = n
HeldOnce == \A v, w \in Workers : Working(v) /\ Working(w) /\ Slot(v) = Slot(w) => v = w
HeldNotQueued == \A w \in Workers : Working(w) => ~Queued(Slot(w))
HandingAlone ==
  mpc = "hand_over" =>
    /\ Busy(i) /\ client_conns[i].fd = client_fd
    /\ ~Queued(i) /\ \A w \in Workers : ~Serves(w, i)
BusyHasTask ==
  \A s \in Slots : Busy(s) => Queued(s) \/ Handing(s) \/ \E w \in Workers : Serves(w, s)

(* Every busy slot has one task, every task a busy slot.                   *)
TaskInv ==
  /\ QueuedMatch /\ HeldMatch /\ QueuedOnce /\ HeldOnce
  /\ HeldNotQueued /\ HandingAlone /\ BusyHasTask

(* The slot has its descriptor: no worker has closed it already.           *)
InUse(s) == client_conns[s].is_active /\ ~Closing(s)

ActiveHasFd == \A s \in Slots : client_conns[s].is_active => client_conns[s].fd \in Fds
OwnFd ==
  \A r, s \in Slots :
    InUse(r) /\ InUse(s) /\ client_conns[r].fd = client_conns[s].fd => r = s
InUseOpen ==
  \A s \in Slots : InUse(s) =>
    sock[client_conns[s].fd] = client_conns[s].owner /\ client_conns[s].owner # NONE
ClaimingFd ==
  mpc = "claim" =>
    /\ client_fd \in Fds /\ sock[client_fd] # NONE
    /\ \A s \in Slots : InUse(s) => client_conns[s].fd # client_fd
NoClientFd == mpc \notin {"claim", "hand_over"} => client_fd = NOFD

(* Slots that have their descriptor and open descriptors are one to one.   *)
FdInv == ActiveHasFd /\ OwnFd /\ InUseOpen /\ ClaimingFd /\ NoClientFd /\ NoFdLeak

(* Only idle slots are watched.                                            *)
WatchInv ==
  /\ mpc \in {"build", "select"} =>
       \A f \in read_fds : \E s \in Slots : Idle(s) /\ client_conns[s].fd = f
  /\ mpc = "expire" => read_fds = {}

(* A complete request is about to be answered.                             *)
Responding(s) == \E w \in Workers : At(w, "respond") /\ Slot(w) = s
BufferInv ==
  \A s \in Slots : RequestComplete(client_conns[s].read_buffer) => Responding(s)

(* A worker received and has neither touched the slot nor let go of it.    *)
Untouched(w) == worker[w].pc \in {"respond", "touch", "close", "deactivate"}
TimeInv ==
  \A s \in Slots :
    /\ client_conns[s].heard <= clock
    /\ \/ client_conns[s].heard <= client_conns[s].last_activity
       \/ \E w \in Workers : Untouched(w) /\ Slot(w) = s

(* What a client has in flight is less than what it sent.                  *)
PeerInv ==
  /\ \A c \in Clients : inbox[c] = <<>> \/ Len(inbox[c]) < sent[c]
  /\ \A f \in Fds : sock[f] # NONE => sent[sock[f]] > 0
  /\ \A n \in 1 .. Len(backlog) : sent[backlog[n]] > 0

Inv == TypeOK /\ PeerInv /\ TaskInv /\ FdInv /\ WatchInv /\ BufferInv /\ TimeInv
-----------------------------------------------------------------------------
(* Types.                                                                  *)

LEMMA Constants ==
  /\ MaxConns \in Nat \ {0} /\ NumThreads \in Nat \ {0} /\ MaxFds \in Nat \ {0}
  /\ BufSize \in Nat \ {0} /\ IdleLimit \in Nat \ {0}
  /\ MaxSend \in Nat /\ MaxClock \in Nat /\ NONE \notin Clients
  /\ 1 \in Slots /\ Slots \subseteq Nat /\ Fds \subseteq Nat /\ NOFD \notin Fds
  BY ReactorAssumption DEF Slots, Fds, NOFD

LEMMA ConnFields ==
  ASSUME TypeOK, NEW s \in Slots
  PROVE  /\ client_conns[s] \in Conn
         /\ client_conns[s].fd \in Fds \cup {NOFD}
         /\ client_conns[s].is_active \in BOOLEAN /\ client_conns[s].is_busy \in BOOLEAN
         /\ client_conns[s].owner \in Clients \cup {NONE}
         /\ client_conns[s].heard \in Nat /\ client_conns[s].last_activity \in Nat
         /\ client_conns[s].read_buffer \in Seq(Pieces)
         /\ Len(client_conns[s].read_buffer) \in 0 .. BufSize
<1>1. client_conns[s] \in Conn
  BY DEF TypeOK
<1>2. client_conns[s].read_buffer \in SeqOf(Pieces, BufSize)
  BY <1>1 DEF Conn
<1>3. client_conns[s].read_buffer \in Seq(Pieces) /\ Len(client_conns[s].read_buffer) <= BufSize
  BY <1>2, SeqOfFacts, Constants
<1>4. Len(client_conns[s].read_buffer) \in Nat
  BY <1>3, LenProperties
<1>5. Len(client_conns[s].read_buffer) \in 0 .. BufSize
  BY <1>3, <1>4, Constants
<1> QED
  BY <1>1, <1>3, <1>5, Constants DEF Conn

(* The task of a worker, and the slot and the descriptor it is for.        *)
LEMMA WorkerFacts ==
  ASSUME TypeOK, TaskInv, FdInv, NEW w \in Workers, Working(w)
  PROVE  /\ worker[w].task \in Task /\ Slot(w) \in Slots
         /\ Busy(Slot(w)) /\ client_conns[Slot(w)].is_active
         /\ worker[w].task.client_fd \in Fds
         /\ worker[w].task.client_fd = client_conns[Slot(w)].fd
         /\ Peer(w) \in Clients \cup {NONE}
<1>1. worker[w].task \in Task \cup {NoTask} /\ Matches(worker[w].task)
  BY DEF TypeOK, TaskInv, HeldMatch
<1>2. Slot(w) \in Slots
  BY <1>1, Constants DEF Slot, Task, NoTask
<1>3. /\ Busy(Slot(w)) /\ client_conns[Slot(w)].is_active
      /\ worker[w].task.client_fd = client_conns[Slot(w)].fd
  BY <1>1 DEF Matches, Busy, Slot
<1>4. worker[w].task.client_fd \in Fds
  BY <1>2, <1>3 DEF FdInv, ActiveHasFd
<1>5. worker[w].task # NoTask
  BY <1>4, Constants DEF NoTask
<1> QED
  BY <1>1, <1>2, <1>3, <1>4, <1>5 DEF Peer, TypeOK

LEMMA SlotType == ASSUME TypeOK, NEW w \in Workers PROVE Slot(w) \in Slots
  BY Constants DEF TypeOK, Slot, Task, NoTask

LEMMA QueueFacts ==
  ASSUME TypeOK
  PROVE  /\ queue \in Seq(Task) /\ Len(queue) \in Nat
         /\ \A n \in 1 .. Len(queue) : queue[n] \in Task /\ queue[n].conn \in Slots
<1>1. queue \in Seq(Task)
  BY DEF TypeOK
<1>2. Len(queue) \in Nat /\ \A n \in 1 .. Len(queue) : queue[n] \in Task
  BY <1>1, LenProperties, ElementOfSeq
<1> QED
  BY <1>1, <1>2 DEF Task
-----------------------------------------------------------------------------
(* Steps that leave tasks, or slots and descriptors, as they are.          *)

SlotsKept ==
  \A s \in Slots :
    /\ client_conns'[s].is_active = client_conns[s].is_active
    /\ client_conns'[s].fd = client_conns[s].fd
    /\ client_conns'[s].owner = client_conns[s].owner

BusyKept == \A s \in Slots : client_conns'[s].is_busy = client_conns[s].is_busy

TasksKept ==
  /\ queue' = queue
  /\ \A w \in Workers : worker'[w].task = worker[w].task /\ At(w, "idle")' = At(w, "idle")

ClosingKept == \A s \in Slots : Closing(s)' = Closing(s)

(* The main thread is not between claiming a slot and handing it over, or  *)
(* does not move.                                                          *)
MainApart ==
  \/ UNCHANGED <<mpc, i, client_fd>>
  \/ /\ mpc \notin {"claim", "hand_over"} /\ mpc' \notin {"claim", "hand_over"}
     /\ client_fd' = client_fd

LEMMA TaskFrame ==
  ASSUME TypeOK, TaskInv, SlotsKept, BusyKept, TasksKept,
         \/ UNCHANGED <<mpc, i, client_fd>>
         \/ mpc # "hand_over" /\ mpc' # "hand_over"
  PROVE  TaskInv'
<1>1. \A s \in Slots : Busy(s)' = Busy(s) /\ Queued(s)' = Queued(s)
  BY DEF SlotsKept, BusyKept, TasksKept, Busy, Queued
<1>2. \A w \in Workers : Working(w)' = Working(w) /\ Slot(w)' = Slot(w) /\ Slot(w) \in Slots
  BY SlotType DEF TasksKept, Working, Slot
<1>3. \A w \in Workers, s \in Slots : Serves(w, s)' = Serves(w, s)
  BY <1>2 DEF Serves
<1>4. \A s \in Slots : Handing(s)' = Handing(s)
  BY DEF Handing
<1>5. QueuedMatch' /\ QueuedOnce'
  BY <1>1, QueueFacts DEF TaskInv, QueuedMatch, QueuedOnce, Matches, SlotsKept, TasksKept
<1>6. HeldMatch'
  BY <1>1, <1>2 DEF TaskInv, HeldMatch, Matches, SlotsKept, TasksKept, Slot
<1>7. HeldOnce' /\ HeldNotQueued'
  BY <1>1, <1>2 DEF TaskInv, HeldOnce, HeldNotQueued
<1>8. HandingAlone'
  BY <1>1, <1>3 DEF TypeOK, TaskInv, HandingAlone, SlotsKept
<1>9. BusyHasTask'
  BY <1>1, <1>3, <1>4 DEF TaskInv, BusyHasTask
<1> QED
  BY <1>5, <1>6, <1>7, <1>8, <1>9 DEF TaskInv

LEMMA FdFrame ==
  ASSUME FdInv, SlotsKept, ClosingKept, MainApart, sock' = sock
  PROVE  FdInv'
<1>1. \A s \in Slots : InUse(s)' = InUse(s)
  BY DEF SlotsKept, InUse, ClosingKept
<1>2. ActiveHasFd' /\ OwnFd' /\ InUseOpen'
  BY <1>1 DEF FdInv, ActiveHasFd, OwnFd, InUseOpen, SlotsKept
<1>3. ClaimingFd' /\ NoClientFd'
  BY <1>1 DEF FdInv, ClaimingFd, NoClientFd, SlotsKept, MainApart
<1>4. NoFdLeak'
  BY <1>1 DEF FdInv, NoFdLeak, InUse, SlotsKept, MainApart
<1> QED
  BY <1>2, <1>3, <1>4 DEF FdInv

(* The main thread keeps its place or moves from one walk to another.      *)
LEMMA WatchFrame ==
  ASSUME WatchInv, SlotsKept, BusyKept,
         UNCHANGED <<mpc, read_fds>> \/ mpc' \notin {"build", "select", "expire"}
  PROVE  WatchInv'
<1>1. \A s \in Slots : Idle(s)' = Idle(s)
  BY DEF SlotsKept, BusyKept, Idle
<1> QED
  BY <1>1 DEF WatchInv, SlotsKept
-----------------------------------------------------------------------------
(* The two outcomes of a hand-over, and of an expiry: slot s gets a task,  *)
(* or its connection is closed.                                            *)

OthersKept(s) == \A r \in Slots \ {s} : client_conns'[r] = client_conns[r]

Unclaimed(s) == ~Queued(s) /\ \A w \in Workers : ~Serves(w, s)

Adds(s) ==
  /\ OthersKept(s) /\ SlotsKept
  /\ client_conns'[s].is_busy = TRUE
  /\ client_conns'[s].read_buffer = client_conns[s].read_buffer
  /\ client_conns'[s].heard = client_conns[s].heard
  /\ client_conns'[s].last_activity = client_conns[s].last_activity
  /\ queue' = Append(queue, [client_fd |-> client_conns[s].fd, conn |-> s])
  /\ UNCHANGED <<worker, sock>>

Frees(s) ==
  /\ OthersKept(s)
  /\ client_conns'[s].is_active = FALSE
  /\ client_conns'[s].read_buffer = client_conns[s].read_buffer
  /\ client_conns'[s].heard = 0
  /\ client_conns'[s].last_activity = client_conns[s].last_activity
  /\ sock' = [sock EXCEPT ![client_conns[s].fd] = NONE]
  /\ UNCHANGED <<queue, worker>>

(* The main thread is done with the descriptor it accepted, if it had one. *)
Settles(s) ==
  /\ mpc # "claim" /\ client_fd \in {NOFD, client_conns[s].fd}
  /\ mpc' \notin {"claim", "hand_over"} /\ client_fd' = NOFD

LEMMA AddTask ==
  ASSUME TypeOK, TaskInv, NEW s \in Slots, Adds(s), Unclaimed(s),
         client_conns[s].is_active, client_conns[s].fd \in Fds,
         mpc = "hand_over" => i = s, mpc' # "hand_over"
  PROVE  TaskInv' /\ queue' \in Seq(Task)
<1> DEFINE t == [client_fd |-> client_conns[s].fd, conn |-> s]
<1>1. t \in Task /\ t.conn = s /\ t.client_fd = client_conns[s].fd
  BY DEF Task
<1>2. /\ queue' \in Seq(Task) /\ Len(queue') = Len(queue) + 1
      /\ queue'[Len(queue) + 1] = t /\ \A n \in 1 .. Len(queue) : queue'[n] = queue[n]
  BY <1>1, AddFacts, QueueFacts DEF Adds
<1> HIDE DEF t
<1>3. Len(queue) \in Nat /\ 1 .. Len(queue') = 1 .. Len(queue) \cup {Len(queue) + 1}
  BY <1>2, QueueFacts
<1>4. \A n \in 1 .. Len(queue') :
        \/ n = Len(queue) + 1 /\ queue'[n] = t
        \/ n \in 1 .. Len(queue) /\ queue'[n] = queue[n]
  BY <1>2, <1>3
<1>5. \A r \in Slots : Queued(r)' <=> (Queued(r) \/ r = s)
  <2> TAKE r \in Slots
  <2>1. ASSUME Queued(r)' PROVE Queued(r) \/ r = s
    BY <1>1, <1>4, <2>1 DEF Queued
  <2>2. ASSUME Queued(r) PROVE Queued(r)'
    BY <1>2, <1>3, <2>2 DEF Queued
  <2>3. Queued(s)'
    BY <1>1, <1>2, <1>3 DEF Queued
  <2> QED
    BY <2>1, <2>2, <2>3
<1>6. \A r \in Slots : Busy(r)' <=> (Busy(r) \/ r = s)
  BY DEF Adds, OthersKept, SlotsKept, Busy
<1>7. \A w \in Workers : Working(w)' = Working(w) /\ Slot(w)' = Slot(w) /\ Slot(w) \in Slots
  BY SlotType DEF Adds, Working, At, Slot
<1>8. \A w \in Workers, r \in Slots : Serves(w, r)' = Serves(w, r)
  BY <1>7 DEF Serves
<1>9. QueuedMatch'
  <2> SUFFICES ASSUME NEW n \in 1 .. Len(queue') PROVE Matches(queue[n])'
    BY DEF QueuedMatch
  <2>1. CASE queue'[n] = t
    BY <1>1, <1>6, <2>1 DEF Matches, Adds, SlotsKept
  <2>2. CASE n \in 1 .. Len(queue) /\ queue'[n] = queue[n]
    BY <1>6, <2>2, QueueFacts DEF TaskInv, QueuedMatch, Matches, Adds, SlotsKept
  <2> QED
    BY <1>4, <2>1, <2>2
<1>10. QueuedOnce'
  BY <1>1, <1>4 DEF QueuedOnce, TaskInv, Unclaimed, Queued
<1>11. HeldMatch'
  BY <1>6, <1>7 DEF TaskInv, HeldMatch, Matches, Adds, SlotsKept, Slot
<1>12. HeldOnce'
  BY <1>7 DEF TaskInv, HeldOnce
<1>13. HeldNotQueued'
  BY <1>5, <1>7 DEF TaskInv, HeldNotQueued, Unclaimed, Serves
<1>14. BusyHasTask'
  BY <1>5, <1>6, <1>8 DEF TaskInv, BusyHasTask, Handing
<1> QED
  BY <1>2, <1>9, <1>10, <1>11, <1>12, <1>13, <1>14 DEF TaskInv, HandingAlone

LEMMA FreeTask ==
  ASSUME TypeOK, TaskInv, NEW s \in Slots, Frees(s), Unclaimed(s),
         mpc = "hand_over" => i = s, mpc' # "hand_over"
  PROVE  TaskInv'
<1>1. \A r \in Slots : Queued(r)' = Queued(r)
  BY DEF Frees, Queued
<1>2. \A r \in Slots : Busy(r)' <=> (Busy(r) /\ r # s)
  BY DEF Frees, OthersKept, Busy
<1>3. \A w \in Workers : Working(w)' = Working(w) /\ Slot(w)' = Slot(w) /\ Slot(w) \in Slots
  BY SlotType DEF Frees, Working, At, Slot
<1>4. \A w \in Workers, r \in Slots : Serves(w, r)' = Serves(w, r)
  BY <1>3 DEF Serves
<1>5. QueuedMatch'
  <2> SUFFICES ASSUME NEW n \in 1 .. Len(queue) PROVE Matches(queue[n])'
    BY DEF QueuedMatch, Frees
  <2>1. queue[n].conn \in Slots /\ queue[n].conn # s /\ Matches(queue[n])
    BY QueueFacts DEF Unclaimed, Queued, TaskInv, QueuedMatch
  <2> QED
    BY <1>2, <2>1 DEF Matches, Frees, OthersKept
<1>6. HeldMatch'
  BY <1>2, <1>3 DEF TaskInv, HeldMatch, Matches, Frees, OthersKept, Unclaimed, Serves, Slot
<1>7. QueuedOnce' /\ HeldOnce' /\ HeldNotQueued'
  BY <1>1, <1>3 DEF TaskInv, QueuedOnce, HeldOnce, HeldNotQueued, Frees
<1>8. BusyHasTask'
  BY <1>1, <1>2, <1>4 DEF TaskInv, BusyHasTask, Handing
<1> QED
  BY <1>5, <1>6, <1>7, <1>8 DEF TaskInv, HandingAlone

LEMMA AddFd ==
  ASSUME TypeOK, FdInv, NEW s \in Slots, Adds(s), InUse(s), Settles(s)
  PROVE  FdInv'
<1>1. \A r \in Slots : InUse(r)' = InUse(r)
  BY DEF Adds, SlotsKept, InUse, Closing, At, Slot
<1>2. ActiveHasFd' /\ OwnFd' /\ InUseOpen'
  BY <1>1 DEF FdInv, ActiveHasFd, OwnFd, InUseOpen, SlotsKept, Adds
<1>3. ClaimingFd' /\ NoClientFd'
  BY DEF ClaimingFd, NoClientFd, Settles
<1>4. NoFdLeak'
  BY <1>1, Constants DEF FdInv, NoFdLeak, InUse, SlotsKept, Adds, Settles
<1> QED
  BY <1>2, <1>3, <1>4 DEF FdInv

LEMMA FreeFd ==
  ASSUME TypeOK, FdInv, NEW s \in Slots, Frees(s), InUse(s), Settles(s)
  PROVE  FdInv'
<1>1. \A r \in Slots : InUse(r)' <=> (InUse(r) /\ r # s)
  BY DEF Frees, OthersKept, InUse, Closing, At, Slot
<1>2. client_conns[s].fd \in Fds
  BY DEF FdInv, ActiveHasFd, InUse
<1>3. \A r \in Slots : r # s => client_conns'[r] = client_conns[r]
  BY DEF Frees, OthersKept
<1>4. /\ sock'[client_conns[s].fd] = NONE
      /\ \A f \in Fds : f # client_conns[s].fd => sock'[f] = sock[f]
  BY <1>2 DEF TypeOK, Frees
<1>5. ActiveHasFd' /\ OwnFd'
  BY <1>1, <1>3 DEF FdInv, ActiveHasFd, OwnFd, Frees
<1>6. InUseOpen'
  BY <1>1, <1>3, <1>4 DEF FdInv, ActiveHasFd, OwnFd, InUseOpen, InUse
<1>7. ClaimingFd' /\ NoClientFd'
  BY DEF ClaimingFd, NoClientFd, Settles
<1>8. NoFdLeak'
  <2> SUFFICES ASSUME NEW f \in Fds, sock'[f] # NONE
               PROVE  \E r \in Slots : InUse(r)' /\ client_conns'[r].fd = f
    BY DEF NoFdLeak, InUse
  <2>1. f # client_conns[s].fd /\ sock[f] # NONE
    BY <1>4
  <2>2. PICK r \in Slots : InUse(r) /\ client_conns[r].fd = f
    BY <2>1, Constants DEF FdInv, NoFdLeak, InUse, Settles
  <2> QED
    BY <1>1, <1>3, <2>1, <2>2
<1> QED
  BY <1>5, <1>6, <1>7, <1>8 DEF FdInv
-----------------------------------------------------------------------------
(* Steps that leave buffers and times as they are.                         *)

UntouchedIn(s) == \E w \in Workers : Untouched(w) /\ Slot(w) = s

LEMMA BufferFrame ==
  ASSUME BufferInv,
         \A s \in Slots : client_conns'[s].read_buffer = client_conns[s].read_buffer,
         \A s \in Slots : Responding(s) => Responding(s)'
  PROVE  BufferInv'
  BY DEF BufferInv

LEMMA TimeFrame ==
  ASSUME TypeOK, TimeInv, clock' \in Nat, clock <= clock',
         \A s \in Slots : client_conns'[s].last_activity = client_conns[s].last_activity,
         \A s \in Slots :
           \/ client_conns'[s].heard = 0
           \/ /\ client_conns'[s].heard = client_conns[s].heard
              /\ UntouchedIn(s) => UntouchedIn(s)'
  PROVE  TimeInv'
<1>1. clock \in Nat
  BY Constants DEF TypeOK
<1> SUFFICES ASSUME NEW s \in Slots
             PROVE  /\ client_conns'[s].heard <= clock'
                    /\ \/ client_conns'[s].heard <= client_conns'[s].last_activity
                       \/ UntouchedIn(s)'
  BY DEF TimeInv, UntouchedIn
<1>2. client_conns[s].heard \in Nat /\ client_conns[s].last_activity \in Nat
  BY ConnFields
<1>3. CASE client_conns'[s].heard = 0
  BY <1>2, <1>3
<1>4. CASE client_conns'[s].heard = client_conns[s].heard /\ (UntouchedIn(s) => UntouchedIn(s)')
  BY <1>1, <1>2, <1>4 DEF TimeInv, UntouchedIn
<1> QED
  BY <1>3, <1>4

LEMMA WorkersKept ==
  ASSUME worker' = worker
  PROVE  \A s \in Slots :
           /\ Responding(s)' = Responding(s) /\ UntouchedIn(s)' = UntouchedIn(s)
           /\ Closing(s)' = Closing(s)
  BY DEF Responding, UntouchedIn, Untouched, Closing, At, Slot

(* Slots and workers stay as they are: what is left to show of a step.     *)
LEMMA SlotsUntouched ==
  ASSUME Inv, UNCHANGED <<client_conns, queue, worker, sock>>, MainApart,
         clock' \in Nat, clock <= clock'
  PROVE  TaskInv' /\ FdInv' /\ BufferInv' /\ TimeInv'
<1>1. SlotsKept /\ BusyKept /\ TasksKept /\ ClosingKept
  BY WorkersKept DEF SlotsKept, BusyKept, TasksKept, ClosingKept, At
<1>2. TaskInv'
  BY <1>1, TaskFrame DEF Inv, MainApart
<1>3. FdInv'
  BY <1>1, FdFrame DEF Inv
<1>4. BufferInv'
  BY BufferFrame, WorkersKept DEF Inv
<1>5. TimeInv'
  BY TimeFrame, WorkersKept DEF Inv
<1> QED
  BY <1>2, <1>3, <1>4, <1>5
-----------------------------------------------------------------------------
(* The peers and the clock.                                                *)

LEMMA PeerTypes ==
  ASSUME TypeOK, NEW c \in Clients
  PROVE  /\ inbox[c] \in Seq(Pieces) /\ Len(inbox[c]) \in 0 .. MaxSend
         /\ sent[c] \in 0 .. MaxSend + 1
<1>1. inbox[c] \in SeqOf(Pieces, MaxSend) /\ sent[c] \in 0 .. MaxSend + 1
  BY DEF TypeOK
<1>2. inbox[c] \in Seq(Pieces) /\ Len(inbox[c]) <= MaxSend
  BY <1>1, SeqOfFacts, Constants
<1>3. Len(inbox[c]) \in Nat
  BY <1>2, LenProperties
<1> QED
  BY <1>1, <1>2, <1>3, Constants

LEMMA SockFacts ==
  ASSUME TypeOK, PeerInv
  PROVE  \A f \in Fds : sock[f] # NONE => sock[f] \in Clients /\ sent[sock[f]] > 0
  BY DEF TypeOK, PeerInv

LEMMA BacklogFacts ==
  ASSUME TypeOK, PeerInv
  PROVE  /\ Len(backlog) \in Nat
         /\ \A n \in 1 .. Len(backlog) : backlog[n] \in Clients /\ sent[backlog[n]] > 0
<1>1. Len(backlog) \in Nat /\ \A n \in 1 .. Len(backlog) : backlog[n] \in Clients
  BY LenProperties, ElementOfSeq DEF TypeOK
<1> QED
  BY <1>1 DEF PeerInv

LEMMA ConnectedFacts ==
  ASSUME TypeOK, PeerInv
  PROVE  \A c \in Connected : c \in Clients /\ sent[c] > 0
<1> SUFFICES ASSUME NEW c \in Connected PROVE c \in Clients /\ sent[c] > 0
  OBVIOUS
<1>1. DOMAIN sock = Fds /\ \A f \in Fds : sock[f] \in Clients \cup {NONE}
  BY DEF TypeOK
<1>2. Len(backlog) \in Nat /\ DOMAIN backlog = 1 .. Len(backlog)
      /\ \A n \in 1 .. Len(backlog) : backlog[n] \in Clients
  BY LenProperties, ElementOfSeq DEF TypeOK
<1>3. CASE c \in ToSet(sock) \ {NONE}
  BY <1>1, <1>3 DEF ToSet, PeerInv
<1>4. CASE c \in ToSet(backlog)
  BY <1>2, <1>4 DEF ToSet, PeerInv
<1> QED
  BY <1>3, <1>4 DEF Connected

LEMMA EnvironmentKeeps ==
  ASSUME Inv, Environment
  PROVE  Inv'
<1>1. UNCHANGED <<client_conns, main_vars, queue, worker, sock>>
  BY DEF Environment
<1>2. clock' \in 0 .. MaxClock /\ clock' \in Nat /\ clock <= clock'
  <2>1. clock \in 0 .. MaxClock /\ MaxClock \in Nat
    BY Constants DEF Inv, TypeOK
  <2>2. \/ clock' = clock
        \/ clock' = clock + 1 /\ clock < MaxClock
    BY DEF Environment, client_connect, client_send, client_leave, tick
  <2> QED
    BY <2>1, <2>2
<1>3. TaskInv' /\ FdInv' /\ BufferInv' /\ TimeInv'
  BY <1>1, <1>2, SlotsUntouched DEF MainApart, main_vars
<1>4. WatchInv'
  BY <1>1 DEF Inv, WatchInv, Idle, main_vars
<1>5. ASSUME backlog' \in Seq(Clients), gone' \subseteq Clients,
             inbox' \in [Clients -> SeqOf(Pieces, MaxSend)],
             sent' \in [Clients -> 0 .. MaxSend + 1]
      PROVE  TypeOK'
  BY <1>1, <1>2, <1>5 DEF Inv, TypeOK, main_vars
<1>6. ASSUME NEW c \in Clients, client_connect(c)
      PROVE  TypeOK' /\ PeerInv'
  <2>1. /\ backlog' \in Seq(Clients) /\ Len(backlog) \in Nat
        /\ Len(backlog') = Len(backlog) + 1 /\ backlog'[Len(backlog) + 1] = c
        /\ \A n \in 1 .. Len(backlog) : backlog'[n] = backlog[n] /\ backlog[n] \in Clients
    BY <1>6, AddFacts, ElementOfSeq DEF client_connect, Inv, TypeOK
  <2>2. /\ sent' \in [Clients -> 0 .. MaxSend + 1] /\ sent[c] = 0 /\ sent'[c] = 1
        /\ \A d \in Clients : sent[d] \in Nat /\ (d # c => sent'[d] = sent[d])
    BY <1>6, Constants DEF client_connect, Inv, TypeOK
  <2>3. TypeOK'
    BY <1>5, <1>6, <2>1, <2>2 DEF client_connect, Inv, TypeOK
  <2>4. \A d \in Clients : inbox'[d] = <<>> \/ Len(inbox'[d]) < sent'[d]
    <3> TAKE d \in Clients
    <3>1. Len(inbox[d]) \in Nat
      BY PeerTypes DEF Inv
    <3> QED
      BY <1>6, <2>2, <3>1 DEF client_connect, Inv, PeerInv
  <2>5. \A f \in Fds : sock'[f] # NONE => sent'[sock'[f]] > 0
    BY <1>1, <2>2, SockFacts DEF Inv
  <2>6. \A n \in 1 .. Len(backlog') : sent'[backlog'[n]] > 0
    BY <2>1, <2>2 DEF Inv, PeerInv
  <2> QED
    BY <2>3, <2>4, <2>5, <2>6 DEF PeerInv
<1>7. ASSUME NEW c \in Clients, NEW kind \in {"part", "end_keep", "end_close"},
             client_send(c, kind)
      PROVE  TypeOK' /\ PeerInv'
  <2> DEFINE p == [kind |-> kind, from |-> c]
  <2>1. p \in Pieces
    BY DEF Pieces
  <2>2. sent[c] > 0 /\ sent[c] <= MaxSend /\ sent[c] \in Nat
    BY <1>7, ConnectedFacts, PeerTypes DEF client_send, Inv
  <2>3. /\ sent' \in [Clients -> 0 .. MaxSend + 1] /\ sent'[c] = sent[c] + 1
        /\ \A d \in Clients : sent[d] \in Nat /\ (d # c => sent'[d] = sent[d])
    BY <1>7, <2>2, Constants DEF client_send, Inv, TypeOK
  <2>4. /\ inbox' = [inbox EXCEPT ![c] = Append(inbox[c], p)]
        /\ UNCHANGED <<backlog, gone>>
    BY <1>7 DEF client_send
  <2> HIDE DEF p
  <2>5. /\ Append(inbox[c], p) \in Seq(Pieces)
        /\ Len(Append(inbox[c], p)) = Len(inbox[c]) + 1 /\ Len(inbox[c]) \in Nat
    BY <2>1, AddFacts, PeerTypes DEF Inv
  <2>6. Len(inbox[c]) < sent[c]
    BY <2>2, EmptySeq DEF Inv, PeerInv
  <2>7. Append(inbox[c], p) \in SeqOf(Pieces, MaxSend)
    <3>1. Len(Append(inbox[c], p)) <= MaxSend
      BY <2>2, <2>5, <2>6, Constants
    <3> QED
      BY <2>5, <3>1, SeqOfFacts, Constants
  <2>8. /\ inbox' \in [Clients -> SeqOf(Pieces, MaxSend)]
        /\ inbox'[c] = Append(inbox[c], p)
        /\ \A d \in Clients : d # c => inbox'[d] = inbox[d]
    BY <2>4, <2>7 DEF Inv, TypeOK
  <2>9. TypeOK'
    BY <1>5, <2>3, <2>4, <2>8 DEF Inv, TypeOK
  <2>10. \A d \in Clients : inbox'[d] = <<>> \/ Len(inbox'[d]) < sent'[d]
    BY <2>2, <2>3, <2>5, <2>6, <2>8 DEF Inv, PeerInv
  <2>11. \A f \in Fds : sock'[f] # NONE => sent'[sock'[f]] > 0
    BY <1>1, <2>2, <2>3, SockFacts DEF Inv
  <2>12. \A n \in 1 .. Len(backlog) : sent'[backlog[n]] > 0
    BY <2>2, <2>3, BacklogFacts DEF Inv
  <2> QED
    BY <2>4, <2>9, <2>10, <2>11, <2>12 DEF PeerInv
<1>8. ASSUME NEW c \in Clients, NEW data \in {inbox[c], <<>>}, client_leave(c, data)
      PROVE  TypeOK' /\ PeerInv'
  <2>1. <<>> \in SeqOf(Pieces, MaxSend)
    BY EmptySeqOf, Constants
  <2>2. /\ inbox' \in [Clients -> SeqOf(Pieces, MaxSend)]
        /\ \A d \in Clients : inbox'[d] = inbox[d] \/ inbox'[d] = <<>>
    BY <1>8, <2>1 DEF client_leave, Inv, TypeOK
  <2>3. UNCHANGED <<backlog, sent>> /\ gone' \subseteq Clients
    BY <1>8 DEF client_leave, Inv, TypeOK
  <2>4. TypeOK'
    BY <1>5, <2>2, <2>3 DEF Inv, TypeOK
  <2>5. PeerInv'
    BY <1>1, <2>2, <2>3 DEF Inv, PeerInv
  <2> QED
    BY <2>4, <2>5
<1>9. ASSUME tick PROVE TypeOK' /\ PeerInv'
  <2>1. UNCHANGED <<backlog, inbox, gone, sent>>
    BY <1>9 DEF tick
  <2> QED
    BY <1>1, <1>5, <2>1 DEF Inv, TypeOK, PeerInv
<1>10. TypeOK' /\ PeerInv'
  BY <1>6, <1>7, <1>8, <1>9 DEF Environment
<1> QED
  BY <1>3, <1>4, <1>10 DEF Inv
-----------------------------------------------------------------------------
(* The main thread's walks.                                                *)

Places == {"build", "select", "accept", "claim", "hand_over", "scan",
           "timeouts", "expire", "exit"}

LEMMA WalkFacts ==
  ASSUME TypeOK, NEW next \in Places, Walk(next)
  PROVE  /\ i' \in Slots /\ mpc' \in {mpc, next} /\ mpc' \in Places
         /\ i = MaxConns => mpc' = next
         /\ i # MaxConns => mpc' = mpc
<1>1. i \in Slots /\ mpc \in Places
  BY DEF TypeOK, Places
<1> QED
  BY <1>1, Constants DEF Walk, Slots

(* What a step of the main thread leaves of the types to show.             *)
LEMMA MainTypes ==
  ASSUME TypeOK, mpc' \in Places, i' \in Slots, client_fd' \in Fds \cup {NOFD},
         read_fds' \subseteq Fds, now' \in 0 .. MaxClock,
         client_conns' \in [Slots -> Conn], queue' \in Seq(Task),
         sock' \in [Fds -> Clients \cup {NONE}], backlog' \in Seq(Clients),
         UNCHANGED <<worker, inbox, gone, sent, clock>>
  PROVE  TypeOK'
  BY DEF TypeOK, Places

LEMMA PeerFrame ==
  ASSUME PeerInv, UNCHANGED <<inbox, sent, backlog>>,
         \A f \in Fds : sock'[f] \in {sock[f], NONE}
  PROVE  PeerInv'
  BY DEF PeerInv

LEMMA ClockType == ASSUME TypeOK PROVE clock \in Nat /\ clock \in 0 .. MaxClock
  BY Constants DEF TypeOK

LEMMA BuildKeeps == ASSUME Inv, build PROVE Inv'
<1>1. /\ mpc = "build" /\ Walk("select")
      /\ UNCHANGED <<client_conns, client_fd, now, queue, worker, sock, peer_vars>>
  BY DEF build
<1>2. i' \in Slots /\ i \in Slots /\ mpc' \in {"build", "select"} /\ mpc' \in Places
  BY <1>1, WalkFacts DEF Inv, TypeOK, Places
<1>3. TaskInv' /\ FdInv' /\ BufferInv' /\ TimeInv'
  BY <1>1, <1>2, SlotsUntouched, ClockType DEF MainApart, peer_vars, Inv
<1>4. Idle(i) => client_conns[i].fd \in Fds
  BY <1>2 DEF Inv, FdInv, ActiveHasFd, Idle
<1>5. read_fds' = read_fds \cup (IF Idle(i) THEN {client_conns[i].fd} ELSE {})
  BY DEF build
<1>6. read_fds' \subseteq Fds
  BY <1>4, <1>5 DEF Inv, TypeOK
<1>7. TypeOK'
  BY <1>1, <1>2, <1>6, MainTypes DEF Inv, TypeOK, peer_vars
<1>8. PeerInv'
  BY <1>1, PeerFrame DEF Inv, peer_vars
<1>9. \A s \in Slots : Idle(s)' = Idle(s)
  BY <1>1 DEF Idle
<1>10. \A f \in read_fds : \E s \in Slots : Idle(s) /\ client_conns[s].fd = f
  BY <1>1 DEF Inv, WatchInv
<1>11. \A f \in read_fds' : \E s \in Slots : Idle(s) /\ client_conns[s].fd = f
  BY <1>2, <1>5, <1>10
<1>12. WatchInv'
  BY <1>1, <1>2, <1>9, <1>11 DEF WatchInv
<1> QED
  BY <1>3, <1>7, <1>8, <1>12 DEF Inv

LEMMA SelectKeeps == ASSUME Inv, select PROVE Inv'
<1>1. /\ mpc = "select" /\ mpc' \in {"accept", "scan", "exit"} /\ read_fds' \subseteq read_fds
      /\ UNCHANGED <<client_conns, i, client_fd, now, queue, worker, sock, peer_vars>>
  BY DEF select
<1>2. TaskInv' /\ FdInv' /\ BufferInv' /\ TimeInv'
  BY <1>1, SlotsUntouched, ClockType DEF MainApart, peer_vars, Inv
<1>3. TypeOK'
  BY <1>1, MainTypes DEF Inv, TypeOK, peer_vars, Places
<1>4. PeerInv' /\ WatchInv'
  BY <1>1, PeerFrame DEF Inv, peer_vars, WatchInv
<1> QED
  BY <1>2, <1>3, <1>4 DEF Inv

LEMMA AcceptDoneKeeps == ASSUME Inv, accept_done PROVE Inv'
<1>1. /\ mpc = "accept" /\ mpc' = "scan"
      /\ UNCHANGED <<client_conns, i, client_fd, read_fds, now, queue, worker, sock, peer_vars>>
  BY DEF accept_done
<1>2. TaskInv' /\ FdInv' /\ BufferInv' /\ TimeInv'
  BY <1>1, SlotsUntouched, ClockType DEF MainApart, peer_vars, Inv
<1>3. TypeOK'
  BY <1>1, MainTypes DEF Inv, TypeOK, peer_vars, Places
<1>4. PeerInv' /\ WatchInv'
  BY <1>1, PeerFrame DEF Inv, peer_vars, WatchInv
<1> QED
  BY <1>2, <1>3, <1>4 DEF Inv

LEMMA TimeoutsKeeps == ASSUME Inv, timeouts PROVE Inv'
<1>1. /\ mpc = "timeouts" /\ mpc' = "expire" /\ now' = clock /\ read_fds' = {}
      /\ UNCHANGED <<client_conns, i, client_fd, queue, worker, sock, peer_vars>>
  BY DEF timeouts
<1>2. TaskInv' /\ FdInv' /\ BufferInv' /\ TimeInv'
  BY <1>1, SlotsUntouched, ClockType DEF MainApart, peer_vars, Inv
<1>3. TypeOK'
  BY <1>1, MainTypes DEF Inv, TypeOK, peer_vars, Places
<1>4. PeerInv' /\ WatchInv'
  BY <1>1, PeerFrame DEF Inv, peer_vars, WatchInv
<1> QED
  BY <1>2, <1>3, <1>4 DEF Inv

(* accept takes a free descriptor, which no slot in use can have.          *)
LEMMA AcceptKeeps == ASSUME Inv, accept PROVE Inv'
<1> DEFINE f == Min(FreeFds)
<1>1. /\ mpc = "accept" /\ mpc' = "claim" /\ backlog # <<>> /\ FreeFds # {}
      /\ client_fd' = f /\ sock' = [sock EXCEPT ![f] = Head(backlog)]
      /\ backlog' = Tail(backlog)
      /\ UNCHANGED <<client_conns, i, read_fds, now, queue, worker, inbox, gone, sent, clock>>
  BY DEF accept
<1>2. f \in Fds /\ sock[f] = NONE
  <2>1. FreeFds \in SUBSET Nat
    BY Constants DEF FreeFds
  <2> QED
    BY <1>1, <2>1, MinOf DEF FreeFds
<1> HIDE DEF f
<1>3. /\ Head(backlog) \in Clients /\ Tail(backlog) \in Seq(Clients)
      /\ Len(backlog) \in Nat \ {0} /\ Len(Tail(backlog)) = Len(backlog) - 1
      /\ Head(backlog) = backlog[1]
      /\ \A n \in 1 .. Len(backlog) - 1 : Tail(backlog)[n] = backlog[n + 1]
  <2>1. backlog \in Seq(Clients) /\ backlog # <<>>
    BY <1>1 DEF Inv, TypeOK
  <2> QED
    BY <2>1, TakeFacts, Zenon
<1>4. /\ sock' \in [Fds -> Clients \cup {NONE}] /\ sock'[f] = Head(backlog)
      /\ sock'[f] # NONE /\ \A g \in Fds : g # f => sock'[g] = sock[g]
  BY <1>1, <1>2, <1>3, Constants DEF Inv, TypeOK
<1>5. TypeOK'
  BY <1>1, <1>2, <1>3, <1>4, MainTypes DEF Inv, TypeOK, Places
<1>6. PeerInv'
  <2>1. sent[Head(backlog)] > 0
    BY <1>3 DEF Inv, PeerInv
  <2>2. \A g \in Fds : sock'[g] # NONE => sent[sock'[g]] > 0
    BY <1>4, <2>1 DEF Inv, PeerInv
  <2>3. \A n \in 1 .. Len(backlog') : sent[backlog'[n]] > 0
    BY <1>1, <1>3 DEF Inv, PeerInv
  <2> QED
    BY <1>1, <2>2, <2>3 DEF Inv, PeerInv
<1>7. SlotsKept /\ BusyKept /\ TasksKept
  BY <1>1 DEF SlotsKept, BusyKept, TasksKept, At
<1>8. TaskInv' /\ WatchInv'
  BY <1>1, <1>7, TaskFrame, WatchFrame DEF Inv
<1>9. BufferInv' /\ TimeInv'
  BY <1>1, BufferFrame, TimeFrame, WorkersKept, ClockType DEF Inv
<1>10. \A s \in Slots : InUse(s)' = InUse(s)
  BY <1>1, WorkersKept DEF InUse
<1>11. \A s \in Slots : InUse(s) => client_conns[s].fd # f
  BY <1>2 DEF Inv, FdInv, InUseOpen
<1>12. FdInv'
  <2>1. ActiveHasFd' /\ OwnFd' /\ NoClientFd'
    BY <1>1, <1>10 DEF Inv, FdInv, ActiveHasFd, OwnFd, NoClientFd
  <2>2. InUseOpen'
    BY <1>1, <1>4, <1>10, <1>11 DEF Inv, FdInv, InUseOpen, ActiveHasFd, InUse
  <2>3. ClaimingFd'
    BY <1>1, <1>2, <1>4, <1>10, <1>11 DEF ClaimingFd
  <2>4. NoFdLeak'
    <3> SUFFICES ASSUME NEW g \in Fds, sock'[g] # NONE, g # f
                 PROVE  \E s \in Slots : InUse(s)' /\ client_conns'[s].fd = g
      BY <1>1 DEF NoFdLeak, InUse
    <3>1. sock[g] # NONE /\ client_fd = NOFD
      BY <1>1, <1>4 DEF Inv, FdInv, NoClientFd
    <3>2. PICK s \in Slots : InUse(s) /\ client_conns[s].fd = g
      BY <3>1, Constants DEF Inv, FdInv, NoFdLeak, InUse
    <3> QED
      BY <1>1, <1>10, <3>2
  <2> QED
    BY <2>1, <2>2, <2>3, <2>4 DEF FdInv
<1> QED
  BY <1>5, <1>6, <1>8, <1>9, <1>12 DEF Inv
-----------------------------------------------------------------------------
(* The walk for a free slot, and its three ends: a slot is claimed, the    *)
(* next one is looked at, the connection is refused.                       *)

LEMMA InactiveUnclaimed ==
  ASSUME TypeOK, TaskInv, NEW s \in Slots, ~Busy(s)
  PROVE  Unclaimed(s)
<1>1. ~Queued(s)
  BY DEF TaskInv, QueuedMatch, Matches, Queued
<1>2. \A w \in Workers : ~Serves(w, s)
  BY DEF TaskInv, HeldMatch, Matches, Serves, Slot
<1> QED
  BY <1>1, <1>2 DEF Unclaimed

LEMMA ClaimSlotKeeps ==
  ASSUME Inv, mpc = "claim", ~client_conns[i].is_active,
         client_conns' = [client_conns EXCEPT ![i] = Claimed(@)], mpc' = "hand_over",
         UNCHANGED <<i, client_fd, sock, read_fds, now, queue, worker, peer_vars>>
  PROVE  Inv'
<1>1. i \in Slots /\ i' = i /\ client_fd \in Fds /\ sock[client_fd] \in Clients
  BY DEF Inv, TypeOK, FdInv, ClaimingFd
<1>2. client_conns[i] \in Conn /\ clock \in 0 .. MaxClock /\ clock \in Nat
  BY <1>1, ConnFields, ClockType DEF Inv
<1>3. Claimed(client_conns[i]) \in Conn
  BY <1>1, <1>2 DEF Claimed, Conn
<1>4. /\ client_conns' \in [Slots -> Conn] /\ client_conns'[i] = Claimed(client_conns[i])
      /\ \A s \in Slots : s # i => client_conns'[s] = client_conns[s]
  BY <1>1, <1>3 DEF Inv, TypeOK
<1>5. /\ client_conns'[i].fd = client_fd /\ client_conns'[i].is_active = TRUE
      /\ client_conns'[i].is_busy = TRUE /\ client_conns'[i].owner = sock[client_fd]
      /\ client_conns'[i].heard = clock /\ client_conns'[i].last_activity = clock
      /\ client_conns'[i].read_buffer = client_conns[i].read_buffer
  BY <1>2, <1>4 DEF Claimed, Conn
<1>6. TypeOK'
  BY <1>1, <1>4, MainTypes DEF Inv, TypeOK, Places, peer_vars
<1>7. PeerInv' /\ WatchInv'
  BY PeerFrame DEF Inv, peer_vars, WatchInv
<1>8. Unclaimed(i)
  BY <1>1, InactiveUnclaimed DEF Inv, Busy
<1>9. \A s \in Slots : Queued(s)' = Queued(s)
  BY DEF Queued
<1>10. \A w \in Workers :
         Working(w)' = Working(w) /\ Slot(w)' = Slot(w) /\ Slot(w) \in Slots
  BY SlotType DEF Working, At, Slot, Inv
<1>11. \A s \in Slots : Busy(s)' <=> (Busy(s) \/ s = i)
  BY <1>4, <1>5 DEF Busy
<1>12. TaskInv'
  <2>1. QueuedMatch'
    <3> SUFFICES ASSUME NEW n \in 1 .. Len(queue) PROVE Matches(queue[n])'
      BY DEF QueuedMatch
    <3>1. queue[n].conn \in Slots /\ queue[n].conn # i /\ Matches(queue[n])
      BY <1>8, QueueFacts DEF Unclaimed, Queued, Inv, TaskInv, QueuedMatch
    <3> QED
      BY <1>4, <1>11, <3>1 DEF Matches
  <2>2. HeldMatch'
    BY <1>4, <1>8, <1>10, <1>11
    DEF Inv, TaskInv, HeldMatch, Matches, Unclaimed, Serves, Slot
  <2>3. QueuedOnce' /\ HeldOnce' /\ HeldNotQueued'
    BY <1>9, <1>10 DEF Inv, TaskInv, QueuedOnce, HeldOnce, HeldNotQueued
  <2>4. HandingAlone'
    BY <1>1, <1>5, <1>8, <1>9, <1>10, <1>11 DEF HandingAlone, Unclaimed, Serves
  <2>5. BusyHasTask'
    BY <1>1, <1>9, <1>10, <1>11 DEF Inv, TaskInv, BusyHasTask, Handing, Serves
  <2> QED
    BY <2>1, <2>2, <2>3, <2>4, <2>5 DEF TaskInv
<1>13. \A s \in Slots : InUse(s)' <=> (InUse(s) \/ s = i)
  <2>1. \A w \in Workers : ~(At(w, "deactivate") /\ Slot(w) = i)
    BY <1>8 DEF Unclaimed, Serves, Working, At
  <2>2. ~Closing(i)
    BY <2>1 DEF Closing
  <2> QED
    BY <1>4, <1>5, <2>2, WorkersKept DEF InUse
<1>14. FdInv'
  <2>1. ~InUse(i) /\ \A s \in Slots : InUse(s) => client_conns[s].fd # client_fd
    BY DEF Inv, FdInv, ClaimingFd, InUse
  <2>2. ActiveHasFd'
    BY <1>1, <1>4, <1>5 DEF Inv, FdInv, ActiveHasFd
  <2>3. OwnFd' /\ InUseOpen'
    BY <1>1, <1>4, <1>5, <1>13, <2>1, Constants DEF Inv, FdInv, OwnFd, InUseOpen
  <2>4. ClaimingFd' /\ NoClientFd'
    BY DEF ClaimingFd, NoClientFd
  <2>5. NoFdLeak'
    BY <1>4, <1>13 DEF Inv, FdInv, NoFdLeak, InUse
  <2> QED
    BY <2>2, <2>3, <2>4, <2>5 DEF FdInv
<1>15. BufferInv'
  BY <1>4, <1>5, BufferFrame, WorkersKept DEF Inv
<1>16. TimeInv'
  <2> SUFFICES ASSUME NEW s \in Slots
               PROVE  /\ client_conns'[s].heard <= clock
                      /\ \/ client_conns'[s].heard <= client_conns'[s].last_activity
                         \/ UntouchedIn(s)'
    BY DEF TimeInv, UntouchedIn, peer_vars
  <2>1. CASE s = i
    BY <1>2, <1>5, <2>1
  <2>2. CASE s # i
    BY <1>4, <2>2, WorkersKept DEF Inv, TimeInv, UntouchedIn
  <2> QED
    BY <2>1, <2>2
<1> QED
  BY <1>6, <1>7, <1>12, <1>14, <1>15, <1>16 DEF Inv

LEMMA ClaimNextKeeps ==
  ASSUME Inv, mpc = "claim", Walk("accept"),
         sock' = IF i = MaxConns THEN SockAfterReject ELSE sock,
         client_fd' = IF i = MaxConns THEN NOFD ELSE client_fd,
         UNCHANGED <<client_conns, read_fds, now, queue, worker, peer_vars>>
  PROVE  Inv'
<1>1. /\ i' \in Slots /\ mpc' \in {"claim", "accept"} /\ mpc' \in Places
      /\ (i = MaxConns => mpc' = "accept") /\ (i # MaxConns => mpc' = "claim")
  BY WalkFacts DEF Inv, Places
<1>2. client_fd \in Fds /\ sock[client_fd] \in Clients
  BY DEF Inv, TypeOK, FdInv, ClaimingFd
<1>3. /\ sock' \in [Fds -> Clients \cup {NONE}]
      /\ \A f \in Fds : sock'[f] \in {sock[f], NONE}
      /\ i = MaxConns => sock'[client_fd] = NONE
      /\ \A f \in Fds : f # client_fd \/ i # MaxConns => sock'[f] = sock[f]
  BY <1>2 DEF SockAfterReject, Inv, TypeOK
<1>4. TypeOK'
  BY <1>1, <1>2, <1>3, MainTypes DEF Inv, TypeOK, peer_vars
<1>5. PeerInv' /\ WatchInv'
  BY <1>1, <1>3, PeerFrame DEF Inv, peer_vars, WatchInv
<1>6. SlotsKept /\ BusyKept /\ TasksKept
  BY DEF SlotsKept, BusyKept, TasksKept, At
<1>7. TaskInv'
  BY <1>1, <1>6, TaskFrame DEF Inv
<1>8. BufferInv' /\ TimeInv'
  BY BufferFrame, TimeFrame, WorkersKept, ClockType DEF Inv, peer_vars
<1>9. \A s \in Slots : InUse(s)' = InUse(s)
  BY WorkersKept DEF InUse
<1>10. \A s \in Slots : InUse(s) => client_conns[s].fd # client_fd
  BY DEF Inv, FdInv, ClaimingFd
<1>11. FdInv'
  <2>1. ActiveHasFd' /\ OwnFd'
    BY <1>9 DEF Inv, FdInv, ActiveHasFd, OwnFd
  <2>2. InUseOpen'
    BY <1>3, <1>9, <1>10 DEF Inv, FdInv, InUseOpen, ActiveHasFd, InUse
  <2>3. ClaimingFd' /\ NoClientFd'
    BY <1>1, <1>2, <1>3, <1>9, <1>10, Constants DEF ClaimingFd, NoClientFd
  <2>4. NoFdLeak'
    BY <1>1, <1>3, <1>9 DEF Inv, FdInv, NoFdLeak, InUse
  <2> QED
    BY <2>1, <2>2, <2>3, <2>4 DEF FdInv
<1> QED
  BY <1>4, <1>5, <1>7, <1>8, <1>11 DEF Inv

LEMMA ClaimKeeps == ASSUME Inv, claim PROVE Inv'
<1>1. CASE ~client_conns[i].is_active
  BY <1>1, ClaimSlotKeeps DEF claim
<1>2. CASE client_conns[i].is_active
  BY <1>2, ClaimNextKeeps DEF claim
<1> QED
  BY <1>1, <1>2
-----------------------------------------------------------------------------
(* Handing a slot over, and the walks that do it or expire slots.          *)

LEMMA HandOverFacts ==
  ASSUME Inv, NEW s \in Slots, client_conns[s].is_active, UNCHANGED worker,
         HandOver(s, TRUE)
  PROVE  /\ Adds(s) \/ Frees(s)
         /\ client_conns' \in [Slots -> Conn]
         /\ sock' \in [Fds -> Clients \cup {NONE}]
         /\ queue' = queue \/ Adds(s)
         /\ \A f \in Fds : sock'[f] \in {sock[f], NONE}
<1>1. client_conns[s] \in Conn /\ client_conns[s].fd \in Fds
  BY ConnFields DEF Inv, FdInv, ActiveHasFd
<1>2. CASE /\ queue' = Append(queue, [client_fd |-> client_conns[s].fd, conn |-> s])
           /\ client_conns' = [client_conns EXCEPT ![s].is_busy = TRUE]
           /\ UNCHANGED sock
  <2>1. [client_conns[s] EXCEPT !.is_busy = TRUE] \in Conn
    BY <1>1 DEF Conn
  <2>2. /\ client_conns' \in [Slots -> Conn]
        /\ client_conns'[s] = [client_conns[s] EXCEPT !.is_busy = TRUE]
        /\ \A r \in Slots : r # s => client_conns'[r] = client_conns[r]
    BY <1>2, <2>1 DEF Inv, TypeOK
  <2>3. /\ client_conns'[s].is_active = client_conns[s].is_active
        /\ client_conns'[s].fd = client_conns[s].fd
        /\ client_conns'[s].owner = client_conns[s].owner
        /\ client_conns'[s].is_busy = TRUE
        /\ client_conns'[s].read_buffer = client_conns[s].read_buffer
        /\ client_conns'[s].heard = client_conns[s].heard
        /\ client_conns'[s].last_activity = client_conns[s].last_activity
    BY <1>1, <2>2 DEF Conn
  <2>4. Adds(s)
    BY <1>2, <2>2, <2>3 DEF Adds, OthersKept, SlotsKept
  <2> QED
    BY <1>2, <2>2, <2>4 DEF Inv, TypeOK
<1>3. CASE /\ sock' = [sock EXCEPT ![client_conns[s].fd] = NONE]
           /\ client_conns' = [client_conns EXCEPT ![s] = Freed([@ EXCEPT !.is_busy = TRUE])]
           /\ UNCHANGED queue
  <2>1. Freed([client_conns[s] EXCEPT !.is_busy = TRUE]) \in Conn
    <3>1. 0 \in 0 .. MaxClock
      BY Constants
    <3> QED
      BY <1>1, <3>1 DEF Conn, Freed
  <2>2. /\ client_conns' \in [Slots -> Conn]
        /\ client_conns'[s] = Freed([client_conns[s] EXCEPT !.is_busy = TRUE])
        /\ \A r \in Slots : r # s => client_conns'[r] = client_conns[r]
    BY <1>3, <2>1 DEF Inv, TypeOK
  <2>3. /\ client_conns'[s].is_active = FALSE
        /\ client_conns'[s].read_buffer = client_conns[s].read_buffer
        /\ client_conns'[s].heard = 0
        /\ client_conns'[s].last_activity = client_conns[s].last_activity
    BY <1>1, <2>2 DEF Conn, Freed
  <2>4. Frees(s)
    BY <1>3, <2>2, <2>3 DEF Frees, OthersKept
  <2> QED
    BY <1>1, <1>3, <2>2, <2>4 DEF Inv, TypeOK
<1> QED
  BY <1>2, <1>3 DEF HandOver

(* A slot that nobody else has, given a task or freed, is given or freed   *)
(* without harm to the others.                                             *)
LEMMA SettleKeeps ==
  ASSUME Inv, NEW s \in Slots, Adds(s) \/ Frees(s), InUse(s), Unclaimed(s), Settles(s),
         mpc = "hand_over" => i = s,
         client_conns' \in [Slots -> Conn], sock' \in [Fds -> Clients \cup {NONE}],
         queue' = queue \/ Adds(s), \A f \in Fds : sock'[f] \in {sock[f], NONE},
         mpc' \in Places, i' \in Slots, now' \in 0 .. MaxClock, read_fds' \subseteq Fds,
         mpc' \notin {"build", "select", "expire"} \/ read_fds' = {},
         UNCHANGED <<worker, peer_vars>>
  PROVE  Inv'
<1>1. client_conns[s].is_active /\ client_conns[s].fd \in Fds
  BY DEF InUse, Inv, FdInv, ActiveHasFd
<1>2. mpc' # "hand_over" /\ client_fd' = NOFD
  BY DEF Settles
<1>3. queue' \in Seq(Task) /\ TaskInv'
  BY <1>1, <1>2, AddTask, FreeTask DEF Inv, TypeOK
<1>4. FdInv'
  BY AddFd, FreeFd DEF Inv
<1>5. TypeOK'
  BY <1>2, <1>3, MainTypes DEF Inv, TypeOK, peer_vars
<1>6. PeerInv'
  BY PeerFrame DEF Inv, peer_vars
<1>7. WatchInv'
  BY DEF WatchInv
<1>8. \A r \in Slots :
        /\ client_conns'[r].read_buffer = client_conns[r].read_buffer
        /\ client_conns'[r].last_activity = client_conns[r].last_activity
        /\ client_conns'[r].heard \in {client_conns[r].heard, 0}
  BY DEF Adds, Frees, OthersKept
<1>9. BufferInv'
  BY <1>8, BufferFrame, WorkersKept DEF Inv
<1>10. TimeInv'
  BY <1>8, TimeFrame, WorkersKept, ClockType DEF Inv, peer_vars
<1> QED
  BY <1>3, <1>4, <1>5, <1>6, <1>7, <1>9, <1>10 DEF Inv

LEMMA HandOverKeeps == ASSUME Inv, hand_over PROVE Inv'
<1>1. /\ mpc = "hand_over" /\ mpc' = "accept" /\ i' = 1 /\ client_fd' = NOFD
      /\ HandOver(i, client_conns[i].is_busy)
      /\ UNCHANGED <<read_fds, now, worker, peer_vars>>
  BY DEF hand_over
<1>2. /\ i \in Slots /\ client_conns[i].is_active /\ client_conns[i].is_busy
      /\ client_conns[i].fd = client_fd /\ Unclaimed(i)
  BY <1>1 DEF Inv, TypeOK, TaskInv, HandingAlone, Busy, Unclaimed
<1>3. client_conns[i].is_busy = TRUE
  BY <1>2, ConnFields DEF Inv
<1>4. InUse(i)
  <2>1. ~Closing(i)
    BY <1>2 DEF Unclaimed, Serves, Working, At, Closing
  <2> QED
    BY <1>2, <2>1 DEF InUse
<1>5. Settles(i)
  BY <1>1, <1>2 DEF Settles
<1>6. HandOver(i, TRUE)
  BY <1>1, <1>3
<1> QED
  BY <1>1, <1>2, <1>4, <1>5, <1>6, HandOverFacts, SettleKeeps, Constants
  DEF Places, Inv, TypeOK

(* An idle slot is used by nobody but the walk that looks at it.           *)
LEMMA IdleFacts ==
  ASSUME Inv, NEW s \in Slots, Idle(s), mpc \notin {"claim", "hand_over"},
         mpc' \notin {"claim", "hand_over"}, client_fd' = client_fd
  PROVE  client_conns[s].is_active /\ InUse(s) /\ Unclaimed(s) /\ Settles(s)
<1>1. client_conns[s].is_active /\ ~Busy(s)
  BY DEF Idle, Busy
<1>2. Unclaimed(s)
  BY <1>1, InactiveUnclaimed DEF Inv
<1>3. ~Closing(s)
  BY <1>2 DEF Unclaimed, Serves, Working, At, Closing
<1>4. client_fd = NOFD
  BY DEF Inv, FdInv, NoClientFd
<1> QED
  BY <1>1, <1>2, <1>3, <1>4 DEF InUse, Settles

LEMMA ScanKeeps == ASSUME Inv, scan PROVE Inv'
<1>1. /\ mpc = "scan" /\ Walk("timeouts")
      /\ UNCHANGED <<client_fd, read_fds, now, worker, peer_vars>>
  BY DEF scan
<1>2. /\ i \in Slots /\ i' \in Slots /\ mpc' \in {"scan", "timeouts"} /\ mpc' \in Places
  BY <1>1, WalkFacts DEF Inv, TypeOK, Places
<1>3. CASE Idle(i) /\ client_conns[i].fd \in read_fds
  <2>1. HandOver(i, TRUE)
    BY <1>3 DEF scan, BusyAtScan
  <2>2. client_conns[i].is_active /\ InUse(i) /\ Unclaimed(i) /\ Settles(i)
    BY <1>1, <1>2, <1>3, IdleFacts
  <2>3. /\ Adds(i) \/ Frees(i)
        /\ client_conns' \in [Slots -> Conn] /\ sock' \in [Fds -> Clients \cup {NONE}]
        /\ queue' = queue \/ Adds(i)
        /\ \A f \in Fds : sock'[f] \in {sock[f], NONE}
    BY <1>1, <1>2, <2>1, <2>2, HandOverFacts
  <2> QED
    BY <1>1, <1>2, <2>2, <2>3, SettleKeeps DEF Inv, TypeOK
<1>4. CASE ~(Idle(i) /\ client_conns[i].fd \in read_fds)
  <2>1. UNCHANGED <<client_conns, queue, sock>>
    BY <1>4 DEF scan
  <2>2. TaskInv' /\ FdInv' /\ BufferInv' /\ TimeInv'
    BY <1>1, <1>2, <2>1, SlotsUntouched, ClockType DEF MainApart, peer_vars, Inv
  <2>3. TypeOK'
    BY <1>1, <1>2, <2>1, MainTypes DEF Inv, TypeOK, peer_vars
  <2>4. PeerInv' /\ WatchInv'
    BY <1>1, <1>2, <2>1, PeerFrame DEF Inv, peer_vars, WatchInv
  <2> QED
    BY <2>2, <2>3, <2>4 DEF Inv
<1> QED
  BY <1>3, <1>4

LEMMA ExpireKeeps == ASSUME Inv, expire PROVE Inv'
<1>1. /\ mpc = "expire" /\ Walk("build") /\ now' \in {0, now}
      /\ UNCHANGED <<client_fd, read_fds, queue, worker, peer_vars>>
  BY DEF expire
<1>2. /\ i \in Slots /\ i' \in Slots /\ mpc' \in {"expire", "build"} /\ mpc' \in Places
      /\ read_fds = {} /\ read_fds' = {} /\ now' \in 0 .. MaxClock
  BY <1>1, WalkFacts, Constants DEF Inv, TypeOK, WatchInv, Places
<1>3. CASE Expired(i)
  <2>1. /\ sock' = [sock EXCEPT ![client_conns[i].fd] = NONE]
        /\ client_conns' = [client_conns EXCEPT ![i] = Freed(@)]
    BY <1>3 DEF expire
  <2>2. client_conns[i].is_active /\ InUse(i) /\ Unclaimed(i) /\ Settles(i)
    BY <1>1, <1>2, <1>3, IdleFacts DEF Expired
  <2>3. client_conns[i] \in Conn /\ client_conns[i].fd \in Fds /\ 0 \in 0 .. MaxClock
    BY <1>2, <2>2, ConnFields, Constants DEF Inv, FdInv, ActiveHasFd
  <2>4. Freed(client_conns[i]) \in Conn
    BY <2>3 DEF Conn, Freed
  <2>5. /\ client_conns' \in [Slots -> Conn]
        /\ client_conns'[i] = Freed(client_conns[i])
        /\ \A r \in Slots : r # i => client_conns'[r] = client_conns[r]
    BY <1>2, <2>1, <2>4 DEF Inv, TypeOK
  <2>6. /\ client_conns'[i].is_active = FALSE
        /\ client_conns'[i].read_buffer = client_conns[i].read_buffer
        /\ client_conns'[i].heard = 0
        /\ client_conns'[i].last_activity = client_conns[i].last_activity
    BY <2>3, <2>5 DEF Conn, Freed
  <2>7. Frees(i)
    BY <1>1, <2>1, <2>5, <2>6 DEF Frees, OthersKept
  <2>8. /\ sock' \in [Fds -> Clients \cup {NONE}]
        /\ \A f \in Fds : sock'[f] \in {sock[f], NONE}
    BY <2>1, <2>3 DEF Inv, TypeOK
  <2> QED
    BY <1>1, <1>2, <2>2, <2>5, <2>7, <2>8, SettleKeeps DEF Inv, TypeOK
<1>4. CASE ~Expired(i)
  <2>1. UNCHANGED <<client_conns, sock>>
    BY <1>4 DEF expire
  <2>2. TaskInv' /\ FdInv' /\ BufferInv' /\ TimeInv'
    BY <1>1, <1>2, <2>1, SlotsUntouched, ClockType DEF MainApart, peer_vars, Inv
  <2>3. TypeOK'
    BY <1>1, <1>2, <2>1, MainTypes DEF Inv, TypeOK, peer_vars
  <2>4. PeerInv' /\ WatchInv'
    BY <1>1, <1>2, <2>1, PeerFrame DEF Inv, peer_vars, WatchInv
  <2> QED
    BY <2>2, <2>3, <2>4 DEF Inv
<1> QED
  BY <1>3, <1>4

LEMMA MainKeeps == ASSUME Inv, Main PROVE Inv'
  BY BuildKeeps, SelectKeeps, AcceptKeeps, AcceptDoneKeeps, ClaimKeeps, HandOverKeeps,
     ScanKeeps, TimeoutsKeeps, ExpireKeeps DEF Main
-----------------------------------------------------------------------------
(* The workers.                                                            *)

WorkerPlaces == {"idle", "recv", "respond", "touch", "clear_busy", "close", "deactivate"}

MainStill == UNCHANGED <<main_vars, backlog, gone, sent, clock>>

(* Worker w alone moves: to place pc, with the given task.                 *)
Moves(w, pc, task) ==
  /\ worker'[w].pc = pc /\ worker'[w].task = task
  /\ \A v \in Workers \ {w} : worker'[v] = worker[v]

LEMMA MoveTypes ==
  ASSUME TypeOK, NEW w \in Workers, NEW pc \in WorkerPlaces, NEW task \in Task \cup {NoTask},
         worker' = [worker EXCEPT ![w] = [pc |-> pc, task |-> task]]
  PROVE  /\ Moves(w, pc, task)
         /\ worker' \in [Workers -> [pc : WorkerPlaces, task : Task \cup {NoTask}]]
  BY DEF TypeOK, Moves, WorkerPlaces

LEMMA GotoTypes ==
  ASSUME TypeOK, NEW w \in Workers, NEW pc \in WorkerPlaces, Goto(w, pc)
  PROVE  /\ Moves(w, pc, worker[w].task)
         /\ worker' \in [Workers -> [pc : WorkerPlaces, task : Task \cup {NoTask}]]
<1>1. /\ worker[w] \in [pc : WorkerPlaces, task : Task \cup {NoTask}]
      /\ worker \in [Workers -> [pc : WorkerPlaces, task : Task \cup {NoTask}]]
  BY DEF TypeOK, WorkerPlaces
<1>2. worker' = [worker EXCEPT ![w].pc = pc]
  BY DEF Goto
<1> QED
  BY <1>1, <1>2 DEF Moves

LEMMA EndTypes ==
  ASSUME TypeOK, NEW w \in Workers, EndTask(w)
  PROVE  /\ Moves(w, "idle", NoTask)
         /\ worker' \in [Workers -> [pc : WorkerPlaces, task : Task \cup {NoTask}]]
  BY MoveTypes DEF EndTask, WorkerPlaces

LEMMA WorkerTypes ==
  ASSUME TypeOK, MainStill, client_conns' \in [Slots -> Conn], queue' \in Seq(Task),
         worker' \in [Workers -> [pc : WorkerPlaces, task : Task \cup {NoTask}]],
         sock' \in [Fds -> Clients \cup {NONE}],
         inbox' \in [Clients -> SeqOf(Pieces, MaxSend)]
  PROVE  TypeOK'
  BY DEF TypeOK, MainStill, main_vars, WorkerPlaces

(* What the other workers make of a slot does not change.                  *)
LEMMA OthersStay ==
  ASSUME NEW w \in Workers, NEW pc, NEW task, Moves(w, pc, task)
  PROVE  /\ \A v \in Workers \ {w} :
              /\ Working(v)' = Working(v) /\ Slot(v)' = Slot(v)
              /\ Untouched(v)' = Untouched(v)
              /\ \A p \in WorkerPlaces : At(v, p)' = At(v, p)
         /\ \A p \in WorkerPlaces : At(w, p)' = (pc = p)
         /\ Working(w)' = (pc # "idle") /\ Slot(w)' = task.conn
         /\ Untouched(w)' = (pc \in {"respond", "touch", "close", "deactivate"})
  BY DEF Moves, Working, At, Slot, Untouched

LEMMA RespondersStay ==
  ASSUME TypeOK, NEW w \in Workers, NEW pc, NEW task, Moves(w, pc, task), NEW s \in Slots,
         At(w, "respond") => Slot(w) # s, Responding(s)
  PROVE  Responding(s)'
  BY OthersStay DEF Responding, WorkerPlaces

LEMMA UntouchedStay ==
  ASSUME TypeOK, NEW w \in Workers, NEW pc, NEW task, Moves(w, pc, task), NEW s \in Slots,
         Untouched(w) => Slot(w) # s, UntouchedIn(s)
  PROVE  UntouchedIn(s)'
  BY OthersStay DEF UntouchedIn

LEMMA ClosingStays ==
  ASSUME TypeOK, NEW w \in Workers, NEW pc, NEW task, Moves(w, pc, task),
         ~At(w, "deactivate"), pc # "deactivate"
  PROVE  ClosingKept
<1>1. /\ ~At(w, "deactivate")'
      /\ \A v \in Workers \ {w} :
           At(v, "deactivate")' = At(v, "deactivate") /\ Slot(v)' = Slot(v)
  BY OthersStay DEF WorkerPlaces
<1> SUFFICES ASSUME NEW s \in Slots PROVE Closing(s)' <=> Closing(s)
  BY DEF ClosingKept, Closing
<1> QED
  BY <1>1 DEF Closing

LEMMA StillFacts ==
  ASSUME MainStill, TypeOK
  PROVE  /\ UNCHANGED <<mpc, i, client_fd>> /\ UNCHANGED <<mpc, read_fds>>
         /\ MainApart /\ clock' \in Nat /\ clock <= clock'
  BY ClockType DEF MainStill, main_vars, MainApart

LEMMA TakeKeeps ==
  ASSUME Inv, NEW w \in Workers, worker_take(w), MainStill
  PROVE  Inv'
<1>1. /\ At(w, "idle") /\ queue # <<>> /\ queue' = Tail(queue)
      /\ worker' = [worker EXCEPT ![w] = [pc |-> "recv", task |-> Head(queue)]]
      /\ UNCHANGED <<client_conns, sock, inbox>>
  BY DEF worker_take
<1>2. /\ Head(queue) \in Task /\ Head(queue) = queue[1]
      /\ Tail(queue) \in Seq(Task) /\ Len(Tail(queue)) = Len(queue) - 1
      /\ Len(queue) \in Nat \ {0}
      /\ \A n \in 1 .. Len(queue) - 1 : Tail(queue)[n] = queue[n + 1]
  BY <1>1, TakeFacts, QueueFacts, Zenon DEF Inv
<1> DEFINE t == Head(queue)
<1>3. /\ Moves(w, "recv", t)
      /\ worker' \in [Workers -> [pc : WorkerPlaces, task : Task \cup {NoTask}]]
  BY <1>1, <1>2, MoveTypes DEF WorkerPlaces, Inv
<1>4. t \in Task /\ t = queue[1] /\ t.conn \in Slots
  BY <1>2 DEF Task
<1> HIDE DEF t
<1>5. \A n \in 1 .. Len(queue') :
        n + 1 \in 1 .. Len(queue) /\ n + 1 # 1 /\ queue'[n] = queue[n + 1]
  BY <1>1, <1>2
<1>6. \A n \in 1 .. Len(queue) : n = 1 \/ (n - 1 \in 1 .. Len(queue') /\ queue'[n - 1] = queue[n])
  BY <1>1, <1>2
<1>7. 1 \in 1 .. Len(queue)
  BY <1>2
<1>8. TypeOK'
  BY <1>1, <1>2, <1>3, WorkerTypes DEF Inv, TypeOK
<1>9. SlotsKept /\ BusyKept
  BY <1>1 DEF SlotsKept, BusyKept
<1>10. PeerInv' /\ WatchInv'
  BY <1>1, <1>9, PeerFrame, WatchFrame, StillFacts DEF Inv, MainStill
<1>11. ~Working(w) /\ ~Untouched(w) /\ ~At(w, "respond") /\ ~At(w, "deactivate")
  BY <1>1 DEF Working, Untouched, At
<1>12. FdInv'
  BY <1>1, <1>3, <1>9, <1>11, ClosingStays, FdFrame, StillFacts DEF Inv
<1>13. BufferInv'
  BY <1>1, <1>3, <1>11, RespondersStay, BufferFrame DEF Inv
<1>14. TimeInv'
  BY <1>1, <1>3, <1>11, UntouchedStay, TimeFrame, StillFacts DEF Inv
<1>15. /\ Working(w)' /\ Slot(w)' = t.conn /\ worker'[w].task = t
       /\ \A v \in Workers \ {w} : /\ Working(v)' = Working(v) /\ Slot(v)' = Slot(v)
                                   /\ worker'[v] = worker[v]
  <2>1. worker'[w].task = t /\ \A v \in Workers \ {w} : worker'[v] = worker[v]
    BY <1>3 DEF Moves
  <2>2. Working(w)' /\ Slot(w)' = t.conn
    BY <1>3 DEF Moves, Working, At, Slot
  <2>3. \A v \in Workers \ {w} : Working(v)' = Working(v) /\ Slot(v)' = Slot(v)
    BY <1>3, OthersStay, Zenon
  <2> QED
    BY <2>1, <2>2, <2>3
<1>16. \A s \in Slots : Queued(s)' => Queued(s) /\ s # t.conn
  <2> SUFFICES ASSUME NEW s \in Slots, NEW n \in 1 .. Len(queue'), queue'[n].conn = s
               PROVE  Queued(s) /\ s # t.conn
    BY DEF Queued
  <2>1. n + 1 \in 1 .. Len(queue) /\ n + 1 # 1 /\ queue[n + 1].conn = s
    BY <1>5
  <2> QED
    BY <1>4, <1>7, <2>1 DEF Queued, Inv, TaskInv, QueuedOnce
<1>17. \A s \in Slots : Queued(s) => Queued(s)' \/ s = t.conn
  BY <1>4, <1>6 DEF Queued
<1>18. Queued(t.conn)
  BY <1>4, <1>7 DEF Queued
<1>19. TaskInv'
  <2>1. \A x : Matches(x)' = Matches(x)
    BY <1>1 DEF Matches, Busy
  <2>2. QueuedMatch'
    <3> SUFFICES ASSUME NEW n \in 1 .. Len(queue') PROVE Matches(queue'[n])
      BY <1>1 DEF QueuedMatch, Matches, Busy
    <3> QED
      BY <1>5 DEF Inv, TaskInv, QueuedMatch
  <2>3. HeldMatch'
    <3>1. Matches(t)
      BY <1>4, <1>7 DEF Inv, TaskInv, QueuedMatch
    <3> SUFFICES ASSUME NEW v \in Workers, Working(v)' PROVE Matches(worker'[v].task)
      BY <1>1 DEF HeldMatch, Matches, Busy
    <3> QED
      BY <1>15, <3>1 DEF Inv, TaskInv, HeldMatch
  <2>4. QueuedOnce'
    <3> SUFFICES ASSUME NEW m \in 1 .. Len(queue'), NEW n \in 1 .. Len(queue'),
                        queue'[m].conn = queue'[n].conn
                 PROVE  m = n
      BY DEF QueuedOnce
    <3>1. m + 1 \in 1 .. Len(queue) /\ n + 1 \in 1 .. Len(queue)
          /\ queue[m + 1].conn = queue[n + 1].conn
      BY <1>5
    <3>2. m + 1 = n + 1
      BY <3>1 DEF Inv, TaskInv, QueuedOnce
    <3> QED
      BY <3>2
  <2>5. \A v \in Workers \ {w} : Working(v) => Slot(v) # t.conn
    BY <1>18 DEF Inv, TaskInv, HeldNotQueued
  <2>6. HeldOnce'
    BY <1>15, <2>5 DEF Inv, TaskInv, HeldOnce
  <2>7. HeldNotQueued'
    <3> SUFFICES ASSUME NEW v \in Workers, NEW s, s = Slot(v)', Working(v)', Queued(s)'
                 PROVE  FALSE
      BY DEF HeldNotQueued, Queued, Slot
    <3>1. CASE v = w
      BY <1>4, <1>15, <1>16, <3>1
    <3>2. CASE v # w
      <4>1. Slot(v) \in Slots /\ Working(v) /\ Slot(v)' = Slot(v)
        BY <1>15, <3>2, SlotType DEF Inv
      <4> QED
        BY <1>16, <4>1 DEF Inv, TaskInv, HeldNotQueued
    <3> QED
      BY <3>1, <3>2
  <2>8. HandingAlone'
    <3> SUFFICES ASSUME mpc = "hand_over"
                 PROVE  /\ Busy(i) /\ client_conns[i].fd = client_fd
                        /\ ~Queued(i)' /\ \A v \in Workers : ~(Working(v)' /\ Slot(v)' = i)
      BY <1>1, StillFacts DEF HandingAlone, Serves, Queued, Busy, Inv
    <3>1. i \in Slots /\ Busy(i) /\ client_conns[i].fd = client_fd /\ ~Queued(i)
          /\ \A v \in Workers : ~Serves(v, i)
      BY DEF Inv, TypeOK, TaskInv, HandingAlone
    <3>2. i # t.conn
      BY <1>18, <3>1
    <3>3. i' = i /\ \A s \in Slots : s = i => ~Queued(s)'
      BY <1>16, <3>1, StillFacts DEF Inv
    <3>4. \A v \in Workers : ~(Working(v)' /\ Slot(v)' = i)
      <4> TAKE v \in Workers
      <4>1. CASE v = w
        BY <1>15, <3>2, <4>1
      <4>2. CASE v # w
        BY <1>15, <3>1, <4>2 DEF Serves
      <4> QED
        BY <4>1, <4>2
    <3> QED
      BY <3>1, <3>3, <3>4 DEF Queued
  <2>9. BusyHasTask'
    <3> SUFFICES ASSUME NEW s \in Slots, Busy(s)
                 PROVE  \/ Queued(s)' \/ Handing(s)
                        \/ \E v \in Workers : Working(v)' /\ Slot(v)' = s
      BY <1>1, StillFacts DEF BusyHasTask, Serves, Queued, Busy, Handing, Inv
    <3>1. Queued(s) \/ Handing(s) \/ \E v \in Workers : Serves(v, s)
      BY DEF Inv, TaskInv, BusyHasTask
    <3> QED
      BY <1>11, <1>15, <1>17, <3>1 DEF Serves
  <2> QED
    BY <2>2, <2>3, <2>4, <2>6, <2>7, <2>8, <2>9 DEF TaskInv
<1> QED
  BY <1>8, <1>10, <1>12, <1>13, <1>14, <1>19 DEF Inv

(* A step of a worker within its task: the slot stays busy and its own.    *)
LEMMA WithinTask ==
  ASSUME Inv, NEW w \in Workers, Working(w), MainStill, UNCHANGED <<queue, sock>>,
         NEW pc \in WorkerPlaces \ {"idle", "deactivate"}, Moves(w, pc, worker[w].task),
         ~At(w, "deactivate"), SlotsKept, BusyKept
  PROVE  TaskInv' /\ FdInv' /\ WatchInv'
<1>1. TasksKept
  BY DEF TasksKept, Moves, At, Working
<1>2. ClosingKept
  BY ClosingStays DEF Inv
<1>3. TaskInv'
  BY <1>1, TaskFrame, StillFacts DEF Inv
<1>4. FdInv'
  BY <1>2, FdFrame, StillFacts DEF Inv
<1>5. WatchInv'
  BY WatchFrame, StillFacts DEF Inv
<1> QED
  BY <1>3, <1>4, <1>5

LEMMA RecvKeeps ==
  ASSUME Inv, NEW w \in Workers, worker_recv(w), MainStill
  PROVE  Inv'
<1> DEFINE s == Slot(w)
           c == Peer(w)
           n == Min({Len(Input(w)), Room(w)})
           buffer == Buffer(w) \o SubSeq(Input(w), 1, n)
           rest == SubSeq(inbox[c], n + 1, Len(inbox[c]))
           pc == IF RequestComplete(buffer) THEN "respond" ELSE "touch"
<1>1. /\ At(w, "recv") /\ n > 0
      /\ client_conns' = [client_conns EXCEPT ![s].read_buffer = buffer, ![s].heard = clock]
      /\ inbox' = [inbox EXCEPT ![c] = rest]
      /\ Goto(w, pc)
      /\ UNCHANGED <<queue, sock>>
  BY DEF worker_recv, GiveBack
<1>2. Working(w) /\ ~At(w, "deactivate") /\ ~At(w, "respond") /\ ~Untouched(w)
  BY <1>1 DEF Working, At, Untouched
<1>3. /\ s \in Slots /\ client_conns[s] \in Conn /\ c \in Clients \cup {NONE}
      /\ Buffer(w) \in Seq(Pieces) /\ Len(Buffer(w)) \in 0 .. BufSize
  BY <1>2, WorkerFacts, ConnFields DEF Inv, Buffer
<1>4. Room(w) \in Nat
  BY <1>3, Constants DEF Room
<1>5. c # NONE
  <2> SUFFICES ASSUME c = NONE PROVE FALSE
    OBVIOUS
  <2>1. Input(w) = <<>>
    BY DEF Input
  <2>2. Len(Input(w)) = 0
    BY <2>1, EmptySeq
  <2>3. n \in Nat /\ n <= 0
    BY <1>4, <2>2, MinOfPair
  <2> HIDE DEF n
  <2> QED
    BY <1>1, <2>3
<1>6. c \in Clients /\ Input(w) = inbox[c] /\ inbox[c] \in Seq(Pieces)
      /\ Len(inbox[c]) \in 0 .. MaxSend
  BY <1>3, <1>5, PeerTypes DEF Input, Inv
<1>7. /\ n \in Nat /\ n <= Room(w) /\ n <= Len(inbox[c])
      /\ buffer \in Seq(Pieces) /\ Len(buffer) = Len(Buffer(w)) + n
      /\ rest \in Seq(Pieces) /\ Len(rest) = Len(inbox[c]) - n
  <2>1. n = Min({Len(inbox[c]), Room(w)}) /\ Len(inbox[c]) \in Nat
    BY <1>6, Constants
  <2>2. buffer = Buffer(w) \o SubSeq(inbox[c], 1, n)
    BY <1>6
  <2>3. rest = SubSeq(inbox[c], n + 1, Len(inbox[c]))
    OBVIOUS
  <2> HIDE DEF n, buffer, rest
  <2>4. n \in Nat /\ n <= Room(w) /\ n <= Len(inbox[c])
    BY <1>4, <2>1, MinOfPair
  <2>5. /\ Buffer(w) \o SubSeq(inbox[c], 1, n) \in Seq(Pieces)
        /\ Len(Buffer(w) \o SubSeq(inbox[c], 1, n)) = Len(Buffer(w)) + n
        /\ SubSeq(inbox[c], n + 1, Len(inbox[c])) \in Seq(Pieces)
        /\ Len(SubSeq(inbox[c], n + 1, Len(inbox[c]))) = Len(inbox[c]) - n
    BY <1>3, <1>6, <2>4, MoveFacts, Zenon
  <2> QED
    BY <2>2, <2>3, <2>4, <2>5, Zenon
<1>8. pc \in {"respond", "touch"}
  OBVIOUS
<1>9. pc # "respond" => ~RequestComplete(buffer)
  OBVIOUS
<1> HIDE DEF buffer, rest, n, pc
<1>10. Len(buffer) <= BufSize /\ Len(rest) <= MaxSend
  BY <1>3, <1>6, <1>7, Constants DEF Room
<1>11. buffer \in SeqOf(Pieces, BufSize) /\ rest \in SeqOf(Pieces, MaxSend)
  BY <1>7, <1>10, SeqOfFacts, Constants
<1>12. /\ Moves(w, pc, worker[w].task)
       /\ worker' \in [Workers -> [pc : WorkerPlaces, task : Task \cup {NoTask}]]
       /\ pc \in WorkerPlaces \ {"idle", "deactivate"}
  BY <1>1, <1>8, GotoTypes DEF WorkerPlaces, Inv
<1>13. clock \in 0 .. MaxClock /\ clock \in Nat
  BY ClockType DEF Inv
<1> HIDE DEF s, c
<1>14. [client_conns[s] EXCEPT !.read_buffer = buffer, !.heard = clock] \in Conn
  BY <1>3, <1>11, <1>13 DEF Conn
<1>15. /\ client_conns' \in [Slots -> Conn]
       /\ client_conns'[s] =
            [client_conns[s] EXCEPT !.read_buffer = buffer, !.heard = clock]
       /\ \A r \in Slots : r # s => client_conns'[r] = client_conns[r]
  BY <1>1, <1>3, <1>14 DEF Inv, TypeOK
<1>16. /\ client_conns'[s].read_buffer = buffer /\ client_conns'[s].heard = clock
       /\ client_conns'[s].last_activity = client_conns[s].last_activity
       /\ client_conns'[s].is_active = client_conns[s].is_active
       /\ client_conns'[s].is_busy = client_conns[s].is_busy
       /\ client_conns'[s].fd = client_conns[s].fd
       /\ client_conns'[s].owner = client_conns[s].owner
  BY <1>3, <1>15 DEF Conn
<1>17. SlotsKept /\ BusyKept
  BY <1>15, <1>16 DEF SlotsKept, BusyKept
<1>18. TaskInv' /\ FdInv' /\ WatchInv'
  BY <1>1, <1>2, <1>12, <1>17, WithinTask
<1>19. /\ inbox' \in [Clients -> SeqOf(Pieces, MaxSend)] /\ inbox'[c] = rest
       /\ \A d \in Clients : d # c => inbox'[d] = inbox[d]
  BY <1>1, <1>6, <1>11 DEF Inv, TypeOK
<1>20. TypeOK'
  BY <1>1, <1>12, <1>15, <1>19, WorkerTypes DEF Inv, TypeOK
<1>21. PeerInv'
  <2>1. inbox[c] # <<>>
    <3> SUFFICES ASSUME inbox[c] = <<>> PROVE FALSE
      OBVIOUS
    <3>1. Len(inbox[c]) = 0
      BY EmptySeq
    <3> QED
      BY <1>1, <1>7, <3>1
  <2>2. Len(inbox[c]) < sent[c] /\ sent[c] \in Nat
    BY <1>6, <2>1, PeerTypes, Constants DEF Inv, PeerInv
  <2>3. Len(rest) < sent[c]
    BY <1>6, <1>7, <2>2
  <2> QED
    BY <1>1, <1>19, <2>3 DEF Inv, PeerInv, MainStill
<1>22. /\ At(w, "respond")' = (pc = "respond") /\ Untouched(w)' /\ Slot(w)' = s
  BY <1>8, <1>12 DEF Moves, At, Untouched, Slot, s
<1>23. BufferInv'
  <2> SUFFICES ASSUME NEW r \in Slots, RequestComplete(client_conns'[r].read_buffer)
               PROVE  Responding(r)'
    BY DEF BufferInv
  <2>1. CASE r = s
    BY <1>9, <1>16, <1>22, <2>1 DEF Responding
  <2>2. CASE r # s
    BY <1>2, <1>12, <1>15, <2>2, RespondersStay DEF Inv, BufferInv
  <2> QED
    BY <2>1, <2>2
<1>24. TimeInv'
  <2> SUFFICES ASSUME NEW r \in Slots
               PROVE  /\ client_conns'[r].heard <= clock
                      /\ \/ client_conns'[r].heard <= client_conns'[r].last_activity
                         \/ UntouchedIn(r)'
    BY DEF TimeInv, UntouchedIn, MainStill
  <2>1. CASE r = s
    BY <1>13, <1>16, <1>22, <2>1 DEF UntouchedIn
  <2>2. CASE r # s
    <3>1. UntouchedIn(r) => UntouchedIn(r)'
      BY <1>2, <1>12, UntouchedStay DEF Inv
    <3> QED
      BY <1>15, <2>2, <3>1 DEF Inv, TimeInv, UntouchedIn
  <2> QED
    BY <2>1, <2>2
<1> QED
  BY <1>18, <1>20, <1>21, <1>23, <1>24 DEF Inv

LEMMA RecvNoneKeeps ==
  ASSUME Inv, NEW w \in Workers, worker_recv_none(w), MainStill
  PROVE  Inv'
<1>1. /\ At(w, "recv") /\ UNCHANGED <<client_conns, queue, sock, inbox>>
      /\ \E pc \in {"clear_busy", "close"} : Goto(w, pc)
  BY DEF worker_recv_none, AfterEagain
<1>2. PICK pc \in {"clear_busy", "close"} : Goto(w, pc)
  BY <1>1
<1>3. Working(w) /\ ~At(w, "deactivate") /\ ~At(w, "respond") /\ ~Untouched(w)
  BY <1>1 DEF Working, At, Untouched
<1>4. /\ Moves(w, pc, worker[w].task)
      /\ worker' \in [Workers -> [pc : WorkerPlaces, task : Task \cup {NoTask}]]
      /\ pc \in WorkerPlaces \ {"idle", "deactivate"}
  BY <1>2, GotoTypes DEF WorkerPlaces, Inv
<1>5. SlotsKept /\ BusyKept
  BY <1>1 DEF SlotsKept, BusyKept
<1>6. TaskInv' /\ FdInv' /\ WatchInv'
  BY <1>1, <1>3, <1>4, <1>5, WithinTask
<1>7. TypeOK' /\ PeerInv'
  BY <1>1, <1>4, WorkerTypes, PeerFrame DEF Inv, TypeOK, MainStill
<1>8. BufferInv'
  BY <1>1, <1>3, <1>4, RespondersStay, BufferFrame DEF Inv
<1>9. TimeInv'
  BY <1>1, <1>3, <1>4, UntouchedStay, TimeFrame, StillFacts DEF Inv
<1> QED
  BY <1>6, <1>7, <1>8, <1>9 DEF Inv

LEMMA NothingComplete == ~RequestComplete(<<>>)
<1>1. Len(<<>>) = 0
  BY EmptySeq
<1>2. 1 .. Len(<<>>) = {}
  BY <1>1
<1> QED
  BY <1>2 DEF RequestComplete, Ends

LEMMA RespondKeeps ==
  ASSUME Inv, NEW w \in Workers, worker_respond(w), MainStill
  PROVE  Inv'
<1> DEFINE s == Slot(w)
<1>1. /\ At(w, "respond") /\ UNCHANGED <<queue, sock, inbox>>
      /\ client_conns' = [client_conns EXCEPT ![s].read_buffer = <<>>]
      /\ \E pc \in {"touch", "close"} : Goto(w, pc)
  BY DEF worker_respond, BufferAfterRespond, GiveBack
<1>2. PICK pc \in {"touch", "close"} : Goto(w, pc)
  BY <1>1
<1>3. Working(w) /\ ~At(w, "deactivate")
  BY <1>1 DEF Working, At
<1>4. /\ Moves(w, pc, worker[w].task)
      /\ worker' \in [Workers -> [pc : WorkerPlaces, task : Task \cup {NoTask}]]
      /\ pc \in WorkerPlaces \ {"idle", "deactivate"}
  BY <1>2, GotoTypes DEF WorkerPlaces, Inv
<1>5. s \in Slots /\ client_conns[s] \in Conn /\ <<>> \in SeqOf(Pieces, BufSize)
  BY <1>3, WorkerFacts, ConnFields, EmptySeqOf, Constants DEF Inv
<1>6. Untouched(w) /\ Untouched(w)' /\ Slot(w)' = s
  BY <1>1, <1>4 DEF Moves, At, Untouched, Slot
<1> HIDE DEF s
<1>7. [client_conns[s] EXCEPT !.read_buffer = <<>>] \in Conn
  BY <1>5 DEF Conn
<1>8. /\ client_conns' \in [Slots -> Conn]
      /\ client_conns'[s] = [client_conns[s] EXCEPT !.read_buffer = <<>>]
      /\ \A r \in Slots : r # s => client_conns'[r] = client_conns[r]
  BY <1>1, <1>5, <1>7 DEF Inv, TypeOK
<1>9. /\ client_conns'[s].read_buffer = <<>>
      /\ client_conns'[s].heard = client_conns[s].heard
      /\ client_conns'[s].last_activity = client_conns[s].last_activity
      /\ client_conns'[s].is_active = client_conns[s].is_active
      /\ client_conns'[s].is_busy = client_conns[s].is_busy
      /\ client_conns'[s].fd = client_conns[s].fd
      /\ client_conns'[s].owner = client_conns[s].owner
  BY <1>5, <1>8 DEF Conn
<1>10. SlotsKept /\ BusyKept
  BY <1>8, <1>9 DEF SlotsKept, BusyKept
<1>11. TaskInv' /\ FdInv' /\ WatchInv'
  BY <1>1, <1>3, <1>4, <1>10, WithinTask
<1>12. TypeOK' /\ PeerInv'
  BY <1>1, <1>4, <1>8, WorkerTypes, PeerFrame DEF Inv, TypeOK, MainStill
<1>13. BufferInv'
  <2> SUFFICES ASSUME NEW r \in Slots, RequestComplete(client_conns'[r].read_buffer)
               PROVE  Responding(r)'
    BY DEF BufferInv
  <2>1. r # s
    BY <1>9, NothingComplete
  <2> QED
    BY <1>4, <1>8, <2>1, RespondersStay DEF Inv, BufferInv, s
<1>14. TimeInv'
  <2>1. \A r \in Slots : UntouchedIn(r) => UntouchedIn(r)'
    <3> SUFFICES ASSUME NEW r \in Slots, UntouchedIn(r) PROVE UntouchedIn(r)'
      OBVIOUS
    <3>1. CASE r = s
      BY <1>6, <3>1 DEF UntouchedIn
    <3>2. CASE r # s
      BY <1>4, <3>2, UntouchedStay DEF Inv, s
    <3> QED
      BY <3>1, <3>2
  <2>2. \A r \in Slots : /\ client_conns'[r].heard = client_conns[r].heard
                         /\ client_conns'[r].last_activity = client_conns[r].last_activity
    BY <1>8, <1>9
  <2> QED
    BY <2>1, <2>2, TimeFrame, StillFacts DEF Inv
<1> QED
  BY <1>11, <1>12, <1>13, <1>14 DEF Inv

LEMMA TouchKeeps ==
  ASSUME Inv, NEW w \in Workers, worker_touch(w), MainStill
  PROVE  Inv'
<1> DEFINE s == Slot(w)
<1>1. /\ At(w, "touch") /\ UNCHANGED <<queue, sock, inbox>>
      /\ client_conns' = [client_conns EXCEPT ![s].last_activity = clock]
      /\ Goto(w, "clear_busy")
  BY DEF worker_touch
<1>2. Working(w) /\ ~At(w, "deactivate") /\ ~At(w, "respond")
  BY <1>1 DEF Working, At
<1>3. /\ Moves(w, "clear_busy", worker[w].task)
      /\ worker' \in [Workers -> [pc : WorkerPlaces, task : Task \cup {NoTask}]]
      /\ "clear_busy" \in WorkerPlaces \ {"idle", "deactivate"}
  BY <1>1, GotoTypes DEF WorkerPlaces, Inv
<1>4. s \in Slots /\ client_conns[s] \in Conn /\ clock \in 0 .. MaxClock /\ clock \in Nat
  BY <1>2, WorkerFacts, ConnFields, ClockType DEF Inv
<1> HIDE DEF s
<1>5. [client_conns[s] EXCEPT !.last_activity = clock] \in Conn
  BY <1>4 DEF Conn
<1>6. /\ client_conns' \in [Slots -> Conn]
      /\ client_conns'[s] = [client_conns[s] EXCEPT !.last_activity = clock]
      /\ \A r \in Slots : r # s => client_conns'[r] = client_conns[r]
  BY <1>1, <1>4, <1>5 DEF Inv, TypeOK
<1>7. /\ client_conns'[s].last_activity = clock
      /\ client_conns'[s].read_buffer = client_conns[s].read_buffer
      /\ client_conns'[s].heard = client_conns[s].heard
      /\ client_conns'[s].is_active = client_conns[s].is_active
      /\ client_conns'[s].is_busy = client_conns[s].is_busy
      /\ client_conns'[s].fd = client_conns[s].fd
      /\ client_conns'[s].owner = client_conns[s].owner
  BY <1>4, <1>6 DEF Conn
<1>8. SlotsKept /\ BusyKept
  BY <1>6, <1>7 DEF SlotsKept, BusyKept
<1>9. TaskInv' /\ FdInv' /\ WatchInv'
  BY <1>1, <1>2, <1>3, <1>8, WithinTask
<1>10. TypeOK' /\ PeerInv'
  BY <1>1, <1>3, <1>6, WorkerTypes, PeerFrame DEF Inv, TypeOK, MainStill
<1>11. BufferInv'
  <2>1. \A r \in Slots : client_conns'[r].read_buffer = client_conns[r].read_buffer
    BY <1>6, <1>7
  <2> QED
    BY <1>2, <1>3, <2>1, RespondersStay, BufferFrame DEF Inv
<1>12. TimeInv'
  <2> SUFFICES ASSUME NEW r \in Slots
               PROVE  /\ client_conns'[r].heard <= clock
                      /\ \/ client_conns'[r].heard <= client_conns'[r].last_activity
                         \/ UntouchedIn(r)'
    BY DEF TimeInv, UntouchedIn, MainStill
  <2>1. CASE r = s
    BY <1>7, <2>1 DEF Inv, TimeInv
  <2>2. CASE r # s
    <3>1. UntouchedIn(r) => UntouchedIn(r)'
      BY <1>3, <2>2, UntouchedStay DEF Inv, s
    <3> QED
      BY <1>6, <2>2, <3>1 DEF Inv, TimeInv, UntouchedIn
  <2> QED
    BY <2>1, <2>2
<1> QED
  BY <1>9, <1>10, <1>11, <1>12 DEF Inv

(* A worker lets go of its slot, which is no longer busy, or not active.   *)
LEMMA EndOfTask ==
  ASSUME Inv, NEW w \in Workers, Working(w), MainStill, UNCHANGED queue,
         Moves(w, "idle", NoTask), OthersKept(Slot(w)),
         NEW s, s = Slot(w), ~(client_conns'[s].is_active /\ client_conns'[s].is_busy)
  PROVE  TaskInv'
<1>1. s \in Slots /\ Serves(w, s)
  BY SlotType DEF Inv, Serves
<1>2. \A r \in Slots : r # s => client_conns'[r] = client_conns[r] /\ Busy(r)' = Busy(r)
  BY DEF OthersKept, Busy
<1>3. ~Working(w)' /\ \A v \in Workers \ {w} : /\ Working(v)' = Working(v)
                                               /\ Slot(v)' = Slot(v)
                                               /\ worker'[v] = worker[v]
  BY DEF Moves, Working, At, Slot
<1>4. \A r \in Slots : Queued(r)' = Queued(r)
  BY DEF Queued
<1>5. ~Queued(s) /\ \A v \in Workers \ {w} : Working(v) => Slot(v) # s
  BY <1>1 DEF Inv, TaskInv, HeldNotQueued, HeldOnce, Serves
<1>6. QueuedMatch'
  <2> SUFFICES ASSUME NEW n \in 1 .. Len(queue) PROVE Matches(queue[n])'
    BY DEF QueuedMatch
  <2>1. queue[n].conn \in Slots /\ queue[n].conn # s /\ Matches(queue[n])
    BY <1>5, QueueFacts DEF Queued, Inv, TaskInv, QueuedMatch
  <2> QED
    BY <1>2, <2>1 DEF Matches
<1>7. HeldMatch'
  <2> SUFFICES ASSUME NEW v \in Workers, v # w, Working(v), worker'[v] = worker[v]
               PROVE  Matches(worker[v].task)'
    BY <1>3 DEF HeldMatch
  <2>1. Slot(v) \in Slots /\ Slot(v) # s /\ Matches(worker[v].task)
    BY <1>5, SlotType DEF Inv, TaskInv, HeldMatch
  <2> QED
    BY <1>2, <2>1 DEF Matches, Slot
<1>8. QueuedOnce' /\ HeldOnce'
  BY <1>3 DEF Inv, TaskInv, QueuedOnce, HeldOnce
<1>9. HeldNotQueued'
  <2> SUFFICES ASSUME NEW v \in Workers, NEW r, r = Slot(v)', Working(v)', Queued(r)'
               PROVE  FALSE
    BY DEF HeldNotQueued, Queued, Slot
  <2>1. v # w /\ Working(v) /\ r = Slot(v) /\ r \in Slots
    BY <1>3, SlotType DEF Inv
  <2> QED
    BY <1>4, <2>1 DEF Inv, TaskInv, HeldNotQueued
<1>10. HandingAlone'
  <2> SUFFICES ASSUME mpc = "hand_over"
               PROVE  \E r \in Slots :
                        /\ r = i /\ Busy(r)' /\ client_conns'[r].fd = client_fd
                        /\ ~Queued(r)' /\ \A v \in Workers : ~(Working(v)' /\ Slot(v)' = r)
    BY StillFacts DEF HandingAlone, Serves, Queued, Busy, Inv
  <2>1. /\ i \in Slots /\ Busy(i) /\ client_conns[i].fd = client_fd /\ ~Queued(i)
        /\ \A v \in Workers : ~Serves(v, i)
    BY DEF Inv, TypeOK, TaskInv, HandingAlone
  <2>2. PICK r \in Slots : r = i
    BY <2>1
  <2>3. r # s
    BY <1>1, <2>1, <2>2
  <2>4. Busy(r)' /\ client_conns'[r].fd = client_fd /\ ~Queued(r)'
    BY <1>2, <1>4, <2>1, <2>2, <2>3
  <2>5. \A v \in Workers : ~(Working(v)' /\ Slot(v)' = r)
    BY <1>3, <2>1, <2>2 DEF Serves
  <2> QED
    BY <2>2, <2>4, <2>5
<1>11. BusyHasTask'
  <2> SUFFICES ASSUME NEW r \in Slots, Busy(r)'
               PROVE  \/ Queued(r)' \/ Handing(r)
                      \/ \E v \in Workers : Working(v)' /\ Slot(v)' = r
    BY StillFacts DEF BusyHasTask, Serves, Queued, Busy, Handing, Inv
  <2>1. r # s
    BY DEF Busy
  <2>2. Queued(r) \/ Handing(r) \/ \E v \in Workers : Serves(v, r)
    BY <1>2, <2>1 DEF Inv, TaskInv, BusyHasTask
  <2> QED
    BY <1>3, <1>4, <2>1, <2>2 DEF Serves
<1> QED
  BY <1>6, <1>7, <1>8, <1>9, <1>10, <1>11 DEF TaskInv

LEMMA ClearBusyKeeps ==
  ASSUME Inv, NEW w \in Workers, worker_clear_busy(w), MainStill
  PROVE  Inv'
<1> DEFINE s == Slot(w)
<1>1. /\ At(w, "clear_busy") /\ UNCHANGED <<queue, sock, inbox>>
      /\ client_conns' = [client_conns EXCEPT ![s].is_busy = FALSE]
      /\ EndTask(w)
  BY DEF worker_clear_busy
<1>2. Working(w) /\ ~At(w, "deactivate") /\ ~At(w, "respond") /\ ~Untouched(w)
  BY <1>1 DEF Working, At, Untouched
<1>3. /\ Moves(w, "idle", NoTask)
      /\ worker' \in [Workers -> [pc : WorkerPlaces, task : Task \cup {NoTask}]]
  BY <1>1, EndTypes DEF Inv
<1>4. s \in Slots /\ client_conns[s] \in Conn
  BY <1>2, WorkerFacts, ConnFields DEF Inv
<1> HIDE DEF s
<1>5. [client_conns[s] EXCEPT !.is_busy = FALSE] \in Conn
  BY <1>4 DEF Conn
<1>6. /\ client_conns' \in [Slots -> Conn]
      /\ client_conns'[s] = [client_conns[s] EXCEPT !.is_busy = FALSE]
      /\ \A r \in Slots : r # s => client_conns'[r] = client_conns[r]
  BY <1>1, <1>4, <1>5 DEF Inv, TypeOK
<1>7. /\ client_conns'[s].is_busy = FALSE
      /\ client_conns'[s].last_activity = client_conns[s].last_activity
      /\ client_conns'[s].read_buffer = client_conns[s].read_buffer
      /\ client_conns'[s].heard = client_conns[s].heard
      /\ client_conns'[s].is_active = client_conns[s].is_active
      /\ client_conns'[s].fd = client_conns[s].fd
      /\ client_conns'[s].owner = client_conns[s].owner
  BY <1>4, <1>6 DEF Conn
<1>8. SlotsKept /\ OthersKept(Slot(w))
  BY <1>6, <1>7 DEF SlotsKept, OthersKept, s
<1>9. TaskInv'
  BY <1>1, <1>2, <1>3, <1>7, <1>8, EndOfTask DEF s
<1>10. FdInv'
  BY <1>1, <1>2, <1>3, <1>8, ClosingStays, FdFrame, StillFacts DEF Inv
<1>11. WatchInv'
  <2>1. \A r \in Slots : Idle(r) => Idle(r)' /\ client_conns'[r].fd = client_conns[r].fd
    BY <1>6, <1>7 DEF Idle
  <2> QED
    BY <2>1, StillFacts DEF Inv, WatchInv
<1>12. TypeOK' /\ PeerInv'
  BY <1>1, <1>3, <1>6, WorkerTypes, PeerFrame DEF Inv, TypeOK, MainStill
<1>13. \A r \in Slots : /\ client_conns'[r].read_buffer = client_conns[r].read_buffer
                        /\ client_conns'[r].heard = client_conns[r].heard
                        /\ client_conns'[r].last_activity = client_conns[r].last_activity
  BY <1>6, <1>7
<1>14. BufferInv'
  BY <1>2, <1>3, <1>13, RespondersStay, BufferFrame DEF Inv
<1>15. TimeInv'
  BY <1>2, <1>3, <1>13, UntouchedStay, TimeFrame, StillFacts DEF Inv
<1> QED
  BY <1>9, <1>10, <1>11, <1>12, <1>14, <1>15 DEF Inv

(* close frees a descriptor no other slot has.                             *)
LEMMA CloseKeeps ==
  ASSUME Inv, NEW w \in Workers, worker_close(w), MainStill
  PROVE  Inv'
<1> DEFINE s == Slot(w)
           fd == client_conns[s].fd
<1>1. /\ At(w, "close") /\ UNCHANGED <<client_conns, queue, inbox>>
      /\ sock' = [sock EXCEPT ![worker[w].task.client_fd] = NONE]
      /\ Goto(w, "deactivate")
  BY DEF worker_close, SockAfterClose
<1>2. Working(w) /\ ~At(w, "deactivate") /\ ~At(w, "respond")
  BY <1>1 DEF Working, At
<1>3. /\ Moves(w, "deactivate", worker[w].task)
      /\ worker' \in [Workers -> [pc : WorkerPlaces, task : Task \cup {NoTask}]]
  BY <1>1, GotoTypes DEF WorkerPlaces, Inv
<1>4. s \in Slots /\ client_conns[s].is_active /\ fd \in Fds
      /\ worker[w].task.client_fd = fd
  BY <1>2, WorkerFacts DEF Inv
<1>5. Untouched(w) /\ Untouched(w)' /\ Slot(w)' = Slot(w)
  BY <1>1, <1>3 DEF Moves, At, Untouched, Slot
<1> HIDE DEF s, fd
<1>6. /\ sock' \in [Fds -> Clients \cup {NONE}] /\ sock'[fd] = NONE
      /\ \A f \in Fds : f # fd => sock'[f] = sock[f]
      /\ \A f \in Fds : sock'[f] \in {sock[f], NONE}
  BY <1>1, <1>4 DEF Inv, TypeOK
<1>7. SlotsKept /\ BusyKept /\ TasksKept
  BY <1>1, <1>2, <1>3 DEF SlotsKept, BusyKept, TasksKept, Moves, At, Working
<1>8. TaskInv' /\ WatchInv'
  BY <1>7, TaskFrame, WatchFrame, StillFacts DEF Inv
<1>9. TypeOK' /\ PeerInv'
  BY <1>1, <1>3, <1>6, WorkerTypes, PeerFrame DEF Inv, TypeOK, MainStill
<1>10. BufferInv'
  BY <1>1, <1>2, <1>3, RespondersStay, BufferFrame DEF Inv
<1>11. TimeInv'
  <2>1. \A r \in Slots : UntouchedIn(r) => UntouchedIn(r)'
    <3> SUFFICES ASSUME NEW r \in Slots, UntouchedIn(r) PROVE UntouchedIn(r)'
      OBVIOUS
    <3>1. CASE r = Slot(w)
      BY <1>5, <3>1 DEF UntouchedIn
    <3>2. CASE r # Slot(w)
      BY <1>3, <3>2, UntouchedStay DEF Inv
    <3> QED
      BY <3>1, <3>2
  <2> QED
    BY <1>1, <2>1, TimeFrame, StillFacts DEF Inv
<1>12. \A r \in Slots : Closing(r)' <=> (Closing(r) \/ r = s)
  <2>1. /\ At(w, "deactivate")' /\ Slot(w)' = s
        /\ \A v \in Workers \ {w} :
             At(v, "deactivate")' = At(v, "deactivate") /\ Slot(v)' = Slot(v)
    BY <1>3 DEF Moves, At, Slot, s
  <2> TAKE r \in Slots
  <2> QED
    BY <1>2, <2>1 DEF Closing
<1>13. ~Closing(s)
  BY <1>2 DEF Inv, TaskInv, HeldOnce, Closing, Working, At, s
<1>14. InUse(s) /\ \A r \in Slots : InUse(r)' <=> (InUse(r) /\ r # s)
  BY <1>1, <1>4, <1>12, <1>13 DEF InUse
<1>15. \A r \in Slots : InUse(r) /\ r # s => client_conns[r].fd # fd
  BY <1>4, <1>14 DEF Inv, FdInv, OwnFd, fd
<1>16. FdInv'
  <2>1. UNCHANGED <<mpc, client_fd>>
    BY StillFacts DEF Inv
  <2>2. ActiveHasFd' /\ OwnFd' /\ NoClientFd'
    BY <1>1, <1>14, <2>1 DEF Inv, FdInv, ActiveHasFd, OwnFd, NoClientFd
  <2>3. InUseOpen'
    <3> SUFFICES ASSUME NEW r \in Slots, InUse(r), r # s
                 PROVE  /\ sock'[client_conns[r].fd] = client_conns[r].owner
                        /\ client_conns[r].owner # NONE
      BY <1>1, <1>14 DEF InUseOpen
    <3>1. client_conns[r].fd \in Fds /\ client_conns[r].fd # fd
      BY <1>15 DEF Inv, FdInv, ActiveHasFd, InUse
    <3> QED
      BY <1>6, <3>1 DEF Inv, FdInv, InUseOpen
  <2>4. ClaimingFd'
    <3> SUFFICES ASSUME mpc = "claim"
                 PROVE  /\ client_fd \in Fds /\ sock'[client_fd] # NONE
                        /\ \A r \in Slots : InUse(r)' => client_conns[r].fd # client_fd
      BY <1>1, <2>1 DEF ClaimingFd
    <3>1. /\ client_fd \in Fds /\ sock[client_fd] # NONE
          /\ \A r \in Slots : InUse(r) => client_conns[r].fd # client_fd
      BY DEF Inv, FdInv, ClaimingFd
    <3>2. client_fd # fd
      BY <1>4, <1>14, <3>1 DEF fd
    <3> QED
      BY <1>6, <1>14, <3>1, <3>2
  <2>5. NoFdLeak'
    <3> SUFFICES ASSUME NEW f \in Fds, sock'[f] # NONE, f # client_fd
                 PROVE  \E r \in Slots : InUse(r)' /\ client_conns'[r].fd = f
      BY <2>1 DEF NoFdLeak, InUse
    <3>1. f # fd /\ sock[f] # NONE
      BY <1>6
    <3>2. PICK r \in Slots : InUse(r) /\ client_conns[r].fd = f
      BY <3>1 DEF Inv, FdInv, NoFdLeak, InUse
    <3> QED
      BY <1>1, <1>14, <3>1, <3>2 DEF fd
  <2> QED
    BY <2>2, <2>3, <2>4, <2>5 DEF FdInv
<1> QED
  BY <1>8, <1>9, <1>10, <1>11, <1>16 DEF Inv

LEMMA DeactivateKeeps ==
  ASSUME Inv, NEW w \in Workers, worker_deactivate(w), MainStill
  PROVE  Inv'
<1> DEFINE s == Slot(w)
<1>1. /\ At(w, "deactivate") /\ UNCHANGED <<queue, sock, inbox>>
      /\ client_conns' = [client_conns EXCEPT ![s] = Freed(@)]
      /\ EndTask(w)
  BY DEF worker_deactivate
<1>2. Working(w) /\ ~At(w, "respond")
  BY <1>1 DEF Working, At
<1>3. /\ Moves(w, "idle", NoTask)
      /\ worker' \in [Workers -> [pc : WorkerPlaces, task : Task \cup {NoTask}]]
  BY <1>1, EndTypes DEF Inv
<1>4. s \in Slots /\ client_conns[s] \in Conn /\ 0 \in 0 .. MaxClock /\ Busy(s)
  <2>1. TypeOK /\ Slot(w) \in Slots /\ Busy(Slot(w))
    BY <1>2, WorkerFacts DEF Inv
  <2>2. client_conns[Slot(w)] \in Conn
    BY <2>1 DEF TypeOK
  <2>3. 0 \in 0 .. MaxClock
    BY Constants
  <2> QED
    BY <2>1, <2>2, <2>3
<1> HIDE DEF s
<1>5. Freed(client_conns[s]) \in Conn
  BY <1>4 DEF Conn, Freed
<1>6. /\ client_conns' \in [Slots -> Conn]
      /\ client_conns'[s] = Freed(client_conns[s])
      /\ \A r \in Slots : r # s => client_conns'[r] = client_conns[r]
  BY <1>1, <1>4, <1>5 DEF Inv, TypeOK
<1>7. /\ client_conns'[s].is_active = FALSE /\ client_conns'[s].heard = 0
      /\ client_conns'[s].last_activity = client_conns[s].last_activity
      /\ client_conns'[s].read_buffer = client_conns[s].read_buffer
  BY <1>4, <1>6 DEF Conn, Freed
<1>8. OthersKept(Slot(w))
  BY <1>6 DEF OthersKept, s
<1>9. TaskInv'
  BY <1>1, <1>2, <1>3, <1>7, <1>8, EndOfTask DEF s
<1>10. \A r \in Slots : r # s => Closing(r)' = Closing(r)
  <2>1. ~At(w, "deactivate")' /\ \A v \in Workers \ {w} :
             At(v, "deactivate")' = At(v, "deactivate") /\ Slot(v)' = Slot(v)
    BY <1>3 DEF Moves, At, Slot
  <2> SUFFICES ASSUME NEW r \in Slots, r # s PROVE Closing(r)' <=> Closing(r)
    BY DEF Closing
  <2> QED
    BY <2>1 DEF Closing, s
<1>11. ~InUse(s) /\ \A r \in Slots : InUse(r)' <=> InUse(r)
  <2>1. ~InUse(s)
    BY <1>1 DEF Closing, InUse, s
  <2>2. ASSUME NEW r \in Slots PROVE InUse(r)' <=> InUse(r)
    <3>1. CASE r = s
      BY <1>7, <2>1, <3>1 DEF InUse
    <3>2. CASE r # s
      BY <1>6, <1>10, <3>2 DEF InUse
    <3> QED
      BY <3>1, <3>2
  <2> QED
    BY <2>1, <2>2
<1>12. FdInv'
  <2>1. UNCHANGED <<mpc, client_fd>>
    BY StillFacts DEF Inv
  <2>2. \A r \in Slots : InUse(r) => client_conns'[r] = client_conns[r]
    BY <1>6, <1>11
  <2>3. ActiveHasFd' /\ NoClientFd'
    BY <1>6, <1>7, <2>1 DEF Inv, FdInv, ActiveHasFd, NoClientFd
  <2>4. OwnFd' /\ InUseOpen' /\ ClaimingFd'
    BY <1>1, <1>11, <2>1, <2>2 DEF Inv, FdInv, OwnFd, InUseOpen, ClaimingFd
  <2>5. NoFdLeak'
    <3> SUFFICES ASSUME NEW f \in Fds, sock[f] # NONE, f # client_fd
                 PROVE  \E r \in Slots : InUse(r)' /\ client_conns'[r].fd = f
      BY <1>1, <2>1 DEF NoFdLeak, InUse
    <3>1. PICK r \in Slots : InUse(r) /\ client_conns[r].fd = f
      BY DEF Inv, FdInv, NoFdLeak, InUse
    <3> QED
      BY <1>11, <2>2, <3>1
  <2> QED
    BY <2>3, <2>4, <2>5 DEF FdInv
<1>13. WatchInv'
  <2>1. \A r \in Slots : Idle(r) => r # s
    BY <1>4 DEF Idle, Busy
  <2>2. \A r \in Slots : Idle(r) => Idle(r)' /\ client_conns'[r].fd = client_conns[r].fd
    BY <1>6, <2>1 DEF Idle
  <2> QED
    BY <2>2, StillFacts DEF Inv, WatchInv
<1>14. TypeOK' /\ PeerInv'
  BY <1>1, <1>3, <1>6, WorkerTypes, PeerFrame DEF Inv, TypeOK, MainStill
<1>15. \A r \in Slots : /\ client_conns'[r].read_buffer = client_conns[r].read_buffer
                        /\ client_conns'[r].last_activity = client_conns[r].last_activity
                        /\ r # s => client_conns'[r].heard = client_conns[r].heard
  BY <1>6, <1>7
<1>16. BufferInv'
  BY <1>2, <1>3, <1>15, RespondersStay, BufferFrame DEF Inv
<1>17. TimeInv'
  <2>1. \A r \in Slots : r # s /\ UntouchedIn(r) => UntouchedIn(r)'
    BY <1>3, UntouchedStay DEF Inv, s
  <2>2. \A r \in Slots :
          \/ client_conns'[r].heard = 0
          \/ /\ client_conns'[r].heard = client_conns[r].heard
             /\ UntouchedIn(r) => UntouchedIn(r)'
    BY <1>7, <1>15, <2>1
  <2> QED
    BY <1>15, <2>2, TimeFrame, StillFacts DEF Inv
<1> QED
  BY <1>9, <1>12, <1>13, <1>14, <1>16, <1>17 DEF Inv

LEMMA WorkerKeeps ==
  ASSUME Inv, NEW w \in Workers, Worker(w)
  PROVE  Inv'
<1>1. MainStill
  BY DEF Worker, MainStill
<1> QED
  BY <1>1, TakeKeeps, RecvKeeps, RecvNoneKeeps, RespondKeeps, TouchKeeps,
     ClearBusyKeeps, CloseKeeps, DeactivateKeeps DEF Worker
-----------------------------------------------------------------------------
(* The invariant is inductive.                                             *)

LEMMA InitTypes == Init => TypeOK
<1> SUFFICES ASSUME Init PROVE TypeOK
  OBVIOUS
<1>1. 0 \in 0 .. MaxClock /\ 0 \in 0 .. MaxSend + 1
  BY Constants
<1>2. <<>> \in SeqOf(Pieces, BufSize) /\ <<>> \in SeqOf(Pieces, MaxSend)
  BY Constants, EmptySeqOf
<1>3. client_conns \in [Slots -> Conn]
  BY <1>1, <1>2 DEF Init, Conn
<1>4. i \in Slots /\ client_fd \in Fds \cup {NOFD} /\ read_fds \subseteq Fds
  BY Constants DEF Init
<1>5. queue \in Seq(Task) /\ backlog \in Seq(Clients)
  BY EmptySeq DEF Init
<1>6. worker \in [Workers -> [pc : WorkerPlaces, task : Task \cup {NoTask}]]
  BY DEF Init, WorkerPlaces
<1>7. /\ sock \in [Fds -> Clients \cup {NONE}] /\ gone \subseteq Clients
      /\ inbox \in [Clients -> SeqOf(Pieces, MaxSend)]
      /\ sent \in [Clients -> 0 .. MaxSend + 1]
  BY <1>1, <1>2 DEF Init
<1>8. mpc = "build" /\ now \in 0 .. MaxClock /\ clock \in 0 .. MaxClock
  BY <1>1 DEF Init
<1> QED
  BY <1>3, <1>4, <1>5, <1>6, <1>7, <1>8 DEF TypeOK, WorkerPlaces

LEMMA InitInv == Init => Inv
<1> SUFFICES ASSUME Init PROVE Inv
  OBVIOUS
<1>1. TypeOK
  BY InitTypes
<1>2. /\ mpc = "build" /\ client_fd = NOFD /\ read_fds = {} /\ clock = 0
      /\ \A s \in Slots : /\ client_conns[s].is_active = FALSE
                          /\ client_conns[s].heard = 0
                          /\ client_conns[s].last_activity = 0
                          /\ client_conns[s].read_buffer = <<>>
      /\ \A w \in Workers : At(w, "idle")
      /\ \A f \in Fds : sock[f] = NONE
      /\ \A c \in Clients : inbox[c] = <<>>
  BY DEF Init, At
<1>3. 1 .. Len(queue) = {} /\ 1 .. Len(backlog) = {}
  BY EmptySeq DEF Init
<1>4. PeerInv
  BY <1>2, <1>3 DEF PeerInv
<1>5. TaskInv
  BY <1>2, <1>3 DEF TaskInv, QueuedMatch, HeldMatch, QueuedOnce, HeldOnce, HeldNotQueued,
                    HandingAlone, BusyHasTask, Working, Busy
<1>6. FdInv
  BY <1>2 DEF FdInv, ActiveHasFd, OwnFd, InUseOpen, ClaimingFd, NoClientFd, NoFdLeak, InUse
<1>7. WatchInv /\ TimeInv
  BY <1>2 DEF WatchInv, TimeInv
<1>8. BufferInv
  BY <1>2, NothingComplete DEF BufferInv
<1> QED
  BY <1>1, <1>4, <1>5, <1>6, <1>7, <1>8 DEF Inv

LEMMA StutterKeeps == ASSUME Inv, UNCHANGED vars PROVE Inv'
<1>1. UNCHANGED <<client_conns, main_vars, queue, worker, sock, peer_vars>>
  BY DEF vars
<1>2. /\ UNCHANGED <<client_conns, mpc, i, client_fd, read_fds, now, queue, worker, sock>>
      /\ UNCHANGED <<backlog, inbox, gone, sent, clock>>
  BY <1>1 DEF main_vars, peer_vars
<1>3. TypeOK' /\ PeerInv'
  BY <1>2 DEF Inv, TypeOK, PeerInv
<1>4. /\ \A w \in Workers : Slot(w)' = Slot(w)
      /\ \A w \in Workers, pc \in WorkerPlaces : At(w, pc)' = At(w, pc)
  BY <1>2 DEF Slot, At
<1>5. SlotsKept /\ BusyKept /\ TasksKept /\ ClosingKept
  BY <1>2, <1>4 DEF SlotsKept, BusyKept, TasksKept, ClosingKept, Closing, At
<1>6. TaskInv' /\ FdInv' /\ WatchInv'
  BY <1>2, <1>5, TaskFrame, FdFrame, WatchFrame DEF Inv, MainApart
<1>7. BufferInv' /\ TimeInv'
  BY <1>2 DEF Inv, BufferInv, TimeInv, Responding, Untouched, At, Slot
<1> QED
  BY <1>3, <1>6, <1>7 DEF Inv

LEMMA NextInv == Inv /\ [Next]_vars => Inv'
  BY MainKeeps, WorkerKeeps, EnvironmentKeeps, StutterKeeps DEF Next, stopped

LEMMA Inductive == Spec => []Inv
  BY InitInv, NextInv, PTL DEF Spec

-----------------------------------------------------------------------------
(* What follows from it.                                                   *)

(* The shared array, the tasks, the kernel's descriptors and the peers     *)
(* keep their types: in particular every task in the queue and at a worker *)
(* names a slot, and no buffer holds more than sizeof(read_buffer) - 1.    *)
THEOREM TypeCorrect == Spec => []TypeOK
<1>1. Inv => TypeOK
  BY DEF Inv
<1> QED
  BY <1>1, Inductive, PTL

(* network.c:80 to 91: between building the set and select, no worker      *)
(* closes a descriptor of the set, so select never returns EBADF.          *)
THEOREM WatchedAreOpen == Spec => []WatchedOpen
<1>1. Inv => WatchedOpen
  <2> SUFFICES ASSUME Inv, mpc \in {"build", "select"}, NEW f \in read_fds
               PROVE  sock[f] # NONE
    BY DEF WatchedOpen
  <2>1. PICK s \in Slots : Idle(s) /\ client_conns[s].fd = f
    BY DEF Inv, WatchInv
  <2>2. ~Closing(s)
    <3> SUFFICES ASSUME NEW w \in Workers, At(w, "deactivate"), Slot(w) = s PROVE FALSE
      BY DEF Closing
    <3>1. Working(w)
      BY DEF Working, At
    <3>2. Busy(s)
      BY <3>1, WorkerFacts DEF Inv
    <3> QED
      BY <2>1, <3>2 DEF Idle, Busy
  <2> QED
    BY <2>1, <2>2 DEF Inv, FdInv, InUseOpen, InUse, Idle
<1> QED
  BY <1>1, Inductive, PTL

LEMMA QueuedCount ==
  ASSUME Inv, NEW s \in Slots
  PROVE  Cardinality({n \in 1 .. Len(queue) : queue[n].conn = s}) = IF Queued(s) THEN 1 ELSE 0
<1> DEFINE Q == {n \in 1 .. Len(queue) : queue[n].conn = s}
<1>1. CASE Queued(s)
  <2>1. PICK n \in 1 .. Len(queue) : queue[n].conn = s
    BY <1>1 DEF Queued
  <2>2. Q = {n}
    BY <2>1 DEF Inv, TaskInv, QueuedOnce
  <2> QED
    BY <1>1, <2>2, FS_Singleton
<1>2. CASE ~Queued(s)
  <2>1. Q = {}
    BY <1>2 DEF Queued
  <2> QED
    BY <1>2, <2>1, FS_EmptySet
<1> QED
  BY <1>1, <1>2

LEMMA HeldCount ==
  ASSUME Inv, NEW s \in Slots
  PROVE  Cardinality({w \in Workers : ~At(w, "idle") /\ Slot(w) = s})
           = IF \E w \in Workers : Serves(w, s) THEN 1 ELSE 0
<1> DEFINE W == {w \in Workers : ~At(w, "idle") /\ Slot(w) = s}
<1>1. CASE \E w \in Workers : Serves(w, s)
  <2>1. PICK w \in Workers : Serves(w, s)
    BY <1>1
  <2>2. W = {w}
    BY <2>1 DEF Inv, TaskInv, HeldOnce, Serves, Working
  <2> QED
    BY <1>1, <2>2, FS_Singleton
<1>2. CASE ~\E w \in Workers : Serves(w, s)
  <2>1. W = {}
    BY <1>2 DEF Serves, Working
  <2> QED
    BY <1>2, <2>1, FS_EmptySet
<1> QED
  BY <1>1, <1>2

(* is_busy works as the lock of a slot although main thread and workers    *)
(* read and write it without one: a busy connection has exactly one task,  *)
(* queued, at a worker or in the main thread's hand; any other has none.   *)
THEOREM BusyIsALock == Spec => []OneTaskPerBusySlot
<1>1. Inv => OneTaskPerBusySlot
  <2> SUFFICES ASSUME Inv, NEW s \in Slots
               PROVE  TasksOf(s) = IF Busy(s) THEN 1 ELSE 0
    BY DEF OneTaskPerBusySlot, Busy
  <2> DEFINE Served == \E w \in Workers : Serves(w, s)
  <2>1. TasksOf(s) = (IF Queued(s) THEN 1 ELSE 0) + (IF Served THEN 1 ELSE 0)
                       + (IF Handing(s) THEN 1 ELSE 0)
    BY QueuedCount, HeldCount DEF TasksOf, Handing
  <2>2. Served => Busy(s) /\ ~Queued(s)
    BY WorkerFacts DEF Inv, TaskInv, HeldNotQueued, Serves
  <2>3. Handing(s) => Busy(s) /\ ~Queued(s) /\ ~Served
    BY DEF Inv, TaskInv, HandingAlone, Handing
  <2>4. Queued(s) => Busy(s)
    BY DEF Inv, TaskInv, QueuedMatch, Matches, Queued
  <2>5. Busy(s) => Queued(s) \/ Handing(s) \/ Served
    BY DEF Inv, TaskInv, BusyHasTask
  <2> HIDE DEF Served
  <2> QED
    BY <2>1, <2>2, <2>3, <2>4, <2>5
<1> QED
  BY <1>1, Inductive, PTL

(* A reused descriptor number never leads a slot to somebody else: until   *)
(* the worker that serves it closes it, conn->client_fd is open and is the *)
(* connection the slot was claimed for.                                    *)
THEOREM FdsLeadToOwners == Spec => []FdLeadsToOwner
<1>1. Inv => FdLeadsToOwner
  BY DEF Inv, FdInv, InUseOpen, InUse, FdLeadsToOwner
<1> QED
  BY <1>1, Inductive, PTL

(* Every path that gives a connection up closes its descriptor: the full   *)
(* server (network.c:124), the failed malloc, the timeout and the worker.  *)
THEOREM NothingLeaks == Spec => []NoFdLeak
<1>1. Inv => NoFdLeak
  BY DEF Inv, FdInv
<1> QED
  BY <1>1, Inductive, PTL

(* A slot is given back (is_busy = 0) only with no complete request in its *)
(* read_buffer: one found by recv is answered, and the buffer reset, first.*)
THEOREM RequestsAreAnswered == Spec => []NoRequestLeftBehind
<1>1. Inv => NoRequestLeftBehind
  <2> SUFFICES ASSUME Inv, NEW s \in Slots, Idle(s),
                      RequestComplete(client_conns[s].read_buffer)
               PROVE  FALSE
    BY DEF NoRequestLeftBehind
  <2>1. PICK w \in Workers : At(w, "respond") /\ Slot(w) = s
    BY DEF Inv, BufferInv, Responding
  <2>2. Working(w)
    BY <2>1 DEF Working, At
  <2>3. Busy(s)
    BY <2>1, <2>2, WorkerFacts DEF Inv
  <2> QED
    BY <2>3 DEF Idle, Busy
<1> QED
  BY <1>1, Inductive, PTL

(* What the timeout walk closes has been silent: nobody holds an idle slot,*)
(* so its last_activity is not older than the last bytes received on it.   *)
LEMMA ExpiredWasSilent ==
  ASSUME Inv, NEW s \in Slots, Expired(s)
  PROVE  now - client_conns[s].heard >= IdleLimit
<1>1. client_conns[s].heard <= client_conns[s].last_activity
  <2> SUFFICES ASSUME NEW w \in Workers, Untouched(w), Slot(w) = s PROVE FALSE
    BY DEF Inv, TimeInv
  <2>1. Working(w)
    BY DEF Untouched, Working, At
  <2>2. Busy(s)
    BY <2>1, WorkerFacts DEF Inv
  <2> QED
    BY <2>2 DEF Expired, Idle, Busy
<1>2. /\ client_conns[s].heard \in Nat /\ client_conns[s].last_activity \in Nat
      /\ now - client_conns[s].last_activity >= IdleLimit
  BY ConnFields DEF Inv, Expired
<1>3. now \in Nat /\ IdleLimit \in Nat
  BY Constants DEF Inv, TypeOK
<1> QED
  BY <1>1, <1>2, <1>3

(* The worker's only step that makes a slot inactive closes it first.      *)
LEMMA WorkersEndOnlyTheirs ==
  ASSUME Inv, NEW w \in Workers, Worker(w), NEW s \in Slots,
         client_conns[s].is_active, ~client_conns'[s].is_active
  PROVE  Closing(s)
<1>1. client_conns[s] \in Conn /\ client_conns \in [Slots -> Conn]
  BY DEF Inv, TypeOK
<1>2. client_conns' # client_conns
  OBVIOUS
<1>3. CASE worker_deactivate(w)
  BY <1>1, <1>3 DEF worker_deactivate, Closing
<1>4. ASSUME NEW b, \/ client_conns' = [client_conns EXCEPT ![Slot(w)].read_buffer = b]
                    \/ client_conns' = [client_conns EXCEPT ![Slot(w)].last_activity = b]
                    \/ client_conns' = [client_conns EXCEPT ![Slot(w)].is_busy = b]
      PROVE FALSE
  BY <1>1, <1>4 DEF Conn
<1>5. ASSUME NEW b, NEW t,
             client_conns' = [client_conns EXCEPT ![Slot(w)].read_buffer = b,
                                                  ![Slot(w)].heard = t]
      PROVE FALSE
  BY <1>1, <1>5 DEF Conn
<1>6. ~worker_take(w) /\ ~worker_recv_none(w) /\ ~worker_close(w)
  BY <1>2 DEF worker_take, worker_recv_none, worker_close
<1>7. ~worker_recv(w)
  BY <1>5 DEF worker_recv
<1>8. ~worker_respond(w) /\ ~worker_touch(w) /\ ~worker_clear_busy(w)
  BY <1>4 DEF worker_respond, worker_touch, worker_clear_busy
<1> QED
  BY <1>3, <1>6, <1>7, <1>8 DEF Worker

(* check_keepalive_timeouts (network.c:316 to 331) took the time before its*)
(* walk, and workers refresh last_activity and clear is_busy during it:    *)
(* still it closes only connections silent for the whole limit.            *)
THEOREM OnlySilentExpire == Spec => ExpiresOnlySilent
<1>1. Inv /\ [Next]_vars =>
        [mpc = "expire" => \A s \in Slots :
           client_conns[s].is_active /\ ~client_conns'[s].is_active /\ ~Closing(s)
             => now - client_conns[s].heard >= IdleLimit]_vars
  <2> SUFFICES ASSUME Inv, Next, mpc = "expire", NEW s \in Slots,
                      client_conns[s].is_active, ~client_conns'[s].is_active, ~Closing(s)
               PROVE  now - client_conns[s].heard >= IdleLimit
    OBVIOUS
  <2>1. client_conns' # client_conns
    OBVIOUS
  <2>2. CASE expire
    <3>1. Expired(i) /\ client_conns' = [client_conns EXCEPT ![i] = Freed(@)]
      BY <2>1, <2>2 DEF expire
    <3>2. s = i
      BY <3>1 DEF Inv, TypeOK
    <3> QED
      BY <3>1, <3>2, ExpiredWasSilent
  <2>3. Main => expire
    BY DEF Main, build, select, accept, accept_done, claim, hand_over, scan, timeouts
  <2>4. ~stopped /\ ~Environment
    BY <2>1 DEF stopped, Environment
  <2>5. ASSUME NEW w \in Workers, Worker(w) PROVE FALSE
    BY <2>5, WorkersEndOnlyTheirs
  <2> QED
    BY <2>2, <2>3, <2>4, <2>5 DEF Next
<1> QED
  BY <1>1, Inductive, PTL DEF Spec, ExpiresOnlySilent

(* network.c:102: accept fails only because nobody is waiting.  Rejected,  *)
(* expired and closed connections have all given their descriptor back, so *)
(* a process that may open more than MAX_CONNS of them always has one.     *)
LEMMA FreeFdAtAccept ==
  ASSUME Inv, MaxFds > MaxConns, mpc = "accept"
  PROVE  FreeFds # {}
<1> SUFFICES ASSUME FreeFds = {} PROVE FALSE
  OBVIOUS
<1>1. \A f \in Fds : \E s \in Slots : client_conns[s].fd = f
  <2> SUFFICES ASSUME NEW f \in Fds PROVE \E s \in Slots : client_conns[s].fd = f
    OBVIOUS
  <2>1. sock[f] # NONE
    BY DEF FreeFds
  <2>2. client_fd = NOFD /\ f # NOFD
    BY Constants DEF Inv, FdInv, NoClientFd
  <2> QED
    BY <2>1, <2>2 DEF Inv, FdInv, NoFdLeak
<1> DEFINE user == [f \in Fds |-> CHOOSE s \in Slots : client_conns[s].fd = f]
<1>2. user \in [Fds -> Slots] /\ \A f \in Fds : client_conns[user[f]].fd = f
  BY <1>1
<1> HIDE DEF user
<1>3. /\ IsFiniteSet(Fds) /\ Cardinality(Fds) = MaxFds
      /\ IsFiniteSet(Slots) /\ Cardinality(Slots) = MaxConns
  <2>1. \A n \in Nat \ {0} : IsFiniteSet(1 .. n) /\ Cardinality(1 .. n) = n
    <3> TAKE n \in Nat \ {0}
    <3>1. 1 \in Int /\ n \in Int /\ ~(1 > n) /\ n - 1 + 1 = n
      OBVIOUS
    <3>2. IsFiniteSet(1 .. n) /\ Cardinality(1 .. n) = IF 1 > n THEN 0 ELSE n - 1 + 1
      BY <3>1, FS_Interval, Zenon
    <3> QED
      BY <3>1, <3>2
  <2> QED
    BY <2>1, Constants DEF Fds, Slots
<1>4. Cardinality(Slots) < Cardinality(Fds)
  BY <1>3, Constants
<1>5. \E x, y \in Fds : x # y /\ user[x] = user[y]
  BY <1>2, <1>3, <1>4, FS_PigeonHole
<1> QED
  BY <1>2, <1>5

THEOREM AcceptHasADescriptor ==
  ASSUME MaxFds > MaxConns
  PROVE  Spec => [](mpc = "accept" => FreeFds # {})
<1>1. Inv => (mpc = "accept" => FreeFds # {})
  BY FreeFdAtAccept
<1> QED
  BY <1>1, Inductive, PTL
=============================================================================
