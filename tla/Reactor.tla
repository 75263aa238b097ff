------------------------------ MODULE Reactor ------------------------------
(***************************************************************************)
(* The select() reactor of webserver_project/src/network/network.c         *)
(* (network_run_server, check_keepalive_timeouts) together with what a     *)
(* worker of thread_pool.c does with a ClientTask (lines 149 to 232).  The *)
(* main thread and the workers share the array client_conns.  The main     *)
(* thread holds conns_mutex while it walks the array; the workers never    *)
(* take it, so their writes interleave with every step of a walk and the   *)
(* mutex excludes nobody: it is not modelled.                              *)
(*                                                                         *)
(* A walk takes one step per slot.  The reads of one slot can be one step: *)
(* a worker writes only to the slot of its task, whose is_busy is 1, and   *)
(* each condition of a walk is false until the worker's last write to it.  *)
(*                                                                         *)
(* The pool is the queue of tasks that ThreadPool and FifoQueue implement. *)
(* add_work fails only for a NULL pool, which never happens here.          *)
(*                                                                         *)
(* Bytes are abstracted to pieces: "part" leaves a request incomplete, an  *)
(* "end" piece completes one, and says whether its request asks to keep    *)
(* the connection.  A piece carries the client it came from.               *)
(***************************************************************************)
EXTENDS Integers, Sequences, FiniteSets, FiniteSetsExt, SequencesExt

CONSTANTS MaxConns,        \* MAX_CONNS, the slots of client_conns
          NumThreads,      \* workers
          MaxFds,          \* descriptors the process can open for clients
          BufSize,         \* pieces that fit read_buffer
          IdleLimit,       \* the 10 seconds of check_keepalive_timeouts
          Clients,         \* peers, each of which connects once
          NONE,            \* no client
          Senders,         \* bound: the clients that send anything
          MaxSend,         \* bound on the pieces a client sends
          MaxClock,        \* bound on time(NULL)
          MayFail          \* whether malloc and select may fail (ENOMEM)

ASSUME ReactorAssumption ==
  /\ {MaxConns, NumThreads, MaxFds, BufSize, IdleLimit} \subseteq Nat \ {0}
  /\ MaxSend \in Nat /\ MaxClock \in Nat /\ MayFail \in BOOLEAN
  /\ NONE \notin Clients /\ Senders \subseteq Clients

Slots == 1 .. MaxConns
Workers == 1 .. NumThreads
Fds == 1 .. MaxFds
NOFD == 0

Pieces == [kind : {"part", "end_keep", "end_close"}, from : Clients]

VARIABLES
  client_conns,            \* the slots
  mpc, i, client_fd,       \* main thread: place, slot index, accepted descriptor
  read_fds, now,           \* ... the set given to select, time of the timeout walk
  queue,                   \* the tasks in the pool's queue
  worker,                  \* each worker's place and task
  sock,                    \* kernel: the peer of each open descriptor
  backlog,                 \* ... connections not accepted yet
  inbox,                   \* ... pieces not received yet, per client
  gone,                    \* clients that closed their side
  sent,                    \* pieces each client sent, its connect included
  clock                    \* time(NULL)

main_vars == <<mpc, i, client_fd, read_fds, now>>
peer_vars == <<backlog, inbox, gone, sent, clock>>
vars == <<client_conns, main_vars, queue, worker, sock, peer_vars>>

(* A slot; owner and heard are history: the client it was claimed for, and *)
(* the latest time a worker received from it or it was claimed.            *)
Conn == [fd : Fds \cup {NOFD}, is_active : BOOLEAN, is_busy : BOOLEAN,
         last_activity : 0 .. MaxClock, read_buffer : SeqOf(Pieces, BufSize),
         owner : Clients \cup {NONE}, heard : 0 .. MaxClock]
Task == [client_fd : Fds, conn : Slots]
NoTask == [client_fd |-> NOFD, conn |-> 1]

Init ==
  /\ client_conns = [s \in Slots |->
       [fd |-> NOFD, is_active |-> FALSE, is_busy |-> FALSE, last_activity |-> 0,
        read_buffer |-> <<>>, owner |-> NONE, heard |-> 0]]
  /\ mpc = "build" /\ i = 1 /\ client_fd = NOFD /\ read_fds = {} /\ now = 0
  /\ queue = <<>>
  /\ worker = [w \in Workers |-> [pc |-> "idle", task |-> NoTask]]
  /\ sock = [f \in Fds |-> NONE]
  /\ backlog = <<>>
  /\ inbox = [c \in Clients |-> <<>>]
  /\ gone = {}
  /\ sent = [c \in Clients |-> 0]
  /\ clock = 0

-----------------------------------------------------------------------------
(* The peers and the clock.                                                *)

Connected == (ToSet(sock) \ {NONE}) \cup ToSet(backlog)

client_connect(c) ==
  /\ sent[c] = 0
  /\ sent' = [sent EXCEPT ![c] = 1]
  /\ backlog' = Append(backlog, c)
  /\ UNCHANGED <<inbox, gone, clock>>

client_send(c, kind) ==
  /\ c \in (Connected \cap Senders) \ gone
  /\ sent[c] <= MaxSend
  /\ sent' = [sent EXCEPT ![c] = @ + 1]
  /\ inbox' = [inbox EXCEPT ![c] = Append(@, [kind |-> kind, from |-> c])]
  /\ UNCHANGED <<backlog, gone, clock>>

(* The client closes (FIN behind its data) or resets (its data is lost).   *)
client_leave(c, data) ==
  /\ c \in Connected \ gone
  /\ gone' = gone \cup {c}
  /\ inbox' = [inbox EXCEPT ![c] = data]
  /\ UNCHANGED <<backlog, sent, clock>>

tick ==
  /\ clock < MaxClock
  /\ clock' = clock + 1
  /\ UNCHANGED <<backlog, inbox, gone, sent>>

Environment ==
  /\ \/ \E c \in Clients :
          \/ client_connect(c)
          \/ \E kind \in {"part", "end_keep", "end_close"} : client_send(c, kind)
          \/ \E data \in {inbox[c], <<>>} : client_leave(c, data)
     \/ tick
  /\ UNCHANGED <<client_conns, main_vars, queue, worker, sock>>

-----------------------------------------------------------------------------
(* network_run_server, one iteration of the main loop.                     *)

(* Move a walk over client_conns to the next slot, or to label `next'.     *)
Walk_OneTooFar(next) ==
  IF i > MaxConns THEN i' = 1 /\ mpc' = next
                  ELSE i' = i + 1 /\ UNCHANGED mpc

Walk(next) ==
  IF i = MaxConns THEN i' = 1 /\ mpc' = next
                  ELSE i' = i + 1 /\ UNCHANGED mpc

(* An active slot that no worker is using.                                 *)
Idle_IgnoresBusy(s) == client_conns[s].is_active

Idle(s) == client_conns[s].is_active /\ ~client_conns[s].is_busy

build ==
  /\ mpc = "build"
  /\ read_fds' = read_fds \cup (IF Idle(i) THEN {client_conns[i].fd} ELSE {})
  /\ Walk("select")
  /\ UNCHANGED <<client_conns, client_fd, now, queue, worker, sock, peer_vars>>

Readable(f) == sock[f] # NONE /\ (inbox[sock[f]] # <<>> \/ sock[f] \in gone)

(* select returns the ready descriptors, none after one second; on EINTR   *)
(* it leaves read_fds as it was built and the loop goes on; another error  *)
(* leaves the loop.  EBADF is excluded by WatchedOpen.                     *)
select ==
  /\ mpc = "select"
  /\ \/ /\ read_fds' = {f \in read_fds : Readable(f)}
        /\ mpc' = IF backlog # <<>> THEN "accept" ELSE "scan"
     \/ /\ mpc' = "accept"
        /\ UNCHANGED read_fds
     \/ /\ MayFail
        /\ mpc' = "exit"
        /\ UNCHANGED read_fds
  /\ UNCHANGED <<client_conns, i, client_fd, now, queue, worker, sock, peer_vars>>

FreeFds == {f \in Fds : sock[f] = NONE}

(* accept returns the lowest free descriptor, or -1 because no connection  *)
(* is pending or no descriptor is left.                                    *)
accept ==
  /\ mpc = "accept"
  /\ backlog # <<>> /\ FreeFds # {}
  /\ client_fd' = Min(FreeFds)
  /\ sock' = [sock EXCEPT ![Min(FreeFds)] = Head(backlog)]
  /\ backlog' = Tail(backlog)
  /\ mpc' = "claim"
  /\ UNCHANGED <<client_conns, i, read_fds, now, queue, worker, inbox, gone, sent, clock>>

accept_done ==
  /\ mpc = "accept"
  /\ backlog = <<>> \/ FreeFds = {}
  /\ mpc' = "scan"
  /\ UNCHANGED <<client_conns, i, client_fd, read_fds, now, queue, worker, sock, peer_vars>>

(* A slot claimed for the accepted connection is busy from the start;      *)
(* read_buffer and read_length stay as the previous client left them.      *)
Claimed_NotBusy(r) ==
  [r EXCEPT !.fd = client_fd, !.last_activity = clock, !.is_active = TRUE,
            !.is_busy = FALSE, !.owner = sock[client_fd], !.heard = clock]

Claimed(r) ==
  [r EXCEPT !.fd = client_fd, !.last_activity = clock, !.is_active = TRUE,
            !.is_busy = TRUE, !.owner = sock[client_fd], !.heard = clock]

Freed(r) == [r EXCEPT !.is_active = FALSE, !.owner = NONE, !.heard = 0]

(* Server full: the descriptor that found no slot is closed.               *)
SockAfterReject_Kept == sock

SockAfterReject == [sock EXCEPT ![client_fd] = NONE]

(* The walk for a slot: the first that reads inactive is claimed.          *)
claim ==
  /\ mpc = "claim"
  /\ \/ /\ ~client_conns[i].is_active
        /\ client_conns' = [client_conns EXCEPT ![i] = Claimed(@)]
        /\ mpc' = "hand_over"
        /\ UNCHANGED <<i, client_fd, sock>>
     \/ /\ client_conns[i].is_active
        /\ Walk("accept")
        /\ sock' = IF i = MaxConns THEN SockAfterReject ELSE sock
        /\ client_fd' = IF i = MaxConns THEN NOFD ELSE client_fd
        /\ UNCHANGED client_conns
  /\ UNCHANGED <<read_fds, now, queue, worker, peer_vars>>

(* malloc a task for slot s and add_work, or close its connection.         *)
HandOver(s, busy) ==
  \/ /\ queue' = Append(queue, [client_fd |-> client_conns[s].fd, conn |-> s])
     /\ client_conns' = [client_conns EXCEPT ![s].is_busy = busy]
     /\ UNCHANGED sock
  \/ /\ MayFail
     /\ sock' = [sock EXCEPT ![client_conns[s].fd] = NONE]
     /\ client_conns' = [client_conns EXCEPT ![s] = Freed([@ EXCEPT !.is_busy = busy])]
     /\ UNCHANGED queue

hand_over ==
  /\ mpc = "hand_over"
  /\ HandOver(i, client_conns[i].is_busy)
  /\ client_fd' = NOFD
  /\ i' = 1
  /\ mpc' = "accept"
  /\ UNCHANGED <<read_fds, now, worker, peer_vars>>

(* The walk that marks the ready connections busy and hands them over.     *)
BusyAtScan_No == FALSE

BusyAtScan == TRUE

scan ==
  /\ mpc = "scan"
  /\ IF Idle(i) /\ client_conns[i].fd \in read_fds
       THEN HandOver(i, BusyAtScan)
       ELSE UNCHANGED <<client_conns, queue, sock>>
  /\ Walk("timeouts")
  /\ UNCHANGED <<client_fd, read_fds, now, worker, peer_vars>>

(* check_keepalive_timeouts: read the time, then walk the slots.  read_fds *)
(* is dead here, and now is dead after the walk; both are cleared.         *)
timeouts ==
  /\ mpc = "timeouts"
  /\ now' = clock
  /\ read_fds' = {}
  /\ mpc' = "expire"
  /\ UNCHANGED <<client_conns, i, client_fd, queue, worker, sock, peer_vars>>

Expired(s) == Idle(s) /\ now - client_conns[s].last_activity >= IdleLimit

expire ==
  /\ mpc = "expire"
  /\ IF Expired(i)
       THEN /\ sock' = [sock EXCEPT ![client_conns[i].fd] = NONE]
            /\ client_conns' = [client_conns EXCEPT ![i] = Freed(@)]
       ELSE UNCHANGED <<sock, client_conns>>
  /\ Walk("build")
  /\ now' = IF i = MaxConns THEN 0 ELSE now
  /\ UNCHANGED <<client_fd, read_fds, queue, worker, peer_vars>>

-----------------------------------------------------------------------------
(* A worker: take a task, receive, respond, give the slot back or close.   *)
(* Its steps act on the slot and the descriptor of its task.               *)

Slot(w) == worker[w].task.conn
Peer(w) == sock[worker[w].task.client_fd]
Buffer(w) == client_conns[Slot(w)].read_buffer

(* What recv can return; on a closed descriptor it fails with EBADF.       *)
Input(w) == IF Peer(w) = NONE THEN <<>> ELSE inbox[Peer(w)]

At(w, pc) == worker[w].pc = pc
Goto(w, pc) == worker' = [worker EXCEPT ![w].pc = pc]
EndTask(w) == worker' = [worker EXCEPT ![w] = [pc |-> "idle", task |-> NoTask]]

worker_take(w) ==
  /\ At(w, "idle")
  /\ queue # <<>>
  /\ worker' = [worker EXCEPT ![w] = [pc |-> "recv", task |-> Head(queue)]]
  /\ queue' = Tail(queue)
  /\ UNCHANGED <<client_conns, sock, inbox>>

IsEnd(p) == p.kind # "part"
Ends(buffer) == {n \in 1 .. Len(buffer) : IsEnd(buffer[n])}

(* headers_end is found and, with a Content-Length, the body is there.     *)
RequestComplete(buffer) == Ends(buffer) # {}

(* Only the first request of the buffer is parsed; its header decides.     *)
KeepAlive(buffer) == buffer[Min(Ends(buffer))].kind = "end_keep"

(* Giving the slot back begins with last_activity.                         *)
GiveBack_NoTouch == "clear_busy"

GiveBack == "touch"

(* sizeof(read_buffer) - 1 - read_length, the length given to recv.        *)
Room(w) == BufSize - Len(Buffer(w))

(* recv got bytes: they are appended, and the request is complete or not.  *)
worker_recv(w) ==
  LET n == Min({Len(Input(w)), Room(w)})
      buffer == Buffer(w) \o SubSeq(Input(w), 1, n)
  IN  /\ At(w, "recv")
      /\ n > 0
      /\ client_conns' = [client_conns EXCEPT ![Slot(w)].read_buffer = buffer,
                                              ![Slot(w)].heard = clock]
      /\ inbox' = [inbox EXCEPT ![Peer(w)] = SubSeq(@, n + 1, Len(@))]
      /\ Goto(w, IF RequestComplete(buffer) THEN "respond" ELSE GiveBack)
      /\ UNCHANGED <<queue, sock>>

(* recv got nothing.  EAGAIN gives the slot back; an error or 0 closes it: *)
(* 0 is end of file, or data pending and no room left in read_buffer.      *)
AfterEagain_StaysBusy == "idle"

AfterEagain == "clear_busy"

worker_recv_none(w) ==
  /\ At(w, "recv")
  /\ Input(w) = <<>> \/ Room(w) = 0
  /\ Goto(w, IF Input(w) = <<>> /\ Peer(w) \notin gone \cup {NONE}
               THEN AfterEagain ELSE "close")
  /\ UNCHANGED <<client_conns, queue, sock, inbox>>

(* Parse, run the handler, reset read_buffer and read_length.              *)
BufferAfterRespond_Kept(w) == Buffer(w)

BufferAfterRespond(w) == <<>>

worker_respond(w) ==
  /\ At(w, "respond")
  /\ client_conns' = [client_conns EXCEPT ![Slot(w)].read_buffer = BufferAfterRespond(w)]
  /\ Goto(w, IF KeepAlive(Buffer(w)) /\ client_conns[Slot(w)].is_active
               THEN GiveBack ELSE "close")
  /\ UNCHANGED <<queue, sock, inbox>>

(* conn->last_activity = time(NULL); then conn->is_busy = 0.               *)
worker_touch(w) ==
  /\ At(w, "touch")
  /\ client_conns' = [client_conns EXCEPT ![Slot(w)].last_activity = clock]
  /\ Goto(w, "clear_busy")
  /\ UNCHANGED <<queue, sock, inbox>>

worker_clear_busy(w) ==
  /\ At(w, "clear_busy")
  /\ client_conns' = [client_conns EXCEPT ![Slot(w)].is_busy = FALSE]
  /\ EndTask(w)
  /\ UNCHANGED <<queue, sock, inbox>>

SockAfterClose_Forgotten(w) == sock

SockAfterClose(w) == [sock EXCEPT ![worker[w].task.client_fd] = NONE]

(* close(client_fd); then conn->is_active = 0.                             *)
worker_close(w) ==
  /\ At(w, "close")
  /\ sock' = SockAfterClose(w)
  /\ Goto(w, "deactivate")
  /\ UNCHANGED <<client_conns, queue, inbox>>

worker_deactivate(w) ==
  /\ At(w, "deactivate")
  /\ client_conns' = [client_conns EXCEPT ![Slot(w)] = Freed(@)]
  /\ EndTask(w)
  /\ UNCHANGED <<queue, sock, inbox>>

-----------------------------------------------------------------------------
Main ==
  \/ build \/ select \/ accept \/ accept_done \/ claim \/ hand_over
  \/ scan \/ timeouts \/ expire

Worker(w) ==
  /\ \/ worker_take(w) \/ worker_recv(w) \/ worker_recv_none(w)
     \/ worker_respond(w) \/ worker_touch(w) \/ worker_clear_busy(w)
     \/ worker_close(w) \/ worker_deactivate(w)
  /\ UNCHANGED <<main_vars, backlog, gone, sent, clock>>

(* The loop was left; main goes on to network_shutdown.                    *)
stopped == mpc = "exit" /\ UNCHANGED vars

Next ==
  \/ Main
  \/ \E w \in Workers : Worker(w)
  \/ Environment
  \/ stopped

(* The scheduler runs the main thread, which never blocks longer than the  *)
(* second select waits, and every worker that has something to do.  Peers  *)
(* and the clock owe nothing.                                              *)
Fairness == WF_vars(Main) /\ \A w \in Workers : WF_vars(Worker(w))

Spec == Init /\ [][Next]_vars
FairSpec == Spec /\ Fairness
-----------------------------------------------------------------------------
TypeOK ==
  /\ client_conns \in [Slots -> Conn]
  /\ mpc \in {"build", "select", "accept", "claim", "hand_over", "scan",
              "timeouts", "expire", "exit"}
  /\ i \in Slots
  /\ client_fd \in Fds \cup {NOFD}
  /\ read_fds \subseteq Fds
  /\ now \in 0 .. MaxClock
  /\ queue \in Seq(Task)
  /\ worker \in [Workers -> [pc : {"idle", "recv", "respond", "touch", "clear_busy",
                                   "close", "deactivate"},
                             task : Task \cup {NoTask}]]
  /\ sock \in [Fds -> Clients \cup {NONE}]
  /\ backlog \in Seq(Clients)
  /\ inbox \in [Clients -> SeqOf(Pieces, MaxSend)]
  /\ gone \subseteq Clients
  /\ sent \in [Clients -> 0 .. MaxSend + 1]
  /\ clock \in 0 .. MaxClock

(***************************************************************************)
(* select never fails with EBADF, which would end the server: a descriptor *)
(* put into read_fds is open when select is called, although workers close *)
(* descriptors at any time.                                                *)
(***************************************************************************)
WatchedOpen ==
  mpc = "select" \/ (mpc = "build" /\ i > 1) => \A f \in read_fds : sock[f] # NONE

(* The tasks a slot has: queued, held by a worker, or about to be queued.  *)
TasksOf(s) ==
  Cardinality({n \in 1 .. Len(queue) : queue[n].conn = s})
  + Cardinality({w \in Workers : ~At(w, "idle") /\ Slot(w) = s})
  + (IF mpc = "hand_over" /\ i = s THEN 1 ELSE 0)

(***************************************************************************)
(* is_busy is the lock of a slot: a busy connection has exactly one task,  *)
(* so no two workers share a read_buffer and no slot stays busy with       *)
(* nobody to give it back; every other slot has none.                      *)
(***************************************************************************)
OneTaskPerBusySlot ==
  \A s \in Slots : TasksOf(s) = 
    IF client_conns[s].is_active /\ client_conns[s].is_busy THEN 1 ELSE 0

(* A worker has closed the slot's descriptor and not yet freed the slot.   *)
Closing(s) == \E w \in Workers : At(w, "deactivate") /\ Slot(w) = s

(***************************************************************************)
(* Descriptor numbers are reused at once, but a slot's fd never refers to  *)
(* somebody else's connection: while a slot is in use its fd is open and   *)
(* leads to the client the slot was claimed for, so every recv, response   *)
(* and close a task makes hits the connection it was created for.          *)
(***************************************************************************)
FdLeadsToOwner ==
  \A s \in Slots : client_conns[s].is_active /\ ~Closing(s) =>
    /\ sock[client_conns[s].fd] = client_conns[s].owner
    /\ client_conns[s].owner # NONE

(***************************************************************************)
(* No descriptor leaks: each open one is the fd of an active slot, or the  *)
(* one accept just returned.  Hence accept finds a free descriptor as long *)
(* as there are more than MAX_CONNS of them.                               *)
(***************************************************************************)
NoFdLeak ==
  \A f \in Fds : sock[f] # NONE =>
    \/ \E s \in Slots : client_conns[s].is_active /\ ~Closing(s) /\ client_conns[s].fd = f
    \/ f = client_fd

(***************************************************************************)
(* A connection that is waiting for input never sits on a complete request *)
(* in its buffer (nothing would ever look at it again).                    *)
(***************************************************************************)
NoRequestLeftBehind == \A s \in Slots : Idle(s) => ~RequestComplete(client_conns[s].read_buffer)

(***************************************************************************)
(* check_keepalive_timeouts closes only connections from which nothing has *)
(* been received for IdleLimit, although it took the time before the walk  *)
(* and workers refresh last_activity and clear is_busy meanwhile.          *)
(***************************************************************************)
ExpiresOnlySilent ==
  [][mpc = "expire" => \A s \in Slots :
       client_conns[s].is_active /\ ~client_conns'[s].is_active /\ ~Closing(s)
         => now - client_conns[s].heard >= IdleLimit]_vars

(***************************************************************************)
(* Data a client has sent is received, or its connection is closed: no     *)
(* connection is forgotten by the hand-over between the walks and workers. *)
(***************************************************************************)
InputIsTaken == \A c \in Clients : inbox[c] # <<>> ~> (inbox[c] = <<>> \/ c \notin Connected)

(***************************************************************************)
(* Every connection in the backlog is accepted.                            *)
(***************************************************************************)
BacklogDrains == \A c \in Clients : c \in ToSet(backlog) ~> c \notin ToSet(backlog)

(***************************************************************************)
(* README.md:210: a "per-connection read buffer (conn->read_buffer[8192])  *)
(* to accumulate partial HTTP requests": the bytes in the buffer came from *)
(* the connection the slot was claimed for.                                *)
(***************************************************************************)
BufferIsPrivate ==
  \A s \in Slots : client_conns[s].is_active =>
    \A n \in 1 .. Len(client_conns[s].read_buffer) :
      client_conns[s].read_buffer[n].from = client_conns[s].owner
=============================================================================
