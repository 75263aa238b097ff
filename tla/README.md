# A verification project for Let-us-Connect HTTP Server

TLA+ models of the server in `src/`, the TLC runs that check them, and proofs
checked by TLAPS. `PROJECT.json` lists components, runs, the source lines behind
every definition, hazards, findings and theorems.

    tlc -config ThreadPool.cfg MCThreadPool.tla      # one run
    tlapm ThreadPoolProofs.tla                       # one proof module

## 1. Inventory

| component | state | operations | hard behaviour | what makes it correct |
| --- | --- | --- | --- | --- |
| task queue `fifo_queue.c` | nodes with two links, `first`, `last`, `size` | `fifo_queue_init`, `push_last`, `pop_first` | first and last node, error returns, node life | a doubly linked list of exactly the live nodes; FIFO |
| thread pool `thread_pool.c` | `pool_lock`, `pool_sem`, queue, `available_work`, `busy_threads_num`, thread states | `add_work`, `_thread_task`, `thread_pool_destroy` (SOFT, DRAIN_AND_DROP, HARD) | semaphore, mutex and queue kept together; stopping while tasks are in hand; stale tokens of a named semaphore | no lost wake-up, each task once, SOFT drains, destroy returns (HARD: unless it cancels a worker inside the logger) |
| pool start `thread_pool_init` | one `args` cell shared by all workers, `INIT_SEM` | create, handshake, unlink | race on the cell; kill and restart; `pthread_create` failing | each worker gets its own state |
| reactor `network.c` | `client_conns[]`, `read_fds`, listening socket | `network_run_server`, `check_keepalive_timeouts` | workers write slots without a lock; descriptor reuse; partial and pipelined input; full table; idle expiry | one task per busy slot, no descriptor leaked or crossed, no input forgotten |
| worker's task `thread_pool.c:149-232` | `read_buffer`, `last_activity`, `is_busy`, `is_active` | recv, completeness, respond, give back or close | order of the writes to the slot; pieces of requests; keep-alive decided twice | as above; each request handled once, whole |
| logger `logger.c` | `log_mutex`, `log_stream`, `logger_initialized` | init, log, destroy | any thread, any order; buffered stream | no use of a closed stream; calls atomic |
| program `main.c`, `network_init` | routing table, pool, log, socket | start-up, cleanup | each start-up call can fail; workers still running at cleanup | everything released, nothing used after it |
| dictionary `DataStructures/` | binary search tree of entries, list of keys | insert, search, destructor | insertion order, duplicates | a map; each tree node freed once |
| request parser `http_parser.c` | three dictionaries per request | constructor, destructor | agreement with the completeness test of the worker; bodies that look like headers; repeated headers | a handler gets exactly what was sent |
| handler `http_handler.c` | the open file, `post_data.txt`, `public/` | `handle_filesystem_request` | files changing between stat, open and sendfile; two writes per POST, each may fail | announced lengths are kept, bodies are saved once |
| send layer `network.c:192-294` | bytes left to send | `send_all`, `send_file`, heads, errors, 201 | partial sends, EAGAIN, a client that leaves, a file that shrinks | responses stay framed; a request ends |
| generic queue `Queue.c`, sorting and searching of `LinkedList.c` | | | | no caller in the server |

How they interact. The main thread runs the reactor. It claims a slot, allocates
a `ClientTask` that points at it, and calls `add_work`, which pushes the task
(task queue) and posts `pool_sem`. A worker pops it, receives into the slot's
buffer, and if the request is complete parses it (dictionary), looks the route
up (the dictionary `main` built), and runs the handler, which sends and then
logs. It gives the slot back by clearing `is_busy`, or closes the descriptor and
then clears `is_active`. The reactor watches slots that are active and not busy.
The slot array is shared memory: only the reactor takes `conns_mutex`.

## 2. Modules

| module | models | implements |
| --- | --- | --- |
| `TaskQueue` | abstract: a FIFO sequence with replies | |
| `FifoQueue` | `fifo_queue.c` | `TaskQueue` |
| `TaskPool` | abstract: tasks start in order, at most once, until the pool is stopped | |
| `ThreadPool` | `add_work`, `_thread_task`, `thread_pool_destroy` | `TaskPool` |
| `PoolInit` | `thread_pool_init`, prologue of `_thread_task` | |
| `PoolSize` | the number of workers, shared by the two modules above | |
| `Reactor` | `network_run_server`, `check_keepalive_timeouts`, the worker's task, the kernel's sockets, the clients | |
| `LogSink` | abstract: calls take effect one at a time | |
| `Logger` | `logger.c` | `LogSink` |
| `Server` | `main.c`, `network_init`, `network_shutdown`, the life of a task | composes `TaskPool` and `LogSink` |
| `KeyValueMap` | abstract: a map that keeps the first value | |
| `Dictionary` | `Dictionary.c`, `BinarySearchTree.c`, the key list | `KeyValueMap` |
| `RequestAssembly` | `thread_pool.c:153-216` on the bytes of one connection, `http_parser.c` | |
| `Handler` | `http_handler.c`, the send layer of `network.c`, the end of a request in `thread_pool.c` | |
| `FifoQueueProofs`, `ThreadPoolProofs` (with `PoolInit`), `ReactorProofs`, `LoggerProofs`, `ServerProofs`, `DictionaryProofs`, `AssemblyProofs`, `HandlerProofs` | theorems | |

`MC*` modules instantiate them for TLC and give the symmetry sets. An operator
`X_Something` just above an operator `X` is a plausible mistake in the code `X`
models; each property is known to fail when `X` is replaced by it.

State and actions.

* `FifoQueue`: `node` maps each heap cell to its data and links and to whether it
  is allocated; `first`, `last` and `size` are the struct. One action per function
  and error return, since callers hold `pool_lock`.
* `ThreadPool`: `wpc[w]` and `mpc` are the places of each worker and of the main
  thread, one step per `sem_wait`, `pthread_mutex_lock`, critical section, post,
  cancel and join. The queue is a sequence, which `FifoQueue` justifies. The main
  thread is the only caller of `add_work` and `thread_pool_destroy`.
  `Init` lets `pool_sem` start above 0: it is a named semaphore opened without
  `O_EXCL`, and a killed server leaves its tokens. Of a task's body three steps are
  left: it wants to log (`worker_log`), gets `log_mutex`, and releases it. That is
  what HARD needs: a worker cancelled inside `logger_log_request` leaves `log_mutex`
  locked (`LogAbandoned`), and one that then waits for it is at no cancellation point.
* `PoolInit`: `args` is the shared cell, `own[w]` what worker w read from it;
  `crash` keeps the named semaphore and loses everything else. Its specification is
  `BootSpec`: names it shares with `ThreadPool` are prefixed, so that one module can hold
  the proofs about both.
* `Reactor`: `client_conns[s]` is the slot; `owner` and `heard` in it are history.
  `sock[f]` is the peer behind descriptor f, and `accept` takes the lowest free
  number, so reuse happens. Bytes are pieces, `part` or an `end` that completes a
  request and says keep-alive or close. A walk over the array takes one step per
  slot and interleaves with the workers' single writes.
* `Logger`: one step per critical-section part; `output` is what reached the file,
  `buffered` what is still in the stream.
* `Server`: `mpc` is the call `main` is at; `stage[t]` the place of task t in its
  worker. `Cleanup` is the sequence of calls behind the loop; each failure enters a
  suffix of it.
* `Dictionary`: tree nodes in creation order and the key list.
* `RequestAssembly`: one connection. A byte string is a sequence of tokens (a request
  line, CRLF, a header line, a form pair, any other byte, zero); `inbox` is the kernel's
  side of the socket, and a `recv` takes any number of tokens, so a request is cut at
  every place. The buffer starts with the `leftover` of the slot's last client, which is
  not reset when a slot is claimed (`reactor_buffer`). The text `Content-Length:` is
  looked for in the whole buffer, so it may also stand in the request line
  (`"length-line"`); other bytes are taken to hold no digits. `request_complete` is the
  test of `thread_pool.c:161-176` as the set of values it may have: a sum beyond `INT_MAX`
  is undefined behaviour and gives both. `http_request_constructor` works on the C string,
  so a zero byte hides what is behind it, and may return an empty request for want of
  memory (`Unparsed`) or leave a form's pairs out. `asked` and `handled` are history.
* `Handler`: each worker with its connection. `pc[w]` is the place between two system
  calls of `handle_filesystem_request`; `parts[w]` what is still to be passed to
  `send_all` and `send_file` and `total[w]` what the current call has sent. `public`
  maps the three names a URI is looked up under to an inode, a directory or nothing,
  and other programs change it and the sizes between the calls. `open_file` opens what
  stands under the name then, whatever `stat` saw, and narrows the size to an `int`
  (`ToInt`). `Lines` is what a response's head has of its lines: `send_created` cuts its own
  at 256 bytes, and a long URI costs the head its blank line. The wire is counted in units:
  `<<n, k>>` is unit k of the n-th response. `cut[w]` keeps why a call returned before
  its part was sent; `unsaved` the POST bodies one of whose calls failed.

## 3. Runs

Passing runs.

| run | bounds | shows |
| --- | --- | --- |
| `fifo` | 3 nodes, 2 tasks | list shape, node ownership, refinement of `TaskQueue` |
| `pool` | 2 workers, 3 tasks, 1 stale token, all options | counters, tokens and queue agree (`WorkCount`, `NoLostWakeup`, `BusyExact`); each task once (`TaskOnce`); SOFT drains; refinement of `TaskPool`; `DestroyCompletes`: SOFT and DRAIN_AND_DROP return, HARD returns unless it cancels a worker that holds `log_mutex`; tasks are processed unless DRAIN_AND_DROP or HARD gives them up |
| `init` | 4 workers, 3 starts, 2 kills, failing create | each worker its own state when `INIT_SEM` was opened at 0; `thread_pool_init` returns unless a thread was not created |
| `reactor` | 2 slots, 2 workers, 3 descriptors, 2 clients of which one sends two pieces, buffer of 2 pieces, failing malloc and select | the slot protocol (five invariants and `ExpiresOnlySilent`) |
| `reactor_live` | 1 slot, 1 worker, 2 descriptors, 3 clients of which one sends two pieces, buffer of 1 piece | input is taken, also when the buffer is full; the backlog drains, with rejected connections |
| `logger` | 3 threads, 5 calls | stream life, refinement of `LogSink`, calls return |
| `server` | 3 tasks | cleanup order on every way out |
| `dictionary` | 4 keys, 2 values, 5 calls | refinement of `KeyValueMap`; each node freed once |
| `assembly` | 2 requests out of 14 shapes, 3 leftovers, a buffer of 10 tokens, `INT_MAX` 15 | in a fresh slot, for requests whose first text `Content-Length:` is their header: `HandledAsSent`: a handler gets the requests as sent, whole, once and in order; `RequestsEnd`: each is handled or its connection closed |
| `handler` | 2 workers, 2 requests, 10 kinds of request, 3 disks, 3 renames, 2 files of 0, 2, 5 or 9 units, `INT_MAX` 3, socket buffer of 2 units, 1 client that reads or leaves | `Framed`: responses that were not cut follow each other with the announced lengths, up to the first that the code frames wrongly by itself; `BodiesKept`; `ClosesOnlyAnnounced`; `RequestEnds` |

Why the bounds are enough to be of use. Two workers and three tasks let one worker be
stopped with a task in hand while the other sleeps and a task is still queued. Two slots,
one descriptor more than slots and two clients are the smallest reactor in which a
descriptor number is reused by the other client while its first slot is being closed, and
in which a walk has a middle. A buffer of two pieces holds a partial request, a complete
one, or two. Three clients on one slot and two descriptors are what it takes for a leaked
descriptor to stop `accept`. Four keys give every tree shape with four nodes; five calls
add a duplicate. In `assembly` the buffer holds every honest request an `int` can count
but one, which is two tokens too long for it, and the second request may arrive before the
buffer of the first is reset. In `handler` a response with a file of two is four units and
the socket buffer two, so sends are partial and fail on a full buffer, and the second
response of a connection stands behind a first one of any kind; one change lies between
any two system calls of a request. The files' sizes are 0, 2 and two that no `int` holds
(5 is taken for -3 and 9 for 1), and a change makes a file longer than an `int` or empty.
Only the client of the first worker reads or leaves (`Readers`): the workers interact in
`post_data.txt` alone, which the second one's unread connection does not keep it from.
`Senders`, `MaxSend`, `MaxClock`, `MaxCalls`, `MaxRuns`, `MaxCrashes`, `MaxRequests`,
`MaxChanges`, `Renames` and `Looking` (other programs act while a worker is between stat
and open, or has the file open) only stop the environment.

What the two are not about. `HandledAsSent` and `RequestsEnd` have a premise, `Countable`:
the slot was fresh, and each request has a body as long as its first `Content-Length`
header says, has no zero byte, is short enough for an `int` to count (`read_length` and
the sum it is compared with are `int`s), and has the text `Content-Length:` neither in its
request line nor in another header without a `Content-Length` before it. `Framed` speaks
of responses none of whose sends was given up, since the code ignores the results of
`send_all` and `send_file`, and only up to the first response that is not `Countable`
there: an error or a 201 for a HEAD, a 201 with a head that does not end, a file whose
size is no `int`. The runs take all of these steps, and what the code makes of them is
listed below. Without any one part of either `Countable` TLC finds a property violated.

Runs that find a disagreement between the code and what the repository says
(`README.md` here is `src/README.md`).

| run | the code | the statement |
| --- | --- | --- |
| `init_crash` | a token left in `INIT_SEM` by a killed start lets two workers share a state | `thread_pool.c:81,89`, `README.md:345` |
| `reactor_buffer` | a new client's bytes are appended to the previous client's partial request | `README.md:210` |

Met while modelling, without a run of their own:

* A second request received with the first is discarded with the buffer
  (`thread_pool.c:207`), where `network.c:158` speaks of "sequential incoming pipeline
  requests".
* `linked_list_destructor` counts up to a length it decrements and frees every other
  key (`LinkedList.c:58`); searches and duplicate keys leave their `Entry` allocated.
  `README.md:405` says the request's dictionaries are freed.
* `send_all` returns -1 on EAGAIN (`network.c:203-207`, asserted by
  `tests/test_network.c`), where `README.md:222` and `:357` say it retries; no caller
  looks at the result, so a head may go out without its body and the other way round,
  and a kept connection is then out of step. `send_file` retries EAGAIN without
  waiting, so a client that reads nothing keeps a worker spinning, where
  `README.md:208` wants to keep "a single slow client from monopolizing a worker
  thread".
* `send_error` announces `Connection: close` on a connection the worker keeps.
* An error for a HEAD has a body (`network.c:256-278`), where `README.md:306` says "body
  transmission is skipped": on a kept connection the client takes it for the next
  response. `Framed` ends there.
* `send_created` cuts its Location line at 256 bytes (`network.c:288-289`). From 244
  bytes of URI on the line's CRLF is lost, the CRLF behind it ends that line, and the head
  has no blank line: the body runs into it. `Framed` ends there.
* `st_size` is passed as an `int` to `send_response_head` and `send_file`
  (`http_handler.c:233,236`). From 2 GiB the announced length is another one, often a
  negative one; what is sent agrees with it only where it is not negative. `Framed` ends there.
* The text `Content-Length:` counts wherever it stands first in the buffer
  (`thread_pool.c:166`). `GET /?Content-Length:99` waits for 99 bytes nobody sends;
  `POST /?Content-Length:0` is complete without its body, which is then discarded or
  taken for the next request. `X-Content-Length:` in front of the header does the same.
  `Unambiguous` excludes both.
* What the run `reactor_buffer` finds has its effect here: with a last client's bytes in
  front, an honest request is parsed as that client's, or waited for as the rest of it.
* Where `http_request_constructor` finds no memory (`http_parser.c:30`), the handler gets
  an empty request and answers 400; `HandledAsSent` allows it.
* 201 is answered when `post_data.txt` could not be opened or written
  (`README.md:71`, `:307`). Two bodies may stand before their two newlines.
* `strcpy` cuts a body at a zero byte. A negative length makes a request complete at once,
  and a length near `INT_MAX` overflows. A test is called
  `test_network_processing_should_reject_negative_content_lengths`; nothing validates.
* The name is looked up once per call: a file that is moved between the two `stat` calls
  is a 404 although it always existed under one of the names.
* A HARD destroy that cancels a worker inside `logger_log_request` (`fprintf` and
  `fflush`, `logger.c:139,152`, are cancellation points) leaves `log_mutex` locked. A worker
  that waits for it in `pthread_mutex_lock` is not cancelled, and `pthread_join`
  (`thread_pool.c:324`) never returns; `README.md:260` calls HARD "Fastest". `Hung` is that
  state, the only one where the run `pool` may stop, and `DestroyCompletes` excepts it.
* The results of `fprintf` and `fflush` in `logger.c:139,152` are ignored. `Logger` and
  `Server` have no failing write: `ImplementsLogSink` and `EveryRequestLogged` assume that
  the file takes what is written.
* DRAIN_AND_DROP leaves the queued nodes and tasks allocated and their clients
  open, where `thread_pool.h:105` says "free the resources" and `README.md:260`
  excepts only HARD.
* `thread_pool_init` hangs when `pthread_create` fails (`README.md:415`: "prints to
  stderr and exits"); `InitReturns` names the exception.
* Workers write the slots without `conns_mutex` (`README.md:343`: "Protects
  client_conns[] array from concurrent modification"). The run `reactor` shows
  that their order of writes keeps the slots consistent all the same, at the
  granularity of single memory accesses. The C standard calls these accesses a
  data race; the model takes each as atomic and in program order.
* `iterate_bst` hangs smaller keys at `next`, where `BinarySearchTree.h:17` says
  `previous`.
* `README.md:260` says `main.c` uses HARD, and `main.c:178` uses SOFT; `README.md:72`
  promises a graceful shutdown, but no signal handler leaves the loop, so the
  cleanup behind it is reached only when `select` fails.

`CHECK_DEADLOCK FALSE` appears in the `PoolInit` runs, where the last start is the end
of the run, and in `handler`, where connections end.

## 4. Fairness

Threads that can step are scheduled (weak fairness per worker and for the main thread);
nothing makes the caller add work or destroy the pool, and clients and the clock owe
nothing. In `Reactor` the main thread never blocks longer than the second `select` waits.
`ThreadPool` and `Reactor` assume that processing a task ends, but for the wait for
`log_mutex`, which `ThreadPool` has: `recv` does not block and `send_all` gives up on a
full socket buffer, but `send_file` retries for as long as its client reads nothing, so
for such a client the assumption is false and the liveness results do not apply. `Handler`
shows the rest of it: under weak fairness of the workers alone, `RequestEnds` says a
request ends if its socket buffer is not full for ever. It assumes nothing of clients or
files; that premise is the one thing a client can withhold, and the code gives it the
power to. `RequestAssembly` assumes only that the worker runs when there is input (the
reactor hands it the connection, which is `InputIsTaken` of `Reactor`). `Logger` makes
finitely many calls, so weak fairness of each thread inside a call suffices for it to get
`log_mutex`.

## 5. Proofs

For every value of the constants, from the named assumptions of the modules only.

* `FifoQueueProofs!ListInvariant`: `Spec => [](TypeOK /\ Linked /\ NodesOwned)`, and
  `Refinement`: `Spec => ImplementsTaskQueue`. `Linked` states the list as a
  sequence of distinct cells with both links (`order`, a history variable); it is
  inductive with `TypeOK` and `NodesOwned`, and `order` is the refinement mapping.
* `ThreadPoolProofs!PoolInvariant`: `Spec => [](TypeOK /\ WorkCount /\ NoLostWakeup /\
  BusyExact /\ TaskOnce /\ SoftDrains)`, and `Refinement`: `Spec => ImplementsTaskPool`.
  These properties are not inductive. The invariant adds `LockHeld` (which places own
  `pool_lock`, so that no two critical sections overlap), `OptionPlace` (which places of
  `thread_pool_destroy` belong to which option), `WorkerPlace` (what a worker's place says
  of its state and task: exactly the workers in a task (`Working`) hold one, and until the stop
  exactly those between taking and finishing are BUSY) and `DestroyProgress` (joined
  workers have exited, and a SOFT destroy past its wait has an empty queue).
  `NoLostWakeup` needs `LockHeld` for the moment between the push and the post;
  `SoftDrains` follows from `TaskOnce`, since at the end nothing is queued or in hand.

* `ThreadPoolProofs!HandshakeRight`: `BootSpec => []OwnStateIfFresh`, and
  `ArgsOutliveReaders`: `BootSpec => []ArgsLiveIfFresh`, about `PoolInit`. The invariant adds
  `NoThreadYet` (the loop starts at worker 1 with no thread) and, when `INIT_SEM`
  was opened with value 0, `Handshake`: the workers before the loop index have
  their own pointer and are past the prologue, those behind it do not exist, and
  the one at the index either has not posted and owns the cell, or has and its
  token is the only one.

* `HandlerProofs!CloseIsAnnounced`: `Spec => []ClosesOnlyAnnounced`, and
  `BodiesAreKept`: `Spec => []BodiesKept`. The first needs `Announcing`: from the moment
  a response is composed, a request that asked to close has an answer that says so.
  The second needs `Bodies`: who owns the entries of `post_data` (`EntriesOwned`), that
  none is there twice (`EntriesOnce`), that a worker at "newline" whose body was not
  lost has written it (`BodyWritten`), and that the pairs of answered bodies are in order
  (`PairsKept`).
* `HandlerProofs!ResponsesFramed`: `Spec => []Framed`. The invariant follows what the worker
  sends, `Framed` what a client counts. Per worker, the parts still to be
  sent are the rest of the latest response (`PartsFit`: a head of as many lines as it got
  and a body, and `total` is less than the first part), and `InStep`: as long as
  nothing was cut, the unit behind the last one on the wire is the one the worker sends
  next; this holds of every response. `CountedAsSent` says that for a `Countable` one the client's
  `Units` are those that were sent, and `OldFirst` that the responses on the wire before it are
  older; `FramingSuffices` puts them together. That a file is short only when it was
  changed is `FileKnown`, which follows the size from `stat` over `open` and the
  conversion to `int` to `sendfile` while `changes` is 0.

* `ReactorProofs`: each of the safety properties of the run `reactor` (`TypeOK`,
  `WatchedOpen`, `OneTaskPerBusySlot`, `FdLeadsToOwner`, `NoFdLeak`, `NoRequestLeftBehind`
  and the action property `ExpiresOnlySilent`), for every number of slots, workers,
  descriptors and clients, every buffer size and time limit. None of them is inductive
  alone; the invariant `Inv` is their common strengthening, and TLC checked it on the
  instance of the run before it was proved. `TaskInv` ties tasks to slots: every task in
  the queue or at a worker is for a busy slot and carries that slot's descriptor, no slot
  has two, a slot in the main thread's hand (`hand_over`) has none yet, and a busy slot
  has one. It says where the one task is, which the counting of `OneTaskPerBusySlot` does
  not. `FdInv` makes descriptors and slots one to one: two slots in use never have the
  same descriptor (`OwnFd`), and the one just accepted is open and nobody's
  (`ClaimingFd`). That is what a close followed by a reuse of the number would break. A
  slot is in use until its worker closed the descriptor, hence `Closing` in
  `FdLeadsToOwner`. `WatchInv`: what was put into `read_fds` belongs to an idle slot until
  `select` returns; a slot becomes busy only by the main thread, which is in `select`, and
  only a worker with a task closes. `BufferInv` and `TimeInv` say which slots a worker
  owes something: a complete request only under a worker at "respond", bytes later than
  `last_activity` only under one that has not touched the slot yet. Idle slots have no
  worker, and the properties follow. `PeerInv` bounds what a client has in flight by what
  it sent. `AcceptHasADescriptor` adds the reason why leaks matter: if the process may
  open more client descriptors than there are slots, `accept` always finds a free one.
* `LoggerProofs`: `StreamStaysOpen`, `NoFileLost` and `Refinement`
  (`Spec => ImplementsLogSink`), for every set of threads and every number of calls. `MutexInv`: the
  owner of `log_mutex` is the one thread inside a body. `StreamInv` says what each
  place inside a body knows of the flag, the stream and the open FILE; outside of
  "set" and "clear", where the two variables disagree for a moment, an initialized
  logger has an open stream and any other has no FILE open. `BufferInv`: nothing but the line of the
  thread between `fprintf` and `fflush` is ever in a buffer, so that `fclose` writes
  nothing and a call takes effect in the step that unlocks. `CountInv` counts the calls
  that may still open a file, so that `fopen` has a FILE left in the model. The
  assumption that "unlocked" is no thread is part of `LoggerAssumption`.
* `ServerProofs`: `RoutesStayAlive`, `RequestsAreLogged` and `ExitsAreClean`, for every
  set of tasks. `MainInv` says for each call of `main` what is set up then, `PoolInv` that
  the pool is busy only around the loop and its destroy and that `main` stops it softly, `StageInv`
  that a task in a worker's hands is in the pool's, and `LogInv` how many lines a task
  has at each of its places. That the process uses pool and log as they allow
  needs no theorem: a step of `Server` that touches them is by construction a step of
  `TaskPool` or `LogSink`, and what carries weight is that `ThreadPoolProofs!Refinement` and
  `LoggerProofs!Refinement` show the code to implement these.

* `AssemblyProofs!RequestsAsSent`: `Spec => []HandledAsSent`, for every set of requests,
  every size of `read_buffer`, every leftover and every way the bytes arrive; the premise
  `Countable` above is part of `HandledAsSent`. The argument has three parts. `EncodeIs`
  says what stands where on the wire: the line at 1, header p at 2p + 1, a CRLF behind
  each, the blank line, the body. `CompleteIsWhole` is the completeness test: of all
  prefixes of an honest and unambiguous request only the whole one passes. No line is a
  CRLF, so that the first blank line of the buffer is the one that ends the headers
  (`FirstBlank`); the first text `Content-Length:` of the buffer stands in the first
  header that has it, even if the body has others (`FirstLengthText`). `Parsed`: from the
  whole request the parser gets its line, its body under "data" and each header's first
  value, or nothing. The inductive invariant joins them: at most one request is under way,
  its bytes are split between `read_buffer` and the socket in order (`UnderWay`), nothing
  is pending while a handler has it, and nothing of it is in `read_buffer` before the
  reset, although the next request may have arrived by then (`Pieces`). It is stated for
  an honest client only; a dishonest one stays dishonest (`HonestBefore`).
* `DictionaryProofs!EveryNodeFreed`: `Spec => []FreesEveryNode`, and `Refinement`:
  `Spec => ImplementsMap`, for every set of keys and values and every order of
  insertion. The invariant `TreeOK`: children have higher numbers than their parent
  (`IsTree`), the walk for the key of any node ends at that node (`Findable`), the
  subtrees of two children share no node (`Disjoint`), and the destructor's order from
  the root has every node (`FreesAll`). That an insertion preserves it is `TreeInserted`:
  the new node hangs where the walk for its key stopped, so walks for other keys
  are the same as before (`WalkHung`) and the destructor's order gains this node alone
  (`VisitHung`, `ForestHung`). The refinement follows from `SearchFinds` and
  `InsertKeepsFirst`.

  The walk and the destructor are recursive functions, and the library's induction
  theorems take an operator as a parameter, which no installed prover can instantiate.
  These proofs use the least-number principle instead (`Least`, from `WFMin`, about sets),
  and prove first that functions with the recursive equations exist (`WalkExists`,
  `VisitExists`): on a tree both recursions end, which is itself part of what makes
  `Iterate` and `recursive_dictionary_destroy` right.

Every invariant, every action property and every refinement that a passing run checks is
thus proved. Only model-checked: liveness (`DestroyCompletes`, `EveryTaskRuns`,
`InitReturns`, `InputIsTaken`, `BacklogDrains`, `CallsReturn`, `RequestsEnd`,
`RequestEnds`), which is out of the prover's reach.

## 6. Plan

Written in this order: queue, pool, pool start, reactor, logger, program,
dictionary, request assembly, handler with the send layer; the proofs of queue, pool,
pool start, handler, framing, reactor, logger, program, dictionary and request
assembly. What would come next:

1. `Reactor` composed with `RequestAssembly` and `Handler`, so that pieces become
   requests and responses; today `Reactor` takes the completeness of a piece and the
   end of processing as given, and the other two one connection per worker.
2. Two server processes on the same named semaphores; the remaining list operations.

Not modelled and not planned: logging's wording, MIME types, the static content,
the vendored test frameworks, the test programs.
