------------------------------ MODULE Handler ------------------------------
(***************************************************************************)
(* What a worker does with a parsed request: handle_filesystem_request of  *)
(* http_handler.c (the handler main registers for every URI), the sending  *)
(* functions of network.c, and the end of the request in thread_pool.c.    *)
(*                                                                         *)
(* The workers share the directory public/, which other programs change    *)
(* while they look at it, and post_data.txt.  Each worker serves one       *)
(* connection, whose socket does not block: a send takes what fits the     *)
(* socket buffer and fails with EAGAIN when the buffer is full.            *)
(*                                                                         *)
(* A response is counted in units: 1 .. HeadLen are its head, the units    *)
(* behind are its body.  Unit <<n, k>> is unit k of the n-th response.     *)
(***************************************************************************)
EXTENDS Integers, Sequences, FiniteSets

CONSTANTS Workers,
          Requests,        \* what each worker's client may ask for
          Inodes,          \* files that may stand under a name
          Sizes,           \* the sizes they may be given behind the server's back
          Disks,           \* the names' first meanings and the first sizes
          Absent, Dir,     \* meanings of a name that is no regular file
          HeadLen,         \* units of a response's head
          TextLen,         \* ... of the body of an error or a 201
          IntMax,          \* INT_MAX
          SockBuf,         \* units that fit a socket's send buffer
          Readers,         \* bound: the workers whose client reads and leaves
          MaxRequests,     \* bound on the requests of all connections
          Renames,         \* bound: the changes of names, <<name, meaning>>
          MaxChanges       \* bound on the changes of other programs

(* The names under which a URI is looked up: public/uri, public/uri/       *)
(* index.html and public/uri.html.                                         *)
Names == {"exact", "index", "html"}
Meanings == Inodes \cup {Absent, Dir}

RequestType == [line : {"ok", "incomplete", "http10", "dotdot"},
                method : {"GET", "HEAD", "POST", "OTHER"},
                length : BOOLEAN,     \* has a Content-Length
                long : BOOLEAN,       \* the URI does not fit send_created's buffer
                close : BOOLEAN]      \* asks to close the connection

ASSUME HandlerAssumption ==
  /\ HeadLen \in Nat \ {0, 1} /\ {TextLen, SockBuf} \subseteq Nat \ {0} /\ Sizes \subseteq Nat
  /\ {IntMax, MaxRequests, MaxChanges} \subseteq Nat /\ TextLen <= IntMax
  /\ Readers \subseteq Workers /\ Renames \subseteq Names \X Meanings
  /\ Absent # Dir /\ {Absent, Dir} \cap Inodes = {}
  /\ Disks \subseteq [public : [Names -> Meanings], size : [Inodes -> Nat]]
  /\ Requests \in [Workers -> (SUBSET RequestType) \ {{}}]

VARIABLES
  pc, req,                 \* each worker's place and request
  local_path, st_size,     \* ... the name looked up, its size then
  file_fd,                 \* ... the file opened, or Absent
  parts, total,            \* ... what is still to send, and sent of the first
  public, size,            \* what stands under each name, the files' sizes
  post_data,               \* post_data.txt
  unread, gone, closed,    \* kernel: units in the socket buffer, the
                           \* client left, the server closed
  said, wire,              \* history: the responses, the units sent
  cut,                     \* ... why something was not sent whole
  unsaved,                 \* ... the bodies whose open or write failed
  asked, changes           \* counters for the bounds

request_vars == <<req, local_path, st_size, file_fd>>
send_vars == <<parts, total>>
disk_vars == <<public, size, changes>>
post_vars == <<post_data, unsaved>>
socket_vars == <<unread, gone, closed>>
vars == <<pc, request_vars, send_vars, disk_vars, post_vars, socket_vars,
          said, wire, cut, asked>>

Init ==
  /\ pc = [w \in Workers |-> "idle"]
  /\ req = [w \in Workers |-> CHOOSE r \in Requests[w] : TRUE]
  /\ local_path = [w \in Workers |-> "exact"]
  /\ st_size = [w \in Workers |-> 0]
  /\ file_fd = [w \in Workers |-> Absent]
  /\ parts = [w \in Workers |-> <<>>]
  /\ total = [w \in Workers |-> 0]
  /\ \E disk \in Disks : public = disk.public /\ size = disk.size
  /\ post_data = <<>> /\ unsaved = {}
  /\ unread = [w \in Workers |-> 0]
  /\ gone = [w \in Workers |-> FALSE]
  /\ closed = [w \in Workers |-> FALSE]
  /\ said = [w \in Workers |-> <<>>]
  /\ wire = [w \in Workers |-> <<>>]
  /\ cut = [w \in Workers |-> {}]
  /\ asked = 0 /\ changes = 0
-----------------------------------------------------------------------------
(* The clients, and the programs that change public/: a name gets another  *)
(* meaning, or a file is rewritten in place.  Sooner or later than here    *)
(* nobody notices: it is just another disk.                                *)

client_ask(w, r) ==
  /\ pc[w] = "idle" /\ ~gone[w] /\ ~closed[w] /\ asked < MaxRequests
  /\ asked' = asked + 1
  /\ req' = [req EXCEPT ![w] = r]
  /\ pc' = [pc EXCEPT ![w] = "handle"]
  /\ UNCHANGED <<local_path, st_size, file_fd, send_vars, disk_vars, post_vars,
                 socket_vars, said, wire, cut>>

client_read(w) ==
  /\ w \in Readers /\ ~gone[w]
  /\ \E n \in 1 .. unread[w] : unread' = [unread EXCEPT ![w] = @ - n]
  /\ UNCHANGED <<pc, request_vars, send_vars, disk_vars, post_vars, gone, closed,
                 said, wire, cut, asked>>

(* Only a send notices: leaving sooner is leaving before the first send.   *)
client_leave(w) ==
  /\ w \in Readers /\ ~gone[w] /\ pc[w] = "send"
  /\ gone' = [gone EXCEPT ![w] = TRUE]
  /\ UNCHANGED <<pc, request_vars, send_vars, disk_vars, post_vars, unread, closed,
                 said, wire, cut, asked>>

Looking == \E w \in Workers : pc[w] \in {"stat_again", "open"}

rename(name, meaning) ==
  /\ Looking /\ changes < MaxChanges /\ public[name] # meaning
  /\ public' = [public EXCEPT ![name] = meaning]
  /\ changes' = changes + 1
  /\ UNCHANGED <<pc, request_vars, send_vars, size, post_vars, socket_vars,
                 said, wire, cut, asked>>

rewrite(f, n) ==
  /\ Looking \/ \E w \in Workers : file_fd[w] = f
  /\ changes < MaxChanges /\ size[f] # n
  /\ size' = [size EXCEPT ![f] = n]
  /\ changes' = changes + 1
  /\ UNCHANGED <<pc, request_vars, send_vars, public, post_vars, socket_vars,
                 said, wire, cut, asked>>
-----------------------------------------------------------------------------
(* Answering.  A response goes out in parts, one call of send_all or       *)
(* send_file each; empty ones send nothing.                                *)

Part(kind, len) == IF len <= 0 THEN <<>> ELSE <<[kind |-> kind, len |-> len]>>

(* A size is passed as an int, to the head and to send_file.               *)
ToInt(n) ==
  LET width == 2 * IntMax + 2
      low == n % width
  IN  IF low <= IntMax THEN low ELSE low - width

(* The last unit of a head is the blank line.  send_created has 256 bytes  *)
(* for its own line: a long URI costs the end of it, and so the blank line. *)
Lines(w, status) == IF status = 201 /\ req[w].long THEN HeadLen - 1 ELSE HeadLen

Respond(w, status, cl, ka, body) ==
  /\ said' = [said EXCEPT ![w] = Append(@,
       [status |-> status, entity |-> cl, announced |-> ToInt(cl),
        head |-> Lines(w, status), ka |-> ka, method |-> req[w].method])]
  /\ parts' = [parts EXCEPT ![w] = Part("head", Lines(w, status)) \o body]
  /\ total' = [total EXCEPT ![w] = 0]
  /\ pc' = [pc EXCEPT ![w] = "send"]

(* send_error announces the end of the connection whatever was asked for.  *)
send_error(w, code) == Respond(w, code, TextLen, FALSE, Part("text", TextLen))

keep_alive(w) == ~req[w].close

Announced_Always(w) == TRUE

Announced(w) == keep_alive(w)

send_created(w) == Respond(w, 201, TextLen, Announced(w), Part("text", TextLen))

(* The conditions in the order of the code; 0 is none.                     *)
Rejection(r) ==
  IF r.line = "incomplete" THEN 400
  ELSE IF r.line = "http10" THEN 505
  ELSE IF r.line = "dotdot" THEN 403
  ELSE IF r.method = "POST" THEN IF r.length THEN 0 ELSE 411
  ELSE IF r.method \in {"GET", "HEAD"} THEN 0 ELSE 405

handle(w) ==
  /\ pc[w] = "handle"
  /\ LET code == Rejection(req[w]) IN
       \/ /\ code # 0
          /\ send_error(w, code)
       \/ /\ code = 0
          /\ pc' = [pc EXCEPT ![w] = IF req[w].method = "POST" THEN "post" ELSE "stat"]
          /\ UNCHANGED <<said, send_vars>>
  /\ UNCHANGED <<request_vars, disk_vars, post_vars, socket_vars, wire, cut, asked>>
-----------------------------------------------------------------------------
(* POST: open with O_APPEND, two writes, 201 whatever they returned.       *)

Id(w) == <<w, Len(said[w]) + 1>>
Saved(entry) == post_data' = Append(post_data, entry) /\ UNCHANGED unsaved

Lost(w) == unsaved' = unsaved \cup {Id(w)} /\ UNCHANGED post_data

(* Without O_APPEND the n-th write goes to the n-th place.                 *)
Write_AtOffset(w, what, n) ==
  /\ IF n \in DOMAIN post_data THEN post_data' = [post_data EXCEPT ![n] = <<Id(w), what>>]
     ELSE post_data' = Append(post_data, <<Id(w), what>>)
  /\ UNCHANGED unsaved

Write(w, what, n) == Saved(<<Id(w), what>>)

post_open(w) ==
  /\ pc[w] = "post"
  /\ \/ /\ pc' = [pc EXCEPT ![w] = "write"]
        /\ UNCHANGED <<post_vars, said, send_vars>>
     \/ Lost(w) /\ send_created(w)
  /\ UNCHANGED <<request_vars, disk_vars, socket_vars, wire, cut, asked>>

post_write(w) ==
  /\ pc[w] = "write"
  /\ Write(w, "body", 1) \/ Lost(w)
  /\ pc' = [pc EXCEPT ![w] = "newline"]
  /\ UNCHANGED <<request_vars, send_vars, disk_vars, socket_vars, said, wire, cut, asked>>

post_newline(w) ==
  /\ pc[w] = "newline"
  /\ Write(w, "newline", 2) \/ Lost(w)
  /\ send_created(w)
  /\ UNCHANGED <<request_vars, disk_vars, socket_vars, wire, cut, asked>>
-----------------------------------------------------------------------------
(* GET and HEAD: stat, perhaps stat under a second name, open, send.       *)

IsFile(meaning) == meaning \in Inodes

stat(w) ==
  /\ pc[w] = "stat"
  /\ LET found == public["exact"] IN
       /\ local_path' = [local_path EXCEPT ![w] =
            IF IsFile(found) THEN "exact" ELSE IF found = Dir THEN "index" ELSE "html"]
       /\ st_size' = [st_size EXCEPT ![w] = IF IsFile(found) THEN size[found] ELSE @]
       /\ pc' = [pc EXCEPT ![w] = IF IsFile(found) THEN "open" ELSE "stat_again"]
  /\ UNCHANGED <<req, file_fd, send_vars, disk_vars, post_vars, socket_vars,
                 said, wire, cut, asked>>

stat_again(w) ==
  /\ pc[w] = "stat_again"
  /\ LET found == public[local_path[w]] IN
       \/ /\ IsFile(found)
          /\ st_size' = [st_size EXCEPT ![w] = size[found]]
          /\ pc' = [pc EXCEPT ![w] = "open"]
          /\ UNCHANGED <<said, send_vars>>
       \/ /\ ~IsFile(found)
          /\ send_error(w, 404)
          /\ UNCHANGED st_size
  /\ UNCHANGED <<req, local_path, file_fd, disk_vars, post_vars, socket_vars,
                 wire, cut, asked>>

(* The open may fail whatever stat said (EACCES, EMFILE).                  *)
open_file(w) ==
  /\ pc[w] = "open"
  /\ LET found == public[local_path[w]] IN
       \/ send_error(w, 403) /\ UNCHANGED file_fd
       \/ /\ found # Absent
          /\ file_fd' = [file_fd EXCEPT ![w] = found]
          /\ Respond(w, 200, st_size[w], Announced(w),
                     IF req[w].method = "GET" THEN Part("file", ToInt(st_size[w])) ELSE <<>>)
  /\ UNCHANGED <<req, local_path, st_size, disk_vars, post_vars, socket_vars,
                 wire, cut, asked>>
-----------------------------------------------------------------------------
(* send_all and send_file.                                                 *)

Sending(w, kinds) == pc[w] = "send" /\ parts[w] # <<>> /\ Head(parts[w]).kind \in kinds
Remaining(w) == Head(parts[w]).len - total[w]

(* Units of the part a call can take: a file may have fewer.               *)
Available(w) ==
  IF Head(parts[w]).kind # "file" THEN Remaining(w)
  ELSE IF file_fd[w] = Dir \/ size[file_fd[w]] <= total[w] THEN 0
  ELSE IF size[file_fd[w]] - total[w] < Remaining(w) THEN size[file_fd[w]] - total[w]
  ELSE Remaining(w)

Base(w) == IF Head(parts[w]).kind = "head" THEN 0 ELSE said[w][Len(said[w])].head

NextPart(w) ==
  /\ parts' = [parts EXCEPT ![w] = Tail(@)]
  /\ total' = [total EXCEPT ![w] = 0]

(* total += n; the next call starts where this one stopped.                *)
Advanced_Not(w, n) == 0

Advanced(w, n) == total[w] + n

send_some(w) ==
  /\ Sending(w, {"head", "text", "file"})
  /\ \E n \in 1 .. SockBuf - unread[w] :
       /\ n <= Available(w)
       /\ unread' = [unread EXCEPT ![w] = @ + n]
       /\ wire' = [wire EXCEPT ![w] =
            @ \o [k \in 1 .. n |-> <<Len(said[w]), Base(w) + total[w] + k>>]]
       /\ IF n = Remaining(w) THEN NextPart(w)
          ELSE total' = [total EXCEPT ![w] = Advanced(w, n)] /\ UNCHANGED parts
  /\ UNCHANGED <<pc, request_vars, disk_vars, post_vars, gone, closed, said, cut, asked>>

(* The call returns without having sent the part; nobody looks at what it  *)
(* returns.                                                                *)
GiveUp(w, why) ==
  /\ cut' = [cut EXCEPT ![w] = @ \cup {why}]
  /\ NextPart(w)
  /\ UNCHANGED <<pc, request_vars, disk_vars, post_vars, socket_vars, said, wire, asked>>

(* EAGAIN ends send_all; send_file tries again, which changes nothing.     *)
send_all_again(w) ==
  /\ Sending(w, {"head", "text"}) /\ unread[w] = SockBuf
  /\ GiveUp(w, "full")

send_fails(w) ==
  /\ Sending(w, {"head", "text", "file"}) /\ gone[w]
  /\ GiveUp(w, "gone")

(* sendfile at the end of the file returns 0, and fails for a directory.   *)
EndsAtEof_Retries(w) == FALSE

EndsAtEof(w) == Available(w) = 0

send_file_eof(w) ==
  /\ Sending(w, {"file"}) /\ EndsAtEof(w)
  /\ GiveUp(w, "file")

(* The handler returns, which ends its locals; the worker keeps or closes  *)
(* the connection.                                                         *)
finish(w) ==
  /\ pc[w] = "send" /\ parts[w] = <<>>
  /\ pc' = [pc EXCEPT ![w] = "idle"]
  /\ file_fd' = [file_fd EXCEPT ![w] = Absent]
  /\ local_path' = [local_path EXCEPT ![w] = "exact"]
  /\ st_size' = [st_size EXCEPT ![w] = 0]
  /\ closed' = [closed EXCEPT ![w] = ~keep_alive(w)]
  /\ UNCHANGED <<req, send_vars, disk_vars, post_vars, unread, gone,
                 said, wire, cut, asked>>
-----------------------------------------------------------------------------
Worker(w) ==
  \/ handle(w)
  \/ post_open(w) \/ post_write(w) \/ post_newline(w)
  \/ stat(w) \/ stat_again(w) \/ open_file(w)
  \/ send_some(w) \/ send_all_again(w) \/ send_fails(w) \/ send_file_eof(w)
  \/ finish(w)

Client(w) == (\E r \in Requests[w] : client_ask(w, r)) \/ client_read(w) \/ client_leave(w)

OtherPrograms ==
  \/ \E change \in Renames : rename(change[1], change[2])
  \/ \E f \in Inodes, n \in Sizes : rewrite(f, n)

Next == (\E w \in Workers : Worker(w) \/ Client(w)) \/ OtherPrograms

(* The kernel runs every worker; clients and other programs owe nothing.   *)
Fairness == \A w \in Workers : WF_vars(Worker(w))

Spec == Init /\ [][Next]_vars
FairSpec == Spec /\ Fairness
-----------------------------------------------------------------------------
(* Units of the n-th response as a client counts them.                     *)
Units(w, n) ==
  LET r == said[w][n]
  IN  HeadLen + IF r.method = "HEAD" THEN 0 ELSE r.announced

(* The unit behind a unit.                                                 *)
After(w, unit) ==
  IF unit[2] = Units(w, unit[1]) THEN <<unit[1] + 1, 1>> ELSE <<unit[1], unit[2] + 1>>

(* Not every response can be counted: an error or a 201 for a HEAD, which  *)
(* has a body although the README says it is skipped, a head that does not *)
(* end, and a file larger than an int, whose head announces another size.  *)
Countable(r) ==
  /\ r.method = "HEAD" => r.status = 200
  /\ r.head = HeadLen
  /\ r.announced = r.entity

(* Nor is what follows such a response.                                    *)
CountableTo(w, n) == \A k \in 1 .. n : Countable(said[w][k])

(***************************************************************************)
(* Unless a send was given up, and up to the first response that cannot be *)
(* counted, the client gets the responses in order and each with exactly   *)
(* as many bytes as its head announces, all of them when the worker is     *)
(* done: a file that grows or is replaced behind stat does not shift the   *)
(* next response.  A file is short only when it was changed, whatever its  *)
(* size.                                                                   *)
(***************************************************************************)
Framed ==
  \A w \in Workers :
    /\ "file" \in cut[w] => changes > 0
    /\ cut[w] = {} =>
         /\ \A k \in DOMAIN wire[w] :
              CountableTo(w, wire[w][k][1]) =>
                wire[w][k] = IF k = 1 THEN <<1, 1>> ELSE After(w, wire[w][k - 1])
         /\ pc[w] = "idle" /\ said[w] # <<>> =>
              LET last == Len(said[w])
              IN  CountableTo(w, last) =>
                    wire[w] # <<>> /\ wire[w][Len(wire[w])] = <<last, Units(w, last)>>

(***************************************************************************)
(* Although workers write post_data.txt without a lock and in two writes   *)
(* each: a body that was answered with 201, and none of whose calls        *)
(* failed, is in the file once, and its newline once and behind it.        *)
(***************************************************************************)
BodiesKept ==
  \A w \in Workers : \A n \in DOMAIN said[w] :
    said[w][n].status = 201 /\ <<w, n>> \notin unsaved =>
      LET places(what) == {p \in DOMAIN post_data : post_data[p] = <<<<w, n>>, what>>}
      IN  \E p, q \in DOMAIN post_data :
            p < q /\ places("body") = {p} /\ places("newline") = {q}

(***************************************************************************)
(* The server never closes a connection behind a response that promised to *)
(* keep it, although worker and handler decide about that separately.      *)
(***************************************************************************)
ClosesOnlyAnnounced ==
  \A w \in Workers :
    closed[w] => said[w] # <<>> /\ ~said[w][Len(said[w])].ka

(***************************************************************************)
(* A worker gets through with its request as long as the socket buffer     *)
(* does not stay full: whatever happens to the file, and however little    *)
(* the client reads, nothing else holds it.                                *)
(***************************************************************************)
RequestEnds ==
  \A w \in Workers :
    []<>(unread[w] < SockBuf \/ gone[w]) => (pc[w] # "idle" ~> pc[w] = "idle")
=============================================================================
