-------------------------- MODULE RequestAssembly --------------------------
(***************************************************************************)
(* How a worker turns the bytes of one connection into requests: recv into *)
(* read_buffer and the completeness test of thread_pool.c (lines 153-176), *)
(* http_request_constructor of http_parser.c, and the reset of the buffer. *)
(* The test looks for text in the raw buffer and counts bytes; the parser  *)
(* then splits a C string.  They have to agree.                            *)
(*                                                                         *)
(* Bytes are abstracted to tokens <<kind, value>>, each of length one: the *)
(* text of a request line, CRLF, a header line, a form pair, other bytes   *)
(* (no digits), and the byte zero.  A recv may end between any two tokens. *)
(* Header names are compared without case, as the code does.               *)
(***************************************************************************)
EXTENDS Integers, Sequences, FiniteSets, FiniteSetsExt

CONSTANTS Requests,      \* what the client may send
          BufSize,       \* sizeof(read_buffer) - 1
          IntMax,        \* INT_MAX
          MaxRequests,   \* bound on the requests of the connection
          Leftovers      \* what a slot's last client may leave in read_buffer

Crlf == <<"crlf", 0>>
Zero == <<"zero", 0>>
FORM == 1                \* Content-Type: application/x-www-form-urlencoded
CLOSE == 0               \* Connection: close

(* Header lines, and the lines in which "Content-Length:" can be found: a  *)
(* request line may hold the text too, as in GET /?Content-Length:9.       *)
Names == {"content-length", "x-content-length", "connection", "content-type"}
LengthNames == {"content-length", "x-content-length"}
LengthLines == LengthNames \cup {"length-line"}

(* A request line, header lines, and a body of any tokens.                 *)
IsRequest(r) ==
  /\ r.line[1] \in {"line", "length-line"}
  /\ r.fields \in Seq(Names \X Int)
  /\ r.body \in Seq({r.body[p] : p \in DOMAIN r.body})

VARIABLES read_buffer,
          leftover,      \* what read_buffer held when the slot was taken
          pc,            \* the worker: "recv", "respond" or "reset"
          is_active,     \* the connection is open
          inbox,         \* kernel: sent and not received yet
          asked,         \* the requests the client sent
          gone,          \* the client closed its side
          handled        \* the requests given to a handler

vars == <<read_buffer, leftover, pc, is_active, inbox, asked, gone, handled>>

(* The reactor takes a free slot for the connection as it is, with the     *)
(* bytes of a client whose request never became complete.                  *)
Init ==
  /\ leftover \in Leftovers
  /\ read_buffer = leftover
  /\ pc = "recv"
  /\ is_active = TRUE
  /\ inbox = <<>>
  /\ asked = <<>>
  /\ gone = FALSE
  /\ handled = <<>>

-----------------------------------------------------------------------------
(* The client.  It sends a request when it has the answer to the one       *)
(* before; when it leaves, the tail of what it sent may be lost.           *)

Encode(r) ==
  <<r.line, Crlf>>
  \o [p \in 1 .. 2 * Len(r.fields) |-> IF p % 2 = 1 THEN r.fields[(p + 1) \div 2] ELSE Crlf]
  \o <<Crlf>> \o r.body

client_ask(r) ==
  /\ is_active /\ ~gone
  /\ Len(asked) < MaxRequests /\ Len(asked) <= Len(handled)
  /\ asked' = Append(asked, r)
  /\ inbox' = inbox \o Encode(r)
  /\ UNCHANGED <<read_buffer, leftover, pc, is_active, gone, handled>>

client_leave ==
  /\ is_active /\ ~gone
  /\ gone' = TRUE
  /\ \E n \in 0 .. Len(inbox) : inbox' = SubSeq(inbox, 1, n)
  /\ UNCHANGED <<read_buffer, leftover, pc, is_active, asked, handled>>

-----------------------------------------------------------------------------
(* The completeness test.                                                  *)

Positions(s, T) == {p \in 1 .. Len(s) : s[p] \in T}

(* What strstr, strcasestr and strcpy see of the buffer.                   *)
CString(s) ==
  IF Positions(s, {Zero}) = {} THEN s ELSE SubSeq(s, 1, Min(Positions(s, {Zero})) - 1)

(* strstr(buffer, "\r\n\r\n").                                             *)
BlankLines(s) == {p \in 1 .. Len(s) - 1 : s[p] = Crlf /\ s[p + 1] = Crlf}
HeadersEnd(s) == Min(BlankLines(s))

(* strcasestr(buffer, "Content-Length:") with atoi: the first such text,   *)
(* in whatever request line, header or body it stands.                     *)
LengthTexts(s) == {p \in 1 .. Len(s) : s[p][1] \in LengthLines}

ContentLength_Last(s) == s[Max(LengthTexts(s))][2]

ContentLength(s) == s[Min(LengthTexts(s))][2]

(* read_length >= headers_length + content_length.                         *)
Enough_Strictly(read_length, total) == read_length > total

Enough(read_length, total) == read_length >= total

(* The values request_complete may have; beyond INT_MAX the sum is         *)
(* undefined.                                                              *)
request_complete(buffer) ==
  LET s == CString(buffer)
      total == HeadersEnd(s) + 1 + ContentLength(s)
  IN  IF BlankLines(s) = {} THEN {FALSE}
      ELSE IF LengthTexts(s) = {} THEN {TRUE}
      ELSE IF total > IntMax THEN BOOLEAN
      ELSE {Enough(Len(buffer), total)}

(* A slot is left by an end of file, an error or a timeout, and none of    *)
(* these happens with a complete request in the buffer.                    *)
ASSUME AssemblyAssumption ==
  /\ BufSize \in Nat \ {0} /\ IntMax \in Nat /\ MaxRequests \in Nat
  /\ \A r \in Requests : IsRequest(r)
  /\ \A s \in Leftovers : Len(s) <= BufSize /\ FALSE \in request_complete(s)

-----------------------------------------------------------------------------
(* http_request_constructor.                                               *)

(* Of the tokens of s at positions P the first with k as component c: a    *)
(* dictionary that is filled in this order keeps a key's first value.      *)
FirstOf(s, P, c, k) == s[Min({p \in P : s[p][c] = k})]

IsField(token) == token[1] \in Names
IsPair(token) == token[1] = "pair"

IsForm(fields) ==
  "content-type" \in DOMAIN fields
    /\ <<"content-type", FORM>> \in Range(fields["content-type"])

(* The raw body under "data", which comes first, then the pairs of a form, *)
(* unless there is no memory for the copy they are cut from.               *)
extract_body(body, fields, copied) ==
  LET pairs == {p \in 1 .. Len(body) : IsForm(fields) /\ copied /\ IsPair(body[p])}
  IN  IF body = <<>> THEN <<>>
      ELSE [k \in {"data"} \cup {body[p][2] : p \in pairs} |->
              IF k = "data" THEN body ELSE <<FirstOf(body, pairs, 2, k)>>]

(* The head is what precedes the blank line: the request line up to the    *)
(* first CRLF, then header lines; lines that are no header are skipped.  A *)
(* header's value is the rest of its line.                                 *)
HeadOf(s) == SubSeq(s, 1, HeadersEnd(s) - 1)
BodyOf(s) == SubSeq(s, HeadersEnd(s) + 2, Len(s))
LineEnd(head, p) == Min({q \in p .. Len(head) : head[q] = Crlf} \cup {Len(head) + 1})
LineFrom(head, p) == SubSeq(head, p, LineEnd(head, p) - 1)

HeaderLines(head) ==
  {p \in LineEnd(head, 1) + 1 .. Len(head) : head[p - 1] = Crlf /\ IsField(head[p])}

extract_header_fields(head) ==
  LET lines == HeaderLines(head)
  IN  [k \in {head[p][1] : p \in lines} |->
         LineFrom(head, Min({p \in lines : head[p][1] = k}))]

(* Without memory for its copy of the buffer the constructor returns an    *)
(* empty request.                                                          *)
Unparsed == [line |-> <<>>, fields |-> <<>>, body |-> <<>>]

(* The requests it may return for the C string in read_buffer.             *)
http_request_constructor(s) ==
  {Unparsed}
  \cup {[line |-> LineFrom(HeadOf(s), 1),
         fields |-> fields,
         body |-> extract_body(BodyOf(s), fields, copied)] :
           fields \in {extract_header_fields(HeadOf(s))}, copied \in BOOLEAN}

-----------------------------------------------------------------------------
(* The worker, once per task the reactor creates for the connection.       *)

Room == BufSize - Len(read_buffer)

worker_recv(n) ==
  /\ pc = "recv" /\ is_active
  /\ n <= Min({Len(inbox), Room})
  /\ inbox' = SubSeq(inbox, n + 1, Len(inbox))
  /\ \E buffer \in {read_buffer \o SubSeq(inbox, 1, n)} :
     \E complete \in request_complete(buffer) :
       /\ read_buffer' = buffer
       /\ pc' = IF complete THEN "respond" ELSE "recv"
  /\ UNCHANGED <<leftover, is_active, asked, gone, handled>>

(* recv returns 0: end of file, or no room left for what is pending.       *)
worker_recv_zero ==
  /\ pc = "recv" /\ is_active
  /\ IF inbox = <<>> THEN gone ELSE Room = 0
  /\ is_active' = FALSE
  /\ UNCHANGED <<read_buffer, leftover, pc, inbox, asked, gone, handled>>

(* Parse, route and run the handler, whose answer the client may see.      *)
worker_respond ==
  /\ pc = "respond"
  /\ \E s \in {CString(read_buffer)} :
     \E request \in http_request_constructor(s) :
       handled' = Append(handled, request)
  /\ pc' = "reset"
  /\ UNCHANGED <<read_buffer, leftover, is_active, inbox, asked, gone>>

keep_alive(request) ==
  "connection" \in DOMAIN request.fields
    => request.fields["connection"] # << <<"connection", CLOSE>> >>

(* read_length = 0 and the memset; then the connection is kept or closed.  *)
worker_reset ==
  /\ pc = "reset"
  /\ read_buffer' = <<>>
  /\ is_active' = keep_alive(handled[Len(handled)])
  /\ pc' = "recv"
  /\ UNCHANGED <<leftover, inbox, asked, gone, handled>>

Worker ==
  \/ \E n \in 1 .. BufSize : worker_recv(n)
  \/ worker_recv_zero \/ worker_respond \/ worker_reset

(* The connection was closed.                                              *)
closed == ~is_active /\ UNCHANGED vars

Next ==
  \/ \E r \in Requests : client_ask(r)
  \/ client_leave
  \/ Worker
  \/ closed

(* The reactor hands a readable connection to a worker; clients owe nothing. *)
Fairness == WF_vars(Worker)

Spec == Init /\ [][Next]_vars
FairSpec == Spec /\ Fairness
-----------------------------------------------------------------------------
(* A request whose body is as long as its first Content-Length header says *)
(* and empty without one, that has no zero byte and whose bytes an int can *)
(* count.                                                                  *)
Honest(r) ==
  LET lengths == {p \in DOMAIN r.fields : r.fields[p][1] = "content-length"}
  IN  /\ Positions(r.body, {Zero}) = {}
      /\ Len(Encode(r)) <= IntMax
      /\ IF lengths = {} THEN r.body = <<>>
         ELSE r.fields[Min(lengths)][2] = Len(r.body)

(* The code takes the first text "Content-Length:" it finds for that       *)
(* header.  It miscounts an honest request that has the text in its        *)
(* request line, or in another header with no Content-Length before it.    *)
Unambiguous(r) ==
  /\ r.line[1] = "line"
  /\ \A p \in DOMAIN r.fields :
       r.fields[p][1] \in LengthNames
         => \E q \in 1 .. p : r.fields[q][1] = "content-length"

(* What the code needs to count right: a slot that nobody left bytes in,   *)
(* and such requests only.                                                 *)
Countable ==
  /\ leftover = <<>>
  /\ \A n \in DOMAIN asked : Honest(asked[n]) /\ Unambiguous(asked[n])

(* Request h has the line and the body of r and, under each of r's header  *)
(* names, the value that comes first.                                      *)
Means(h, r) ==
  /\ h.line = <<r.line>>
  /\ IF r.body = <<>> THEN h.body = <<>>
     ELSE "data" \in DOMAIN h.body /\ h.body["data"] = r.body
  /\ \A p \in DOMAIN r.fields :
       (\A q \in 1 .. p - 1 : r.fields[q][1] # r.fields[p][1])
         => /\ r.fields[p][1] \in DOMAIN h.fields
            /\ h.fields[r.fields[p][1]] = <<r.fields[p]>>

(***************************************************************************)
(* In a fresh slot, however the client's bytes are cut into pieces, and    *)
(* although it may leave in the middle of a request or send the next one   *)
(* while the buffer is not reset yet, a handler gets exactly the requests  *)
(* that were sent, whole, once and in order; where the parser found no     *)
(* memory it gets an empty one in the request's place.  Honest requests    *)
(* the code miscounts, and slots with a last client's bytes, are excluded  *)
(* (Countable): there the code hands on cut, joined or foreign bytes.      *)
(***************************************************************************)
HandledAsSent ==
  Countable =>
    /\ Len(handled) <= Len(asked)
    /\ \A n \in DOMAIN handled : handled[n] = Unparsed \/ Means(handled[n], asked[n])

(***************************************************************************)
(* In a fresh slot a worker does not wait for more than an honest and      *)
(* unambiguous request has: each is handled or, when it does not fit       *)
(* read_buffer, its connection is closed.                                  *)
(***************************************************************************)
RequestsEnd ==
  Countable /\ Len(handled) < Len(asked)
    ~> Len(handled) >= Len(asked) \/ ~is_active
=============================================================================
