--------------------------- MODULE HandlerProofs ---------------------------
(***************************************************************************)
(* The handler, proved for every number of workers, every set of requests, *)
(* files and sizes, and every socket buffer: connections are only closed   *)
(* when that was announced, POST bodies are kept and responses are framed. *)
(***************************************************************************)
EXTENDS Handler, SequenceTheorems, TLAPS

Places == {"idle", "handle", "post", "write", "newline", "stat", "stat_again",
           "open", "send"}
PartType == [kind : {"head", "text", "file"}, len : Nat \ {0}]
ResponseType == [status : Nat, entity : Nat, announced : Int, head : Nat \ {0},
                 ka : BOOLEAN, method : {"GET", "HEAD", "POST", "OTHER"}]
EntryType == (Workers \X Nat) \X {"body", "newline"}

TypeOK ==
  /\ pc \in [Workers -> Places]
  /\ req \in [Workers -> RequestType]
  /\ local_path \in [Workers -> Names]
  /\ st_size \in [Workers -> Nat]
  /\ file_fd \in [Workers -> Meanings]
  /\ parts \in [Workers -> Seq(PartType)]
  /\ total \in [Workers -> Nat]
  /\ public \in [Names -> Meanings]
  /\ size \in [Inodes -> Nat]
  /\ post_data \in Seq(EntryType)
  /\ unread \in [Workers -> Nat]
  /\ gone \in [Workers -> BOOLEAN]
  /\ closed \in [Workers -> BOOLEAN]
  /\ said \in [Workers -> Seq(ResponseType)]
  /\ wire \in [Workers -> Seq(Nat \X Nat)]
  /\ cut \in [Workers -> SUBSET {"full", "gone", "file"}]
  /\ changes \in Nat
-----------------------------------------------------------------------------
LEMMA InitType == Init => TypeOK
<1> SUFFICES ASSUME Init PROVE TypeOK
  OBVIOUS
<1>1. \A w \in Workers : (CHOOSE r \in Requests[w] : TRUE) \in RequestType
  <2> TAKE w \in Workers
  <2>1. Requests[w] \subseteq RequestType /\ Requests[w] # {}
    BY HandlerAssumption
  <2>2. \E r : r \in Requests[w]
    BY <2>1
  <2>3. (CHOOSE r : r \in Requests[w]) \in Requests[w]
    BY <2>2
  <2>4. (CHOOSE r \in Requests[w] : TRUE) \in Requests[w]
    BY <2>2
  <2> QED
    BY <2>1, <2>4
<1>2. req \in [Workers -> RequestType]
  BY <1>1 DEF Init
<1>3. public \in [Names -> Meanings] /\ size \in [Inodes -> Nat]
  BY HandlerAssumption DEF Init
<1> QED
  BY <1>2, <1>3 DEF Init, TypeOK, Places, Names, Meanings

(* A size never becomes larger as an int, and stays what it is if it fits. *)
LEMMA ToIntFacts ==
  ASSUME NEW n \in Nat
  PROVE  ToInt(n) \in Int /\ ToInt(n) <= n /\ (n <= IntMax => ToInt(n) = n)
<1> DEFINE width == 2 * IntMax + 2
<1>1. IntMax \in Nat /\ width \in Nat \ {0} /\ IntMax < width
  BY HandlerAssumption
<1> HIDE DEF width
<1>2. n % width \in 0 .. width - 1
  BY <1>1
<1>3. n % width <= n
  BY <1>1
<1>4. n < width => n % width = n
  BY <1>1
<1>5. ToInt(n) = IF n % width <= IntMax THEN n % width ELSE (n % width) - width
  BY DEF ToInt, width
<1> QED
  BY <1>1, <1>2, <1>3, <1>4, <1>5

(* A head has at least one unit.                                           *)
LEMMA LinesType == \A w, status : Lines(w, status) \in Nat \ {0}
  BY HandlerAssumption DEF Lines

(* The response that is recorded, and the part that is its head.           *)
Response(w, status, cl, ka) ==
  [status |-> status, entity |-> cl, announced |-> ToInt(cl),
   head |-> Lines(w, status), ka |-> ka, method |-> req[w].method]

HeadPart(w, status) == [kind |-> "head", len |-> Lines(w, status)]

LEMMA ResponseFacts ==
  ASSUME TypeOK, NEW w \in Workers, NEW status \in Nat, NEW cl \in Nat,
         NEW ka \in BOOLEAN
  PROVE  /\ Response(w, status, cl, ka) \in ResponseType
         /\ Response(w, status, cl, ka).status = status
         /\ Response(w, status, cl, ka).announced = ToInt(cl)
         /\ Response(w, status, cl, ka).head = Lines(w, status)
         /\ Response(w, status, cl, ka).ka = ka
         /\ Response(w, status, cl, ka).method = req[w].method
         /\ HeadPart(w, status) \in PartType
         /\ Part("head", Lines(w, status)) = <<HeadPart(w, status)>>
<1>1. ToInt(cl) \in Int /\ Lines(w, status) \in Nat \ {0}
  BY ToIntFacts, LinesType
<1>2. req[w].method \in {"GET", "HEAD", "POST", "OTHER"}
  BY DEF TypeOK, RequestType
<1> HIDE DEF ToInt, Lines
<1>3. Response(w, status, cl, ka) \in ResponseType
  BY <1>1, <1>2 DEF Response, ResponseType
<1>4. Part("head", Lines(w, status)) = <<HeadPart(w, status)>>
  BY <1>1 DEF Part, HeadPart
<1>5. HeadPart(w, status) \in PartType
  BY <1>1 DEF HeadPart, PartType
<1> QED
  BY <1>3, <1>4, <1>5 DEF Response

(* A response is appended with its parts.                                  *)
LEMMA RespondType ==
  ASSUME TypeOK, NEW w \in Workers, NEW status \in Nat, NEW cl \in Nat,
         NEW ka \in BOOLEAN, NEW body \in Seq(PartType), Respond(w, status, cl, ka, body)
  PROVE  /\ said' \in [Workers -> Seq(ResponseType)]
         /\ parts' \in [Workers -> Seq(PartType)]
         /\ total' \in [Workers -> Nat]
         /\ pc' \in [Workers -> Places]
<1>1. Response(w, status, cl, ka) \in ResponseType /\ HeadPart(w, status) \in PartType
  BY ResponseFacts
<1>2. <<HeadPart(w, status)>> \o body \in Seq(PartType)
  BY <1>1
<1>3. Append(said[w], Response(w, status, cl, ka)) \in Seq(ResponseType)
  BY <1>1 DEF TypeOK
<1>4. /\ said' = [said EXCEPT ![w] = Append(said[w], Response(w, status, cl, ka))]
      /\ parts' = [parts EXCEPT ![w] = <<HeadPart(w, status)>> \o body]
      /\ total' = [total EXCEPT ![w] = 0]
      /\ pc' = [pc EXCEPT ![w] = "send"]
  <2>1. Part("head", Lines(w, status)) = <<HeadPart(w, status)>>
    BY ResponseFacts
  <2> QED
    BY <2>1 DEF Respond, Response
<1> QED
  BY <1>2, <1>3, <1>4 DEF TypeOK, Places

LEMMA PartsType ==
  /\ Part("text", TextLen) \in Seq(PartType)
  /\ \A n \in Int : Part("file", n) \in Seq(PartType)
  /\ <<>> \in Seq(PartType)
  /\ TextLen \in Nat
<1>1. TextLen \in Nat \ {0}
  BY HandlerAssumption
<1>2. [kind |-> "text", len |-> TextLen] \in PartType
  BY <1>1 DEF PartType
<1>3. ASSUME NEW n \in Int, n > 0 PROVE [kind |-> "file", len |-> n] \in PartType
  BY <1>3 DEF PartType
<1> QED
  BY <1>1, <1>2, <1>3 DEF Part

LEMMA KeepAliveType == ASSUME TypeOK, NEW w \in Workers PROVE Announced(w) \in BOOLEAN
  BY DEF TypeOK, Announced, keep_alive, RequestType

LEMMA ErrorType ==
  ASSUME TypeOK, NEW w \in Workers, NEW code \in Nat, send_error(w, code)
  PROVE  /\ said' \in [Workers -> Seq(ResponseType)]
         /\ parts' \in [Workers -> Seq(PartType)]
         /\ total' \in [Workers -> Nat]
         /\ pc' \in [Workers -> Places]
<1>1. Respond(w, code, TextLen, FALSE, Part("text", TextLen))
  BY DEF send_error
<1> QED
  BY <1>1, PartsType, RespondType

LEMMA CreatedType ==
  ASSUME TypeOK, NEW w \in Workers, send_created(w)
  PROVE  /\ said' \in [Workers -> Seq(ResponseType)]
         /\ parts' \in [Workers -> Seq(PartType)]
         /\ total' \in [Workers -> Nat]
         /\ pc' \in [Workers -> Places]
<1>1. Respond(w, 201, TextLen, Announced(w), Part("text", TextLen))
  BY DEF send_created
<1>2. Announced(w) \in BOOLEAN
  BY KeepAliveType
<1>3. 201 \in Nat /\ TextLen \in Nat /\ Part("text", TextLen) \in Seq(PartType)
  BY PartsType
<1> HIDE DEF Part, Respond, Announced
<1> QED
  BY <1>1, <1>2, <1>3, RespondType

-----------------------------------------------------------------------------
LEMMA ClientType ==
  ASSUME TypeOK, NEW w \in Workers, Client(w)
  PROVE  TypeOK'
<1>1. CASE \E r \in Requests[w] : client_ask(w, r)
  <2>1. PICK r \in Requests[w] : client_ask(w, r)
    BY <1>1
  <2>2. r \in RequestType
    BY HandlerAssumption
  <2> QED
    BY <2>1, <2>2 DEF client_ask, TypeOK, Places, send_vars, disk_vars, post_vars,
                      socket_vars
<1>2. CASE client_read(w)
  <2>1. PICK n \in 1 .. unread[w] : unread' = [unread EXCEPT ![w] = @ - n]
    BY <1>2 DEF client_read
  <2>2. unread' \in [Workers -> Nat]
    BY <2>1 DEF TypeOK
  <2> QED
    BY <1>2, <2>2 DEF client_read, TypeOK, request_vars, send_vars, disk_vars, post_vars
<1>3. CASE client_leave(w)
  BY <1>3 DEF client_leave, TypeOK, request_vars, send_vars, disk_vars, post_vars
<1> QED
  BY <1>1, <1>2, <1>3 DEF Client

LEMMA OtherType == ASSUME TypeOK, OtherPrograms PROVE TypeOK'
<1>1. ASSUME NEW change \in Renames, rename(change[1], change[2]) PROVE TypeOK'
  <2>1. change[1] \in Names /\ change[2] \in Meanings
    BY HandlerAssumption
  <2> QED
    BY <1>1, <2>1 DEF rename, TypeOK, request_vars, send_vars, post_vars, socket_vars
<1>2. ASSUME NEW f \in Inodes, NEW n \in Sizes, rewrite(f, n) PROVE TypeOK'
  <2>1. n \in Nat
    BY HandlerAssumption
  <2> QED
    BY <1>2, <2>1 DEF rewrite, TypeOK, request_vars, send_vars, post_vars, socket_vars
<1> QED
  BY <1>1, <1>2 DEF OtherPrograms

LEMMA HandleType == ASSUME TypeOK, NEW w \in Workers, handle(w) PROVE TypeOK'
<1>1. CASE send_error(w, Rejection(req[w]))
  <2>1. Rejection(req[w]) \in Nat
    BY DEF Rejection
  <2> HIDE DEF Rejection
  <2>2. /\ said' \in [Workers -> Seq(ResponseType)]
        /\ parts' \in [Workers -> Seq(PartType)]
        /\ total' \in [Workers -> Nat]
        /\ pc' \in [Workers -> Places]
    BY <1>1, <2>1, ErrorType
  <2> QED
    BY <2>2 DEF handle, TypeOK, request_vars, disk_vars, post_vars, socket_vars
<1>2. CASE /\ pc' = [pc EXCEPT ![w] = IF req[w].method = "POST" THEN "post" ELSE "stat"]
           /\ UNCHANGED <<said, send_vars>>
  BY <1>2 DEF handle, TypeOK, Places, request_vars, send_vars, disk_vars, post_vars,
              socket_vars
<1> QED
  BY <1>1, <1>2 DEF handle

LEMMA StatType == ASSUME TypeOK, NEW w \in Workers, stat(w) PROVE TypeOK'
  BY DEF stat, TypeOK, Places, Names, IsFile, send_vars, disk_vars, post_vars, socket_vars

LEMMA StatAgainType == ASSUME TypeOK, NEW w \in Workers, stat_again(w) PROVE TypeOK'
<1>1. CASE IsFile(public[local_path[w]]) /\ UNCHANGED <<said, send_vars>>
  BY <1>1 DEF stat_again, TypeOK, Places, IsFile, send_vars, disk_vars, post_vars,
              socket_vars
<1>2. CASE send_error(w, 404) /\ UNCHANGED st_size
  <2>1. /\ said' \in [Workers -> Seq(ResponseType)]
        /\ parts' \in [Workers -> Seq(PartType)]
        /\ total' \in [Workers -> Nat]
        /\ pc' \in [Workers -> Places]
    BY <1>2, ErrorType
  <2> QED
    BY <1>2, <2>1 DEF stat_again, TypeOK, disk_vars, post_vars, socket_vars
<1> QED
  BY <1>1, <1>2 DEF stat_again

(* What open_file answers when the open worked.                            *)
FileBody(w) == IF req[w].method = "GET" THEN Part("file", ToInt(st_size[w])) ELSE <<>>

LEMMA OpenFileType == ASSUME TypeOK, NEW w \in Workers, open_file(w) PROVE TypeOK'
<1>1. CASE send_error(w, 403) /\ UNCHANGED file_fd
  <2>1. /\ said' \in [Workers -> Seq(ResponseType)]
        /\ parts' \in [Workers -> Seq(PartType)]
        /\ total' \in [Workers -> Nat]
        /\ pc' \in [Workers -> Places]
    BY <1>1, ErrorType
  <2> QED
    BY <1>1, <2>1 DEF open_file, TypeOK, disk_vars, post_vars, socket_vars
<1>2. CASE /\ file_fd' = [file_fd EXCEPT ![w] = public[local_path[w]]]
           /\ Respond(w, 200, st_size[w], Announced(w), FileBody(w))
  <2>1. st_size[w] \in Nat /\ public[local_path[w]] \in Meanings
    BY DEF TypeOK
  <2>2. FileBody(w) \in Seq(PartType)
    BY <2>1, PartsType, ToIntFacts DEF FileBody
  <2>3. Announced(w) \in BOOLEAN /\ 200 \in Nat
    BY KeepAliveType
  <2>4. /\ said' \in [Workers -> Seq(ResponseType)]
        /\ parts' \in [Workers -> Seq(PartType)]
        /\ total' \in [Workers -> Nat]
        /\ pc' \in [Workers -> Places]
    BY <1>2, <2>1, <2>2, <2>3, RespondType
  <2> QED
    BY <1>2, <2>1, <2>4 DEF open_file, TypeOK, disk_vars, post_vars, socket_vars
<1> QED
  BY <1>1, <1>2 DEF open_file, FileBody

LEMMA EntryIsTyped ==
  ASSUME TypeOK, NEW w \in Workers, NEW what \in {"body", "newline"}
  PROVE  <<Id(w), what>> \in EntryType
  BY DEF TypeOK, EntryType, Id

LEMMA WriteType ==
  ASSUME TypeOK, NEW w \in Workers, NEW what \in {"body", "newline"}, NEW n \in {1, 2},
         Write(w, what, n) \/ Lost(w)
  PROVE  post_data' \in Seq(EntryType)
<1>1. post_data \in Seq(EntryType)
  BY DEF TypeOK
<1>2. CASE Lost(w)
  BY <1>1, <1>2 DEF Lost
<1>3. CASE Write(w, what, n)
  <2>1. post_data' = Append(post_data, <<Id(w), what>>)
    BY <1>3 DEF Write, Saved
  <2>2. <<Id(w), what>> \in EntryType
    BY EntryIsTyped
  <2> QED
    BY <1>1, <2>1, <2>2
<1> QED
  BY <1>2, <1>3

LEMMA PostType ==
  ASSUME TypeOK, NEW w \in Workers, post_open(w) \/ post_write(w) \/ post_newline(w)
  PROVE  TypeOK'
<1>1. CASE post_open(w)
  <2>1. CASE pc' = [pc EXCEPT ![w] = "write"] /\ UNCHANGED <<post_vars, said, send_vars>>
    BY <1>1, <2>1 DEF post_open, TypeOK, Places, request_vars, send_vars, disk_vars,
                      post_vars, socket_vars
  <2>2. CASE Lost(w) /\ send_created(w)
    <3>1. /\ said' \in [Workers -> Seq(ResponseType)]
          /\ parts' \in [Workers -> Seq(PartType)]
          /\ total' \in [Workers -> Nat]
          /\ pc' \in [Workers -> Places]
      BY <2>2, CreatedType
    <3> QED
      BY <1>1, <2>2, <3>1 DEF post_open, Lost, TypeOK, request_vars, disk_vars, socket_vars
  <2> QED
    BY <1>1, <2>1, <2>2 DEF post_open
<1>2. CASE post_write(w)
  <2>1. post_data' \in Seq(EntryType)
    BY <1>2, WriteType DEF post_write
  <2> QED
    BY <1>2, <2>1 DEF post_write, TypeOK, Places, request_vars, send_vars, disk_vars,
                      socket_vars
<1>3. CASE post_newline(w)
  <2>1. post_data' \in Seq(EntryType)
    BY <1>3, WriteType DEF post_newline
  <2>2. /\ said' \in [Workers -> Seq(ResponseType)]
        /\ parts' \in [Workers -> Seq(PartType)]
        /\ total' \in [Workers -> Nat]
        /\ pc' \in [Workers -> Places]
    BY <1>3, CreatedType DEF post_newline
  <2> QED
    BY <1>3, <2>1, <2>2 DEF post_newline, TypeOK, request_vars, disk_vars, socket_vars
<1> QED
  BY <1>1, <1>2, <1>3
-----------------------------------------------------------------------------
LEMMA HeadType ==
  ASSUME TypeOK, NEW w \in Workers, parts[w] # <<>>
  PROVE  Head(parts[w]) \in PartType /\ Tail(parts[w]) \in Seq(PartType)
  BY DEF TypeOK

LEMMA NextPartType ==
  ASSUME TypeOK, NEW w \in Workers, parts[w] # <<>>, NextPart(w)
  PROVE  parts' \in [Workers -> Seq(PartType)] /\ total' \in [Workers -> Nat]
  BY HeadType DEF TypeOK, NextPart

(* What is being sent was said.                                            *)
Answered == \A w \in Workers : pc[w] = "send" => said[w] # <<>>

LEMMA SendSomeType == ASSUME TypeOK, Answered, NEW w \in Workers, send_some(w) PROVE TypeOK'
<1>1. PICK n \in 1 .. SockBuf - unread[w] :
        /\ n <= Available(w)
        /\ unread' = [unread EXCEPT ![w] = @ + n]
        /\ wire' = [wire EXCEPT ![w] =
             @ \o [k \in 1 .. n |-> <<Len(said[w]), Base(w) + total[w] + k>>]]
        /\ IF n = Remaining(w) THEN NextPart(w)
           ELSE total' = [total EXCEPT ![w] = Advanced(w, n)] /\ UNCHANGED parts
  BY DEF send_some
<1>2. n \in Nat
  BY HandlerAssumption DEF TypeOK
<1>3. unread' \in [Workers -> Nat]
  BY <1>1, <1>2 DEF TypeOK
<1>4. Base(w) + total[w] \in Nat /\ Len(said[w]) \in Nat
  <2>1. said[w] \in Seq(ResponseType) /\ total[w] \in Nat /\ said[w] # <<>>
    BY DEF TypeOK, Answered, send_some, Sending
  <2>2. said[w][Len(said[w])] \in ResponseType
    BY <2>1
  <2>3. said[w][Len(said[w])].head \in Nat
    BY <2>2 DEF ResponseType
  <2> QED
    BY <2>1, <2>3 DEF Base
<1>5. [k \in 1 .. n |-> <<Len(said[w]), Base(w) + total[w] + k>>] \in Seq(Nat \X Nat)
  BY <1>2, <1>4
<1>6. wire' \in [Workers -> Seq(Nat \X Nat)]
  <2>1. wire[w] \in Seq(Nat \X Nat)
    BY DEF TypeOK
  <2>2. wire[w] \o [k \in 1 .. n |-> <<Len(said[w]), Base(w) + total[w] + k>>]
          \in Seq(Nat \X Nat)
    BY <1>5, <2>1
  <2> QED
    BY <1>1, <2>2 DEF TypeOK
<1>7. parts' \in [Workers -> Seq(PartType)] /\ total' \in [Workers -> Nat]
  <2>1. parts[w] # <<>>
    BY DEF send_some, Sending
  <2>2. CASE n = Remaining(w)
    BY <1>1, <2>1, <2>2, NextPartType
  <2>3. CASE n # Remaining(w)
    <3>1. total' = [total EXCEPT ![w] = total[w] + n] /\ UNCHANGED parts
      BY <1>1, <2>3 DEF Advanced
    <3> QED
      BY <1>2, <3>1 DEF TypeOK
  <2> QED
    BY <2>2, <2>3
<1> QED
  BY <1>3, <1>6, <1>7 DEF send_some, TypeOK, request_vars, disk_vars, post_vars

LEMMA GiveUpType ==
  ASSUME TypeOK, NEW w \in Workers, parts[w] # <<>>, NEW why \in {"full", "gone", "file"},
         GiveUp(w, why)
  PROVE  TypeOK'
<1>1. parts' \in [Workers -> Seq(PartType)] /\ total' \in [Workers -> Nat]
  BY NextPartType DEF GiveUp
<1>2. cut' \in [Workers -> SUBSET {"full", "gone", "file"}]
  BY DEF GiveUp, TypeOK
<1> QED
  BY <1>1, <1>2 DEF GiveUp, TypeOK, request_vars, disk_vars, post_vars, socket_vars

LEMMA FinishType == ASSUME TypeOK, NEW w \in Workers, finish(w) PROVE TypeOK'
  BY DEF finish, TypeOK, Places, Names, Meanings, keep_alive, RequestType, send_vars,
         disk_vars, post_vars

LEMMA NextType == TypeOK /\ Answered /\ [Next]_vars => TypeOK'
<1> SUFFICES ASSUME TypeOK, Answered, [Next]_vars PROVE TypeOK'
  OBVIOUS
<1>1. ASSUME NEW w \in Workers, Worker(w) PROVE TypeOK'
  <2>1. CASE handle(w)
    BY <2>1, HandleType
  <2>2. CASE post_open(w) \/ post_write(w) \/ post_newline(w)
    BY <2>2, PostType
  <2>3. CASE stat(w) \/ stat_again(w) \/ open_file(w)
    BY <2>3, StatType, StatAgainType, OpenFileType
  <2>4. CASE send_some(w)
    BY <2>4, SendSomeType
  <2>5. CASE send_all_again(w)
    BY <2>5, GiveUpType DEF send_all_again, Sending
  <2>6. CASE send_fails(w)
    BY <2>6, GiveUpType DEF send_fails, Sending
  <2>7. CASE send_file_eof(w)
    BY <2>7, GiveUpType DEF send_file_eof, Sending
  <2>8. CASE finish(w)
    BY <2>8, FinishType
  <2> QED
    BY <1>1, <2>1, <2>2, <2>3, <2>4, <2>5, <2>6, <2>7, <2>8 DEF Worker
<1>2. ASSUME NEW w \in Workers, Client(w) PROVE TypeOK'
  BY <1>2, ClientType
<1>3. CASE OtherPrograms
  BY <1>3, OtherType
<1>4. CASE UNCHANGED vars
  BY <1>4 DEF vars, TypeOK, request_vars, send_vars, disk_vars, post_vars, socket_vars
<1> QED
  BY <1>1, <1>2, <1>3, <1>4 DEF Next

-----------------------------------------------------------------------------
(* Connections.  A response that leads to a close announces it, from the   *)
(* moment it is composed.                                                  *)
Announcing ==
  \A w \in Workers :
    /\ closed[w] => pc[w] = "idle" /\ said[w] # <<>> /\ ~said[w][Len(said[w])].ka
    /\ pc[w] = "send" =>
         said[w] # <<>> /\ (req[w].close => ~said[w][Len(said[w])].ka)

LEMMA RespondAnnounces ==
  ASSUME TypeOK, Announcing, NEW w \in Workers, pc[w] # "idle",
         NEW status \in Nat, NEW cl \in Nat, NEW ka \in BOOLEAN, NEW body,
         Respond(w, status, cl, ka, body), UNCHANGED <<closed, req>>,
         req[w].close => ~ka
  PROVE  Announcing'
<1>1. ~closed[w]
  BY DEF Announcing
<1>2. /\ said'[w] # <<>> /\ said'[w][Len(said'[w])].ka = ka
      /\ pc'[w] = "send"
  <2> DEFINE r == Response(w, status, cl, ka)
  <2>1. r \in ResponseType /\ r.ka = ka
    BY ResponseFacts
  <2>2. said'[w] = Append(said[w], r) /\ pc'[w] = "send"
    BY DEF Respond, Response, TypeOK
  <2>3. said[w] \in Seq(ResponseType)
    BY DEF TypeOK
  <2> HIDE DEF r
  <2> QED
    BY <2>1, <2>2, <2>3
<1>3. \A v \in Workers \ {w} : said'[v] = said[v] /\ pc'[v] = pc[v]
  BY DEF TypeOK, Respond
<1> QED
  BY <1>1, <1>2, <1>3 DEF Announcing

(* The other steps of a worker do not answer, and do not close.            *)
LEMMA QuietAnnounces ==
  ASSUME TypeOK, Announcing, NEW w \in Workers, pc[w] # "idle", UNCHANGED <<closed, req, said>>,
         NEW place \in Places \ {"send"}, pc' = [pc EXCEPT ![w] = place]
  PROVE  Announcing'
  BY DEF TypeOK, Announcing

LEMMA ErrorAnnounces ==
  ASSUME TypeOK, Announcing, NEW w \in Workers, pc[w] # "idle", NEW code \in Nat,
         send_error(w, code), UNCHANGED <<closed, req>>
  PROVE  Announcing'
<1>1. Respond(w, code, TextLen, FALSE, Part("text", TextLen))
  BY DEF send_error
<1>2. TextLen \in Nat
  BY PartsType
<1> QED
  BY <1>1, <1>2, RespondAnnounces

LEMMA CreatedAnnounces ==
  ASSUME TypeOK, Announcing, NEW w \in Workers, pc[w] # "idle", send_created(w),
         UNCHANGED <<closed, req>>
  PROVE  Announcing'
<1>1. Respond(w, 201, TextLen, Announced(w), Part("text", TextLen))
  BY DEF send_created
<1>2. TextLen \in Nat /\ Announced(w) \in BOOLEAN /\ 201 \in Nat
  BY PartsType, KeepAliveType
<1>3. req[w].close => ~Announced(w)
  BY DEF Announced, keep_alive
<1> QED
  BY <1>1, <1>2, <1>3, RespondAnnounces

LEMMA WorkerAnnounces ==
  ASSUME TypeOK, Announcing, NEW w \in Workers, Worker(w)
  PROVE  Announcing'
<1>1. CASE handle(w)
  <2>1. CASE send_error(w, Rejection(req[w]))
    <3>1. Rejection(req[w]) \in Nat
      BY DEF Rejection
    <3>2. pc[w] # "idle" /\ UNCHANGED <<closed, req>>
      BY <1>1 DEF handle, request_vars, socket_vars
    <3> QED
      BY <2>1, <3>1, <3>2, ErrorAnnounces
  <2>2. CASE /\ pc' = [pc EXCEPT ![w] = IF req[w].method = "POST" THEN "post" ELSE "stat"]
             /\ UNCHANGED <<said, send_vars>>
    BY <1>1, <2>2, QuietAnnounces DEF handle, request_vars, socket_vars, Places
  <2> QED
    BY <1>1, <2>1, <2>2 DEF handle
<1>2. CASE post_open(w)
  <2>1. pc[w] # "idle" /\ UNCHANGED <<closed, req>>
    BY <1>2 DEF post_open, request_vars, socket_vars
  <2>2. CASE pc' = [pc EXCEPT ![w] = "write"] /\ UNCHANGED <<post_vars, said, send_vars>>
    BY <2>1, <2>2, QuietAnnounces DEF Places
  <2>3. CASE send_created(w)
    BY <2>1, <2>3, CreatedAnnounces
  <2> QED
    BY <1>2, <2>2, <2>3 DEF post_open
<1>3. CASE post_write(w)
  BY <1>3, QuietAnnounces DEF post_write, request_vars, socket_vars, Places
<1>4. CASE post_newline(w)
  BY <1>4, CreatedAnnounces DEF post_newline, request_vars, socket_vars
<1>5. CASE stat(w)
  <2>1. (IF IsFile(public["exact"]) THEN "open" ELSE "stat_again") \in Places \ {"send"}
    BY DEF Places
  <2>2. /\ pc[w] # "idle" /\ UNCHANGED <<closed, req, said>>
        /\ pc' = [pc EXCEPT ![w] = IF IsFile(public["exact"]) THEN "open" ELSE "stat_again"]
    BY <1>5 DEF stat, socket_vars
  <2> QED
    BY <2>1, <2>2, QuietAnnounces
<1>6. CASE stat_again(w)
  <2>1. pc[w] # "idle" /\ UNCHANGED <<closed, req>>
    BY <1>6 DEF stat_again, socket_vars
  <2>2. CASE pc' = [pc EXCEPT ![w] = "open"] /\ UNCHANGED <<said, send_vars>>
    BY <2>1, <2>2, QuietAnnounces DEF Places
  <2>3. CASE send_error(w, 404)
    BY <2>1, <2>3, ErrorAnnounces
  <2> QED
    BY <1>6, <2>2, <2>3 DEF stat_again
<1>7. CASE open_file(w)
  <2>1. pc[w] # "idle" /\ UNCHANGED <<closed, req>>
    BY <1>7 DEF open_file, socket_vars
  <2>2. CASE send_error(w, 403)
    BY <2>1, <2>2, ErrorAnnounces
  <2>3. CASE Respond(w, 200, st_size[w], Announced(w), FileBody(w))
    <3>1. st_size[w] \in Nat /\ Announced(w) \in BOOLEAN /\ 200 \in Nat
      BY KeepAliveType DEF TypeOK
    <3>2. req[w].close => ~Announced(w)
      BY DEF Announced, keep_alive
    <3> QED
      BY <2>1, <2>3, <3>1, <3>2, RespondAnnounces
  <2> QED
    BY <1>7, <2>2, <2>3 DEF open_file, FileBody
<1>8. CASE send_some(w)
  BY <1>8 DEF send_some, Announcing, request_vars
<1>9. CASE send_all_again(w) \/ send_fails(w) \/ send_file_eof(w)
  BY <1>9 DEF send_all_again, send_fails, send_file_eof, GiveUp, Announcing, request_vars,
              socket_vars
<1>10. CASE finish(w)
  <2>1. /\ pc[w] = "send" /\ UNCHANGED <<req, said>>
        /\ pc' = [pc EXCEPT ![w] = "idle"]
        /\ closed' = [closed EXCEPT ![w] = req[w].close]
    BY <1>10 DEF finish, keep_alive, TypeOK, RequestType
  <2> QED
    BY <2>1 DEF Announcing, TypeOK
<1> QED
  BY <1>1, <1>2, <1>3, <1>4, <1>5, <1>6, <1>7, <1>8, <1>9, <1>10 DEF Worker

LEMMA NextAnnounces == TypeOK /\ Announcing /\ [Next]_vars => Announcing'
<1> SUFFICES ASSUME TypeOK, Announcing, [Next]_vars PROVE Announcing'
  OBVIOUS
<1>1. ASSUME NEW w \in Workers, Worker(w) PROVE Announcing'
  BY <1>1, WorkerAnnounces
<1>2. ASSUME NEW w \in Workers, Client(w) PROVE Announcing'
  <2>1. CASE \E r \in Requests[w] : client_ask(w, r)
    BY <2>1 DEF client_ask, Announcing, TypeOK, socket_vars
  <2>2. CASE client_read(w)
    BY <2>2 DEF client_read, Announcing, request_vars
  <2>3. CASE client_leave(w)
    BY <2>3 DEF client_leave, Announcing, request_vars
  <2> QED
    BY <1>2, <2>1, <2>2, <2>3 DEF Client
<1>3. CASE OtherPrograms
  BY <1>3 DEF OtherPrograms, rename, rewrite, Announcing, request_vars, socket_vars
<1>4. CASE UNCHANGED vars
  BY <1>4 DEF vars, Announcing, request_vars, socket_vars
<1> QED
  BY <1>1, <1>2, <1>3, <1>4 DEF Next

(***************************************************************************)
(* The server closes a connection (thread_pool.c:214) only behind a        *)
(* response whose head said so (network.c:248), although the handler and   *)
(* the worker each compute keep_alive.                                     *)
(***************************************************************************)
THEOREM CloseIsAnnounced == Spec => []ClosesOnlyAnnounced
<1>1. Init => TypeOK /\ Announcing
  BY InitType DEF Init, Announcing
<1>2. TypeOK /\ Announcing /\ [Next]_vars => (TypeOK /\ Announcing)'
  BY NextType, NextAnnounces DEF Announcing, Answered
<1>3. TypeOK /\ Announcing => ClosesOnlyAnnounced
  BY DEF Announcing, ClosesOnlyAnnounced
<1> QED
  BY <1>1, <1>2, <1>3, PTL DEF Spec

-----------------------------------------------------------------------------
(* Bodies.  post_data.txt has entries of answered requests, and of a       *)
(* request that is being saved its body only; no entry twice.              *)
EntriesOwned ==
  \A p \in DOMAIN post_data :
    \E w \in Workers, n \in Nat, what \in {"body", "newline"} :
      /\ post_data[p] = <<<<w, n>>, what>>
      /\ \/ n <= Len(said[w])
         \/ n = Len(said[w]) + 1 /\ what = "body" /\ pc[w] = "newline"

EntriesOnce == \A p, q \in DOMAIN post_data : post_data[p] = post_data[q] => p = q

BodyWritten ==
  \A w \in Workers :
    pc[w] = "newline" /\ Id(w) \notin unsaved =>
      \E p \in DOMAIN post_data : post_data[p] = <<Id(w), "body">>

(* BodiesKept, said of places.                                             *)
PairKept(w, n) ==
  \E p, q \in DOMAIN post_data :
    p < q /\ post_data[p] = <<<<w, n>>, "body">> /\ post_data[q] = <<<<w, n>>, "newline">>

PairsKept ==
  \A w \in Workers : \A n \in DOMAIN said[w] :
    said[w][n].status = 201 /\ <<w, n>> \notin unsaved => PairKept(w, n)

Bodies == EntriesOwned /\ EntriesOnce /\ BodyWritten /\ PairsKept

LEMMA BodiesImply == ASSUME TypeOK, Bodies PROVE BodiesKept
<1> DEFINE places(w, n, what) == {p \in DOMAIN post_data : post_data[p] = <<<<w, n>>, what>>}
<1>1. ASSUME NEW w \in Workers, NEW n \in DOMAIN said[w],
             said[w][n].status = 201, <<w, n>> \notin unsaved
      PROVE  \E p, q \in DOMAIN post_data :
               p < q /\ places(w, n, "body") = {p} /\ places(w, n, "newline") = {q}
  <2>1. PICK p \in DOMAIN post_data, q \in DOMAIN post_data :
          /\ p < q
          /\ post_data[p] = <<<<w, n>>, "body">>
          /\ post_data[q] = <<<<w, n>>, "newline">>
    BY <1>1 DEF Bodies, PairsKept, PairKept
  <2>2. places(w, n, "body") = {p}
    BY <2>1 DEF Bodies, EntriesOnce
  <2>3. places(w, n, "newline") = {q}
    BY <2>1 DEF Bodies, EntriesOnce
  <2> QED
    BY <2>1, <2>2, <2>3
<1>2. \A w \in Workers : \A n \in DOMAIN said[w] :
        said[w][n].status = 201 /\ <<w, n>> \notin unsaved =>
          \E p, q \in DOMAIN post_data :
            p < q /\ places(w, n, "body") = {p} /\ places(w, n, "newline") = {q}
  <2> HIDE DEF places
  <2> QED
    BY <1>1
<1> QED
  BY <1>2, Zenon DEF BodiesKept

(* A step that neither answers nor enters or leaves the second write.      *)
LEMMA QuietBodies ==
  ASSUME TypeOK, Bodies, UNCHANGED <<post_data, unsaved, said>>,
         \A v \in Workers : pc'[v] = "newline" <=> pc[v] = "newline"
  PROVE  Bodies'
<1>1. EntriesOwned'
  BY DEF Bodies, EntriesOwned
<1>2. EntriesOnce'
  BY DEF Bodies, EntriesOnce
<1>3. BodyWritten'
  BY DEF Bodies, BodyWritten, Id
<1>4. PairsKept'
  BY DEF Bodies, PairsKept, PairKept
<1> QED
  BY <1>1, <1>2, <1>3, <1>4 DEF Bodies

(* What a response does to the history.                                    *)
LEMMA RespondSaid ==
  ASSUME TypeOK, NEW w \in Workers, NEW status \in Nat, NEW cl \in Nat,
         NEW ka \in BOOLEAN, NEW body, Respond(w, status, cl, ka, body)
  PROVE  /\ Len(said'[w]) = Len(said[w]) + 1
         /\ said'[w][Len(said[w]) + 1].status = status
         /\ \A n \in DOMAIN said[w] : said'[w][n] = said[w][n]
         /\ DOMAIN said'[w] = DOMAIN said[w] \cup {Len(said[w]) + 1}
         /\ \A v \in Workers \ {w} : said'[v] = said[v]
         /\ pc' = [pc EXCEPT ![w] = "send"]
<1> DEFINE r == Response(w, status, cl, ka)
<1>1. r \in ResponseType /\ r.status = status
  BY ResponseFacts
<1>2. said' = [said EXCEPT ![w] = Append(said[w], r)] /\ pc' = [pc EXCEPT ![w] = "send"]
  BY DEF Respond, Response
<1>3. said[w] \in Seq(ResponseType)
  BY DEF TypeOK
<1>4. said'[w] = Append(said[w], r) /\ \A v \in Workers \ {w} : said'[v] = said[v]
  BY <1>2 DEF TypeOK
<1> HIDE DEF r
<1> QED
  BY <1>1, <1>2, <1>3, <1>4

(* A response that is no 201, or whose body was lost.                      *)
LEMMA RespondBodies ==
  ASSUME TypeOK, Bodies, NEW w \in Workers, pc[w] # "newline",
         NEW status \in Nat, NEW cl \in Nat, NEW ka \in BOOLEAN, NEW body,
         Respond(w, status, cl, ka, body), UNCHANGED post_data,
         unsaved \subseteq unsaved', status # 201 \/ Id(w) \in unsaved'
  PROVE  Bodies'
<1>1. /\ Len(said'[w]) = Len(said[w]) + 1
      /\ said'[w][Len(said[w]) + 1].status = status
      /\ \A n \in DOMAIN said[w] : said'[w][n] = said[w][n]
      /\ DOMAIN said'[w] = DOMAIN said[w] \cup {Len(said[w]) + 1}
      /\ \A v \in Workers \ {w} : said'[v] = said[v]
      /\ pc' = [pc EXCEPT ![w] = "send"]
  BY RespondSaid
<1>2. \A v \in Workers : Len(said[v]) \in Nat /\ Len(said[v]) <= Len(said'[v])
  <2> TAKE v \in Workers
  <2>1. Len(said[v]) \in Nat
    BY DEF TypeOK
  <2>2. CASE v = w
    BY <1>1, <2>1, <2>2
  <2>3. CASE v # w
    BY <1>1, <2>1, <2>3
  <2> QED
    BY <2>1, <2>2, <2>3
<1>3. \A v \in Workers : v # w => pc'[v] = pc[v]
  BY <1>1 DEF TypeOK
<1>4. EntriesOwned'
  BY <1>1, <1>2, <1>3 DEF Bodies, EntriesOwned
<1>5. EntriesOnce'
  BY DEF Bodies, EntriesOnce
<1>6. BodyWritten'
  <2> SUFFICES ASSUME NEW v \in Workers, pc'[v] = "newline", Id(v)' \notin unsaved'
               PROVE  \E p \in DOMAIN post_data : post_data[p] = <<Id(v)', "body">>
    BY DEF BodyWritten
  <2>1. v # w /\ pc[v] = "newline"
    BY <1>1, <1>3 DEF TypeOK
  <2>2. Id(v)' = Id(v)
    BY <1>1, <2>1 DEF Id
  <2> QED
    BY <2>1, <2>2 DEF Bodies, BodyWritten
<1>7. PairsKept'
  <2> SUFFICES ASSUME NEW v \in Workers, NEW n \in DOMAIN said'[v],
                      said'[v][n].status = 201, <<v, n>> \notin unsaved'
               PROVE  PairKept(v, n)
    BY DEF PairsKept, PairKept
  <2>1. n \in DOMAIN said[v] /\ said'[v][n] = said[v][n]
    BY <1>1 DEF Id
  <2> QED
    BY <2>1 DEF Bodies, PairsKept
<1> QED
  BY <1>4, <1>5, <1>6, <1>7 DEF Bodies

LEMMA ErrorBodies ==
  ASSUME TypeOK, Bodies, NEW w \in Workers, pc[w] # "newline",
         NEW code \in Nat \ {201}, send_error(w, code), UNCHANGED post_vars
  PROVE  Bodies'
<1>1. Respond(w, code, TextLen, FALSE, Part("text", TextLen))
  BY DEF send_error
<1>2. TextLen \in Nat /\ UNCHANGED post_data /\ unsaved \subseteq unsaved'
  BY PartsType DEF post_vars
<1> QED
  BY <1>1, <1>2, RespondBodies

(* A new entry at the end of the file leaves what was said of the others.  *)
LEMMA Appended ==
  ASSUME TypeOK, NEW e \in EntryType, post_data' = Append(post_data, e)
  PROVE  /\ Len(post_data) \in Nat
         /\ DOMAIN post_data = 1 .. Len(post_data)
         /\ DOMAIN post_data' = 1 .. Len(post_data) + 1
         /\ post_data'[Len(post_data) + 1] = e
         /\ \A p \in DOMAIN post_data : post_data'[p] = post_data[p]
<1>1. post_data \in Seq(EntryType)
  BY DEF TypeOK
<1> QED
  BY <1>1

(* The two writes: nothing of this request stands in the file before the   *)
(* first, and its body only before the second.                             *)
LEMMA NoEntryBefore ==
  ASSUME TypeOK, Bodies, NEW w \in Workers, NEW p \in DOMAIN post_data,
         NEW what \in {"body", "newline"}, post_data[p] = <<Id(w), what>>
  PROVE  pc[w] = "newline" /\ what = "body"
<1>1. PICK v \in Workers, n \in Nat, x \in {"body", "newline"} :
        /\ post_data[p] = <<<<v, n>>, x>>
        /\ \/ n <= Len(said[v])
           \/ n = Len(said[v]) + 1 /\ x = "body" /\ pc[v] = "newline"
  BY DEF Bodies, EntriesOwned
<1>2. v = w /\ n = Len(said[w]) + 1 /\ x = what
  BY <1>1 DEF Id
<1>3. Len(said[w]) \in Nat
  BY DEF TypeOK
<1> QED
  BY <1>1, <1>2, <1>3

LEMMA FirstWrite ==
  ASSUME TypeOK, Bodies, NEW w \in Workers, post_write(w)
  PROVE  Bodies'
<1>1. /\ pc[w] = "write" /\ pc'[w] = "newline" /\ UNCHANGED said
      /\ \A v \in Workers \ {w} : pc'[v] = pc[v]
  BY DEF post_write, TypeOK
<1>2. \A v \in Workers : Id(v)' = Id(v)
  BY <1>1 DEF Id
<1>3. CASE Lost(w)
  <2>1. UNCHANGED post_data /\ unsaved' = unsaved \cup {Id(w)}
    BY <1>3 DEF Lost
  <2>2. EntriesOwned'
    BY <1>1, <2>1 DEF Bodies, EntriesOwned
  <2>3. EntriesOnce'
    BY <2>1 DEF Bodies, EntriesOnce
  <2>4. BodyWritten'
    <3> SUFFICES ASSUME NEW v \in Workers, pc'[v] = "newline", Id(v)' \notin unsaved'
                 PROVE  \E p \in DOMAIN post_data' : post_data'[p] = <<Id(v)', "body">>
      BY DEF BodyWritten
    <3>1. v # w /\ pc[v] = "newline" /\ Id(v) \notin unsaved
      BY <1>1, <1>2, <2>1
    <3> QED
      BY <1>2, <2>1, <3>1 DEF Bodies, BodyWritten
  <2>5. PairsKept'
    BY <1>1, <2>1 DEF Bodies, PairsKept, PairKept
  <2> QED
    BY <2>2, <2>3, <2>4, <2>5 DEF Bodies
<1>4. CASE Write(w, "body", 1)
  <2>1. post_data' = Append(post_data, <<Id(w), "body">>) /\ UNCHANGED unsaved
    BY <1>4 DEF Write, Saved
  <2>2. <<Id(w), "body">> \in EntryType
    BY EntryIsTyped
  <2> DEFINE new == Len(post_data) + 1
  <2>3. /\ Len(post_data) \in Nat
        /\ DOMAIN post_data = 1 .. Len(post_data)
        /\ DOMAIN post_data' = 1 .. new
        /\ post_data'[new] = <<Id(w), "body">>
        /\ \A p \in DOMAIN post_data : post_data'[p] = post_data[p]
    BY <2>1, <2>2, Appended
  <2>4. \A p \in DOMAIN post_data : post_data[p] # <<Id(w), "body">>
    BY <1>1, NoEntryBefore
  <2>5. EntriesOwned'
    <3> SUFFICES ASSUME NEW p \in DOMAIN post_data'
                 PROVE  \E v \in Workers, n \in Nat, what \in {"body", "newline"} :
                          /\ post_data'[p] = <<<<v, n>>, what>>
                          /\ \/ n <= Len(said[v])
                             \/ n = Len(said[v]) + 1 /\ what = "body" /\ pc'[v] = "newline"
      BY <1>1 DEF EntriesOwned
    <3>1. CASE p = new
      <4>1. Len(said[w]) + 1 \in Nat
        BY DEF TypeOK
      <4> QED
        BY <1>1, <2>3, <3>1, <4>1 DEF Id
    <3>2. CASE p # new
      <4>1. p \in DOMAIN post_data
        BY <2>3, <3>2
      <4> QED
        BY <1>1, <2>3, <4>1 DEF Bodies, EntriesOwned
    <3> QED
      BY <3>1, <3>2
  <2>6. EntriesOnce'
    <3> SUFFICES ASSUME NEW p \in 1 .. new, NEW q \in 1 .. new, post_data'[p] = post_data'[q]
                 PROVE  p = q
      BY <2>3 DEF EntriesOnce
    <3>1. CASE p = new \/ q = new
      BY <2>3, <2>4, <3>1
    <3>2. CASE p # new /\ q # new
      BY <2>3, <3>2 DEF Bodies, EntriesOnce
    <3> QED
      BY <3>1, <3>2
  <2>7. BodyWritten'
    <3> SUFFICES ASSUME NEW v \in Workers, pc'[v] = "newline", Id(v)' \notin unsaved'
                 PROVE  \E p \in DOMAIN post_data' : post_data'[p] = <<Id(v)', "body">>
      BY DEF BodyWritten
    <3>1. CASE v = w
      <4>1. new \in DOMAIN post_data' /\ post_data'[new] = <<Id(v)', "body">>
        BY <1>2, <2>3, <3>1
      <4> QED
        BY <4>1
    <3>2. CASE v # w
      <4>1. PICK p \in DOMAIN post_data : post_data[p] = <<Id(v), "body">>
        BY <1>1, <1>2, <2>1, <3>2 DEF Bodies, BodyWritten
      <4>2. p \in DOMAIN post_data' /\ post_data'[p] = <<Id(v)', "body">>
        BY <1>2, <2>3, <4>1
      <4> QED
        BY <4>2
    <3> QED
      BY <3>1, <3>2
  <2>8. PairsKept'
    <3> SUFFICES ASSUME NEW v \in Workers, NEW n \in DOMAIN said[v],
                        said[v][n].status = 201, <<v, n>> \notin unsaved
                 PROVE  PairKept(v, n)'
      BY <1>1, <2>1 DEF PairsKept
    <3>1. PICK p \in DOMAIN post_data, q \in DOMAIN post_data :
            /\ p < q
            /\ post_data[p] = <<<<v, n>>, "body">>
            /\ post_data[q] = <<<<v, n>>, "newline">>
      BY DEF Bodies, PairsKept, PairKept
    <3>2. /\ p \in DOMAIN post_data' /\ q \in DOMAIN post_data'
          /\ post_data'[p] = <<<<v, n>>, "body">> /\ post_data'[q] = <<<<v, n>>, "newline">>
      BY <2>3, <3>1
    <3> QED
      BY <3>1, <3>2 DEF PairKept
  <2> QED
    BY <2>5, <2>6, <2>7, <2>8 DEF Bodies
<1> QED
  BY <1>3, <1>4 DEF post_write

(* send_created, after the second write.                                   *)
LEMMA CreatedSaid ==
  ASSUME TypeOK, NEW w \in Workers, send_created(w)
  PROVE  /\ Len(said'[w]) = Len(said[w]) + 1
         /\ said'[w][Len(said[w]) + 1].status = 201
         /\ \A n \in DOMAIN said[w] : said'[w][n] = said[w][n]
         /\ DOMAIN said'[w] = DOMAIN said[w] \cup {Len(said[w]) + 1}
         /\ \A v \in Workers \ {w} : said'[v] = said[v]
         /\ pc' = [pc EXCEPT ![w] = "send"]
<1>1. Respond(w, 201, TextLen, Announced(w), Part("text", TextLen))
  BY DEF send_created
<1>2. TextLen \in Nat /\ Announced(w) \in BOOLEAN /\ 201 \in Nat
  BY PartsType, KeepAliveType
<1> QED
  BY <1>1, <1>2, RespondSaid

LEMMA SecondWrite ==
  ASSUME TypeOK, Bodies, NEW w \in Workers, post_newline(w)
  PROVE  Bodies'
<1>1. /\ Len(said'[w]) = Len(said[w]) + 1
      /\ said'[w][Len(said[w]) + 1].status = 201
      /\ \A n \in DOMAIN said[w] : said'[w][n] = said[w][n]
      /\ DOMAIN said'[w] = DOMAIN said[w] \cup {Len(said[w]) + 1}
      /\ \A v \in Workers \ {w} : said'[v] = said[v]
      /\ pc' = [pc EXCEPT ![w] = "send"]
  BY CreatedSaid DEF post_newline
<1>2. \A v \in Workers : Len(said[v]) \in Nat /\ Len(said[v]) <= Len(said'[v])
  <2> TAKE v \in Workers
  <2>1. Len(said[v]) \in Nat
    BY DEF TypeOK
  <2>2. CASE v = w
    BY <1>1, <2>1, <2>2
  <2>3. CASE v # w
    BY <1>1, <2>1, <2>3
  <2> QED
    BY <2>1, <2>2, <2>3
<1>3. pc[w] = "newline" /\ \A v \in Workers : v # w => pc'[v] = pc[v]
  BY <1>1 DEF TypeOK, post_newline
<1>4. \A v \in Workers : v # w => Id(v)' = Id(v)
  BY <1>1 DEF Id
<1>5. pc'[w] # "newline"
  BY <1>1 DEF TypeOK
<1>6. Id(w) = <<w, Len(said'[w])>>
  BY <1>1 DEF Id
<1>7. CASE Lost(w)
  <2>1. UNCHANGED post_data /\ unsaved' = unsaved \cup {Id(w)}
    BY <1>7 DEF Lost
  <2>2. EntriesOwned'
    <3> SUFFICES ASSUME NEW p \in DOMAIN post_data
                 PROVE  \E v \in Workers, n \in Nat, what \in {"body", "newline"} :
                          /\ post_data[p] = <<<<v, n>>, what>>
                          /\ \/ n <= Len(said'[v])
                             \/ n = Len(said'[v]) + 1 /\ what = "body" /\ pc'[v] = "newline"
      BY <2>1 DEF EntriesOwned
    <3>1. PICK v \in Workers, n \in Nat, what \in {"body", "newline"} :
            /\ post_data[p] = <<<<v, n>>, what>>
            /\ \/ n <= Len(said[v])
               \/ n = Len(said[v]) + 1 /\ what = "body" /\ pc[v] = "newline"
      BY DEF Bodies, EntriesOwned
    <3>2. CASE v = w
      <4>1. n <= Len(said'[v])
        BY <1>1, <1>2, <3>1, <3>2
      <4> QED
        BY <3>1, <4>1
    <3>3. CASE v # w
      BY <1>1, <1>3, <3>1, <3>3
    <3> QED
      BY <3>2, <3>3
  <2>3. EntriesOnce'
    BY <2>1 DEF Bodies, EntriesOnce
  <2>4. BodyWritten'
    <3> SUFFICES ASSUME NEW v \in Workers, pc'[v] = "newline", Id(v)' \notin unsaved'
                 PROVE  \E p \in DOMAIN post_data' : post_data'[p] = <<Id(v)', "body">>
      BY DEF BodyWritten
    <3>1. v # w /\ pc[v] = "newline" /\ Id(v) \notin unsaved
      BY <1>3, <1>4, <1>5, <2>1
    <3> QED
      BY <1>4, <2>1, <3>1 DEF Bodies, BodyWritten
  <2>5. PairsKept'
    <3> SUFFICES ASSUME NEW v \in Workers, NEW n \in DOMAIN said'[v],
                        said'[v][n].status = 201, <<v, n>> \notin unsaved'
                 PROVE  PairKept(v, n)
      BY <2>1 DEF PairsKept, PairKept
    <3>1. n \in DOMAIN said[v] /\ said'[v][n] = said[v][n]
      BY <1>1, <2>1 DEF Id
    <3> QED
      BY <2>1, <3>1 DEF Bodies, PairsKept
  <2> QED
    BY <2>2, <2>3, <2>4, <2>5 DEF Bodies
<1>8. CASE Write(w, "newline", 2)
  <2>1. post_data' = Append(post_data, <<Id(w), "newline">>) /\ UNCHANGED unsaved
    BY <1>8 DEF Write, Saved
  <2>2. <<Id(w), "newline">> \in EntryType
    BY EntryIsTyped
  <2> DEFINE new == Len(post_data) + 1
  <2>3. /\ Len(post_data) \in Nat
        /\ DOMAIN post_data = 1 .. Len(post_data)
        /\ DOMAIN post_data' = 1 .. new
        /\ post_data'[new] = <<Id(w), "newline">>
        /\ \A p \in DOMAIN post_data : post_data'[p] = post_data[p]
    BY <2>1, <2>2, Appended
  <2>4. \A p \in DOMAIN post_data : post_data[p] # <<Id(w), "newline">>
    BY NoEntryBefore
  <2>5. EntriesOwned'
    <3> SUFFICES ASSUME NEW p \in DOMAIN post_data'
                 PROVE  \E v \in Workers, n \in Nat, what \in {"body", "newline"} :
                          /\ post_data'[p] = <<<<v, n>>, what>>
                          /\ \/ n <= Len(said'[v])
                             \/ n = Len(said'[v]) + 1 /\ what = "body" /\ pc'[v] = "newline"
      BY DEF EntriesOwned
    <3>1. CASE p = new
      <4>1. Len(said'[w]) \in Nat /\ Len(said'[w]) <= Len(said'[w])
        BY <1>1, <1>2
      <4>2. post_data'[p] = <<<<w, Len(said'[w])>>, "newline">>
        BY <1>6, <2>3, <3>1
      <4> QED
        BY <4>1, <4>2
    <3>2. CASE p # new
      <4>1. p \in DOMAIN post_data /\ post_data'[p] = post_data[p]
        BY <2>3, <3>2
      <4>2. PICK v \in Workers, n \in Nat, what \in {"body", "newline"} :
              /\ post_data[p] = <<<<v, n>>, what>>
              /\ \/ n <= Len(said[v])
                 \/ n = Len(said[v]) + 1 /\ what = "body" /\ pc[v] = "newline"
        BY <4>1 DEF Bodies, EntriesOwned
      <4>3. CASE v = w
        <5>1. n <= Len(said'[v])
          BY <1>1, <1>2, <4>2, <4>3
        <5> QED
          BY <4>1, <4>2, <5>1
      <4>4. CASE v # w
        BY <1>1, <1>3, <4>1, <4>2, <4>4
      <4> QED
        BY <4>3, <4>4
    <3> QED
      BY <3>1, <3>2
  <2>6. EntriesOnce'
    <3> SUFFICES ASSUME NEW p \in 1 .. new, NEW q \in 1 .. new, post_data'[p] = post_data'[q]
                 PROVE  p = q
      BY <2>3 DEF EntriesOnce
    <3>1. CASE p = new \/ q = new
      BY <2>3, <2>4, <3>1
    <3>2. CASE p # new /\ q # new
      BY <2>3, <3>2 DEF Bodies, EntriesOnce
    <3> QED
      BY <3>1, <3>2
  <2>7. BodyWritten'
    <3> SUFFICES ASSUME NEW v \in Workers, pc'[v] = "newline", Id(v)' \notin unsaved'
                 PROVE  \E p \in DOMAIN post_data' : post_data'[p] = <<Id(v)', "body">>
      BY DEF BodyWritten
    <3>1. v # w /\ pc[v] = "newline" /\ Id(v) \notin unsaved
      BY <1>3, <1>4, <1>5, <2>1
    <3>2. PICK p \in DOMAIN post_data : post_data[p] = <<Id(v), "body">>
      BY <3>1 DEF Bodies, BodyWritten
    <3>3. p \in DOMAIN post_data' /\ post_data'[p] = <<Id(v)', "body">>
      BY <1>4, <2>3, <3>1, <3>2
    <3> QED
      BY <3>3
  <2>8. PairsKept'
    <3> SUFFICES ASSUME NEW v \in Workers, NEW n \in DOMAIN said'[v],
                        said'[v][n].status = 201, <<v, n>> \notin unsaved
                 PROVE  PairKept(v, n)'
      BY <2>1 DEF PairsKept
    <3>1. CASE v = w /\ n = Len(said'[w])
      <4>1. Id(w) = <<v, n>>
        BY <1>6, <3>1
      <4>2. PICK p \in DOMAIN post_data : post_data[p] = <<Id(w), "body">>
        BY <1>3, <4>1 DEF Bodies, BodyWritten
      <4>3. /\ p < new /\ p \in DOMAIN post_data' /\ new \in DOMAIN post_data'
            /\ post_data'[p] = <<<<v, n>>, "body">> /\ post_data'[new] = <<<<v, n>>, "newline">>
        BY <2>3, <4>1, <4>2
      <4> HIDE DEF new
      <4> QED
        BY <4>3 DEF PairKept
    <3>2. CASE ~(v = w /\ n = Len(said'[w]))
      <4>1. n \in DOMAIN said[v] /\ said'[v][n] = said[v][n]
        BY <1>1, <3>2
      <4>2. PICK p \in DOMAIN post_data, q \in DOMAIN post_data :
              /\ p < q
              /\ post_data[p] = <<<<v, n>>, "body">>
              /\ post_data[q] = <<<<v, n>>, "newline">>
        BY <4>1 DEF Bodies, PairsKept, PairKept
      <4>3. /\ p \in DOMAIN post_data' /\ q \in DOMAIN post_data'
            /\ post_data'[p] = <<<<v, n>>, "body">> /\ post_data'[q] = <<<<v, n>>, "newline">>
        BY <2>3, <4>2
      <4> QED
        BY <4>2, <4>3 DEF PairKept
    <3> QED
      BY <3>1, <3>2
  <2> QED
    BY <2>5, <2>6, <2>7, <2>8 DEF Bodies
<1> QED
  BY <1>7, <1>8 DEF post_newline

LEMMA WorkerBodies ==
  ASSUME TypeOK, Bodies, NEW w \in Workers, Worker(w)
  PROVE  Bodies'
<1>1. CASE handle(w)
  <2>1. pc[w] = "handle" /\ UNCHANGED post_vars
    BY <1>1 DEF handle
  <2>2. CASE Rejection(req[w]) # 0 /\ send_error(w, Rejection(req[w]))
    <3>1. Rejection(req[w]) \in Nat \ {201}
      BY DEF Rejection
    <3> HIDE DEF Rejection
    <3> QED
      BY <2>1, <2>2, <3>1, ErrorBodies
  <2>3. CASE /\ pc' = [pc EXCEPT ![w] = IF req[w].method = "POST" THEN "post" ELSE "stat"]
             /\ UNCHANGED <<said, send_vars>>
    BY <2>1, <2>3, QuietBodies DEF post_vars, TypeOK
  <2> QED
    BY <1>1, <2>2, <2>3 DEF handle
<1>2. CASE post_open(w)
  <2>1. CASE pc' = [pc EXCEPT ![w] = "write"] /\ UNCHANGED <<post_vars, said, send_vars>>
    BY <1>2, <2>1, QuietBodies DEF post_open, post_vars, TypeOK
  <2>2. CASE Lost(w) /\ send_created(w)
    <3>1. Respond(w, 201, TextLen, Announced(w), Part("text", TextLen))
      BY <2>2 DEF send_created
    <3>2. TextLen \in Nat /\ Announced(w) \in BOOLEAN /\ 201 \in Nat
      BY PartsType, KeepAliveType
    <3>3. UNCHANGED post_data /\ unsaved \subseteq unsaved' /\ Id(w) \in unsaved'
      BY <2>2 DEF Lost
    <3>4. pc[w] # "newline"
      BY <1>2 DEF post_open
    <3> QED
      BY <3>1, <3>2, <3>3, <3>4, RespondBodies
  <2> QED
    BY <1>2, <2>1, <2>2 DEF post_open
<1>3. CASE post_write(w)
  BY <1>3, FirstWrite
<1>4. CASE post_newline(w)
  BY <1>4, SecondWrite
<1>5. CASE stat(w)
  <2>1. /\ pc[w] = "stat" /\ UNCHANGED <<post_data, unsaved, said>>
        /\ pc' = [pc EXCEPT ![w] = IF IsFile(public["exact"]) THEN "open" ELSE "stat_again"]
    BY <1>5 DEF stat, post_vars
  <2> QED
    BY <2>1, QuietBodies DEF TypeOK
<1>6. CASE stat_again(w)
  <2>1. pc[w] = "stat_again" /\ UNCHANGED post_vars
    BY <1>6 DEF stat_again
  <2>2. CASE pc' = [pc EXCEPT ![w] = "open"] /\ UNCHANGED <<said, send_vars>>
    BY <2>1, <2>2, QuietBodies DEF post_vars, TypeOK
  <2>3. CASE send_error(w, 404)
    BY <2>1, <2>3, ErrorBodies
  <2> QED
    BY <1>6, <2>2, <2>3 DEF stat_again
<1>7. CASE open_file(w)
  <2>1. pc[w] = "open" /\ UNCHANGED post_vars
    BY <1>7 DEF open_file
  <2>2. CASE send_error(w, 403)
    BY <2>1, <2>2, ErrorBodies
  <2>3. CASE Respond(w, 200, st_size[w], Announced(w), FileBody(w))
    <3>1. st_size[w] \in Nat /\ Announced(w) \in BOOLEAN /\ 200 \in Nat
      BY KeepAliveType DEF TypeOK
    <3>2. UNCHANGED post_data /\ unsaved \subseteq unsaved'
      BY <2>1 DEF post_vars
    <3> QED
      BY <2>1, <2>3, <3>1, <3>2, RespondBodies
  <2> QED
    BY <1>7, <2>2, <2>3 DEF open_file, FileBody
<1>8. CASE send_some(w)
  BY <1>8, QuietBodies DEF send_some, post_vars
<1>9. CASE send_all_again(w) \/ send_fails(w) \/ send_file_eof(w)
  BY <1>9, QuietBodies DEF send_all_again, send_fails, send_file_eof, GiveUp, post_vars
<1>10. CASE finish(w)
  BY <1>10, QuietBodies DEF finish, post_vars, TypeOK
<1> QED
  BY <1>1, <1>2, <1>3, <1>4, <1>5, <1>6, <1>7, <1>8, <1>9, <1>10 DEF Worker

LEMMA NextBodies == TypeOK /\ Bodies /\ [Next]_vars => Bodies'
<1> SUFFICES ASSUME TypeOK, Bodies, [Next]_vars PROVE Bodies'
  OBVIOUS
<1>1. ASSUME NEW w \in Workers, Worker(w) PROVE Bodies'
  BY <1>1, WorkerBodies
<1>2. ASSUME NEW w \in Workers, Client(w) PROVE Bodies'
  <2>1. CASE \E r \in Requests[w] : client_ask(w, r)
    BY <2>1, QuietBodies DEF client_ask, post_vars, TypeOK
  <2>2. CASE client_read(w)
    BY <2>2, QuietBodies DEF client_read, post_vars
  <2>3. CASE client_leave(w)
    BY <2>3, QuietBodies DEF client_leave, post_vars
  <2> QED
    BY <1>2, <2>1, <2>2, <2>3 DEF Client
<1>3. CASE OtherPrograms
  BY <1>3, QuietBodies DEF OtherPrograms, rename, rewrite, post_vars
<1>4. CASE UNCHANGED vars
  BY <1>4, QuietBodies DEF vars, post_vars
<1> QED
  BY <1>1, <1>2, <1>3, <1>4 DEF Next

(***************************************************************************)
(* Every body answered with 201, none of whose calls failed, is in         *)
(* post_data.txt once and its newline once and behind it, for any number   *)
(* of workers that append to the file in two writes each                   *)
(* (http_handler.c:146-151).                                               *)
(***************************************************************************)
THEOREM BodiesAreKept == Spec => []BodiesKept
<1>1. Init => TypeOK /\ Announcing /\ Bodies
  BY InitType DEF Init, Announcing, Bodies, EntriesOwned, EntriesOnce, BodyWritten, PairsKept
<1>2. TypeOK /\ Announcing /\ Bodies /\ [Next]_vars => (TypeOK /\ Announcing /\ Bodies)'
  <2>1. Announcing => Answered
    BY DEF Announcing, Answered
  <2> QED
    BY <2>1, NextType, NextAnnounces, NextBodies
<1>3. TypeOK /\ Bodies => BodiesKept
  BY BodiesImply
<1> QED
  BY <1>1, <1>2, <1>3, PTL DEF Spec
-----------------------------------------------------------------------------
(***************************************************************************)
(* The framing of responses, proved for every number of workers, every     *)
(* socket buffer, every set of files and sizes and every change of them.   *)
(***************************************************************************)

(* What a worker at "open" knows of the file, and one at "send" of a file  *)
(* part, holds as long as nothing was changed.                             *)
FileKnown(w) ==
  /\ pc[w] = "open" /\ changes = 0 =>
       IsFile(public[local_path[w]]) /\ st_size[w] = size[public[local_path[w]]]
  /\ pc[w] = "send" => \A k \in DOMAIN parts[w] :
       parts[w][k].kind = "file" =>
         /\ file_fd[w] # Absent
         /\ changes = 0 => IsFile(file_fd[w]) /\ parts[w][k].len <= size[file_fd[w]]
  /\ "file" \in cut[w] => changes > 0

(* Only a GET or a HEAD gets to the files.                                 *)
MethodFits(w) ==
  pc[w] \in {"stat", "stat_again", "open"} => req[w].method \in {"GET", "HEAD"}

(* The units the server sends as the n-th response, whether a client can   *)
(* count them or not, and the one it sends behind a unit.                  *)
Sent(w, n) ==
  LET r == said[w][n]
  IN  r.head + IF (r.method = "HEAD" /\ r.status = 200) \/ r.announced < 0 THEN 0
               ELSE r.announced

Behind(w, unit) ==
  IF unit[2] = Sent(w, unit[1]) THEN <<unit[1] + 1, 1>> ELSE <<unit[1], unit[2] + 1>>

(* What is still to send is the rest of the latest response: its head and  *)
(* a body of the length that was announced.                                *)
HeadEnd(w) == said[w][Len(said[w])].head
BodyLen(w) == Sent(w, Len(said[w])) - HeadEnd(w)

IsHead(w, part) == part.kind = "head" /\ part.len = HeadEnd(w)
IsBody(w, part) == part.kind # "head" /\ part.len = BodyLen(w)

Rest(w) ==
  \/ Len(parts[w]) = 0
  \/ Len(parts[w]) = 1 /\ IsBody(w, parts[w][1])
  \/ Len(parts[w]) = 1 /\ IsHead(w, parts[w][1]) /\ BodyLen(w) = 0
  \/ Len(parts[w]) = 2 /\ IsHead(w, parts[w][1]) /\ IsBody(w, parts[w][2])

PartsFit(w) ==
  pc[w] = "send" => /\ said[w] # <<>>
                    /\ Rest(w)
                    /\ parts[w] # <<>> => total[w] < parts[w][1].len

(* The units on the wire belong to responses that were composed.           *)
UnitsKnown(w) ==
  \A k \in DOMAIN wire[w] :
    wire[w][k][1] \in 1 .. Len(said[w]) /\ wire[w][k][2] \in Nat \ {0}

(* The unit the client has to get next.                                    *)
NextUnit(w) == IF wire[w] = <<>> THEN <<1, 1>> ELSE Behind(w, wire[w][Len(wire[w])])

Successive(w) ==
  \A k \in DOMAIN wire[w] :
    wire[w][k] = IF k = 1 THEN <<1, 1>> ELSE Behind(w, wire[w][k - 1])

(* As long as nothing was cut it is the one the worker sends next.         *)
InStep(w) ==
  cut[w] = {} =>
    /\ Successive(w)
    /\ NextUnit(w) = IF pc[w] = "send" /\ parts[w] # <<>>
                     THEN <<Len(said[w]), Base(w) + total[w] + 1>>
                     ELSE <<Len(said[w]) + 1, 1>>

Framing(w) == MethodFits(w) /\ PartsFit(w) /\ UnitsKnown(w) /\ InStep(w)

FInv == TypeOK /\ \A w \in Workers : FileKnown(w) /\ Framing(w)
-----------------------------------------------------------------------------
(* A response a client can count is sent as it counts it.                  *)
LEMMA CountedAsSent ==
  ASSUME TypeOK, NEW w \in Workers, NEW n \in 1 .. Len(said[w]), Countable(said[w][n])
  PROVE  Sent(w, n) = Units(w, n)
<1>1. said[w][n] \in ResponseType
  BY DEF TypeOK
<1>2. said[w][n].announced >= 0
  BY <1>1 DEF Countable, ResponseType
<1> QED
  BY <1>1, <1>2 DEF Countable, Sent, Units, ResponseType

(* The responses come in order.                                            *)
LEMMA OldFirst ==
  ASSUME TypeOK, NEW w \in Workers, Successive(w), UnitsKnown(w),
         NEW k \in DOMAIN wire[w], k # 1
  PROVE  /\ k - 1 \in DOMAIN wire[w] /\ wire[w][k - 1][1] \in 1 .. Len(said[w])
         /\ wire[w][k - 1][1] <= wire[w][k][1]
<1>1. wire[w] \in Seq(Nat \X Nat)
  BY DEF TypeOK
<1>2. k - 1 \in DOMAIN wire[w]
  BY <1>1
<1>3. wire[w][k] = Behind(w, wire[w][k - 1]) /\ wire[w][k - 1][1] \in 1 .. Len(said[w])
  BY <1>2 DEF Successive, UnitsKnown
<1> QED
  BY <1>2, <1>3 DEF Behind

(* The invariant says what the property does.                              *)
LEMMA FramingSuffices == FInv => Framed
<1> SUFFICES ASSUME FInv, NEW w \in Workers
             PROVE  /\ "file" \in cut[w] => changes > 0
                    /\ cut[w] = {} =>
                         /\ \A k \in DOMAIN wire[w] :
                              CountableTo(w, wire[w][k][1]) =>
                                wire[w][k] = IF k = 1 THEN <<1, 1>>
                                             ELSE After(w, wire[w][k - 1])
                         /\ pc[w] = "idle" /\ said[w] # <<>> =>
                              LET last == Len(said[w])
                              IN  CountableTo(w, last) =>
                                    /\ wire[w] # <<>>
                                    /\ wire[w][Len(wire[w])] = <<last, Units(w, last)>>
  BY DEF Framed
<1>0. TypeOK /\ UnitsKnown(w) /\ InStep(w)
  BY DEF FInv, Framing
<1>1. "file" \in cut[w] => changes > 0
  BY DEF FInv, FileKnown
<1>2. ASSUME cut[w] = {}, NEW k \in DOMAIN wire[w], CountableTo(w, wire[w][k][1])
      PROVE  wire[w][k] = IF k = 1 THEN <<1, 1>> ELSE After(w, wire[w][k - 1])
  <2>1. Successive(w)
    BY <1>0, <1>2 DEF InStep
  <2>2. CASE k = 1
    BY <2>1, <2>2 DEF Successive
  <2>3. CASE k # 1
    <3> DEFINE before == wire[w][k - 1]
    <3>1. /\ k - 1 \in DOMAIN wire[w] /\ before[1] \in 1 .. Len(said[w])
          /\ before[1] <= wire[w][k][1]
      BY <1>0, <2>1, <2>3, OldFirst
    <3>2. wire[w][k] = Behind(w, before)
      BY <2>1, <2>3 DEF Successive
    <3>3. wire[w][k][1] \in Nat
      BY <1>0 DEF UnitsKnown
    <3> HIDE DEF before
    <3>4. before[1] \in 1 .. wire[w][k][1]
      BY <3>1, <3>3
    <3>5. Countable(said[w][before[1]])
      BY <1>2, <3>4 DEF CountableTo
    <3>6. Sent(w, before[1]) = Units(w, before[1])
      BY <1>0, <3>1, <3>5, CountedAsSent
    <3>7. After(w, before) = Behind(w, before)
      BY <3>6 DEF After, Behind
    <3> QED
      BY <2>3, <3>2, <3>7 DEF before
  <2> QED
    BY <2>2, <2>3
<1>3. ASSUME cut[w] = {}, pc[w] = "idle", said[w] # <<>>, CountableTo(w, Len(said[w]))
      PROVE  /\ wire[w] # <<>>
             /\ wire[w][Len(wire[w])] = <<Len(said[w]), Units(w, Len(said[w]))>>
  <2>1. NextUnit(w) = <<Len(said[w]) + 1, 1>>
    BY <1>0, <1>3 DEF InStep
  <2>2. Len(said[w]) \in Nat \ {0}
    BY <1>0, <1>3 DEF TypeOK
  <2>3. wire[w] # <<>>
    BY <2>1, <2>2 DEF NextUnit
  <2> DEFINE last == wire[w][Len(wire[w])]
  <2>4. Len(wire[w]) \in DOMAIN wire[w] /\ last \in Nat \X Nat
    BY <1>0, <2>3 DEF TypeOK
  <2>5. last[1] \in 1 .. Len(said[w]) /\ last[2] \in Nat \ {0}
    BY <1>0, <2>4 DEF UnitsKnown
  <2>6. Behind(w, last) = <<Len(said[w]) + 1, 1>>
    BY <2>1, <2>3 DEF NextUnit
  <2> HIDE DEF last
  <2>7. last[2] = Sent(w, last[1]) /\ last[1] = Len(said[w])
    <3>1. CASE last[2] = Sent(w, last[1])
      BY <2>2, <2>5, <2>6, <3>1 DEF Behind
    <3>2. CASE last[2] # Sent(w, last[1])
      BY <2>5, <2>6, <3>2 DEF Behind
    <3> QED
      BY <3>1, <3>2
  <2>8. last = <<last[1], last[2]>>
    BY <2>4
  <2>9. Sent(w, Len(said[w])) = Units(w, Len(said[w]))
    <3>1. Len(said[w]) \in 1 .. Len(said[w])
      BY <2>2
    <3>2. Countable(said[w][Len(said[w])])
      BY <1>3, <3>1 DEF CountableTo
    <3> QED
      BY <1>0, <3>1, <3>2, CountedAsSent
  <2> QED
    BY <2>3, <2>7, <2>8, <2>9 DEF last
<1> QED
  BY <1>1, <1>2, <1>3

-----------------------------------------------------------------------------
(* A worker's framing depends on what is its own.                          *)
LEMMA FramingOwn ==
  ASSUME NEW v \in Workers, Framing(v), pc'[v] = pc[v], req'[v] = req[v],
         parts'[v] = parts[v], total'[v] = total[v], said'[v] = said[v],
         wire'[v] = wire[v], cut'[v] = cut[v]
  PROVE  Framing(v)'
<1>1. MethodFits(v)' /\ UnitsKnown(v)'
  BY DEF Framing, MethodFits, UnitsKnown
<1>2. BodyLen(v)' = BodyLen(v) /\ HeadEnd(v)' = HeadEnd(v)
  BY DEF BodyLen, HeadEnd, Sent
<1>3. PartsFit(v)'
  BY <1>2 DEF Framing, PartsFit, Rest, IsHead, IsBody
<1>4. InStep(v)'
  <2>1. ASSUME NEW n PROVE Sent(v, n)' = Sent(v, n)
    BY DEF Sent
  <2>2. Successive(v) => Successive(v)'
    BY <2>1 DEF Successive, Behind
  <2>3. NextUnit(v)' = NextUnit(v)
    BY <2>1 DEF NextUnit, Behind
  <2>4. Base(v)' = Base(v)
    BY DEF Base
  <2> QED
    BY <2>2, <2>3, <2>4 DEF Framing, InStep
<1> QED
  BY <1>1, <1>3, <1>4 DEF Framing

(* A step that neither answers nor sends.                                  *)
LEMMA FramingQuiet ==
  ASSUME NEW w \in Workers, Framing(w),
         pc[w] # "send" \/ parts[w] = <<>>, pc'[w] # "send",
         UNCHANGED <<parts, total, said, wire, cut>>, MethodFits(w)'
  PROVE  Framing(w)'
<1>1. UnitsKnown(w)' /\ PartsFit(w)'
  BY DEF Framing, UnitsKnown, PartsFit
<1>2. InStep(w)'
  BY DEF Framing, InStep, Successive, NextUnit, Behind, Sent
<1> QED
  BY <1>1, <1>2 DEF Framing

-----------------------------------------------------------------------------
(* What a response sends behind its head: nothing, or one part as long as  *)
(* was announced; a HEAD for a file that was found has no body.            *)
BodyFits(w, status, cl, body) ==
  LET len == IF (req[w].method = "HEAD" /\ status = 200) \/ ToInt(cl) < 0 THEN 0
             ELSE ToInt(cl)
  IN  \/ len = 0 /\ body = <<>>
      \/ \E part \in PartType : body = <<part>> /\ part.kind # "head" /\ part.len = len

LEMMA RespondFrames ==
  ASSUME TypeOK, NEW w \in Workers, Framing(w), pc[w] # "send",
         NEW status \in Nat, NEW cl \in Nat, NEW ka \in BOOLEAN,
         NEW body \in Seq(PartType), BodyFits(w, status, cl, body),
         Respond(w, status, cl, ka, body), UNCHANGED <<wire, cut>>
  PROVE  Framing(w)'
<1> DEFINE r == Response(w, status, cl, ka)
           n == Len(said[w])
           len == IF (req[w].method = "HEAD" /\ status = 200) \/ ToInt(cl) < 0 THEN 0
                  ELSE ToInt(cl)
           head == HeadPart(w, status)
<1>1. /\ r \in ResponseType /\ said[w] \in Seq(ResponseType) /\ head \in PartType
      /\ head.kind = "head" /\ head.len = r.head
  <2>1. r \in ResponseType /\ r.head = Lines(w, status) /\ head \in PartType
    BY ResponseFacts
  <2>2. head.kind = "head" /\ head.len = Lines(w, status)
    BY DEF HeadPart
  <2> HIDE DEF r, head
  <2> QED
    BY <2>1, <2>2 DEF TypeOK
<1>2. /\ said'[w] = Append(said[w], r) /\ pc'[w] = "send" /\ total'[w] = 0
      /\ parts'[w] = <<head>> \o body
  <2>1. Part("head", Lines(w, status)) = <<head>>
    BY ResponseFacts
  <2> QED
    BY <2>1 DEF Respond, Response, TypeOK
<1>3. /\ n \in Nat /\ Len(said'[w]) = n + 1 /\ said'[w][n + 1] = r /\ said'[w] # <<>>
      /\ \A k \in 1 .. n : said'[w][k] = said[w][k]
  <2> HIDE DEF r
  <2>1. n \in Nat /\ Len(said'[w]) = n + 1 /\ said'[w][n + 1] = r
    BY <1>1, <1>2
  <2>2. \A k \in 1 .. n : said'[w][k] = said[w][k]
    BY <1>1, <1>2
  <2>3. said'[w] # <<>>
    BY <2>1
  <2> QED
    BY <2>1, <2>2, <2>3
<1>4. BodyLen(w)' = len /\ HeadEnd(w)' = r.head
  <2>1. /\ HeadEnd(w)' = r.head
        /\ BodyLen(w)' = (r.head + (IF (r.method = "HEAD" /\ r.status = 200)
                                         \/ r.announced < 0 THEN 0
                                    ELSE r.announced)) - r.head
    <3> HIDE DEF r, n, len, head
    <3>1. said'[w][Len(said'[w])] = r
      BY <1>3
    <3> QED
      BY <3>1 DEF BodyLen, HeadEnd, Sent
  <2>2. /\ r.method = req[w].method /\ r.status = status /\ r.announced = ToInt(cl)
        /\ r.head \in Nat /\ ToInt(cl) \in Int
    BY ResponseFacts, ToIntFacts DEF ResponseType
  <2> HIDE DEF r
  <2> QED
    BY <2>1, <2>2
<1>5. ASSUME NEW k \in 1 .. n PROVE Sent(w, k)' = Sent(w, k)
  BY <1>3 DEF Sent
<1>6. Rest(w)' /\ Len(parts'[w]) > 0 /\ parts'[w][1] = head
  <2> HIDE DEF r, len, head
  <2>1. CASE len = 0 /\ body = <<>>
    <3>1. Len(parts'[w]) = 1 /\ parts'[w][1] = head
      BY <1>1, <1>2, <2>1
    <3> QED
      BY <1>1, <1>4, <2>1, <3>1 DEF Rest, IsHead
  <2>2. CASE \E part \in PartType : body = <<part>> /\ part.kind # "head" /\ part.len = len
    <3>1. PICK part \in PartType : body = <<part>> /\ part.kind # "head" /\ part.len = len
      BY <2>2
    <3>2. Len(parts'[w]) = 2 /\ parts'[w][1] = head /\ parts'[w][2] = part
      BY <1>1, <1>2, <3>1
    <3> QED
      BY <1>1, <1>4, <3>1, <3>2 DEF Rest, IsHead, IsBody
  <2> QED
    BY <2>1, <2>2 DEF BodyFits, len
<1>7. MethodFits(w)' /\ PartsFit(w)'
  BY <1>1, <1>2, <1>3, <1>6 DEF MethodFits, PartsFit, PartType
<1>8. UnitsKnown(w)'
  BY <1>3 DEF Framing, UnitsKnown
<1>9. InStep(w)'
  <2> SUFFICES ASSUME cut[w] = {} PROVE InStep(w)'
    BY DEF InStep
  <2>1. wire[w] \in Seq(Nat \X Nat)
    BY DEF TypeOK
  <2>2. \A k \in DOMAIN wire[w] : Sent(w, wire[w][k][1])' = Sent(w, wire[w][k][1])
    BY <1>5 DEF Framing, UnitsKnown
  <2>3. Successive(w)'
    <3> SUFFICES ASSUME NEW k \in DOMAIN wire[w]
                 PROVE  wire[w][k] = IF k = 1 THEN <<1, 1>> ELSE Behind(w, wire[w][k - 1])'
      BY DEF Successive
    <3>1. wire[w][k] = IF k = 1 THEN <<1, 1>> ELSE Behind(w, wire[w][k - 1])
      BY DEF Framing, InStep, Successive
    <3>2. k # 1 => k - 1 \in DOMAIN wire[w]
      BY <2>1
    <3> QED
      BY <2>2, <3>1, <3>2 DEF Behind
  <2>4. NextUnit(w)' = <<n + 1, 1>>
    BY <2>1, <2>2 DEF Framing, InStep, NextUnit, Behind
  <2>5. Base(w)' = 0 /\ parts'[w] # <<>>
    <3>1. parts'[w] \in Seq(PartType)
      BY <1>1, <1>2
    <3> QED
      BY <1>1, <1>6, <3>1 DEF Base
  <2> QED
    BY <1>2, <1>3, <2>3, <2>4, <2>5 DEF InStep
<1> QED
  BY <1>7, <1>8, <1>9 DEF Framing

LEMMA ErrorFrames ==
  ASSUME TypeOK, NEW w \in Workers, Framing(w), pc[w] # "send",
         NEW code \in Nat \ {200}, send_error(w, code), UNCHANGED <<wire, cut>>
  PROVE  Framing(w)'
<1>1. TextLen \in Nat \ {0} /\ ToInt(TextLen) = TextLen
  BY HandlerAssumption, ToIntFacts
<1>2. BodyFits(w, code, TextLen, Part("text", TextLen))
  BY <1>1 DEF BodyFits, Part, PartType
<1> QED
  BY <1>1, <1>2, PartsType, RespondFrames DEF send_error

LEMMA CreatedFrames ==
  ASSUME TypeOK, NEW w \in Workers, Framing(w), pc[w] # "send",
         send_created(w), UNCHANGED <<wire, cut>>
  PROVE  Framing(w)'
<1>1. TextLen \in Nat \ {0} /\ ToInt(TextLen) = TextLen
  BY HandlerAssumption, ToIntFacts
<1>2. BodyFits(w, 201, TextLen, Part("text", TextLen))
  BY <1>1 DEF BodyFits, Part, PartType
<1>3. Announced(w) \in BOOLEAN
  BY KeepAliveType
<1> HIDE DEF Announced, BodyFits, Part, Respond
<1> QED
  BY <1>1, <1>2, <1>3, PartsType, RespondFrames DEF send_created

LEMMA HandleFrames ==
  ASSUME TypeOK, NEW w \in Workers, Framing(w), handle(w)
  PROVE  Framing(w)'
<1>1. pc[w] = "handle" /\ UNCHANGED <<req, wire, cut>>
  BY DEF handle, request_vars
<1>2. CASE Rejection(req[w]) # 0 /\ send_error(w, Rejection(req[w]))
  <2>1. Rejection(req[w]) \in Nat \ {200}
    BY DEF Rejection
  <2> HIDE DEF Rejection, send_error
  <2> QED
    BY <1>1, <1>2, <2>1, ErrorFrames
<1>3. CASE /\ Rejection(req[w]) = 0
           /\ pc' = [pc EXCEPT ![w] = IF req[w].method = "POST" THEN "post" ELSE "stat"]
           /\ UNCHANGED <<said, send_vars>>
  <2>1. req[w].method = "POST" \/ req[w].method \in {"GET", "HEAD"}
    BY <1>3 DEF Rejection
  <2>2. pc'[w] = IF req[w].method = "POST" THEN "post" ELSE "stat"
    BY <1>3 DEF TypeOK
  <2>3. MethodFits(w)' /\ pc'[w] # "send"
    BY <1>1, <2>1, <2>2 DEF MethodFits
  <2> QED
    BY <1>1, <1>3, <2>3, FramingQuiet DEF send_vars
<1> QED
  BY <1>2, <1>3 DEF handle

LEMMA PostFrames ==
  ASSUME TypeOK, NEW w \in Workers, Framing(w),
         post_open(w) \/ post_write(w) \/ post_newline(w)
  PROVE  Framing(w)'
<1>1. pc[w] \in {"post", "write", "newline"} /\ UNCHANGED <<req, wire, cut>>
  BY DEF post_open, post_write, post_newline, request_vars
<1>2. CASE send_created(w)
  BY <1>1, <1>2, CreatedFrames
<1>3. CASE /\ pc' = [pc EXCEPT ![w] = "write"] \/ pc' = [pc EXCEPT ![w] = "newline"]
           /\ UNCHANGED <<said, send_vars>>
  <2>1. pc'[w] \in {"write", "newline"}
    BY <1>3 DEF TypeOK
  <2>2. MethodFits(w)' /\ pc'[w] # "send"
    BY <2>1 DEF MethodFits
  <2> QED
    BY <1>1, <1>3, <2>2, FramingQuiet DEF send_vars
<1> QED
  BY <1>2, <1>3 DEF post_open, post_write, post_newline, send_vars

LEMMA StatFrames ==
  ASSUME TypeOK, NEW w \in Workers, Framing(w), stat(w)
  PROVE  Framing(w)'
<1>1. pc[w] = "stat" /\ UNCHANGED <<req, send_vars, said, wire, cut>>
  BY DEF stat
<1>2. pc'[w] \in {"open", "stat_again"}
  BY DEF stat, TypeOK
<1>3. MethodFits(w)' /\ pc'[w] # "send"
  BY <1>1, <1>2 DEF Framing, MethodFits
<1> QED
  BY <1>1, <1>3, FramingQuiet DEF send_vars

LEMMA StatAgainFrames ==
  ASSUME TypeOK, NEW w \in Workers, Framing(w), stat_again(w)
  PROVE  Framing(w)'
<1>1. pc[w] = "stat_again" /\ UNCHANGED <<req, wire, cut>>
  BY DEF stat_again
<1>2. CASE send_error(w, 404)
  BY <1>1, <1>2, ErrorFrames
<1>3. CASE pc' = [pc EXCEPT ![w] = "open"] /\ UNCHANGED <<said, send_vars>>
  <2>1. pc'[w] = "open"
    BY <1>3 DEF TypeOK
  <2>2. MethodFits(w)' /\ pc'[w] # "send"
    BY <1>1, <2>1 DEF Framing, MethodFits
  <2> QED
    BY <1>1, <1>3, <2>2, FramingQuiet DEF send_vars
<1> QED
  BY <1>2, <1>3 DEF stat_again

LEMMA OpenFileFrames ==
  ASSUME TypeOK, NEW w \in Workers, Framing(w), open_file(w)
  PROVE  Framing(w)'
<1>1. pc[w] = "open" /\ UNCHANGED <<req, wire, cut>>
  BY DEF open_file
<1>2. CASE send_error(w, 403)
  BY <1>1, <1>2, ErrorFrames
<1>3. CASE Respond(w, 200, st_size[w], Announced(w), FileBody(w))
  <2>1. st_size[w] \in Nat /\ 200 \in Nat /\ ToInt(st_size[w]) \in Int
    BY ToIntFacts DEF TypeOK
  <2>2. FileBody(w) \in Seq(PartType)
    BY <2>1, PartsType DEF FileBody
  <2>3. req[w].method \in {"GET", "HEAD"}
    BY <1>1 DEF Framing, MethodFits
  <2>4. BodyFits(w, 200, st_size[w], FileBody(w))
    BY <2>1, <2>3 DEF BodyFits, FileBody, Part, PartType
  <2>5. Announced(w) \in BOOLEAN
    BY KeepAliveType
  <2> HIDE DEF Announced, BodyFits, FileBody, Respond
  <2> QED
    BY <1>1, <1>3, <2>1, <2>2, <2>4, <2>5, RespondFrames
<1> QED
  BY <1>2, <1>3 DEF open_file, FileBody

-----------------------------------------------------------------------------
(* A call takes no more than what remains of the part.                     *)
LEMMA AvailableFits ==
  ASSUME TypeOK, NEW w \in Workers, FileKnown(w), PartsFit(w), pc[w] = "send",
         parts[w] # <<>>
  PROVE  /\ Head(parts[w]) = parts[w][1] /\ parts[w][1] \in PartType
         /\ Remaining(w) = parts[w][1].len - total[w]
         /\ Remaining(w) \in Nat \ {0} /\ total[w] \in Nat
         /\ Available(w) \in Nat /\ Available(w) <= Remaining(w)
<1>1. /\ Head(parts[w]) = parts[w][1] /\ parts[w][1] \in PartType
      /\ 1 \in DOMAIN parts[w] /\ total[w] \in Nat
  BY DEF TypeOK
<1>2. Remaining(w) = parts[w][1].len - total[w] /\ Remaining(w) \in Nat \ {0}
  BY <1>1 DEF PartsFit, Remaining, PartType
<1>3. parts[w][1].kind = "file" => file_fd[w] = Dir \/ size[file_fd[w]] \in Nat
  BY <1>1 DEF FileKnown, TypeOK, Meanings
<1>4. Available(w) \in Nat /\ Available(w) <= Remaining(w)
  BY <1>1, <1>2, <1>3 DEF Available
<1> QED
  BY <1>1, <1>2, <1>4

(* The part is finished: what follows is still the rest of the response.   *)
LEMMA NextPartFits ==
  ASSUME TypeOK, NEW w \in Workers, PartsFit(w), pc[w] = "send", parts[w] # <<>>,
         NextPart(w), UNCHANGED <<pc, said>>
  PROVE  PartsFit(w)'
<1>1. /\ parts[w] \in Seq(PartType)
      /\ parts'[w] = Tail(parts[w]) /\ total'[w] = 0
  BY DEF TypeOK, NextPart
<1>2. BodyLen(w)' = BodyLen(w)
  BY DEF BodyLen, HeadEnd, Sent
<1>3. /\ Len(parts'[w]) = Len(parts[w]) - 1
      /\ Len(parts[w]) > 1 => parts'[w][1] = parts[w][2] /\ parts[w][2] \in PartType
      /\ parts'[w] # <<>> => Len(parts[w]) > 1
  BY <1>1
<1>4. Len(parts[w]) \in Nat \ {0} /\ Rest(w) /\ said[w] # <<>>
  BY <1>1 DEF PartsFit
<1>5. Rest(w)'
  BY <1>2, <1>3, <1>4 DEF Rest, IsBody
<1>6. parts'[w] # <<>> => total'[w] < parts'[w][1].len
  BY <1>1, <1>3 DEF PartType
<1> QED
  BY <1>4, <1>5, <1>6 DEF PartsFit

LEMMA GiveUpFrames ==
  ASSUME TypeOK, NEW w \in Workers, Framing(w), pc[w] = "send", parts[w] # <<>>,
         NEW why, GiveUp(w, why)
  PROVE  Framing(w)'
<1>1. NextPart(w) /\ UNCHANGED <<pc, said, wire>>
  BY DEF GiveUp
<1>2. PartsFit(w)'
  BY <1>1, NextPartFits DEF Framing
<1>3. MethodFits(w)' /\ UnitsKnown(w)'
  BY <1>1 DEF Framing, MethodFits, UnitsKnown
<1>4. cut'[w] # {}
  BY DEF GiveUp, TypeOK
<1> QED
  BY <1>2, <1>3, <1>4 DEF Framing, InStep

LEMMA FinishFrames ==
  ASSUME TypeOK, NEW w \in Workers, Framing(w), finish(w)
  PROVE  Framing(w)'
<1>1. pc[w] = "send" /\ parts[w] = <<>> /\ UNCHANGED <<parts, total, said, wire, cut>>
  BY DEF finish, send_vars
<1>2. pc'[w] = "idle"
  BY DEF finish, TypeOK
<1>3. MethodFits(w)'
  BY <1>2 DEF MethodFits
<1> QED
  BY <1>1, <1>2, <1>3, FramingQuiet

-----------------------------------------------------------------------------
(* Where a part ends in its response: the last one at the end.             *)
LEMMA PartEnds ==
  ASSUME TypeOK, NEW w \in Workers, PartsFit(w), pc[w] = "send", parts[w] # <<>>
  PROVE  LET ends == Base(w) + parts[w][1].len
             units == Sent(w, Len(said[w]))
         IN  /\ Base(w) \in Nat /\ units \in Nat /\ Len(said[w]) \in Nat \ {0}
             /\ HeadEnd(w) \in Nat
             /\ Len(parts[w]) = 1 => ends = units
             /\ Len(parts[w]) # 1 => /\ Len(parts[w]) = 2 /\ ends = HeadEnd(w)
                                     /\ HeadEnd(w) < units
                                     /\ parts[w][2].kind # "head"
<1>1. parts[w] \in Seq(PartType) /\ said[w] \in Seq(ResponseType)
  BY DEF TypeOK
<1>2. said[w] # <<>> /\ Rest(w)
  BY DEF PartsFit
<1>3. /\ Len(said[w]) \in Nat \ {0} /\ said[w][Len(said[w])] \in ResponseType
      /\ HeadEnd(w) \in Nat \ {0}
  <2>1. Len(said[w]) \in Nat \ {0} /\ said[w][Len(said[w])] \in ResponseType
    BY <1>1, <1>2
  <2> QED
    BY <2>1 DEF HeadEnd, ResponseType
<1>4. Sent(w, Len(said[w])) \in Nat /\ BodyLen(w) = Sent(w, Len(said[w])) - HeadEnd(w)
  BY <1>1, <1>3 DEF Sent, ResponseType, BodyLen, HeadEnd
<1>5. Head(parts[w]) = parts[w][1] /\ parts[w][1] \in PartType
      /\ (Len(parts[w]) = 2 => parts[w][2] \in PartType) /\ Len(parts[w]) # 0
  BY <1>1
<1>6. Base(w) = IF parts[w][1].kind = "head" THEN 0 ELSE HeadEnd(w)
  BY <1>5 DEF Base, HeadEnd
<1>7. CASE Len(parts[w]) = 1 /\ IsBody(w, parts[w][1])
  BY <1>1, <1>3, <1>4, <1>6, <1>7 DEF IsBody
<1>8. CASE Len(parts[w]) = 1 /\ IsHead(w, parts[w][1]) /\ BodyLen(w) = 0
  BY <1>1, <1>3, <1>4, <1>6, <1>8 DEF IsHead
<1>9. CASE Len(parts[w]) = 2 /\ IsHead(w, parts[w][1]) /\ IsBody(w, parts[w][2])
  BY <1>1, <1>3, <1>4, <1>5, <1>6, <1>9 DEF IsHead, IsBody, PartType
<1> QED
  BY <1>2, <1>5, <1>7, <1>8, <1>9 DEF Rest

(* What a sequence holds behind which another one was put.                 *)
LEMMA ConcatFacts ==
  ASSUME NEW S, NEW old \in Seq(S), NEW more \in Seq(S), NEW all, all = old \o more
  PROVE  /\ Len(all) = Len(old) + Len(more) /\ DOMAIN all = 1 .. Len(old) + Len(more)
         /\ \A k \in 1 .. Len(old) : all[k] = old[k]
         /\ \A k \in 1 .. Len(more) : all[Len(old) + k] = more[k]
  OBVIOUS

LEMMA TailFacts ==
  ASSUME NEW S, NEW seq \in Seq(S)
  PROVE  /\ Len(seq) = 1 => Tail(seq) = <<>>
         /\ Len(seq) = 2 => Tail(seq) # <<>> /\ Head(Tail(seq)) = seq[2]
<1>1. CASE Len(seq) = 1
  <2>1. seq # <<>> /\ Tail(seq) \in Seq(S) /\ Len(Tail(seq)) = 0
    BY <1>1, HeadTailProperties
  <2> QED
    <3>1. Tail(seq) = <<>>
      BY <2>1, EmptySeq
    <3> QED
      BY <1>1, <3>1
<1>2. CASE Len(seq) = 2
  <2>1. seq # <<>>
    BY <1>2, EmptySeq
  <2>2. /\ Tail(seq) \in Seq(S) /\ Len(Tail(seq)) = 1
        /\ \A k \in 1 .. Len(Tail(seq)) : Tail(seq)[k] = seq[k + 1]
    BY <1>2, <2>1, HeadTailProperties
  <2>3. Tail(seq) # <<>>
    <3>1. Len(Tail(seq)) # 0
      BY <2>2
    <3> QED
      BY <3>1, EmptySeq
  <2>4. Tail(seq)[1] = seq[2]
    BY <2>2
  <2>5. Head(Tail(seq)) = Tail(seq)[1]
    BY <2>2, <2>3
  <2> QED
    BY <1>2, <2>3, <2>4, <2>5
<1> QED
  BY <1>1, <1>2

(* Sent in a row, behind a sequence that leads to the first of them.      *)
Chain(w, units) ==
  \A k \in DOMAIN units : units[k] = IF k = 1 THEN <<1, 1>> ELSE Behind(w, units[k - 1])

Row(w, N, at, n) ==
  \A j \in 1 .. n - 1 : Behind(w, <<N, at + j>>) = <<N, at + j + 1>>

Extends(all, old, N, at, n) ==
  /\ DOMAIN all = 1 .. Len(old) + n
  /\ \A k \in 1 .. Len(old) : all[k] = old[k]
  /\ \A j \in 1 .. n : all[Len(old) + j] = <<N, at + j>>

LEMMA SuccessiveExtends ==
  ASSUME NEW w, NEW old \in Seq(Nat \X Nat), NEW all, NEW N \in Nat, NEW at \in Nat,
         NEW n \in Nat \ {0}, Chain(w, old), Row(w, N, at, n), Extends(all, old, N, at, n),
         <<N, at + 1>> = IF old = <<>> THEN <<1, 1>> ELSE Behind(w, old[Len(old)])
  PROVE  Chain(w, all)
<1>0. /\ DOMAIN all = 1 .. Len(old) + n
      /\ \A k \in 1 .. Len(old) : all[k] = old[k]
      /\ \A j \in 1 .. n : all[Len(old) + j] = <<N, at + j>>
      /\ \A j \in 1 .. n - 1 : Behind(w, <<N, at + j>>) = <<N, at + j + 1>>
      /\ \A k \in 1 .. Len(old) :
           old[k] = IF k = 1 THEN <<1, 1>> ELSE Behind(w, old[k - 1])
  <2>1. DOMAIN old = 1 .. Len(old)
    OBVIOUS
  <2> QED
    BY <2>1 DEF Chain, Row, Extends
<1> SUFFICES ASSUME NEW k \in 1 .. Len(old) + n
             PROVE  all[k] = IF k = 1 THEN <<1, 1>> ELSE Behind(w, all[k - 1])
  BY <1>0 DEF Chain
<1>1. Len(old) \in Nat /\ (old = <<>> <=> Len(old) = 0)
  OBVIOUS
<1>2. CASE k \in 1 .. Len(old)
  <2>1. k # 1 => k - 1 \in 1 .. Len(old)
    BY <1>1, <1>2
  <2>2. k # 1 => all[k - 1] = old[k - 1]
    BY <1>0, <2>1
  <2> QED
    BY <1>0, <1>2, <2>2
<1>3. CASE k = Len(old) + 1
  <2>1. all[k] = <<N, at + 1>>
    BY <1>0, <1>3
  <2>2. old # <<>> => Len(old) \in 1 .. Len(old) /\ k - 1 = Len(old)
    BY <1>1, <1>3
  <2>3. old # <<>> => all[k - 1] = old[Len(old)]
    BY <1>0, <2>2
  <2>4. k = 1 <=> old = <<>>
    BY <1>1, <1>3
  <2> QED
    BY <2>1, <2>3, <2>4
<1>4. CASE k > Len(old) + 1
  <2>1. PICK j \in 2 .. n : k = Len(old) + j
    <3>1. k - Len(old) \in 2 .. n /\ k = Len(old) + (k - Len(old))
      BY <1>1, <1>4
    <3> QED
      BY <3>1
  <2>2. j \in 1 .. n /\ j - 1 \in 1 .. n - 1 /\ j - 1 \in 1 .. n /\ k # 1
        /\ k - 1 = Len(old) + (j - 1) /\ at + (j - 1) + 1 = at + j
    BY <1>1, <2>1
  <2>3. all[k] = <<N, at + j>> /\ all[k - 1] = <<N, at + (j - 1)>>
    BY <1>0, <2>1, <2>2
  <2>4. Behind(w, <<N, at + (j - 1)>>) = <<N, at + j>>
    BY <1>0, <2>2
  <2> QED
    BY <2>2, <2>3, <2>4
<1> QED
  BY <1>1, <1>2, <1>3, <1>4

LEMMA SendSomeFrames ==
  ASSUME TypeOK, NEW w \in Workers, FileKnown(w), Framing(w), send_some(w)
  PROVE  Framing(w)'
<1> DEFINE N == Len(said[w])
           at == Base(w) + total[w]
           len == parts[w][1].len
           old == wire[w]
           all == wire'[w]
<1>1. PICK n \in 1 .. SockBuf - unread[w] :
        /\ n <= Available(w)
        /\ wire' = [wire EXCEPT ![w] = @ \o [k \in 1 .. n |-> <<N, at + k>>]]
        /\ IF n = Remaining(w) THEN NextPart(w)
           ELSE total' = [total EXCEPT ![w] = Advanced(w, n)] /\ UNCHANGED parts
  BY DEF send_some
<1>2. /\ pc[w] = "send" /\ parts[w] # <<>> /\ PartsFit(w)
      /\ UNCHANGED <<pc, req, said, cut>>
  BY DEF send_some, Sending, Framing, request_vars
<1>3. /\ Remaining(w) = len - total[w] /\ Remaining(w) \in Nat \ {0} /\ total[w] \in Nat
      /\ n \in Nat \ {0} /\ n <= Remaining(w) /\ len \in Nat
  <2>1. n \in Nat \ {0}
    BY HandlerAssumption DEF TypeOK
  <2> QED
    BY <1>1, <1>2, <2>1, AvailableFits DEF PartType
<1>4. /\ Base(w) \in Nat /\ Sent(w, N) \in Nat /\ N \in Nat \ {0} /\ HeadEnd(w) \in Nat
      /\ Len(parts[w]) = 1 => Base(w) + len = Sent(w, N)
      /\ Len(parts[w]) # 1 => /\ Len(parts[w]) = 2 /\ Base(w) + len = HeadEnd(w)
                              /\ HeadEnd(w) < Sent(w, N)
                              /\ parts[w][2].kind # "head"
  BY <1>2, PartEnds
<1>5. at \in Nat /\ at = Base(w) + total[w]
  BY <1>3, <1>4
<1>6. /\ old \in Seq(Nat \X Nat) /\ DOMAIN old = 1 .. Len(old) /\ Len(old) \in Nat
      /\ DOMAIN all = 1 .. Len(old) + n
      /\ Len(all) = Len(old) + n
      /\ \A k \in 1 .. Len(old) : all[k] = old[k]
      /\ \A j \in 1 .. n : all[Len(old) + j] = <<N, at + j>>
  <2> DEFINE more == [k \in 1 .. n |-> <<N, at + k>>]
  <2>1. old \in Seq(Nat \X Nat) /\ all = old \o more
    BY <1>1 DEF TypeOK
  <2> HIDE DEF old, all, N, at
  <2>2. more \in Seq(Nat \X Nat) /\ Len(more) = n
    BY <1>3, <1>4, <1>5
  <2>3. \A k \in 1 .. n : more[k] = <<N, at + k>>
    OBVIOUS
  <2> HIDE DEF more
  <2>4. /\ Len(all) = Len(old) + Len(more) /\ DOMAIN all = 1 .. Len(old) + Len(more)
        /\ \A k \in 1 .. Len(old) : all[k] = old[k]
        /\ \A k \in 1 .. Len(more) : all[Len(old) + k] = more[k]
    <3> DEFINE Pairs == Nat \X Nat
    <3>1. old \in Seq(Pairs) /\ more \in Seq(Pairs) /\ all = old \o more
      BY <2>1, <2>2
    <3> HIDE DEF Pairs
    <3> QED
      BY <3>1, ConcatFacts
  <2>5. DOMAIN old = 1 .. Len(old) /\ Len(old) \in Nat
    BY <2>1
  <2> QED
    BY <2>1, <2>2, <2>3, <2>4, <2>5
<1>7. /\ NextUnit(w) = IF old = <<>> THEN <<1, 1>> ELSE Behind(w, old[Len(old)])
      /\ NextUnit(w)' = IF all = <<>> THEN <<1, 1>> ELSE Behind(w, all[Len(all)])
      /\ Successive(w) = \A k \in DOMAIN old :
           old[k] = IF k = 1 THEN <<1, 1>> ELSE Behind(w, old[k - 1])
      /\ Successive(w)' = \A k \in DOMAIN all :
           all[k] = IF k = 1 THEN <<1, 1>> ELSE Behind(w, all[k - 1])
      /\ UnitsKnown(w) = \A k \in DOMAIN old : old[k][1] \in 1 .. N /\ old[k][2] \in Nat \ {0}
      /\ UnitsKnown(w)' = \A k \in DOMAIN all : all[k][1] \in 1 .. N /\ all[k][2] \in Nat \ {0}
  <2>1. \A u : Behind(w, u)' = Behind(w, u)
    BY <1>2 DEF Behind, Sent
  <2> QED
    BY <1>2, <2>1 DEF NextUnit, Successive, UnitsKnown
<1>8. cut[w] = {} => Successive(w) /\ NextUnit(w) = <<N, at + 1>>
  BY <1>2 DEF Framing, InStep
<1>9. UnitsKnown(w)
  BY DEF Framing
<1> HIDE DEF N, at, old, all
<1>10. \A k \in DOMAIN all : k \in 1 .. Len(old) \/ \E j \in 1 .. n : k = Len(old) + j
  <2> SUFFICES ASSUME NEW k \in 1 .. Len(old) + n, k \notin 1 .. Len(old)
               PROVE  k - Len(old) \in 1 .. n /\ k = Len(old) + (k - Len(old))
    BY <1>6
  <2> QED
    BY <1>3, <1>6
<1>11. UnitsKnown(w)'
  <2>1. \A k \in 1 .. Len(old) : all[k][1] \in 1 .. N /\ all[k][2] \in Nat \ {0}
    BY <1>6, <1>7, <1>9
  <2>2. \A j \in 1 .. n : all[Len(old) + j][1] \in 1 .. N
                         /\ all[Len(old) + j][2] \in Nat \ {0}
    <3> SUFFICES ASSUME NEW j \in 1 .. n
                 PROVE  <<N, at + j>>[1] \in 1 .. N /\ <<N, at + j>>[2] \in Nat \ {0}
      BY <1>6
    <3> QED
      BY <1>3, <1>4, <1>5
  <2> QED
    BY <1>7, <1>10, <2>1, <2>2
<1>12. ASSUME cut[w] = {} PROVE Successive(w)'
  <2>1. \A j \in 1 .. n - 1 : Behind(w, <<N, at + j>>) = <<N, at + j + 1>>
    <3>1. \A j \in 1 .. n - 1 : at + j # Sent(w, N)
      BY <1>3, <1>4, <1>5
    <3> QED
      BY <3>1 DEF Behind
  <2>2. <<N, at + 1>> = IF old = <<>> THEN <<1, 1>> ELSE Behind(w, old[Len(old)])
    BY <1>7, <1>8, <1>12
  <2>3. \A k \in 1 .. Len(old) :
          old[k] = IF k = 1 THEN <<1, 1>> ELSE Behind(w, old[k - 1])
    BY <1>6, <1>7, <1>8, <1>12
  <2>4. \A k \in DOMAIN all : all[k] = IF k = 1 THEN <<1, 1>> ELSE Behind(w, all[k - 1])
    <3>1. N \in Nat /\ at \in Nat /\ n \in Nat \ {0} /\ old \in Seq(Nat \X Nat)
      BY <1>3, <1>4, <1>5, <1>6
    <3>2. Chain(w, old) /\ Row(w, N, at, n) /\ Extends(all, old, N, at, n)
      BY <1>6, <2>1, <2>3 DEF Chain, Row, Extends
    <3>3. Chain(w, all)
      BY <2>2, <3>1, <3>2, SuccessiveExtends
    <3> QED
      BY <3>3 DEF Chain
  <2> QED
    BY <1>7, <2>4
<1>13. MethodFits(w)'
  BY <1>2 DEF Framing, MethodFits
<1>14. PartsFit(w)'
  <2>1. CASE n = Remaining(w)
    BY <1>1, <1>2, <2>1, NextPartFits
  <2>2. CASE n # Remaining(w)
    <3>1. parts' = parts /\ total'[w] = total[w] + n
      BY <1>1, <2>2 DEF Advanced, TypeOK
    <3>2. BodyLen(w)' = BodyLen(w) /\ HeadEnd(w)' = HeadEnd(w)
      BY <1>2 DEF BodyLen, HeadEnd, Sent
    <3> QED
      BY <1>2, <1>3, <2>2, <3>1, <3>2 DEF PartsFit, Rest, IsBody, IsHead
  <2> QED
    BY <2>1, <2>2
<1>15. NextUnit(w)' = IF parts'[w] # <<>> THEN <<N, Base(w)' + total'[w] + 1>>
                      ELSE <<N + 1, 1>>
  <2>1. NextUnit(w)' = Behind(w, <<N, at + n>>)
    <3>1. all # <<>> /\ all[Len(all)] = <<N, at + n>>
      BY <1>3, <1>6
    <3> QED
      BY <1>7, <3>1
  <2>2. CASE n # Remaining(w)
    <3>1. parts' = parts /\ total'[w] = total[w] + n /\ Base(w)' = Base(w)
      BY <1>1, <1>2, <2>2 DEF Advanced, TypeOK, Base
    <3>2. at + n # Sent(w, N) /\ at + n = Base(w) + (total[w] + n)
      BY <1>3, <1>4, <1>5, <2>2
    <3>3. NextUnit(w)' = <<N, at + n + 1>>
      BY <2>1, <3>2 DEF Behind
    <3> QED
      BY <1>2, <3>1, <3>2, <3>3
  <2>3. CASE n = Remaining(w)
    <3>1. /\ parts[w] \in Seq(PartType) /\ parts'[w] = Tail(parts[w]) /\ total'[w] = 0
      BY <1>1, <2>3 DEF NextPart, TypeOK
    <3>2. at + n = Base(w) + len
      BY <1>3, <1>4, <1>5, <2>3
    <3>3. CASE Len(parts[w]) = 1
      <4>1. parts'[w] = <<>>
        BY <3>1, <3>3, TailFacts
      <4>2. NextUnit(w)' = <<N + 1, 1>>
        BY <1>4, <2>1, <3>2, <3>3 DEF Behind
      <4> QED
        BY <4>1, <4>2
    <3>4. CASE Len(parts[w]) # 1
      <4>1. parts'[w] # <<>> /\ Head(parts'[w]) = parts[w][2]
        BY <1>4, <3>1, <3>4, TailFacts
      <4>2. Base(w)' = HeadEnd(w)
        BY <1>2, <1>4, <3>4, <4>1 DEF Base, HeadEnd
      <4>3. NextUnit(w)' = <<N, HeadEnd(w) + 1>>
        BY <1>4, <2>1, <3>2, <3>4 DEF Behind
      <4> QED
        BY <1>4, <3>1, <4>1, <4>2, <4>3
    <3> QED
      BY <3>3, <3>4
  <2> QED
    BY <2>2, <2>3
<1>16. InStep(w)'
  BY <1>2, <1>12, <1>15 DEF InStep, N
<1> QED
  BY <1>11, <1>13, <1>14, <1>16 DEF Framing

-----------------------------------------------------------------------------
(* What a worker knows of its file depends on what is its own, and on the  *)
(* disk.                                                                   *)
LEMMA FileOwn ==
  ASSUME NEW v \in Workers, FileKnown(v), pc'[v] = pc[v], local_path'[v] = local_path[v],
         st_size'[v] = st_size[v], file_fd'[v] = file_fd[v], parts'[v] = parts[v],
         cut'[v] = cut[v], UNCHANGED disk_vars
  PROVE  FileKnown(v)'
  BY DEF FileKnown, disk_vars, IsFile

LEMMA FileQuiet ==
  ASSUME NEW w \in Workers, FileKnown(w), pc'[w] \notin {"open", "send"},
         UNCHANGED <<cut, changes>>
  PROVE  FileKnown(w)'
  BY DEF FileKnown

(* An answer without a file.                                               *)
LEMMA TextAnswer ==
  ASSUME TypeOK, NEW w \in Workers, FileKnown(w), NEW status, NEW ka,
         Respond(w, status, TextLen, ka, Part("text", TextLen)), UNCHANGED <<cut, changes>>
  PROVE  FileKnown(w)'
<1>1. /\ pc'[w] = "send" /\ HeadPart(w, status).kind = "head"
      /\ parts'[w] = <<HeadPart(w, status)>> \o <<[kind |-> "text", len |-> TextLen]>>
  <2>1. /\ Part("head", Lines(w, status)) = <<HeadPart(w, status)>>
        /\ Part("text", TextLen) = <<[kind |-> "text", len |-> TextLen]>>
    BY LinesType, HandlerAssumption DEF Part, HeadPart
  <2> QED
    BY <2>1 DEF Respond, HeadPart, TypeOK
<1>2. /\ DOMAIN parts'[w] = 1 .. 2
      /\ parts'[w][1].kind = "head" /\ parts'[w][2].kind = "text"
  BY <1>1
<1>3. \A k \in DOMAIN parts'[w] : parts'[w][k].kind # "file"
  BY <1>2
<1> QED
  BY <1>1, <1>3 DEF FileKnown

(* A finished part leaves parts that were known before.                    *)
LEMMA FileNextPart ==
  ASSUME TypeOK, NEW w \in Workers, FileKnown(w), pc[w] = "send", parts[w] # <<>>,
         NextPart(w) \/ UNCHANGED parts, "file" \in cut'[w] => changes > 0,
         UNCHANGED <<pc, file_fd, disk_vars>>
  PROVE  FileKnown(w)'
<1>1. parts[w] \in Seq(PartType)
  BY DEF TypeOK
<1>2. \A k \in DOMAIN parts'[w] : \E j \in DOMAIN parts[w] : parts'[w][k] = parts[w][j]
  <2>1. CASE parts'[w] = Tail(parts[w])
    <3>1. \A k \in DOMAIN parts'[w] : k + 1 \in DOMAIN parts[w]
                                      /\ parts'[w][k] = parts[w][k + 1]
      BY <1>1, <2>1
    <3> QED
      BY <3>1
  <2>2. CASE parts'[w] = parts[w]
    BY <2>2
  <2> QED
    BY <2>1, <2>2 DEF NextPart, TypeOK
<1> QED
  BY <1>2 DEF FileKnown, disk_vars, IsFile

LEMMA WorkerKnows ==
  ASSUME TypeOK, NEW w \in Workers, FileKnown(w), Framing(w), Worker(w)
  PROVE  FileKnown(w)'
<1>1. CASE handle(w)
  <2>1. UNCHANGED <<cut, changes>>
    BY <1>1 DEF handle, disk_vars
  <2>2. CASE send_error(w, Rejection(req[w]))
    <3>1. Rejection(req[w]) \in Nat
      BY DEF Rejection
    <3> HIDE DEF Rejection
    <3> QED
      BY <2>1, <2>2, <3>1, TextAnswer DEF send_error
  <2>3. CASE pc' = [pc EXCEPT ![w] = IF req[w].method = "POST" THEN "post" ELSE "stat"]
    <3>1. pc'[w] \in {"post", "stat"}
      BY <2>3 DEF TypeOK
    <3> QED
      BY <2>1, <3>1, FileQuiet
  <2> QED
    BY <1>1, <2>2, <2>3 DEF handle
<1>2. CASE post_open(w) \/ post_write(w) \/ post_newline(w)
  <2>1. UNCHANGED <<cut, changes>>
    BY <1>2 DEF post_open, post_write, post_newline, disk_vars
  <2>2. CASE send_created(w)
    BY <2>1, <2>2, TextAnswer, KeepAliveType DEF send_created
  <2>3. CASE pc' = [pc EXCEPT ![w] = "write"] \/ pc' = [pc EXCEPT ![w] = "newline"]
    <3>1. pc'[w] \in {"write", "newline"}
      BY <2>3 DEF TypeOK
    <3> QED
      BY <2>1, <3>1, FileQuiet
  <2> QED
    BY <1>2, <2>2, <2>3 DEF post_open, post_write, post_newline
<1>3. CASE stat(w)
  <2>1. UNCHANGED <<cut, disk_vars>>
    BY <1>3 DEF stat
  <2>2. CASE IsFile(public["exact"])
    <3>1. /\ pc'[w] = "open" /\ local_path'[w] = "exact"
          /\ st_size'[w] = size[public["exact"]]
      BY <1>3, <2>2 DEF stat, TypeOK
    <3> QED
      BY <2>1, <2>2, <3>1 DEF FileKnown, disk_vars, IsFile
  <2>3. CASE ~IsFile(public["exact"])
    <3>1. pc'[w] = "stat_again"
      BY <1>3, <2>3 DEF stat, TypeOK
    <3> QED
      BY <2>1, <3>1, FileQuiet DEF disk_vars
  <2> QED
    BY <2>2, <2>3
<1>4. CASE stat_again(w)
  <2>1. UNCHANGED <<cut, local_path, disk_vars>>
    BY <1>4 DEF stat_again
  <2>2. CASE send_error(w, 404)
    BY <2>1, <2>2, TextAnswer DEF send_error, disk_vars
  <2>3. CASE /\ IsFile(public[local_path[w]])
             /\ st_size' = [st_size EXCEPT ![w] = size[public[local_path[w]]]]
             /\ pc' = [pc EXCEPT ![w] = "open"]
    <3>1. pc'[w] = "open" /\ st_size'[w] = size[public[local_path[w]]]
      BY <2>3 DEF TypeOK
    <3> QED
      BY <2>1, <2>3, <3>1 DEF FileKnown, disk_vars, IsFile
  <2> QED
    BY <1>4, <2>2, <2>3 DEF stat_again
<1>5. CASE open_file(w)
  <2>1. pc[w] = "open" /\ UNCHANGED <<cut, local_path, st_size, disk_vars>>
    BY <1>5 DEF open_file
  <2>2. CASE send_error(w, 403)
    BY <2>1, <2>2, TextAnswer DEF send_error, disk_vars
  <2>3. CASE /\ public[local_path[w]] # Absent
             /\ file_fd' = [file_fd EXCEPT ![w] = public[local_path[w]]]
             /\ Respond(w, 200, st_size[w], Announced(w), FileBody(w))
    <3> DEFINE head == HeadPart(w, 200)
    <3>1. /\ pc'[w] = "send" /\ file_fd'[w] = public[local_path[w]]
          /\ parts'[w] = <<head>> \o FileBody(w) /\ head.kind = "head"
      <4>1. Part("head", Lines(w, 200)) = <<head>>
        BY LinesType DEF Part, HeadPart
      <4> QED
        BY <2>3, <4>1 DEF Respond, HeadPart, TypeOK
    <3>2. \/ FileBody(w) = <<>>
          \/ FileBody(w) = <<[kind |-> "file", len |-> ToInt(st_size[w])]>>
      BY DEF FileBody, Part
    <3> HIDE DEF head
    <3>3. \A k \in DOMAIN parts'[w] :
            parts'[w][k].kind = "file" => parts'[w][k].len = ToInt(st_size[w])
      <4>1. CASE FileBody(w) = <<>>
        <5>1. DOMAIN parts'[w] = 1 .. 1 /\ parts'[w][1].kind = "head"
          BY <3>1, <4>1
        <5> QED
          BY <5>1
      <4>2. CASE FileBody(w) = <<[kind |-> "file", len |-> ToInt(st_size[w])]>>
        <5>1. /\ DOMAIN parts'[w] = 1 .. 2 /\ parts'[w][1].kind = "head"
              /\ parts'[w][2].len = ToInt(st_size[w])
          BY <3>1, <4>2
        <5> QED
          BY <5>1
      <4> QED
        BY <3>2, <4>1, <4>2
    <3>4. ToInt(st_size[w]) <= st_size[w]
      BY ToIntFacts DEF TypeOK
    <3> QED
      BY <2>1, <2>3, <3>1, <3>3, <3>4 DEF FileKnown, disk_vars, IsFile
  <2> QED
    BY <1>5, <2>2, <2>3 DEF open_file, FileBody
<1>6. CASE send_some(w)
  <2>1. /\ pc[w] = "send" /\ parts[w] # <<>> /\ UNCHANGED <<pc, cut, file_fd, disk_vars>>
        /\ NextPart(w) \/ UNCHANGED parts
    BY <1>6 DEF send_some, Sending, request_vars
  <2>2. "file" \in cut'[w] => changes > 0
    BY <2>1 DEF FileKnown
  <2> QED
    BY <2>1, <2>2, FileNextPart
<1>7. ASSUME NEW why \in {"full", "gone"}, pc[w] = "send", parts[w] # <<>>, GiveUp(w, why)
      PROVE  FileKnown(w)'
  <2>1. NextPart(w) /\ UNCHANGED <<pc, file_fd, disk_vars>>
    BY <1>7 DEF GiveUp, request_vars
  <2>2. "file" \in cut'[w] => changes > 0
    BY <1>7 DEF GiveUp, FileKnown, TypeOK
  <2> QED
    BY <1>7, <2>1, <2>2, FileNextPart
<1>8. CASE send_file_eof(w)
  <2>1. /\ pc[w] = "send" /\ parts[w] # <<>> /\ Head(parts[w]).kind = "file"
        /\ Available(w) = 0 /\ NextPart(w) /\ UNCHANGED <<pc, file_fd, disk_vars>>
    BY <1>8 DEF send_file_eof, Sending, GiveUp, request_vars, EndsAtEof
  <2>2. changes > 0
    <3> SUFFICES ASSUME changes = 0 PROVE FALSE
      BY DEF TypeOK
    <3>1. /\ Head(parts[w]) = parts[w][1] /\ 1 \in DOMAIN parts[w]
          /\ Remaining(w) = parts[w][1].len - total[w]
          /\ Remaining(w) \in Nat \ {0} /\ total[w] \in Nat /\ parts[w][1].len \in Nat
      BY <2>1, AvailableFits DEF Framing, TypeOK, PartType
    <3>2. file_fd[w] \in Inodes /\ parts[w][1].len <= size[file_fd[w]]
      BY <2>1, <3>1 DEF FileKnown, IsFile
    <3>3. file_fd[w] # Dir /\ size[file_fd[w]] \in Nat
      BY <3>2, HandlerAssumption DEF TypeOK
    <3> QED
      <4>1. ~(size[file_fd[w]] <= total[w])
        BY <3>1, <3>2, <3>3
      <4> QED
        BY <2>1, <3>1, <3>2, <3>3, <4>1 DEF Available
  <2> QED
    BY <2>1, <2>2, FileNextPart
<1>9. CASE finish(w)
  <2>1. pc'[w] = "idle" /\ UNCHANGED <<cut, changes>>
    BY <1>9 DEF finish, TypeOK, disk_vars
  <2> QED
    BY <2>1, FileQuiet
<1> QED
  BY <1>1, <1>2, <1>3, <1>4, <1>5, <1>6, <1>7, <1>8, <1>9
     DEF Worker, send_all_again, send_fails, Sending

-----------------------------------------------------------------------------
(* A worker leaves alone what the others own.                              *)
Same(v) ==
  /\ pc'[v] = pc[v] /\ req'[v] = req[v] /\ parts'[v] = parts[v] /\ total'[v] = total[v]
  /\ said'[v] = said[v] /\ wire'[v] = wire[v] /\ cut'[v] = cut[v]
  /\ local_path'[v] = local_path[v] /\ st_size'[v] = st_size[v]
  /\ file_fd'[v] = file_fd[v]

LEMMA OthersSame ==
  ASSUME TypeOK, NEW w \in Workers, Worker(w), NEW v \in Workers \ {w}
  PROVE  Same(v) /\ UNCHANGED disk_vars
<1>1. CASE handle(w)
  BY <1>1 DEF handle, send_error, Respond, TypeOK, Same, request_vars, send_vars
<1>2. CASE post_open(w) \/ post_write(w) \/ post_newline(w)
  BY <1>2 DEF post_open, post_write, post_newline, send_created, Respond, TypeOK, Same,
              request_vars, send_vars
<1>3. CASE stat(w)
  BY <1>3 DEF stat, TypeOK, Same, send_vars
<1>4. CASE stat_again(w)
  BY <1>4 DEF stat_again, send_error, Respond, TypeOK, Same, send_vars
<1>5. CASE open_file(w)
  BY <1>5 DEF open_file, send_error, Respond, TypeOK, Same
<1>6. CASE send_some(w)
  BY <1>6 DEF send_some, NextPart, TypeOK, Same, request_vars
<1>7. CASE send_all_again(w) \/ send_fails(w) \/ send_file_eof(w)
  BY <1>7 DEF send_all_again, send_fails, send_file_eof, GiveUp, NextPart, TypeOK, Same,
              request_vars
<1>8. CASE finish(w)
  BY <1>8 DEF finish, TypeOK, Same, send_vars
<1> QED
  BY <1>1, <1>2, <1>3, <1>4, <1>5, <1>6, <1>7, <1>8 DEF Worker

LEMMA WorkerFrames ==
  ASSUME TypeOK, NEW w \in Workers, FileKnown(w), Framing(w), Worker(w)
  PROVE  Framing(w)'
<1>1. ASSUME NEW why, pc[w] = "send", parts[w] # <<>>, GiveUp(w, why) PROVE Framing(w)'
  BY <1>1, GiveUpFrames
<1>2. CASE send_all_again(w) \/ send_fails(w) \/ send_file_eof(w)
  BY <1>1, <1>2 DEF send_all_again, send_fails, send_file_eof, Sending
<1>3. CASE post_open(w) \/ post_write(w) \/ post_newline(w)
  BY <1>3, PostFrames
<1>4. CASE handle(w) \/ stat(w) \/ stat_again(w) \/ open_file(w)
  BY <1>4, HandleFrames, StatFrames, StatAgainFrames, OpenFileFrames
<1>5. CASE send_some(w)
  BY <1>5, SendSomeFrames
<1>6. CASE finish(w)
  BY <1>6, FinishFrames
<1> QED
  BY <1>2, <1>3, <1>4, <1>5, <1>6 DEF Worker

LEMMA FramingInit == Init => FInv
<1> SUFFICES ASSUME Init PROVE FInv
  OBVIOUS
<1>1. TypeOK
  BY InitType
<1>2. ASSUME NEW w \in Workers PROVE FileKnown(w) /\ Framing(w)
  <2>1. /\ pc[w] = "idle" /\ cut[w] = {} /\ said[w] = <<>> /\ wire[w] = <<>>
    BY DEF Init
  <2>2. FileKnown(w)
    BY <2>1 DEF FileKnown
  <2>3. InStep(w)
    BY <2>1 DEF InStep, Successive, NextUnit
  <2> QED
    BY <2>1, <2>2, <2>3 DEF Framing, MethodFits, PartsFit, UnitsKnown
<1> QED
  BY <1>1, <1>2 DEF FInv

LEMMA FramingNext == FInv /\ [Next]_vars => FInv'
<1> SUFFICES ASSUME FInv, [Next]_vars PROVE FInv'
  OBVIOUS
<1>1. TypeOK /\ \A w \in Workers : FileKnown(w) /\ Framing(w)
  BY DEF FInv
<1>2. TypeOK'
  <2>1. Answered
    BY <1>1 DEF Answered, Framing, PartsFit
  <2> QED
    BY <1>1, <2>1, NextType
<1>3. ASSUME NEW v \in Workers, Same(v) PROVE Framing(v)'
  BY <1>1, <1>3, FramingOwn DEF Same
<1>4. ASSUME NEW v \in Workers, Same(v), UNCHANGED disk_vars PROVE FileKnown(v)'
  BY <1>1, <1>4, FileOwn DEF Same
<1>5. ASSUME NEW w \in Workers, Worker(w), NEW v \in Workers
      PROVE  FileKnown(v)' /\ Framing(v)'
  <2>1. CASE v = w
    BY <1>1, <1>5, <2>1, WorkerKnows, WorkerFrames
  <2>2. CASE v # w
    <3>1. Same(v) /\ UNCHANGED disk_vars
      BY <1>1, <1>5, <2>2, OthersSame
    <3> QED
      BY <1>3, <1>4, <3>1
  <2> QED
    BY <2>1, <2>2
<1>6. ASSUME NEW w \in Workers, Client(w), NEW v \in Workers
      PROVE  FileKnown(v)' /\ Framing(v)'
  <2>1. CASE \E r \in Requests[w] : client_ask(w, r)
    <3>1. PICK r \in Requests[w] : client_ask(w, r)
      BY <2>1
    <3>2. /\ pc[w] = "idle" /\ pc'[w] = "handle"
          /\ UNCHANGED <<parts, total, said, wire, cut, changes>>
      BY <1>1, <3>1 DEF client_ask, TypeOK, send_vars, disk_vars
    <3>3. CASE v = w
      <4>1. MethodFits(w)'
        BY <3>2 DEF MethodFits
      <4> QED
        BY <1>1, <3>2, <3>3, <4>1, FileQuiet, FramingQuiet
    <3>4. CASE v # w
      <4>1. Same(v) /\ UNCHANGED disk_vars
        BY <1>1, <3>1, <3>4 DEF client_ask, TypeOK, Same, send_vars
      <4> QED
        BY <1>3, <1>4, <4>1
    <3> QED
      BY <3>3, <3>4
  <2>2. CASE client_read(w) \/ client_leave(w)
    <3>1. Same(v) /\ UNCHANGED disk_vars
      BY <2>2 DEF client_read, client_leave, Same, request_vars, send_vars
    <3> QED
      BY <1>3, <1>4, <3>1
  <2> QED
    BY <1>6, <2>1, <2>2 DEF Client
<1>7. ASSUME OtherPrograms, NEW v \in Workers PROVE FileKnown(v)' /\ Framing(v)'
  <2>1. UNCHANGED <<pc, request_vars, send_vars, said, wire, cut>> /\ changes' > 0
    BY <1>1, <1>7 DEF OtherPrograms, rename, rewrite, TypeOK
  <2>2. FileKnown(v)'
    BY <1>1, <2>1 DEF FileKnown, request_vars, send_vars
  <2>3. Same(v)
    BY <2>1 DEF Same, request_vars, send_vars
  <2> QED
    BY <1>3, <2>2, <2>3
<1>8. ASSUME UNCHANGED vars, NEW v \in Workers PROVE FileKnown(v)' /\ Framing(v)'
  BY <1>3, <1>4, <1>8 DEF vars, Same, request_vars, send_vars
<1> QED
  BY <1>2, <1>5, <1>6, <1>7, <1>8 DEF FInv, Next

(***************************************************************************)
(* Responses that were not cut follow each other on the connection with as *)
(* many bytes as their heads announce, up to the first one whose framing   *)
(* the code gets wrong (an error for a HEAD, a 201 for a long URI, a file  *)
(* larger than an int), and a file is only cut short when it was changed:  *)
(* for any number of workers, sizes, changes and buffers.                  *)
(***************************************************************************)
THEOREM ResponsesFramed == Spec => []Framed
<1>1. Spec => []FInv
  BY FramingInit, FramingNext, PTL DEF Spec
<1> QED
  BY <1>1, FramingSuffices, PTL
=============================================================================
