---------------------------- MODULE LoggerProofs ----------------------------
(***************************************************************************)
(* The logger, proved for every set of threads and every number of calls:  *)
(* no call works on a closed stream, no FILE is lost, and the calls take   *)
(* effect one at a time, as LogSink promises.                              *)
(***************************************************************************)
EXTENDS Logger, FiniteSetTheorems, SequenceTheorems, TLAPS

-----------------------------------------------------------------------------
(* The inductive invariant.                                                *)

Places == {"idle", "lock", "body", "set", "flush", "clear"}
Inside == {"body", "set", "flush", "clear"}

(* log_mutex excludes: its owner is the one thread inside a body.          *)
MutexInv == \A t \in Threads : pc[t] \in Inside <=> log_mutex = t

(* Each call opens at most one file, and only in its body.                 *)
MayOpen == {t \in Threads : pc[t] \in {"lock", "body"}}
CountInv == IsFiniteSet(MayOpen) /\ files + Cardinality(MayOpen) <= calls

(* The open FILE, the flag and the places of a body agree.                 *)
StreamInv ==
  /\ open \subseteq {log_stream} \cap (1 .. files)
  /\ \A t \in Threads :
       /\ pc[t] = "set" => ~logger_initialized /\ StreamOpen
       /\ pc[t] = "flush" => logger_initialized /\ StreamOpen
       /\ pc[t] = "clear" => logger_initialized /\ open = {}
  /\ (\A t \in Threads : pc[t] \notin {"set", "clear"}) =>
       IF logger_initialized THEN StreamOpen ELSE open = {}

(* Only the line of a thread between fprintf and fflush is in a buffer.    *)
BufferInv ==
  /\ \A s \in Files \cup {STDOUT} :
       buffer[s] = <<>> \/ (s = log_stream /\ \E t \in Threads : pc[t] = "flush")
  /\ \A t \in Threads : pc[t] = "flush" => buffer[log_stream] = <<t>>

(* Only logger_destroy clears.                                             *)
OpInv == \A t \in Threads : pc[t] = "clear" => op[t] = "destroy"

Inv == TypeOK /\ MutexInv /\ CountInv /\ StreamInv /\ BufferInv /\ OpInv
-----------------------------------------------------------------------------
(* Types.                                                                  *)

Lines == [to : Dests, by : Threads]

LEMMA Constants ==
  /\ MaxCalls \in Nat /\ NULL # STDOUT /\ UNLOCKED \notin Threads
  /\ \A n \in Nat : n # NULL /\ n # STDOUT
  /\ STDOUT \notin Files /\ NULL \notin Files /\ Files \subseteq Nat
  BY LoggerAssumption DEF Files

(* A buffer that holds one line, or none, and what flushing it writes.     *)
LEMMA FlushOne ==
  ASSUME NEW s, NEW t \in Threads, buffer[s] = <<t>>, output \in Seq(Lines)
  PROVE  /\ [to |-> Dest(s), by |-> t] \in Lines
         /\ Flushed(s) = Append(output, [to |-> Dest(s), by |-> t])
         /\ Flushed(s) \in Seq(Lines)
<1> DEFINE line == [to |-> Dest(s), by |-> t]
<1>1. line \in Lines
  BY DEF Lines, Dest, Dests
<1>2. [n \in 1 .. Len(buffer[s]) |-> [to |-> Dest(s), by |-> buffer[s][n]]] = <<line>>
  OBVIOUS
<1> HIDE DEF line
<1>3. Append(output, line) = output \o <<line>> /\ Append(output, line) \in Seq(Lines)
  BY <1>1, AppendIsConcat, AppendProperties
<1> QED
  BY <1>1, <1>2, <1>3 DEF Flushed, line

LEMMA FlushNone ==
  ASSUME NEW s, buffer[s] = <<>>, output \in Seq(Lines)
  PROVE  Flushed(s) = output
<1>1. [n \in 1 .. Len(buffer[s]) |-> [to |-> Dest(s), by |-> buffer[s][n]]] = <<>>
  OBVIOUS
<1>2. output \o <<>> = output
  BY ConcatEmptySeq
<1> QED
  BY <1>1, <1>2 DEF Flushed

(* Only one thread is inside.                                              *)
LEMMA Alone ==
  ASSUME MutexInv, NEW t \in Threads, pc[t] \in Inside
  PROVE  log_mutex = t /\ \A u \in Threads : pc[u] \in Inside => u = t
  BY DEF MutexInv

(* A file can be opened for every call that has not opened one.            *)
LEMMA RoomForAFile ==
  ASSUME TypeOK, CountInv, NEW t \in Threads, pc[t] = "body"
  PROVE  /\ files \in Nat /\ calls \in Nat /\ files + 1 \in Files
         /\ files + 1 \in 0 .. MaxCalls /\ files + 1 <= calls
<1>1. t \in MayOpen
  BY DEF MayOpen
<1>2. Cardinality(MayOpen) \in Nat /\ Cardinality(MayOpen) # 0
  BY <1>1, FS_CardinalityType, FS_EmptySet DEF CountInv
<1>3. files \in Nat /\ calls \in Nat /\ calls <= MaxCalls /\ MaxCalls \in Nat
  BY Constants DEF TypeOK
<1> QED
  BY <1>2, <1>3 DEF CountInv, Files

-----------------------------------------------------------------------------
(* Where a step takes its thread.                                          *)

Moves(t, place) == pc'[t] = place /\ \A u \in Threads \ {t} : pc'[u] = pc[u]

LEMMA MoveFacts ==
  ASSUME TypeOK, NEW t \in Threads, NEW place \in Places,
         pc' = [pc EXCEPT ![t] = place]
  PROVE  Moves(t, place) /\ pc' \in [Threads -> Places]
  BY DEF TypeOK, Moves, Places

LEMMA ReturnFacts ==
  ASSUME TypeOK, NEW t \in Threads, NEW r \in {"ok", "error", "logged"}, Return(t, r)
  PROVE  /\ Moves(t, "idle") /\ pc' \in [Threads -> Places] /\ log_mutex' = UNLOCKED
         /\ reply' = [reply EXCEPT ![t] = r]
         /\ reply' \in [Threads -> {"none", "ok", "error", "logged", "dropped"}]
         /\ UNCHANGED <<op, calls>>
<1>1. pc' = [pc EXCEPT ![t] = "idle"] /\ "idle" \in Places
  BY DEF Return, Places
<1>2. Moves(t, "idle") /\ pc' \in [Threads -> Places]
  BY <1>1, MoveFacts
<1> QED
  BY <1>2 DEF Return, TypeOK

LEMMA GotoFacts ==
  ASSUME TypeOK, NEW t \in Threads, NEW place \in Places, Goto(t, place)
  PROVE  /\ Moves(t, place) /\ pc' \in [Threads -> Places]
         /\ UNCHANGED <<log_mutex, op, reply, calls>>
<1>1. Moves(t, place) /\ pc' \in [Threads -> Places]
  BY MoveFacts DEF Goto
<1> QED
  BY <1>1 DEF Goto

(* The mutex over a step: a thread inside stays inside or unlocks.         *)
LEMMA MutexStep ==
  ASSUME MutexInv, NEW t \in Threads, NEW place, Moves(t, place), pc[t] \in Inside,
         \/ place \in Inside /\ log_mutex' = log_mutex
         \/ place = "idle" /\ log_mutex' = UNLOCKED
  PROVE  MutexInv'
<1>1. "idle" \notin Inside
  BY DEF Inside
<1>2. \A u \in Threads \ {t} : pc[u] \notin Inside /\ pc'[u] = pc[u] /\ u # log_mutex
  BY Alone DEF Moves
<1>3. log_mutex = t /\ pc'[t] = place
  BY Alone DEF Moves
<1> QED
  BY <1>1, <1>2, <1>3, Constants DEF MutexInv

(* The count over a step: a call that is let in may open a file, one that  *)
(* is past its body may not any more.                                      *)
LEMMA CountStep ==
  ASSUME TypeOK, CountInv, NEW t \in Threads, NEW place, Moves(t, place),
         pc[t] \in Inside, place \notin {"lock", "body"}, calls' = calls,
         files' = files \/ (pc[t] = "body" /\ files' = files + 1)
  PROVE  CountInv'
<1>1. MayOpen' = MayOpen \ {t}
  BY DEF MayOpen, Moves
<1>2. IsFiniteSet(MayOpen) /\ Cardinality(MayOpen) \in Nat
  BY FS_CardinalityType DEF CountInv
<1>3. /\ IsFiniteSet(MayOpen \ {t})
      /\ Cardinality(MayOpen \ {t}) =
           IF t \in MayOpen THEN Cardinality(MayOpen) - 1 ELSE Cardinality(MayOpen)
  BY <1>2, FS_RemoveElement
<1>4. pc[t] = "body" => t \in MayOpen
  BY DEF MayOpen
<1>5. files \in Nat /\ calls \in Nat
  BY Constants DEF TypeOK
<1> QED
  BY <1>1, <1>2, <1>3, <1>4, <1>5 DEF CountInv

(* What a thread inside a body knows.                                      *)
StreamAt(place) ==
  /\ open \subseteq {log_stream} \cap (1 .. files)
  /\ place = "set" => ~logger_initialized /\ StreamOpen
  /\ place = "flush" => logger_initialized /\ StreamOpen
  /\ place = "clear" => logger_initialized /\ open = {}
  /\ place \in {"idle", "body"} => IF logger_initialized THEN StreamOpen ELSE open = {}

BufferAt(t, place) ==
  /\ \A s \in Files \cup {STDOUT} : buffer[s] = <<>> \/ (s = log_stream /\ place = "flush")
  /\ place = "flush" => buffer[log_stream] = <<t>>

LEMMA InsideFacts ==
  ASSUME Inv, NEW t \in Threads, pc[t] \in Inside
  PROVE  StreamAt(pc[t]) /\ BufferAt(t, pc[t])
<1>1. \A u \in Threads : u # t => pc[u] \notin {"set", "flush", "clear"}
  BY Alone DEF Inv, Inside
<1>2. StreamAt(pc[t])
  BY <1>1 DEF Inv, StreamInv, StreamAt
<1>3. BufferAt(t, pc[t])
  BY <1>1 DEF Inv, BufferInv, BufferAt
<1> QED
  BY <1>2, <1>3

(* A step of the thread inside, from what it leaves behind.                *)
LEMMA StepKeeps ==
  ASSUME Inv, NEW t \in Threads, NEW place \in {"idle", "set", "flush", "clear"},
         pc[t] \in Inside, Moves(t, place), TypeOK',
         \/ place # "idle" /\ log_mutex' = log_mutex
         \/ place = "idle" /\ log_mutex' = UNLOCKED,
         UNCHANGED <<op, calls>>, place = "clear" => op[t] = "destroy",
         files' = files \/ (pc[t] = "body" /\ files' = files + 1),
         StreamAt(place)', BufferAt(t, place)'
  PROVE  Inv'
<1>1. MutexInv'
  BY MutexStep DEF Inv, Inside
<1>2. CountInv'
  BY CountStep DEF Inv
<1>3. /\ pc'[t] = place
      /\ \A u \in Threads : u # t => pc'[u] \notin {"set", "flush", "clear"}
  BY Alone DEF Inv, Inside, Moves
<1>4. StreamInv'
  BY <1>3 DEF StreamInv, StreamAt
<1>5. BufferInv'
  BY <1>3 DEF BufferInv, BufferAt
<1>6. OpInv'
  BY <1>3 DEF Inv, OpInv
<1> QED
  BY <1>1, <1>2, <1>4, <1>5, <1>6 DEF Inv

-----------------------------------------------------------------------------
(* The steps of logger_init.                                               *)

(* A step that returns and writes nothing but its reply, from the body.    *)
LEMMA QuietReturn ==
  ASSUME Inv, NEW t \in Threads, NEW r \in {"ok", "error", "logged"},
         pc[t] = "body", Return(t, r), UNCHANGED state_vars
  PROVE  Inv'
<1>1. UNCHANGED <<log_stream, logger_initialized, open, buffer, output, files>>
  BY DEF state_vars
<1>2. /\ Moves(t, "idle") /\ pc' \in [Threads -> Places] /\ log_mutex' = UNLOCKED
      /\ reply' \in [Threads -> {"none", "ok", "error", "logged", "dropped"}]
      /\ UNCHANGED <<op, calls>>
  BY ReturnFacts DEF Inv
<1>3. TypeOK'
  BY <1>1, <1>2 DEF Inv, TypeOK, Places
<1>4. StreamAt("body") /\ BufferAt(t, "body")
  BY InsideFacts DEF Inside
<1>5. StreamAt("idle")' /\ BufferAt(t, "idle")'
  BY <1>1, <1>4 DEF StreamAt, BufferAt, StreamOpen
<1> QED
  BY <1>1, <1>2, <1>3, <1>5, StepKeeps DEF Inside

LEMMA InitOpenKeeps ==
  ASSUME Inv, NEW t \in Threads, init_open(t)
  PROVE  Inv'
<1>1. /\ pc[t] = "body" /\ ~logger_initialized
      /\ UNCHANGED <<logger_initialized, buffer, output>> /\ Goto(t, "set")
  BY DEF init_open, InInit, In, Ready
<1>2. /\ Moves(t, "set") /\ pc' \in [Threads -> Places]
      /\ UNCHANGED <<log_mutex, op, reply, calls>>
  BY <1>1, GotoFacts DEF Inv, Places
<1>3. StreamAt("body") /\ BufferAt(t, "body")
  BY <1>1, InsideFacts DEF Inside
<1>4. files \in Nat /\ files + 1 \in Files /\ files + 1 \in 0 .. MaxCalls
  BY <1>1, RoomForAFile DEF Inv
<1>5. open = {}
  BY <1>1, <1>3 DEF StreamAt
<1>6. \/ log_stream' = STDOUT /\ open' = {} /\ files' = files
      \/ log_stream' = files + 1 /\ open' = {files + 1} /\ files' = files + 1
  BY <1>5 DEF init_open
<1>7. TypeOK'
  BY <1>1, <1>2, <1>4, <1>6 DEF Inv, TypeOK, Places
<1>8. StreamAt("set")'
  BY <1>1, <1>4, <1>6 DEF StreamAt, StreamOpen
<1>9. BufferAt(t, "set")'
  BY <1>1, <1>3 DEF BufferAt
<1> QED
  BY <1>1, <1>2, <1>6, <1>7, <1>8, <1>9, StepKeeps DEF Inside

LEMMA InitFailsKeeps ==
  ASSUME Inv, NEW t \in Threads, init_fails(t)
  PROVE  Inv'
<1>1. /\ pc[t] = "body" /\ ~logger_initialized /\ log_stream' = NULL
      /\ UNCHANGED <<logger_initialized, open, buffer, output, files>>
      /\ Return(t, "error")
  BY DEF init_fails, In, Ready
<1>2. /\ Moves(t, "idle") /\ pc' \in [Threads -> Places] /\ log_mutex' = UNLOCKED
      /\ reply' \in [Threads -> {"none", "ok", "error", "logged", "dropped"}]
      /\ UNCHANGED <<op, calls>>
  BY <1>1, ReturnFacts DEF Inv
<1>3. TypeOK'
  BY <1>1, <1>2 DEF Inv, TypeOK, Places
<1>4. StreamAt("body") /\ BufferAt(t, "body")
  BY <1>1, InsideFacts DEF Inside
<1>5. StreamAt("idle")' /\ BufferAt(t, "idle")'
  BY <1>1, <1>4 DEF StreamAt, BufferAt
<1> QED
  BY <1>1, <1>2, <1>3, <1>5, StepKeeps DEF Inside

LEMMA InitSetKeeps ==
  ASSUME Inv, NEW t \in Threads, init_set(t)
  PROVE  Inv'
<1>1. /\ pc[t] = "set" /\ logger_initialized' = TRUE
      /\ UNCHANGED <<log_stream, open, buffer, output, files>>
      /\ Return(t, "ok")
  BY DEF init_set, InInit, In
<1>2. /\ Moves(t, "idle") /\ pc' \in [Threads -> Places] /\ log_mutex' = UNLOCKED
      /\ reply' \in [Threads -> {"none", "ok", "error", "logged", "dropped"}]
      /\ UNCHANGED <<op, calls>>
  BY <1>1, ReturnFacts DEF Inv
<1>3. TypeOK'
  BY <1>1, <1>2 DEF Inv, TypeOK, Places
<1>4. StreamAt("set") /\ BufferAt(t, "set")
  BY <1>1, InsideFacts DEF Inside
<1>5. StreamAt("idle")' /\ BufferAt(t, "idle")'
  BY <1>1, <1>4 DEF StreamAt, BufferAt, StreamOpen
<1> QED
  BY <1>1, <1>2, <1>3, <1>5, StepKeeps DEF Inside

-----------------------------------------------------------------------------
(* The steps of logger_log_request.                                        *)

LEMMA LogDropKeeps ==
  ASSUME Inv, NEW t \in Threads, log_drop(t)
  PROVE  Inv'
<1>1. /\ pc[t] = "body" /\ log_mutex' = UNLOCKED /\ UNCHANGED <<op, calls>>
      /\ UNCHANGED <<log_stream, logger_initialized, open, buffer, output, files>>
      /\ pc' = [pc EXCEPT ![t] = "idle"] /\ reply' = [reply EXCEPT ![t] = "dropped"]
  BY DEF log_drop, In, MutexAfterDrop, state_vars
<1>2. Moves(t, "idle") /\ pc' \in [Threads -> Places]
  BY <1>1, MoveFacts DEF Inv, Places
<1>3. TypeOK'
  BY <1>1, <1>2 DEF Inv, TypeOK, Places
<1>4. StreamAt("body") /\ BufferAt(t, "body")
  BY <1>1, InsideFacts DEF Inside
<1>5. StreamAt("idle")' /\ BufferAt(t, "idle")'
  BY <1>1, <1>4 DEF StreamAt, BufferAt, StreamOpen
<1> QED
  BY <1>1, <1>2, <1>3, <1>5, StepKeeps DEF Inside

LEMMA LogPrintKeeps ==
  ASSUME Inv, NEW t \in Threads, log_print(t)
  PROVE  Inv'
<1>1. /\ pc[t] = "body" /\ logger_initialized /\ log_stream # NULL
      /\ buffer' = [buffer EXCEPT ![log_stream] = Append(@, t)]
      /\ UNCHANGED <<log_stream, logger_initialized, open, output, files>>
      /\ Goto(t, "flush")
  BY DEF log_print, In, Closed
<1>2. /\ Moves(t, "flush") /\ pc' \in [Threads -> Places]
      /\ UNCHANGED <<log_mutex, op, reply, calls>>
  BY <1>1, GotoFacts DEF Inv, Places
<1>3. StreamAt("body") /\ BufferAt(t, "body")
  BY <1>1, InsideFacts DEF Inside
<1>4. log_stream \in Files \cup {STDOUT} /\ buffer[log_stream] = <<>>
  BY <1>1, <1>3 DEF Inv, TypeOK, BufferAt
<1>5. Append(<<>>, t) = <<t>> /\ <<t>> \in Seq(Threads)
  OBVIOUS
<1>6. buffer' = [buffer EXCEPT ![log_stream] = <<t>>]
  BY <1>1, <1>4, <1>5
<1>7. buffer' \in [Files \cup {STDOUT} -> Seq(Threads)]
  BY <1>4, <1>5, <1>6 DEF Inv, TypeOK
<1>8. TypeOK'
  BY <1>1, <1>2, <1>7 DEF Inv, TypeOK, Places
<1>9. StreamAt("flush")'
  BY <1>1, <1>3 DEF StreamAt, StreamOpen
<1>10. BufferAt(t, "flush")'
  BY <1>1, <1>3, <1>4, <1>6 DEF Inv, TypeOK, BufferAt
<1> QED
  BY <1>1, <1>2, <1>8, <1>9, <1>10, StepKeeps DEF Inside

LEMMA LogFlushFacts ==
  ASSUME Inv, NEW t \in Threads, log_flush(t)
  PROVE  /\ pc[t] = "flush" /\ logger_initialized /\ log_stream \in Files \cup {STDOUT}
         /\ output' = Append(output, [to |-> Dest(log_stream), by |-> t])
         /\ output' \in Seq(Lines)
<1>1. pc[t] = "flush" /\ output' = Flushed(log_stream)
  BY DEF log_flush, In, OutputAfterFlush
<1>2. logger_initialized /\ StreamOpen /\ open \subseteq Files /\ buffer[log_stream] = <<t>>
  BY <1>1, InsideFacts DEF Inside, StreamAt, BufferAt, Inv, TypeOK
<1>3. log_stream \in Files \cup {STDOUT}
  BY <1>2 DEF StreamOpen
<1>4. output \in Seq(Lines)
  BY DEF Inv, TypeOK, Lines
<1> QED
  BY <1>1, <1>2, <1>3, <1>4, FlushOne

LEMMA LogFlushKeeps ==
  ASSUME Inv, NEW t \in Threads, log_flush(t)
  PROVE  Inv'
<1>1. /\ pc[t] = "flush" /\ log_stream \in Files \cup {STDOUT} /\ output' \in Seq(Lines)
      /\ buffer' = [buffer EXCEPT ![log_stream] = <<>>]
      /\ UNCHANGED <<log_stream, logger_initialized, open, files>>
      /\ Return(t, "logged")
  BY LogFlushFacts DEF log_flush
<1>2. /\ Moves(t, "idle") /\ pc' \in [Threads -> Places] /\ log_mutex' = UNLOCKED
      /\ reply' \in [Threads -> {"none", "ok", "error", "logged", "dropped"}]
      /\ UNCHANGED <<op, calls>>
  BY <1>1, ReturnFacts DEF Inv
<1>3. StreamAt("flush") /\ BufferAt(t, "flush")
  BY <1>1, InsideFacts DEF Inside
<1>4. buffer' \in [Files \cup {STDOUT} -> Seq(Threads)]
  BY <1>1, EmptySeq DEF Inv, TypeOK
<1>5. TypeOK'
  BY <1>1, <1>2, <1>4 DEF Inv, TypeOK, Places, Lines
<1>6. StreamAt("idle")'
  BY <1>1, <1>3 DEF StreamAt, StreamOpen
<1>7. BufferAt(t, "idle")'
  BY <1>1, <1>3 DEF Inv, TypeOK, BufferAt
<1> QED
  BY <1>1, <1>2, <1>5, <1>6, <1>7, StepKeeps DEF Inside

-----------------------------------------------------------------------------
(* The steps of logger_destroy, and the others.                            *)

LEMMA DestroyCloseFacts ==
  ASSUME Inv, NEW t \in Threads, destroy_close(t)
  PROVE  /\ pc[t] = "body" /\ logger_initialized /\ output' = output /\ open' = {}
         /\ \A s \in Files \cup {STDOUT} : buffer'[s] = <<>>
         /\ buffer' \in [Files \cup {STDOUT} -> Seq(Threads)]
<1>1. pc[t] = "body" /\ logger_initialized
  BY DEF destroy_close, In
<1>2. /\ StreamOpen /\ open \subseteq {log_stream} /\ open \subseteq Files
      /\ \A s \in Files \cup {STDOUT} : buffer[s] = <<>>
  BY <1>1, InsideFacts DEF Inside, StreamAt, BufferAt, Inv, TypeOK
<1>3. buffer \in [Files \cup {STDOUT} -> Seq(Threads)] /\ output \in Seq(Lines)
  BY DEF Inv, TypeOK, Lines
<1>4. CASE log_stream = STDOUT
  <2>1. open = {}
    BY <1>2, <1>4, Constants
  <2> QED
    BY <1>1, <1>2, <1>3, <1>4, <2>1 DEF destroy_close
<1>5. CASE log_stream # STDOUT
  <2>1. log_stream \in Files
    BY <1>2, <1>5 DEF StreamOpen
  <2>2. Flushed(log_stream) = output
    BY <1>2, <1>3, <2>1, FlushNone
  <2>3. /\ output' = output /\ open' = open \ {log_stream}
        /\ buffer' = [buffer EXCEPT ![log_stream] = <<>>]
    BY <1>5, <2>2 DEF destroy_close
  <2>4. <<>> \in Seq(Threads)
    BY EmptySeq
  <2> QED
    BY <1>1, <1>2, <1>3, <2>1, <2>3, <2>4
<1> QED
  BY <1>4, <1>5

LEMMA DestroyCloseKeeps ==
  ASSUME Inv, NEW t \in Threads, destroy_close(t)
  PROVE  Inv'
<1>1. /\ pc[t] = "body" /\ logger_initialized /\ output' = output /\ open' = {}
      /\ \A s \in Files \cup {STDOUT} : buffer'[s] = <<>>
      /\ buffer' \in [Files \cup {STDOUT} -> Seq(Threads)]
  BY DestroyCloseFacts
<1>2. /\ UNCHANGED <<log_stream, logger_initialized, files>> /\ Goto(t, "clear")
      /\ op[t] = "destroy"
  BY DEF destroy_close, In
<1>3. /\ Moves(t, "clear") /\ pc' \in [Threads -> Places]
      /\ UNCHANGED <<log_mutex, op, reply, calls>>
  BY <1>2, GotoFacts DEF Inv, Places
<1>4. TypeOK'
  BY <1>1, <1>2, <1>3 DEF Inv, TypeOK, Places
<1>5. StreamAt("clear")' /\ BufferAt(t, "clear")'
  BY <1>1, <1>2 DEF StreamAt, BufferAt
<1> QED
  BY <1>1, <1>2, <1>3, <1>4, <1>5, StepKeeps DEF Inside

LEMMA DestroyClearKeeps ==
  ASSUME Inv, NEW t \in Threads, destroy_clear(t)
  PROVE  Inv'
<1>1. /\ pc[t] = "clear" /\ log_stream' = NULL /\ logger_initialized' = FALSE
      /\ UNCHANGED <<open, buffer, output, files>> /\ Return(t, "ok")
  BY DEF destroy_clear, In
<1>2. /\ Moves(t, "idle") /\ pc' \in [Threads -> Places] /\ log_mutex' = UNLOCKED
      /\ reply' \in [Threads -> {"none", "ok", "error", "logged", "dropped"}]
      /\ UNCHANGED <<op, calls>>
  BY <1>1, ReturnFacts DEF Inv
<1>3. TypeOK'
  BY <1>1, <1>2 DEF Inv, TypeOK, Places
<1>4. StreamAt("clear") /\ BufferAt(t, "clear")
  BY <1>1, InsideFacts DEF Inside
<1>5. StreamAt("idle")' /\ BufferAt(t, "idle")'
  BY <1>1, <1>4 DEF StreamAt, BufferAt
<1> QED
  BY <1>1, <1>2, <1>3, <1>5, StepKeeps DEF Inside

(* A thread outside moves: nothing a body works on changes.                *)
LEMMA OutsideKeeps ==
  ASSUME Inv, UNCHANGED state_vars, NEW t \in Threads, NEW place \in {"lock", "body"},
         pc[t] \in {"idle", "lock"}, Moves(t, place)
  PROVE  StreamInv' /\ BufferInv'
<1>1. UNCHANGED <<log_stream, logger_initialized, open, buffer, output, files>>
  BY DEF state_vars
<1>2. \A u \in Threads, p \in {"set", "flush", "clear"} : pc'[u] = p <=> pc[u] = p
  BY DEF Moves
<1>3. StreamInv'
  BY <1>1, <1>2 DEF Inv, StreamInv, StreamOpen
<1>4. BufferInv'
  BY <1>1, <1>2 DEF Inv, BufferInv
<1> QED
  BY <1>3, <1>4

LEMMA CallKeeps ==
  ASSUME Inv, NEW t \in Threads, NEW o \in Ops, call(t, o)
  PROVE  Inv'
<1>1. /\ pc[t] = "idle" /\ calls < MaxCalls /\ calls' = calls + 1
      /\ op' = [op EXCEPT ![t] = o] /\ pc' = [pc EXCEPT ![t] = "lock"]
      /\ UNCHANGED <<log_mutex, reply>> /\ UNCHANGED state_vars
  BY DEF call
<1>2. Moves(t, "lock") /\ pc' \in [Threads -> Places]
  BY <1>1, MoveFacts DEF Inv, Places
<1>3. calls' \in 0 .. MaxCalls /\ calls \in Nat /\ files \in Nat
  BY <1>1, Constants DEF Inv, TypeOK
<1>4. TypeOK'
  BY <1>1, <1>2, <1>3 DEF Inv, TypeOK, Places, state_vars
<1>5. MutexInv' /\ OpInv'
  BY <1>1, <1>2 DEF Inv, TypeOK, MutexInv, OpInv, Inside, Moves
<1>6. CountInv'
  <2>1. MayOpen' = MayOpen \cup {t} /\ t \notin MayOpen
    BY <1>1, <1>2 DEF MayOpen, Moves
  <2>2. IsFiniteSet(MayOpen) /\ Cardinality(MayOpen) \in Nat
    BY FS_CardinalityType DEF Inv, CountInv
  <2>3. /\ IsFiniteSet(MayOpen \cup {t})
        /\ Cardinality(MayOpen \cup {t}) = Cardinality(MayOpen) + 1
    BY <2>1, <2>2, FS_AddElement
  <2> QED
    BY <1>1, <1>3, <2>1, <2>2, <2>3 DEF Inv, CountInv, state_vars
<1> QED
  BY <1>1, <1>2, <1>4, <1>5, <1>6, OutsideKeeps DEF Inv

LEMMA LockKeeps ==
  ASSUME Inv, NEW t \in Threads, lock(t)
  PROVE  Inv'
<1>1. /\ pc[t] = "lock" /\ log_mutex = UNLOCKED /\ log_mutex' = t
      /\ pc' = [pc EXCEPT ![t] = "body"]
      /\ UNCHANGED <<op, reply, calls>> /\ UNCHANGED state_vars
  BY DEF lock, CanLock
<1>2. Moves(t, "body") /\ pc' \in [Threads -> Places]
  BY <1>1, MoveFacts DEF Inv, Places
<1>3. TypeOK'
  BY <1>1, <1>2 DEF Inv, TypeOK, Places, state_vars
<1>4. MutexInv'
  <2>1. \A u \in Threads : pc[u] \notin Inside
    BY <1>1, Constants DEF Inv, MutexInv
  <2> QED
    BY <1>1, <1>2, <2>1 DEF MutexInv, Moves, Inside
<1>5. OpInv'
  BY <1>1, <1>2 DEF Inv, OpInv, Moves
<1>6. CountInv'
  <2>1. MayOpen' = MayOpen
    BY <1>1, <1>2 DEF MayOpen, Moves
  <2> QED
    BY <1>1, <2>1 DEF Inv, CountInv, state_vars
<1> QED
  BY <1>1, <1>2, <1>3, <1>4, <1>5, <1>6, OutsideKeeps DEF Inv

-----------------------------------------------------------------------------
(* The invariant is inductive.                                             *)

LEMMA InitInv == Init => Inv
<1> SUFFICES ASSUME Init PROVE Inv
  OBVIOUS
<1>1. \A t \in Threads : pc[t] = "idle"
  BY DEF Init
<1>2. TypeOK
  <2>1. 0 \in 0 .. MaxCalls
    BY Constants
  <2>2. <<>> \in Seq(Threads) /\ <<>> \in Seq([to : Dests, by : Threads])
    BY EmptySeq
  <2> QED
    BY <2>1, <2>2 DEF Init, TypeOK, Ops
<1>3. MutexInv
  BY <1>1, Constants DEF Init, MutexInv, Inside
<1>4. CountInv
  <2>1. MayOpen = {}
    BY <1>1 DEF MayOpen
  <2> QED
    BY <2>1, FS_EmptySet DEF Init, CountInv
<1>5. StreamInv /\ BufferInv /\ OpInv
  BY <1>1 DEF Init, StreamInv, BufferInv, OpInv
<1> QED
  BY <1>2, <1>3, <1>4, <1>5 DEF Inv

LEMMA StutterKeeps == ASSUME Inv, UNCHANGED vars PROVE Inv'
<1>1. UNCHANGED <<log_stream, logger_initialized, open, buffer, output, files,
                  log_mutex, op, pc, reply, calls>>
  BY DEF vars, state_vars
<1>2. MayOpen' = MayOpen
  BY <1>1 DEF MayOpen
<1> QED
  BY <1>1, <1>2 DEF Inv, TypeOK, MutexInv, CountInv, StreamInv, BufferInv, OpInv,
                    StreamOpen

LEMMA BodyKeeps == ASSUME Inv, NEW t \in Threads, Body(t) PROVE Inv'
<1>1. CASE init_again(t) \/ destroy_not_open(t)
  BY <1>1, QuietReturn DEF init_again, InInit, In, destroy_not_open
<1>2. CASE init_open(t) \/ init_fails(t) \/ init_set(t)
  BY <1>2, InitOpenKeeps, InitFailsKeeps, InitSetKeeps
<1>3. CASE log_drop(t) \/ log_print(t) \/ log_flush(t)
  BY <1>3, LogDropKeeps, LogPrintKeeps, LogFlushKeeps
<1>4. CASE destroy_close(t) \/ destroy_clear(t)
  BY <1>4, DestroyCloseKeeps, DestroyClearKeeps
<1> QED
  BY <1>1, <1>2, <1>3, <1>4, LockKeeps DEF Body

LEMMA NextInv == Inv /\ [Next]_vars => Inv'
  BY BodyKeeps, CallKeeps, StutterKeeps DEF Next, Finished

LEMMA Inductive == Spec => []Inv
  BY InitInv, NextInv, PTL DEF Spec
-----------------------------------------------------------------------------
(* What follows from it.                                                   *)

(* logger.c:106, "Prevent race with destroy()": whatever other threads      *)
(* call, a thread between its fprintf and its fflush has an open stream,   *)
(* and an initialized logger has one unless its destroy is about to clear  *)
(* the flag.                                                               *)
THEOREM StreamStaysOpen == Spec => []NoUseAfterClose
<1>1. Inv => NoUseAfterClose
  <2> SUFFICES ASSUME Inv PROVE NoUseAfterClose
    OBVIOUS
  <2>1. \A t \in Threads : In(t, "log", "flush") => StreamOpen
    BY DEF Inv, StreamInv, In
  <2>2. ASSUME logger_initialized, ~StreamOpen
        PROVE  \E t \in Threads : In(t, "destroy", "clear")
    BY <2>2 DEF Inv, StreamInv, OpInv, In
  <2> QED
    BY <2>1, <2>2 DEF NoUseAfterClose
<1> QED
  BY <1>1, Inductive, PTL

(* No FILE is lost by a double logger_init, a failed one or a reopening.   *)
THEOREM NoFileLost == Spec => []OneStream
<1>1. Inv => OneStream
  BY DEF Inv, StreamInv, OneStream
<1> QED
  BY <1>1, Inductive, PTL

-----------------------------------------------------------------------------
(* The logger implements LogSink: each call takes effect in its step that  *)
(* unlocks, the others are invisible.                                      *)

LEMMA QuietRefines ==
  ASSUME UNCHANGED <<log_stream, logger_initialized, output, reply>>
  PROVE  UNCHANGED Abstract!vars
  BY DEF Abstract!vars, Dest

LEMMA InitSetRefines ==
  ASSUME Inv, NEW t \in Threads, init_set(t)
  PROVE  Abstract!Next
<1>1. /\ pc[t] = "set" /\ logger_initialized' = TRUE
      /\ UNCHANGED <<log_stream, output>> /\ reply' = [reply EXCEPT ![t] = "ok"]
  BY DEF init_set, InInit, In, Return
<1>2. ~logger_initialized
  BY <1>1, InsideFacts DEF Inside, StreamAt
<1>3. Dest(log_stream) \in Dests /\ Dest(log_stream)' = Dest(log_stream)
  BY <1>1 DEF Dest, Dests
<1>4. Abstract!Open(t, Dest(log_stream))
  BY <1>1, <1>2, <1>3 DEF Abstract!Open, Abstract!Answer
<1> QED
  BY <1>3, <1>4 DEF Abstract!Next

LEMMA InitAgainRefines ==
  ASSUME NEW t \in Threads, init_again(t)
  PROVE  Abstract!Next
<1>1. /\ logger_initialized /\ reply' = [reply EXCEPT ![t] = "ok"]
      /\ UNCHANGED <<log_stream, logger_initialized, output>>
  BY DEF init_again, Ready, Return, state_vars
<1>2. "file" \in Dests /\ Dest(log_stream) # "closed" /\ Dest(log_stream)' = Dest(log_stream)
  BY <1>1 DEF Dest, Dests
<1>3. Abstract!Open(t, "file")
  BY <1>1, <1>2 DEF Abstract!Open, Abstract!Answer
<1> QED
  BY <1>2, <1>3 DEF Abstract!Next

LEMMA InitFailsRefines ==
  ASSUME NEW t \in Threads, init_fails(t)
  PROVE  Abstract!Next
<1>1. /\ ~logger_initialized /\ reply' = [reply EXCEPT ![t] = "error"]
      /\ UNCHANGED <<logger_initialized, output>>
  BY DEF init_fails, Ready, Return
<1> QED
  BY <1>1 DEF Abstract!Next, Abstract!OpenFails, Abstract!Answer

LEMMA LogDropRefines ==
  ASSUME Inv, NEW t \in Threads, log_drop(t)
  PROVE  Abstract!Next
<1>1. /\ pc[t] = "body" /\ reply' = [reply EXCEPT ![t] = "dropped"]
      /\ ~logger_initialized \/ log_stream = NULL
      /\ UNCHANGED <<log_stream, logger_initialized, output>>
  BY DEF log_drop, In, Closed, state_vars
<1>2. logger_initialized => StreamOpen /\ open \subseteq Files
  BY <1>1, InsideFacts DEF Inside, StreamAt, Inv, TypeOK
<1>3. ~logger_initialized
  BY <1>1, <1>2, Constants DEF StreamOpen
<1> QED
  BY <1>1, <1>3 DEF Abstract!Next, Abstract!Drop, Abstract!Answer

LEMMA LogFlushRefines ==
  ASSUME Inv, NEW t \in Threads, log_flush(t)
  PROVE  Abstract!Next
<1>1. /\ logger_initialized
      /\ output' = Append(output, [to |-> Dest(log_stream), by |-> t])
  BY LogFlushFacts
<1>2. /\ reply' = [reply EXCEPT ![t] = "logged"]
      /\ UNCHANGED <<log_stream, logger_initialized>>
  BY DEF log_flush, Return
<1>3. Dest(log_stream) # "closed" /\ Dest(log_stream)' = Dest(log_stream)
  BY <1>2 DEF Dest
<1>4. Abstract!Log(t)
  BY <1>1, <1>2, <1>3 DEF Abstract!Log, Abstract!Answer
<1> QED
  BY <1>4 DEF Abstract!Next

LEMMA DestroyRefines ==
  ASSUME NEW t \in Threads, destroy_not_open(t) \/ destroy_clear(t)
  PROVE  Abstract!Next
<1>1. /\ logger_initialized' = FALSE /\ output' = output
      /\ reply' = [reply EXCEPT ![t] = "ok"]
  BY DEF destroy_not_open, destroy_clear, Return, state_vars
<1> QED
  BY <1>1 DEF Abstract!Next, Abstract!Close, Abstract!Answer

LEMMA SilentRefines ==
  ASSUME Inv, NEW t \in Threads,
         lock(t) \/ init_open(t) \/ log_print(t) \/ destroy_close(t)
  PROVE  UNCHANGED Abstract!vars
<1>1. CASE lock(t)
  BY <1>1, QuietRefines DEF lock, state_vars
<1>2. CASE init_open(t)
  BY <1>2 DEF init_open, Ready, Goto, Abstract!vars
<1>3. CASE log_print(t)
  BY <1>3, QuietRefines DEF log_print, Goto
<1>4. CASE destroy_close(t)
  BY <1>4, DestroyCloseFacts, QuietRefines DEF destroy_close, Goto
<1> QED
  BY <1>1, <1>2, <1>3, <1>4

LEMMA BodyRefines ==
  ASSUME Inv, NEW t \in Threads, Body(t)
  PROVE  Abstract!Next \/ UNCHANGED Abstract!vars
<1>1. CASE lock(t) \/ init_open(t) \/ log_print(t) \/ destroy_close(t)
  BY <1>1, SilentRefines
<1>2. CASE init_again(t) \/ init_fails(t) \/ init_set(t)
  BY <1>2, InitAgainRefines, InitFailsRefines, InitSetRefines
<1>3. CASE log_drop(t) \/ log_flush(t)
  BY <1>3, LogDropRefines, LogFlushRefines
<1>4. CASE destroy_not_open(t) \/ destroy_clear(t)
  BY <1>4, DestroyRefines
<1> QED
  BY <1>1, <1>2, <1>3, <1>4 DEF Body

(* What logger.h promises: however the calls of different threads overlap, *)
(* they take effect one at a time; a line is in the file, whole and once,  *)
(* when logger_log_request returns, and no line follows a logger_destroy.  *)
THEOREM Refinement == Spec => ImplementsLogSink
<1>1. Init => Abstract!Init
  BY DEF Init, Abstract!Init
<1>2. Inv /\ [Next]_vars => [Abstract!Next]_(Abstract!vars)
  <2> SUFFICES ASSUME Inv, [Next]_vars
               PROVE  Abstract!Next \/ UNCHANGED Abstract!vars
    OBVIOUS
  <2>1. CASE UNCHANGED vars
    BY <2>1, QuietRefines DEF vars, state_vars
  <2>2. ASSUME NEW t \in Threads, NEW o \in Ops, call(t, o) PROVE UNCHANGED Abstract!vars
    BY <2>2, QuietRefines DEF call, state_vars
  <2> QED
    BY <2>1, <2>2, BodyRefines DEF Next, Finished
<1> QED
  BY <1>1, <1>2, Inductive, PTL DEF Spec, ImplementsLogSink, Abstract!Spec
=============================================================================
