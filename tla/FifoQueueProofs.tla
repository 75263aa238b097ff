--------------------------- MODULE FifoQueueProofs ---------------------------
(***************************************************************************)
(* Proofs about FifoQueue for any heap and any set of tasks: the pointer   *)
(* structure and the ownership of nodes are invariant, and the list        *)
(* implements the abstract queue TaskQueue.                                *)
(***************************************************************************)
EXTENDS FifoQueue, SequenceTheorems, TLAPS

(* The pointers of the C list and the history variable only make sense     *)
(* together, so the three invariants are inductive as a conjunction.       *)
IInv == TypeOK /\ Linked /\ NodesOwned

LEMMA InitInv == Init => IInv
<1> SUFFICES ASSUME Init PROVE IInv
  OBVIOUS
<1>1. order = <<>> /\ Len(order) = 0
  BY DEF Init
<1>2. TypeOK
  BY NullAssumption DEF Init, fifo_queue_init, TypeOK, Cell, Reply
<1>3. Linked
  BY <1>1 DEF Init, fifo_queue_init, Linked
<1>4. NodesOwned
  BY <1>1 DEF Init, NodesOwned
<1> QED
  BY <1>2, <1>3, <1>4 DEF IInv

(* push_last, whatever address malloc returns: the new node becomes the    *)
(* tail, and the old tail's prev is the only other pointer that changes.   *)
LEMMA PushInv ==
  ASSUME IInv, NEW t \in Tasks, push_last(t)
  PROVE  IInv'
<1> USE NullAssumption DEF IInv
<1>1. PICK n \in Nodes \ alloc :
        /\ alloc' = alloc \cup {n}
        /\ \/ /\ size = 0
              /\ first' = n
              /\ node' = [node EXCEPT ![n] = [task |-> t, next |-> NULL, prev |-> NULL]]
           \/ /\ size # 0
              /\ node' = LinkTail(n, t)
              /\ UNCHANGED first
        /\ last' = n
        /\ size' = size + 1
        /\ order' = Append(order, n)
        /\ reply' = Reply(OK, NULL)
  BY DEF push_last
<1>2. /\ order \in Seq(Nodes) /\ Len(order) \in Nat
      /\ order' \in Seq(Nodes) /\ Len(order') = Len(order) + 1
      /\ order'[Len(order) + 1] = n
      /\ \A k \in 1 .. Len(order) : order'[k] = order[k]
  BY <1>1 DEF TypeOK
<1>3. \A k \in 1 .. Len(order) : order[k] \in alloc /\ order[k] \in Nodes /\ order[k] # n
  BY <1>1, <1>2 DEF NodesOwned
<1>4. TypeOK'
  <2>1. CASE size = 0
    BY <1>1, <1>2, <2>1 DEF TypeOK, Cell, Reply, Linked
  <2>2. CASE size # 0
    <3>1. last \in Nodes /\ last # n
      BY <1>2, <1>3, <2>2 DEF Linked
    <3>2. node' \in [Nodes -> Cell]
      <4> DEFINE new == [task |-> t, next |-> last, prev |-> NULL]
                 hooked == [node[last] EXCEPT !.prev = n]
      <4>1. new \in Cell /\ hooked \in Cell
        BY <3>1 DEF TypeOK, Cell
      <4>2. node' = [m \in Nodes |-> IF m = last THEN hooked
                                     ELSE IF m = n THEN new ELSE node[m]]
        BY <1>1, <2>2, <3>1 DEF TypeOK, LinkTail
      <4> QED
        BY <4>1, <4>2 DEF TypeOK
    <3> QED
      BY <1>1, <1>2, <2>2, <3>2 DEF TypeOK, Reply
  <2> QED
    BY <2>1, <2>2
<1>5. Linked'
  <2>1. size' = Len(order')
    BY <1>1, <1>2 DEF Linked
  <2>2. \A j, k \in 1 .. Len(order') : order'[j] = order'[k] => j = k
    BY <1>2, <1>3 DEF Linked
  <2>3. order' # <<>> /\ last' = order'[Len(order')]
    BY <1>1, <1>2
  <2>4. first' = order'[1]
    <3>1. CASE size = 0
      BY <1>1, <1>2, <3>1 DEF Linked
    <3>2. CASE size # 0
      <4>1. order # <<>> /\ 1 \in 1 .. Len(order)
        BY <1>2, <3>2 DEF Linked
      <4> QED
        BY <1>1, <1>2, <3>2, <4>1 DEF Linked
    <3> QED
      BY <3>1, <3>2
  <2>5. ASSUME NEW k \in 1 .. Len(order')
        PROVE  /\ node'[order'[k]].prev = IF k = Len(order') THEN NULL ELSE order'[k + 1]
               /\ node'[order'[k]].next = IF k = 1 THEN NULL ELSE order'[k - 1]
    <3>1. CASE size = 0
      BY <1>1, <1>2, <3>1 DEF TypeOK, Linked
    <3>2. CASE size # 0
      <4>1. /\ Len(order) \in 1 .. Len(order)
            /\ last = order[Len(order)] /\ last \in Nodes /\ last # n
        BY <1>2, <1>3, <3>2 DEF Linked
      <4>2. /\ node'[n] = [task |-> t, next |-> last, prev |-> NULL]
            /\ node'[last].prev = n /\ node'[last].next = node[last].next
            /\ \A m \in Nodes \ {n, last} : node'[m] = node[m]
        BY <1>1, <3>2, <4>1 DEF LinkTail, TypeOK, Cell
      <4>3. CASE k = Len(order) + 1
        BY <1>2, <4>1, <4>2, <4>3
      <4>4. CASE k = Len(order)
        BY <1>2, <1>3, <4>1, <4>2, <4>4 DEF Linked
      <4>5. CASE k < Len(order)
        <5>1. k \in 1 .. Len(order) /\ order[k] # last
          BY <1>2, <4>1, <4>5 DEF Linked
        <5>2. node'[order[k]] = node[order[k]]
          BY <1>3, <4>2, <5>1
        <5> QED
          BY <1>2, <4>5, <5>1, <5>2 DEF Linked
      <4> QED
        BY <1>2, <4>3, <4>4, <4>5
    <3> QED
      BY <3>1, <3>2
  <2> QED
    BY <2>1, <2>2, <2>3, <2>4, <2>5 DEF Linked
<1>6. NodesOwned'
  BY <1>1, <1>2 DEF NodesOwned
<1> QED
  BY <1>4, <1>5, <1>6

(* pop_first: the head's address is freed and its predecessor becomes the  *)
(* head; the addresses are distinct, so no remaining node is touched but   *)
(* for the new head's next.                                                *)
LEMMA PopInv ==
  ASSUME IInv, pop_first
  PROVE  IInv'
<1> USE NullAssumption DEF IInv
<1>1. /\ order \in Seq(Nodes) /\ Len(order) \in Nat /\ Len(order) = size
      /\ order # <<>> /\ Len(order) >= 1
      /\ order' = Tail(order) /\ order' \in Seq(Nodes)
      /\ Len(order') = Len(order) - 1
      /\ \A k \in 1 .. Len(order') : order'[k] = order[k + 1]
  <2>1. order \in Seq(Nodes) /\ Len(order) \in Nat /\ Len(order) = size /\ size # 0
    BY DEF TypeOK, Linked, pop_first
  <2>2. order # <<>> /\ Len(order) >= 1
    BY <2>1
  <2>3. order' = Tail(order)
    BY DEF pop_first
  <2> QED
    BY <2>1, <2>2, <2>3, HeadTailProperties
<1>2. first = order[1] /\ first \in Nodes /\ 1 \in 1 .. Len(order)
  BY <1>1 DEF Linked
<1>3. \A k \in 1 .. Len(order') : /\ order'[k] \in Nodes
                                 /\ order'[k] # first
                                 /\ k + 1 \in 1 .. Len(order)
  BY <1>1, <1>2 DEF Linked
<1>4. first' = IF order' = <<>> THEN NULL ELSE order'[1]
  <2>1. first' = IF 1 = Len(order) THEN NULL ELSE order[2]
    BY <1>1, <1>2 DEF pop_first, Linked
  <2>2. order' = <<>> <=> Len(order) = 1
    BY <1>1
  <2> QED
    BY <1>1, <2>1, <2>2
<1>5. last' = IF order' = <<>> THEN NULL ELSE order'[Len(order')]
  <2>1. last = order[Len(order)]
    BY <1>1 DEF Linked
  <2>2. order' = <<>> <=> size - 1 = 0
    BY <1>1
  <2>3. order' # <<>> => Len(order') \in 1 .. Len(order') /\ order'[Len(order')] = order[Len(order)]
    BY <1>1
  <2> QED
    BY <2>1, <2>2, <2>3 DEF pop_first, LastAfterPop
<1>6. /\ DOMAIN node' = Nodes
      /\ \A m \in Nodes : /\ node'[m].task = node[m].task
                          /\ node'[m].prev = node[m].prev
                          /\ node'[m].next = IF order' # <<>> /\ m = order'[1]
                                               THEN NULL ELSE node[m].next
      /\ node' \in [Nodes -> Cell]
  <2>1. CASE size - 1 = 0
    <3>1. node' = node /\ order' = <<>>
      BY <1>1, <2>1 DEF pop_first, UnlinkHead
    <3> QED
      BY <3>1 DEF TypeOK
  <2>2. CASE size - 1 # 0
    <3>1. order' # <<>> /\ 1 \in 1 .. Len(order')
      BY <1>1, <2>2
    <3>2. node[first].prev = order'[1] /\ order'[1] \in Nodes
      BY <1>1, <1>2, <1>3, <2>2, <3>1 DEF Linked
    <3> DEFINE h == order'[1]
               head == [node[h] EXCEPT !.next = NULL]
    <3>3. head \in Cell
      BY <3>2 DEF TypeOK, Cell
    <3>4. node' = [m \in Nodes |-> IF m = h THEN head ELSE node[m]]
      BY <2>2, <3>2 DEF pop_first, UnlinkHead, TypeOK
    <3>5. /\ head.task = node[h].task /\ head.prev = node[h].prev /\ head.next = NULL
      BY <3>2 DEF TypeOK, Cell
    <3> HIDE DEF head, h
    <3>6. node' \in [Nodes -> Cell]
      BY <3>3, <3>4 DEF TypeOK
    <3>7. DOMAIN node' = Nodes
      BY <3>4
    <3>8. ASSUME NEW m \in Nodes
          PROVE  /\ node'[m].task = node[m].task
                 /\ node'[m].prev = node[m].prev
                 /\ node'[m].next = IF m = h THEN NULL ELSE node[m].next
      BY <3>4, <3>5
    <3> QED
      BY <3>1, <3>6, <3>7, <3>8 DEF h
  <2> QED
    BY <2>1, <2>2
<1>7. TypeOK'
  <2>1. reply' \in [rc : {OK, INVALID_INPUT, EMPTY_QUEUE}, task : Tasks \cup {NULL}]
    BY <1>2 DEF pop_first, Reply, TypeOK, Cell
  <2>2. size' \in Nat /\ alloc' \in SUBSET Nodes
    BY <1>1 DEF pop_first, AllocAfterPop, TypeOK
  <2>3. first' \in Nodes \cup {NULL} /\ last' \in Nodes \cup {NULL}
    BY <1>1, <1>3, <1>4, <1>5
  <2> QED
    BY <1>1, <1>6, <2>1, <2>2, <2>3 DEF TypeOK
<1>8. Linked'
  <2>1. size' = Len(order')
    BY <1>1 DEF pop_first
  <2>2. \A j, k \in 1 .. Len(order') : order'[j] = order'[k] => j = k
    BY <1>1, <1>3 DEF Linked
  <2>3. ASSUME NEW k \in 1 .. Len(order')
        PROVE  /\ node'[order'[k]].prev = IF k = Len(order') THEN NULL ELSE order'[k + 1]
               /\ node'[order'[k]].next = IF k = 1 THEN NULL ELSE order'[k - 1]
    <3>1. /\ order'[k] = order[k + 1] /\ order'[k] \in Nodes /\ k + 1 \in 1 .. Len(order)
          /\ order' # <<>> /\ 1 \in 1 .. Len(order')
      <4>1. Len(order') \in Nat /\ Len(order') >= 1
        BY <1>1
      <4>2. order' # <<>>
        BY <4>1
      <4> QED
        BY <1>1, <1>3, <4>1, <4>2
    <3>2. /\ node[order[k + 1]].prev = IF k + 1 = Len(order) THEN NULL ELSE order[k + 2]
          /\ node[order[k + 1]].next = IF k + 1 = 1 THEN NULL ELSE order[k]
      BY <3>1 DEF Linked
    <3>3. order'[k] = order'[1] <=> k = 1
      BY <2>2, <3>1
    <3>4. k # Len(order') => order'[k + 1] = order[k + 2]
      BY <1>1
    <3>5. k # 1 => order'[k - 1] = order[k]
      BY <1>1
    <3> QED
      BY <1>1, <1>6, <3>1, <3>2, <3>3, <3>4, <3>5
  <2> QED
    BY <1>4, <1>5, <2>1, <2>2, <2>3 DEF Linked
<1>9. NodesOwned'
  <2>1. alloc' = alloc \ {first}
    BY DEF pop_first, AllocAfterPop
  <2>2. \A j \in 1 .. Len(order) : j # 1 => j - 1 \in 1 .. Len(order') /\ order'[j - 1] = order[j]
    BY <1>1
  <2> QED
    BY <1>1, <1>2, <1>3, <2>1, <2>2 DEF NodesOwned
<1> QED
  BY <1>7, <1>8, <1>9

(* No step, of any of the calls or a stutter, breaks the invariant.        *)
LEMMA NextInv == IInv /\ [Next]_vars => IInv'
<1> SUFFICES ASSUME IInv, [Next]_vars PROVE IInv'
  OBVIOUS
<1>1. ASSUME NEW t \in Tasks, push_last(t) PROVE IInv'
  BY <1>1, PushInv
<1>2. CASE pop_first
  BY <1>2, PopInv
<1>3. CASE pop_first_empty \/ invalid_call
  <2>1. /\ UNCHANGED fields
        /\ reply' \in [rc : {OK, INVALID_INPUT, EMPTY_QUEUE}, task : Tasks \cup {NULL}]
    BY <1>3 DEF pop_first_empty, invalid_call, Reply
  <2> QED
    BY <2>1 DEF IInv, fields, TypeOK, Linked, NodesOwned
<1>4. CASE UNCHANGED vars
  BY <1>4 DEF vars, IInv, TypeOK, Linked, NodesOwned
<1> QED
  BY <1>1, <1>2, <1>3, <1>4 DEF Next

(***************************************************************************)
(* For any number of addresses and tasks: the variables keep their types,  *)
(* first, last, size and every prev and next of the list agree in every    *)
(* state that push_last and pop_first can reach, and the allocated nodes   *)
(* are exactly the nodes in the list.                                      *)
(***************************************************************************)
THEOREM ListInvariant == Spec => [](TypeOK /\ Linked /\ NodesOwned)
<1>1. Spec => []IInv
  BY InitInv, NextInv, PTL DEF Spec
<1>2. IInv => TypeOK /\ Linked /\ NodesOwned
  BY DEF IInv
<1> QED
  BY <1>1, <1>2, PTL

(* In particular push_last and pop_first neither leak a node nor use a     *)
(* freed one.                                                              *)
THEOREM NodesAreOwned == Spec => []NodesOwned
  BY ListInvariant, PTL

-----------------------------------------------------------------------------
(* The refinement mapping is a sequence of tasks, one for each node.       *)
LEMMA ContentsSeq ==
  ASSUME TypeOK
  PROVE  /\ Contents \in Seq(Tasks \cup {NULL})
         /\ Len(Contents) = Len(order)
         /\ \A k \in 1 .. Len(order) : Contents[k] = node[order[k]].task
<1>1. order \in Seq(Nodes) /\ Len(order) \in Nat
  BY DEF TypeOK
<1>2. \A k \in 1 .. Len(order) : node[order[k]].task \in Tasks \cup {NULL}
  BY <1>1 DEF TypeOK, Cell
<1> QED
  BY <1>1, <1>2 DEF Contents

(* The same in the next state.                                             *)
LEMMA ContentsSeqNext ==
  ASSUME TypeOK'
  PROVE  /\ Contents' \in Seq(Tasks \cup {NULL})
         /\ Len(Contents') = Len(order')
         /\ \A k \in 1 .. Len(order') : Contents'[k] = node'[order'[k]].task
<1>1. order' \in Seq(Nodes) /\ Len(order') \in Nat
  BY DEF TypeOK
<1>2. \A k \in 1 .. Len(order') : node'[order'[k]].task \in Tasks \cup {NULL}
  BY <1>1 DEF TypeOK, Cell
<1> QED
  BY <1>1, <1>2 DEF Contents

(* push_last appends its task to the abstract queue.                       *)
LEMMA PushRefines ==
  ASSUME IInv, NEW t \in Tasks, push_last(t)
  PROVE  Abstract!Push(t)
<1>1. PICK n \in Nodes \ alloc :
        /\ order' = Append(order, n)
        /\ reply' = Reply(OK, NULL)
        /\ \/ /\ size = 0
              /\ node' = [node EXCEPT ![n] = [task |-> t, next |-> NULL, prev |-> NULL]]
           \/ /\ size # 0
              /\ node' = LinkTail(n, t)
  BY DEF push_last
<1>2. /\ order \in Seq(Nodes) /\ Len(order) \in Nat /\ Len(order') = Len(order) + 1
      /\ order'[Len(order) + 1] = n
      /\ \A k \in 1 .. Len(order) : order'[k] = order[k]
  BY <1>1 DEF IInv, TypeOK
<1>3. \A k \in 1 .. Len(order) : order[k] \in Nodes /\ order[k] # n
  BY <1>1, <1>2 DEF IInv, NodesOwned
<1>4. node'[n].task = t /\ \A m \in Nodes \ {n} : node'[m].task = node[m].task
  <2>1. CASE size = 0
    BY <1>1, <2>1 DEF IInv, TypeOK
  <2>2. CASE size # 0
    <3>1. last \in Nodes /\ last # n
      BY <1>2, <1>3, <2>2 DEF IInv, Linked
    <3>2. /\ node'[n] = [task |-> t, next |-> last, prev |-> NULL]
          /\ node'[last].task = node[last].task
          /\ \A m \in Nodes \ {n, last} : node'[m] = node[m]
      BY <1>1, <2>2, <3>1 DEF LinkTail, IInv, TypeOK, Cell
    <3> QED
      BY <3>2
  <2> QED
    BY <2>1, <2>2
<1>5. TypeOK /\ TypeOK'
  BY PushInv DEF IInv
<1>6. Contents' = Append(Contents, t)
  <2> DEFINE before == Contents
             after == Contents'
             pushed == Append(before, t)
  <2>1. /\ before \in Seq(Tasks \cup {NULL}) /\ Len(before) = Len(order)
        /\ \A k \in 1 .. Len(order) : before[k] = node[order[k]].task
    BY <1>5, ContentsSeq
  <2>2. /\ after \in Seq(Tasks \cup {NULL}) /\ Len(after) = Len(order')
        /\ \A k \in 1 .. Len(order') : after[k] = node'[order'[k]].task
    BY <1>5, ContentsSeqNext
  <2> HIDE DEF before, after
  <2>3. pushed \in Seq(Tasks \cup {NULL}) /\ Len(pushed) = Len(after)
    BY <1>2, <2>1, <2>2
  <2>4. ASSUME NEW k \in 1 .. Len(after) PROVE after[k] = pushed[k]
    <3>1. CASE k = Len(order) + 1
      BY <1>2, <1>4, <2>1, <2>2, <3>1
    <3>2. CASE k \in 1 .. Len(order)
      BY <1>2, <1>3, <1>4, <2>1, <2>2, <3>2
    <3>3. k = Len(order) + 1 \/ k \in 1 .. Len(order)
      <4>1. Len(after) = Len(order) + 1 /\ Len(order) \in Nat
        BY <1>2, <2>2
      <4> QED
        BY <4>1
    <3> QED
      BY <3>1, <3>2, <3>3
  <2>5. after = pushed
    <3> HIDE DEF pushed
    <3> QED
      BY <2>2, <2>3, <2>4, SeqEqual
  <2> QED
    BY <2>5 DEF before, after
<1> QED
  BY <1>1, <1>6 DEF Abstract!Push, Abstract!Reply, Reply

(* pop_first removes the first task of the abstract queue and returns it.  *)
LEMMA PopRefines ==
  ASSUME IInv, pop_first
  PROVE  Abstract!Pop
<1>1. TypeOK /\ TypeOK' /\ Linked
  BY PopInv DEF IInv
<1>2. /\ order \in Seq(Nodes) /\ Len(order) \in Nat /\ Len(order) >= 1
      /\ order # <<>> /\ first = order[1]
      /\ order' = Tail(order) /\ Len(order') = Len(order) - 1
      /\ \A k \in 1 .. Len(order') : order'[k] = order[k + 1]
  <2>1. /\ order \in Seq(Nodes) /\ Len(order) \in Nat /\ Len(order) # 0
        /\ order' = Tail(order)
    BY <1>1 DEF TypeOK, Linked, pop_first
  <2>2. order # <<>> /\ Len(order) >= 1 /\ first = order[1]
    BY <1>1, <2>1 DEF Linked
  <2> QED
    BY <2>1, <2>2, HeadTailProperties
<1>3. \A m \in Nodes : node'[m].task = node[m].task
  <2>1. CASE size - 1 = 0
    BY <2>1 DEF pop_first, UnlinkHead
  <2>2. CASE size - 1 # 0
    BY <1>1, <2>2 DEF pop_first, UnlinkHead, TypeOK, Cell
  <2> QED
    BY <2>1, <2>2
<1> DEFINE before == Contents
           after == Contents'
           rest == Tail(before)
<1>4. /\ before \in Seq(Tasks \cup {NULL}) /\ Len(before) = Len(order)
      /\ \A k \in 1 .. Len(order) : before[k] = node[order[k]].task
  BY <1>1, ContentsSeq
<1>5. /\ after \in Seq(Tasks \cup {NULL}) /\ Len(after) = Len(order')
      /\ \A k \in 1 .. Len(order') : after[k] = node'[order'[k]].task
  BY <1>1, ContentsSeqNext
<1> HIDE DEF before, after
<1>6. /\ before # <<>> /\ Head(before) = node[first].task
      /\ rest \in Seq(Tasks \cup {NULL}) /\ Len(rest) = Len(before) - 1
      /\ \A k \in 1 .. Len(rest) : rest[k] = before[k + 1]
  <2>1. before # <<>>
    BY <1>2, <1>4
  <2>2. Head(before) = before[1]
    BY <1>4, <2>1
  <2> QED
    BY <1>2, <1>4, <2>1, <2>2, HeadTailProperties
<1>7. after = rest
  <2>1. \A k \in 1 .. Len(after) : after[k] = rest[k]
    <3> SUFFICES ASSUME NEW k \in 1 .. Len(after) PROVE after[k] = rest[k]
      OBVIOUS
    <3>1. k \in 1 .. Len(order') /\ k \in 1 .. Len(rest) /\ k + 1 \in 1 .. Len(order)
      BY <1>2, <1>4, <1>5, <1>6
    <3>2. order'[k] \in Nodes
      BY <1>1, <3>1 DEF TypeOK
    <3>3. after[k] = node'[order'[k]].task
      BY <1>5, <3>1
    <3>4. node'[order'[k]].task = node[order'[k]].task
      BY <1>3, <3>2
    <3>5. order'[k] = order[k + 1]
      BY <1>2, <3>1
    <3>6. before[k + 1] = node[order[k + 1]].task
      BY <1>4, <3>1
    <3>7. rest[k] = before[k + 1]
      BY <1>6, <3>1
    <3> HIDE DEF rest
    <3> QED
      BY <3>3, <3>4, <3>5, <3>6, <3>7
  <2>2. Len(after) = Len(rest)
    BY <1>2, <1>4, <1>5, <1>6
  <2> HIDE DEF rest
  <2> QED
    BY <1>5, <1>6, <2>1, <2>2, SeqEqual
<1> QED
  BY <1>6, <1>7 DEF before, after, Abstract!Pop, Abstract!Reply, Reply, pop_first

(***************************************************************************)
(* The linked list of fifo_queue.c implements the first-in first-out queue *)
(* of TaskQueue, for any number of addresses and tasks: every call is the  *)
(* abstract operation with the same result.                                *)
(***************************************************************************)
THEOREM Refinement == Spec => ImplementsTaskQueue
<1>1. Init => Abstract!Init
  <2> SUFFICES ASSUME Init PROVE Abstract!Init
    OBVIOUS
  <2>1. order = <<>> /\ Len(order) = 0
    BY DEF Init
  <2>2. Contents = <<>>
    BY <2>1 DEF Contents
  <2> QED
    BY <2>2 DEF Init, Abstract!Init, Abstract!Reply, Reply
<1>2. IInv /\ [Next]_vars => [Abstract!Next]_(Abstract!vars)
  <2> SUFFICES ASSUME IInv, [Next]_vars
               PROVE  Abstract!Next \/ UNCHANGED Abstract!vars
    OBVIOUS
  <2>1. ASSUME NEW t \in Tasks, push_last(t) PROVE Abstract!Next
    BY <2>1, PushRefines DEF Abstract!Next
  <2>2. CASE pop_first
    BY <2>2, PopRefines DEF Abstract!Next
  <2>3. CASE pop_first_empty
    <3>1. Len(order) = 0
      BY <2>3, NullAssumption DEF pop_first_empty, IInv, TypeOK, Linked
    <3>2. Contents = <<>> /\ UNCHANGED Contents
      BY <2>3, <3>1 DEF pop_first_empty, fields, Contents
    <3> QED
      BY <2>3, <3>2 DEF pop_first_empty, Abstract!Next, Abstract!PopEmpty, Abstract!Reply, Reply
  <2>4. CASE invalid_call
    BY <2>4 DEF invalid_call, fields, Contents, Abstract!Next, Abstract!Reject,
                Abstract!Reply, Reply
  <2>5. CASE UNCHANGED vars
    BY <2>5 DEF vars, Contents, Abstract!vars
  <2> QED
    BY <2>1, <2>2, <2>3, <2>4, <2>5 DEF Next
<1>3. Spec => []IInv
  BY InitInv, NextInv, PTL DEF Spec
<1> QED
  BY <1>1, <1>2, <1>3, PTL DEF Spec, ImplementsTaskQueue, Abstract!Spec
=============================================================================
