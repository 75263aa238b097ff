----------------------------- MODULE FifoQueue -----------------------------
(***************************************************************************)
(* The doubly linked FIFO of webserver_project/src/network/fifo_queue.c.   *)
(* A node's `prev' points towards the tail (the node pushed after it) and  *)
(* `next' towards the head.  The C heap is the pair (alloc, node): malloc  *)
(* returns any address that is not allocated, so addresses are reused, and *)
(* free leaves the freed cell's content behind.                            *)
(*                                                                         *)
(* `order' is a history variable: the addresses in the order their nodes   *)
(* were pushed and not yet popped.  No guard reads it; it names the list   *)
(* that the pointers are supposed to represent.                            *)
(***************************************************************************)
EXTENDS Naturals, Sequences

CONSTANTS Nodes,         \* addresses malloc can return for a node_t
          Tasks,         \* struct ClientTask pointers
          NULL,          \* the null pointer
          OK, INVALID_INPUT, EMPTY_QUEUE      \* return codes

ASSUME NullAssumption == NULL \notin Nodes /\ NULL \notin Tasks

VARIABLES size,          \* queue->size
          first,         \* queue->first, the head
          last,          \* queue->last, the tail
          node,          \* content of every node_t cell
          alloc,         \* the addresses that are allocated
          reply,         \* return code and *task of the latest call
          order          \* history: the list the pointers represent

fields == <<size, first, last, node, alloc, order>>
vars == <<size, first, last, node, alloc, reply, order>>

Cell == [task : Tasks \cup {NULL},
         next : Nodes \cup {NULL},
         prev : Nodes \cup {NULL}]

Reply(rc, t) == [rc |-> rc, task |-> t]

(* fifo_queue_init on a queue no node of which is allocated yet.           *)
fifo_queue_init ==
  /\ size = 0
  /\ first = NULL
  /\ last = NULL

Init ==
  /\ fifo_queue_init
  /\ node = [n \in Nodes |-> [task |-> NULL, next |-> NULL, prev |-> NULL]]
  /\ alloc = {}
  /\ reply = Reply(OK, NULL)
  /\ order = <<>>

-----------------------------------------------------------------------------
(* The cells after a new node n for task t is hooked behind the tail.      *)
LinkTail_NoPrev(n, t) ==
  [node EXCEPT ![n] = [task |-> t, next |-> last, prev |-> NULL]]

LinkTail(n, t) ==
  [node EXCEPT ![n] = [task |-> t, next |-> last, prev |-> NULL],
               ![last].prev = n]

push_last(t) ==
  \E n \in Nodes \ alloc :
    /\ alloc' = alloc \cup {n}
    /\ \/ /\ size = 0
          /\ first' = n
          /\ node' = [node EXCEPT ![n] = [task |-> t, next |-> NULL, prev |-> NULL]]
       \/ /\ size # 0
          /\ node' = LinkTail(n, t)
          /\ UNCHANGED first
    /\ last' = n
    /\ size' = size + 1
    /\ order' = Append(order, n)
    /\ reply' = Reply(OK, NULL)

(* The tail pointer after a pop: cleared when the last node went.          *)
LastAfterPop_NotCleared == last

LastAfterPop == IF size - 1 = 0 THEN NULL ELSE last

(* The popped node is freed.                                               *)
AllocAfterPop_Leak == alloc

AllocAfterPop == alloc \ {first}

(* The cells after a pop: the new head has no predecessor.                 *)
UnlinkHead ==
  IF size - 1 # 0 THEN [node EXCEPT ![node[first].prev].next = NULL] ELSE node

pop_first ==
  /\ size # 0
  /\ first # NULL
  /\ reply' = Reply(OK, node[first].task)
  /\ first' = node[first].prev
  /\ alloc' = AllocAfterPop
  /\ size' = size - 1
  /\ last' = LastAfterPop
  /\ node' = UnlinkHead
  /\ order' = Tail(order)

pop_first_empty ==
  /\ size = 0 \/ first = NULL
  /\ reply' = Reply(EMPTY_QUEUE, NULL)
  /\ UNCHANGED fields

(* Either function called with queue == NULL, or pop_first with a NULL     *)
(* out-parameter.                                                          *)
invalid_call ==
  /\ reply' = Reply(INVALID_INPUT, NULL)
  /\ UNCHANGED fields

Next ==
  \/ \E t \in Tasks : push_last(t)
  \/ pop_first
  \/ pop_first_empty
  \/ invalid_call

Spec == Init /\ [][Next]_vars
-----------------------------------------------------------------------------
TypeOK ==
  /\ size \in Nat
  /\ first \in Nodes \cup {NULL}
  /\ last \in Nodes \cup {NULL}
  /\ node \in [Nodes -> Cell]
  /\ alloc \in SUBSET Nodes
  /\ reply \in [rc : {OK, INVALID_INPUT, EMPTY_QUEUE}, task : Tasks \cup {NULL}]
  /\ order \in Seq(Nodes)

(***************************************************************************)
(* The pointer structure represents `order': size is its length, first and *)
(* last are its ends, prev and next are inverse walks along it, both ends  *)
(* are closed by NULL and no address occurs twice.  push_last and          *)
(* pop_first update six pointers between them; a slip in any of them shows *)
(* only several calls later.                                               *)
(***************************************************************************)
Linked ==
  /\ size = Len(order)
  /\ \A i, j \in 1 .. Len(order) : order[i] = order[j] => i = j
  /\ first = IF order = <<>> THEN NULL ELSE order[1]
  /\ last = IF order = <<>> THEN NULL ELSE order[Len(order)]
  /\ \A i \in 1 .. Len(order) :
       /\ node[order[i]].prev = IF i = Len(order) THEN NULL ELSE order[i + 1]
       /\ node[order[i]].next = IF i = 1 THEN NULL ELSE order[i - 1]

(***************************************************************************)
(* Every node push_last allocates is freed by exactly the pop_first that   *)
(* removes it: the allocated cells are the cells in the list (no leak, no  *)
(* list node that was already freed).                                      *)
(***************************************************************************)
NodesOwned == alloc = {order[i] : i \in 1 .. Len(order)}

(* The tasks in the list, head first: the refinement mapping.              *)
Contents == [i \in 1 .. Len(order) |-> node[order[i]].task]

(***************************************************************************)
(* The linked list implements the abstract FIFO of TaskQueue: pop_first    *)
(* returns the tasks in the order push_last received them, once each, and  *)
(* EMPTY_QUEUE exactly when none is left.                                  *)
(***************************************************************************)
Abstract == INSTANCE TaskQueue WITH contents <- Contents

ImplementsTaskQueue == Abstract!Spec
=============================================================================
