----------------------------- MODULE Dictionary -----------------------------
(***************************************************************************)
(* The dictionary of src/DataStructures, in which the parser keeps a       *)
(* request and main keeps the routes: Dictionary.c over BinarySearchTree.c *)
(* with a LinkedList of the keys, Entry.c and Node.c.  Keys are compared   *)
(* by strcmp, here numbers by <.                                           *)
(*                                                                         *)
(* Tree nodes are numbered in the order they are created and 0 is NULL.    *)
(***************************************************************************)
EXTENDS Integers, Sequences, SequencesExt

CONSTANTS Keys,          \* the keys, numbers
          Values,        \* the values
          NULL,          \* no value
          MaxCalls       \* bound on the calls made

ASSUME DictionaryAssumption ==
  Keys \subseteq Nat /\ NULL \notin Values /\ MaxCalls \in Nat

VARIABLES node,          \* the tree's nodes with their entries
          keys,          \* the key list
          pc,            \* "live", or where dictionary_destructor is
          i,             \* loop index of linked_list_destructor
          destroyed,     \* the tree nodes freed, in order
          reply,         \* the latest search: its key and what it returned
          calls

vars == <<node, keys, pc, i, destroyed, reply, calls>>

Init ==
  /\ node = <<>>
  /\ keys = <<>>
  /\ pc = "live"
  /\ i = 0
  /\ destroyed = <<>>
  /\ reply = <<>>
  /\ calls = 0

-----------------------------------------------------------------------------
(* iterate_bst: compare(cursor->data, data) is 1 when the cursor is the    *)
(* greater, and the walk goes to `next'; it is -1 when the cursor is the   *)
(* smaller, and the walk goes to `previous'.  It ends at the node with the *)
(* key (direction 0) or at the node to hang a new one under.               *)
Iterate_OneLevel(k) ==
  LET c == node[1]
  IN  [at |-> 1, direction |-> IF c.key > k THEN 1 ELSE IF c.key < k THEN -1 ELSE 0]

Iterate(k) ==
  LET walk[n \in 1 .. Len(node)] ==
        LET c == node[n]
        IN  IF c.key > k /\ c.next # 0 THEN walk[c.next]
            ELSE IF c.key < k /\ c.previous # 0 THEN walk[c.previous]
            ELSE [at |-> n,
                  direction |-> IF c.key > k THEN 1 ELSE IF c.key < k THEN -1 ELSE 0]
  IN  walk[1]

NewNode(k, v) == [key |-> k, value |-> v, next |-> 0, previous |-> 0]

(* insert_bst: the tree after a new node for k and v.                      *)
Hung(k, v) ==
  LET place == Iterate(k)
      new == Len(node) + 1
  IN  CASE place.direction = 1 ->
             Append([node EXCEPT ![place.at].next = new], NewNode(k, v))
        [] place.direction = -1 ->
             Append([node EXCEPT ![place.at].previous = new], NewNode(k, v))
        [] OTHER -> node          \* duplicate nodes will not be added

Tree(k, v) == IF node = <<>> THEN <<NewNode(k, v)>> ELSE Hung(k, v)

(* insert_dict: a key is added to the list for a duplicate too.            *)
insert_dict(k, v) ==
  /\ pc = "live"
  /\ calls < MaxCalls
  /\ calls' = calls + 1
  /\ node' = Tree(k, v)
  /\ keys' = Append(keys, k)
  /\ UNCHANGED <<pc, i, destroyed, reply>>

(* What search_dict returns when the walk ended at `place'.                *)
Result_Anywhere(place) == node[place.at].value

Result(place) == IF place.direction = 0 THEN node[place.at].value ELSE NULL

(* search_dict, which returns the value or NULL.                           *)
search_dict(k) ==
  /\ pc = "live"
  /\ calls < MaxCalls
  /\ calls' = calls + 1
  /\ reply' = <<k, IF node = <<>> THEN NULL ELSE Result(Iterate(k))>>
  /\ UNCHANGED <<node, keys, pc, i, destroyed>>

-----------------------------------------------------------------------------
(* dictionary_destructor: linked_list_destructor, then                     *)
(* recursive_dictionary_destroy.                                           *)
dictionary_destructor ==
  /\ pc = "live"
  /\ pc' = "keys"
  /\ UNCHANGED <<node, keys, i, destroyed, reply, calls>>

(* linked_list->remove(linked_list, 0) while i < length, which shrinks.    *)
linked_list_destructor ==
  /\ pc = "keys"
  /\ IF i < Len(keys)
       THEN /\ keys' = Tail(keys)
            /\ i' = i + 1
            /\ UNCHANGED pc
       ELSE /\ pc' = "tree"
            /\ UNCHANGED <<keys, i>>
  /\ UNCHANGED <<node, destroyed, reply, calls>>

(* The nodes in the order they are freed: both subtrees, then the node.    *)
PostOrder ==
  LET visit[n \in 0 .. Len(node)] ==
        IF n = 0 THEN <<>>
                 ELSE visit[node[n].previous] \o visit[node[n].next] \o <<n>>
  IN  IF node = <<>> THEN <<>> ELSE visit[1]

(* Each node's entry is freed with the node.                               *)
recursive_dictionary_destroy ==
  /\ pc = "tree"
  /\ destroyed' = PostOrder
  /\ pc' = "gone"
  /\ UNCHANGED <<node, keys, i, reply, calls>>

Finished == pc = "gone" /\ UNCHANGED vars

Next ==
  \/ \E k \in Keys : search_dict(k) \/ \E v \in Values : insert_dict(k, v)
  \/ dictionary_destructor
  \/ linked_list_destructor
  \/ recursive_dictionary_destroy
  \/ Finished

Spec == Init /\ [][Next]_vars
-----------------------------------------------------------------------------
(***************************************************************************)
(* A search finds every key that was inserted, with its first value, and   *)
(* no other, for every order of insertions: no insertion hides a node.     *)
(***************************************************************************)
Contents ==
  [k \in Keys |-> IF \E n \in 1 .. Len(node) : node[n].key = k
                    THEN node[CHOOSE n \in 1 .. Len(node) : node[n].key = k].value
                    ELSE NULL]

Abstract == INSTANCE KeyValueMap WITH contents <- Contents

ImplementsMap == Abstract!Spec

(***************************************************************************)
(* Dictionary.h, "The destructor will need to free every node in the       *)
(* tree": it frees each node exactly once, because the nodes form one tree *)
(* under node 1 whatever was inserted.                                     *)
(***************************************************************************)
FreesEveryNode ==
  pc = "gone" => /\ ToSet(destroyed) = 1 .. Len(node)
                 /\ Len(destroyed) = Len(node)
=============================================================================
