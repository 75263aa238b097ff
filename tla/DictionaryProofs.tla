-------------------------- MODULE DictionaryProofs --------------------------
(***************************************************************************)
(* The dictionary, proved for every set of keys and values and every order *)
(* of insertions.                                                          *)
(***************************************************************************)
EXTENDS Dictionary, WellFoundedInduction, TLAPS

-----------------------------------------------------------------------------
(* Every set of numbers has a least one: the induction the proofs use.     *)
LEMMA Least ==
  ASSUME NEW T \in SUBSET Nat, T # {}
  PROVE  \E m \in T : \A k \in T : m <= k
<1> DEFINE R == {ss \in Nat \X Nat : ss[1] < ss[2]}
<1>1. IsWellFoundedOn(R, Nat)
  BY NatLessThanWellFounded DEF OpToRel
<1>2. \A k, m \in Nat : k < m => <<k, m>> \in R
  OBVIOUS
<1> HIDE DEF R
<1>3. PICK m \in T : \A k \in T : <<k, m>> \notin R
  BY <1>1, WFMin
<1>4. ASSUME NEW k \in T PROVE m <= k
  <2>1. k \in Nat /\ m \in Nat
    OBVIOUS
  <2>2. ~ (k < m)
    BY <1>2, <1>3, <2>1
  <2> QED
    BY <2>1, <2>2
<1> QED
  BY <1>4

(* Downward induction over the nodes 1 .. N.                               *)
LEMMA Downward ==
  ASSUME NEW N \in Nat, NEW T \in SUBSET (1 .. N),
         \A n \in 1 .. N : n + 1 .. N \subseteq T => n \in T
  PROVE  T = 1 .. N
<1> SUFFICES ASSUME 1 .. N \ T # {} PROVE FALSE
  OBVIOUS
<1> DEFINE D == {d \in Nat : d < N /\ N - d \notin T}
<1>1. D # {} /\ D \in SUBSET Nat
  <2>1. PICK n \in 1 .. N : n \notin T
    OBVIOUS
  <2>2. N - n \in D
    BY <2>1
  <2> QED
    BY <2>2
<1>2. PICK d \in D : \A e \in D : d <= e
  <2> HIDE DEF D
  <2> QED
    BY <1>1, Least
<1>3. N - d \in 1 .. N /\ N - d \notin T
  BY <1>2
<1>4. ASSUME NEW m \in N - d + 1 .. N PROVE m \in T
  <2>1. N - m \in Nat /\ N - m < d /\ N - (N - m) = m /\ N - m < N
    BY <1>2, <1>4
  <2>2. N - m \notin D
    BY <1>2, <2>1
  <2> QED
    BY <2>1, <2>2
<1> QED
  BY <1>3, <1>4
-----------------------------------------------------------------------------
(* A tree is a sequence of nodes whose children come later.                *)
NodeType == [key : Nat, value : Values, next : Nat, previous : Nat]

IsTree(t) ==
  /\ t \in Seq(NodeType)
  /\ \A n \in 1 .. Len(t) :
       /\ t[n].next # 0 => t[n].next \in n + 1 .. Len(t)
       /\ t[n].previous # 0 => t[n].previous \in n + 1 .. Len(t)

(* Where the walk for k goes at node n, and what the destructor frees at   *)
(* it, when f says so of the children.                                     *)
Compared(c, k) == IF c.key > k THEN 1 ELSE IF c.key < k THEN -1 ELSE 0

WalkAt(t, k, f, n) ==
  IF t[n].key > k /\ t[n].next # 0 THEN f[t[n].next]
  ELSE IF t[n].key < k /\ t[n].previous # 0 THEN f[t[n].previous]
  ELSE [at |-> n, direction |-> Compared(t[n], k)]

VisitAt(t, f, n) ==
  IF n = 0 THEN <<>> ELSE f[t[n].previous] \o f[t[n].next] \o <<n>>

(* The functions Iterate and PostOrder take.                               *)
Walk(t, k) == CHOOSE f : f = [n \in 1 .. Len(t) |-> WalkAt(t, k, f, n)]
Visit(t) == CHOOSE f : f = [n \in 0 .. Len(t) |-> VisitAt(t, f, n)]

LEMMA IterateIsWalk == \A k : Iterate(k) = Walk(node, k)[1]
  BY DEF Iterate, Walk, WalkAt, Compared

LEMMA PostOrderIsVisit ==
  PostOrder = IF node = <<>> THEN <<>> ELSE Visit(node)[1]
  BY DEF PostOrder, Visit, VisitAt

(* Both recursions end: there are functions that satisfy their equations.  *)
LEMMA WalkExists ==
  ASSUME NEW t, IsTree(t), NEW k
  PROVE  Walk(t, k) = [n \in 1 .. Len(t) |-> WalkAt(t, k, Walk(t, k), n)]
<1> DEFINE N == Len(t)
           Solves(f, n) == \A x \in n .. N : f[x] = WalkAt(t, k, f, x)
           T == {n \in 1 .. N : \E f : Solves(f, n)}
<1>1. N \in Nat
  BY DEF IsTree
<1>2. ASSUME NEW n \in 1 .. N, n + 1 .. N \subseteq T PROVE n \in T
  <2>1. PICK f : n + 1 \in 1 .. N => Solves(f, n + 1)
    <3>1. CASE n + 1 \in 1 .. N
      <4>1. n + 1 \in T
        BY <1>2, <3>1
      <4> QED
        BY <4>1
    <3>2. CASE n + 1 \notin 1 .. N
      BY <3>2
    <3> QED
      BY <3>1, <3>2
  <2> DEFINE g == [x \in n .. N |-> IF x = n THEN WalkAt(t, k, f, n) ELSE f[x]]
  <2>2. ASSUME NEW x \in n .. N PROVE WalkAt(t, k, g, x) = WalkAt(t, k, f, x)
    <3>1. \A c \in x + 1 .. N : c \in n .. N /\ g[c] = f[c]
      BY <1>1
    <3>2. x \in 1 .. N
      BY <1>1
    <3> HIDE DEF g
    <3> QED
      BY <3>1, <3>2 DEF IsTree, WalkAt
  <2>3. ASSUME NEW x \in n .. N PROVE g[x] = WalkAt(t, k, f, x)
    <3>1. x # n => x \in n + 1 .. N /\ n + 1 \in 1 .. N
      BY <1>1
    <3> QED
      BY <2>1, <3>1
  <2>4. Solves(g, n)
    <3> HIDE DEF g
    <3> QED
      BY <2>2, <2>3
  <2> QED
    BY <2>4
<1>3. T = 1 .. N
  <2> HIDE DEF T
  <2> SUFFICES T \in SUBSET (1 .. N)
    BY <1>1, <1>2, Downward
  <2> QED
    BY DEF T
<1>4. \E f : f = [n \in 1 .. N |-> WalkAt(t, k, f, n)]
  <2>1. PICK f : \A x \in 1 .. N : f[x] = WalkAt(t, k, f, x)
    <3>1. CASE 1 \in 1 .. N
      BY <1>3, <3>1
    <3>2. CASE 1 \notin 1 .. N
      BY <1>1, <3>2
    <3> QED
      BY <3>1, <3>2
  <2> DEFINE g == [x \in 1 .. N |-> f[x]]
  <2>2. ASSUME NEW x \in 1 .. N PROVE WalkAt(t, k, g, x) = WalkAt(t, k, f, x)
    <3>1. \A c \in x + 1 .. N : c \in 1 .. N /\ g[c] = f[c]
      BY <1>1
    <3> HIDE DEF g
    <3> QED
      BY <3>1 DEF IsTree, WalkAt
  <2>3. g = [x \in 1 .. N |-> WalkAt(t, k, g, x)]
    <3>1. \A x \in 1 .. N : g[x] = WalkAt(t, k, g, x)
      BY <2>1, <2>2
    <3> HIDE DEF WalkAt
    <3> QED
      BY <3>1
  <2> QED
    BY <2>3
<1> HIDE DEF T
<1> QED
  BY <1>4 DEF Walk

LEMMA VisitExists ==
  ASSUME NEW t, IsTree(t)
  PROVE  Visit(t) = [n \in 0 .. Len(t) |-> VisitAt(t, Visit(t), n)]
<1> DEFINE N == Len(t)
           Solves(f, n) == f[0] = <<>> /\ \A x \in n .. N : f[x] = VisitAt(t, f, x)
           T == {n \in 1 .. N : \E f : Solves(f, n)}
<1>1. N \in Nat
  BY DEF IsTree
<1>2. ASSUME NEW n \in 1 .. N, n + 1 .. N \subseteq T PROVE n \in T
  <2>1. PICK f : f[0] = <<>> /\ (n + 1 \in 1 .. N => Solves(f, n + 1))
    <3>1. CASE n + 1 \in 1 .. N
      <4>1. n + 1 \in T
        BY <1>2, <3>1
      <4> QED
        BY <4>1
    <3>2. CASE n + 1 \notin 1 .. N
      <4>1. [x \in {0} |-> <<>>][0] = <<>>
        OBVIOUS
      <4> QED
        BY <3>2, <4>1
    <3> QED
      BY <3>1, <3>2
  <2> DEFINE g == [x \in {0} \cup n .. N |-> IF x = n THEN VisitAt(t, f, n) ELSE f[x]]
  <2>2. ASSUME NEW x \in n .. N PROVE VisitAt(t, g, x) = VisitAt(t, f, x)
    <3>1. \A c \in {0} \cup x + 1 .. N : g[c] = f[c]
      BY <1>1
    <3>2. x \in 1 .. N
      BY <1>1
    <3> HIDE DEF g
    <3>3. t[x].next \in {0} \cup x + 1 .. N /\ t[x].previous \in {0} \cup x + 1 .. N
      BY <3>2 DEF IsTree
    <3> QED
      BY <3>1, <3>3 DEF VisitAt
  <2>3. ASSUME NEW x \in n .. N PROVE g[x] = VisitAt(t, f, x)
    <3>1. x # n => x \in n + 1 .. N /\ n + 1 \in 1 .. N
      BY <1>1
    <3> QED
      BY <2>1, <3>1
  <2>4. g[0] = <<>>
    BY <2>1
  <2>5. Solves(g, n)
    <3> HIDE DEF g
    <3> QED
      BY <2>2, <2>3, <2>4
  <2> QED
    BY <2>5
<1>3. T = 1 .. N
  <2> HIDE DEF T
  <2> SUFFICES T \in SUBSET (1 .. N)
    BY <1>1, <1>2, Downward
  <2> QED
    BY DEF T
<1>4. \E f : f = [n \in 0 .. N |-> VisitAt(t, f, n)]
  <2>1. PICK f : f[0] = <<>> /\ \A x \in 1 .. N : f[x] = VisitAt(t, f, x)
    <3>1. CASE 1 \in 1 .. N
      BY <1>3, <3>1
    <3>2. CASE 1 \notin 1 .. N
      <4> DEFINE h == [x \in {0} |-> <<>>]
      <4>1. h[0] = <<>> /\ \A x \in 1 .. N : h[x] = VisitAt(t, h, x)
        BY <1>1, <3>2
      <4> HIDE DEF h
      <4> QED
        BY <4>1
    <3> QED
      BY <3>1, <3>2
  <2> DEFINE g == [x \in 0 .. N |-> f[x]]
  <2>2. ASSUME NEW x \in 0 .. N PROVE VisitAt(t, g, x) = VisitAt(t, f, x)
    <3>1. \A c \in 0 .. N : g[c] = f[c]
      BY <1>1
    <3> HIDE DEF g
    <3>2. x # 0 => t[x].next \in 0 .. N /\ t[x].previous \in 0 .. N
      BY <1>1 DEF IsTree
    <3> QED
      BY <3>1, <3>2 DEF VisitAt
  <2>3. \A x \in 0 .. N : g[x] = VisitAt(t, f, x)
    <3>1. VisitAt(t, f, 0) = <<>> /\ \A x \in 0 .. N : x = 0 \/ x \in 1 .. N
      BY <1>1 DEF VisitAt
    <3> QED
      BY <2>1, <3>1
  <2>4. g = [x \in 0 .. N |-> VisitAt(t, g, x)]
    <3>1. \A x \in 0 .. N : g[x] = VisitAt(t, g, x)
      BY <2>2, <2>3
    <3> HIDE DEF VisitAt
    <3> QED
      BY <3>1
  <2> QED
    BY <2>4
<1> HIDE DEF T
<1> QED
  BY <1>4 DEF Visit
-----------------------------------------------------------------------------
(* A walk ends at a later node, which has the key or has room on the side  *)
(* where the key belongs.                                                  *)
EndsAt(t, k, p) ==
  /\ p.at \in 1 .. Len(t)
  /\ p = [at |-> p.at, direction |-> Compared(t[p.at], k)]
  /\ p.direction = 1 => t[p.at].next = 0
  /\ p.direction = -1 => t[p.at].previous = 0

LEMMA WalkEnds ==
  ASSUME NEW t, IsTree(t), NEW k
  PROVE  \A n \in 1 .. Len(t) : EndsAt(t, k, Walk(t, k)[n])
<1> DEFINE N == Len(t)
           T == {n \in 1 .. N : EndsAt(t, k, Walk(t, k)[n])}
<1>1. ASSUME NEW n \in 1 .. N, n + 1 .. N \subseteq T PROVE n \in T
  <2>1. Walk(t, k)[n] = WalkAt(t, k, Walk(t, k), n)
    BY WalkExists
  <2>2. CASE t[n].key > k /\ t[n].next # 0
    BY <1>1, <2>1, <2>2 DEF WalkAt, IsTree
  <2>3. CASE ~(t[n].key > k /\ t[n].next # 0) /\ t[n].key < k /\ t[n].previous # 0
    BY <1>1, <2>1, <2>3 DEF WalkAt, IsTree
  <2>4. CASE /\ ~(t[n].key > k /\ t[n].next # 0)
             /\ ~(t[n].key < k /\ t[n].previous # 0)
    BY <2>1, <2>4 DEF WalkAt, EndsAt, Compared
  <2> QED
    BY <2>2, <2>3, <2>4
<1>2. N \in Nat /\ T \in SUBSET (1 .. N)
  BY DEF IsTree
<1>3. T = 1 .. N
  <2> HIDE DEF T
  <2> QED
    BY <1>1, <1>2, Downward
<1> QED
  BY <1>3
-----------------------------------------------------------------------------
(* u is the tree t with a new node for k and v under m on side d.          *)
Hangs(t, u, m, d, k, v) ==
  /\ m \in 1 .. Len(t) /\ d \in {1, -1}
  /\ IF d = 1 THEN t[m].next = 0 ELSE t[m].previous = 0
  /\ Len(u) = Len(t) + 1
  /\ \A n \in 1 .. Len(t) :
       /\ u[n].key = t[n].key /\ u[n].value = t[n].value
       /\ u[n].next = IF n = m /\ d = 1 THEN Len(u) ELSE t[n].next
       /\ u[n].previous = IF n = m /\ d = -1 THEN Len(u) ELSE t[n].previous
  /\ u[Len(u)] = NewNode(k, v)

LEMMA HungHangs ==
  ASSUME NEW t, IsTree(t), NEW k \in Nat, NEW v \in Values, NEW u, NEW m \in 1 .. Len(t),
         NEW d, \/ /\ d = 1 /\ t[m].next = 0
                   /\ u = Append([t EXCEPT ![m].next = Len(t) + 1], NewNode(k, v))
                \/ /\ d = -1 /\ t[m].previous = 0
                   /\ u = Append([t EXCEPT ![m].previous = Len(t) + 1], NewNode(k, v))
  PROVE  Hangs(t, u, m, d, k, v) /\ IsTree(u)
<1> DEFINE N == Len(t)
           new == NewNode(k, v)
<1>1. t \in Seq(NodeType) /\ N \in Nat /\ new \in NodeType
  BY DEF IsTree, NewNode, NodeType
<1>2. PICK s \in Seq(NodeType) :
        /\ u = Append(s, new) /\ Len(s) = N
        /\ \A n \in 1 .. N :
             /\ s[n].key = t[n].key /\ s[n].value = t[n].value
             /\ s[n].next = IF n = m /\ d = 1 THEN N + 1 ELSE t[n].next
             /\ s[n].previous = IF n = m /\ d = -1 THEN N + 1 ELSE t[n].previous
  <2>1. CASE d = 1
    <3> DEFINE r == [t[m] EXCEPT !.next = N + 1]
               s == [t EXCEPT ![m] = r]
    <3>1. t[m] \in NodeType /\ N + 1 \in Nat
      BY <1>1
    <3>2. r \in NodeType /\ r.next = N + 1
      BY <3>1 DEF NodeType
    <3>3. r.key = t[m].key /\ r.value = t[m].value /\ r.previous = t[m].previous
      BY <3>1 DEF NodeType
    <3>4. u = Append(s, new)
      BY <2>1
    <3> HIDE DEF r
    <3>5. /\ s \in Seq(NodeType) /\ Len(s) = N
          /\ \A n \in 1 .. N : s[n] = IF n = m THEN r ELSE t[n]
      BY <1>1, <3>2
    <3> HIDE DEF s, new
    <3>6. \A n \in 1 .. N :
             /\ s[n].key = t[n].key /\ s[n].value = t[n].value
             /\ s[n].next = IF n = m /\ d = 1 THEN N + 1 ELSE t[n].next
             /\ s[n].previous = IF n = m /\ d = -1 THEN N + 1 ELSE t[n].previous
      BY <2>1, <3>2, <3>3, <3>5
    <3> QED
      BY <3>4, <3>5, <3>6, Zenon
  <2>2. CASE d = -1
    <3> DEFINE r == [t[m] EXCEPT !.previous = N + 1]
               s == [t EXCEPT ![m] = r]
    <3>1. t[m] \in NodeType /\ N + 1 \in Nat
      BY <1>1
    <3>2. r \in NodeType /\ r.previous = N + 1
      BY <3>1 DEF NodeType
    <3>3. r.key = t[m].key /\ r.value = t[m].value /\ r.next = t[m].next
      BY <3>1 DEF NodeType
    <3>4. u = Append(s, new)
      BY <2>2
    <3> HIDE DEF r
    <3>5. /\ s \in Seq(NodeType) /\ Len(s) = N
          /\ \A n \in 1 .. N : s[n] = IF n = m THEN r ELSE t[n]
      BY <1>1, <3>2
    <3> HIDE DEF s, new
    <3>6. \A n \in 1 .. N :
             /\ s[n].key = t[n].key /\ s[n].value = t[n].value
             /\ s[n].next = IF n = m /\ d = 1 THEN N + 1 ELSE t[n].next
             /\ s[n].previous = IF n = m /\ d = -1 THEN N + 1 ELSE t[n].previous
      BY <2>2, <3>2, <3>3, <3>5
    <3> QED
      BY <3>4, <3>5, <3>6, Zenon
  <2> QED
    BY <2>1, <2>2
<1>3. /\ u \in Seq(NodeType) /\ Len(u) = N + 1 /\ u[N + 1] = new
      /\ \A n \in 1 .. N : u[n] = s[n]
  <2> HIDE DEF new
  <2> QED
    BY <1>1, <1>2
<1>4. new.next = 0 /\ new.previous = 0
  BY DEF NewNode
<1> HIDE DEF new
<1>5. Hangs(t, u, m, d, k, v)
  BY <1>2, <1>3 DEF Hangs, new
<1>6. IsTree(u)
  <2> SUFFICES ASSUME NEW n \in 1 .. N + 1
               PROVE  /\ u[n].next # 0 => u[n].next \in n + 1 .. N + 1
                      /\ u[n].previous # 0 => u[n].previous \in n + 1 .. N + 1
    BY <1>3 DEF IsTree
  <2>1. CASE n = N + 1
    BY <1>3, <1>4, <2>1
  <2>2. CASE n \in 1 .. N
    <3>1. /\ t[n].next # 0 => t[n].next \in n + 1 .. N
          /\ t[n].previous # 0 => t[n].previous \in n + 1 .. N
      BY <2>2 DEF IsTree
    <3>2. /\ u[n].next = N + 1 \/ u[n].next = t[n].next
          /\ u[n].previous = N + 1 \/ u[n].previous = t[n].previous
      BY <1>2, <1>3, <2>2
    <3> QED
      BY <1>1, <2>2, <3>1, <3>2
  <2> QED
    BY <1>1, <2>1, <2>2
<1> QED
  BY <1>5, <1>6

(* A walk in u ends as in t, or at the new node if it ended where that was *)
(* hung.                                                                   *)
LEMMA WalkHung ==
  ASSUME NEW t, NEW u, IsTree(t), IsTree(u), NEW m, NEW d, NEW k, NEW v,
         Hangs(t, u, m, d, k, v), NEW q \in Nat
  PROVE  \A n \in 1 .. Len(t) :
           Walk(u, q)[n] = IF Walk(t, q)[n] = [at |-> m, direction |-> d]
                           THEN [at |-> Len(u), direction |-> Compared(u[Len(u)], q)]
                           ELSE Walk(t, q)[n]
<1> DEFINE N == Len(t)
           W == Walk(t, q)
           X == Walk(u, q)
           end == [at |-> N + 1, direction |-> Compared(u[N + 1], q)]
           Same(n) == X[n] = IF W[n] = [at |-> m, direction |-> d] THEN end ELSE W[n]
           T == {n \in 1 .. N : Same(n)}
<1>1. N \in Nat /\ Len(u) = N + 1 /\ m \in 1 .. N /\ d \in {1, -1}
  BY DEF IsTree, Hangs
<1>2. /\ \A n \in 1 .. N : W[n] = WalkAt(t, q, W, n) /\ X[n] = WalkAt(u, q, X, n)
      /\ X[N + 1] = WalkAt(u, q, X, N + 1)
  BY <1>1, WalkExists
<1>3. X[N + 1] = end
  BY <1>1, <1>2 DEF WalkAt, Hangs, NewNode
<1>4. ASSUME NEW n \in 1 .. N, n + 1 .. N \subseteq T PROVE Same(n)
  <2> HIDE DEF W, X, end
  <2>1. W[n] = WalkAt(t, q, W, n) /\ X[n] = WalkAt(u, q, X, n)
    BY <1>2
  <2>2. /\ u[n].key = t[n].key
        /\ u[n].next = IF n = m /\ d = 1 THEN N + 1 ELSE t[n].next
        /\ u[n].previous = IF n = m /\ d = -1 THEN N + 1 ELSE t[n].previous
    BY <1>1 DEF Hangs
  <2>3. t[n].key \in Nat
    <3>1. t \in Seq(NodeType)
      BY DEF IsTree
    <3>2. t[n] \in NodeType
      BY <3>1
    <3> QED
      BY <3>2 DEF NodeType
  <2>4. /\ t[n].next # 0 => Same(t[n].next)
        /\ t[n].previous # 0 => Same(t[n].previous)
    BY <1>4 DEF IsTree
  <2>5. CASE t[n].key > q
    <3>1. /\ W[n] = IF t[n].next # 0 THEN W[t[n].next] ELSE [at |-> n, direction |-> 1]
          /\ X[n] = IF u[n].next # 0 THEN X[u[n].next] ELSE [at |-> n, direction |-> 1]
      BY <2>1, <2>2, <2>3, <2>5 DEF WalkAt, Compared
    <3> QED
      BY <1>1, <1>3, <2>2, <2>4, <3>1 DEF Hangs
  <2>6. CASE t[n].key < q
    <3>1. /\ W[n] = IF t[n].previous # 0 THEN W[t[n].previous]
                    ELSE [at |-> n, direction |-> -1]
          /\ X[n] = IF u[n].previous # 0 THEN X[u[n].previous]
                    ELSE [at |-> n, direction |-> -1]
      BY <2>1, <2>2, <2>3, <2>6 DEF WalkAt, Compared
    <3> QED
      BY <1>1, <1>3, <2>2, <2>4, <3>1 DEF Hangs
  <2>7. CASE t[n].key = q
    <3>1. W[n] = [at |-> n, direction |-> 0] /\ X[n] = [at |-> n, direction |-> 0]
      BY <2>1, <2>2, <2>3, <2>7 DEF WalkAt, Compared
    <3> QED
      BY <1>1, <3>1
  <2> QED
    BY <2>3, <2>5, <2>6, <2>7
<1>5. T = 1 .. N
  <2>1. T \in SUBSET (1 .. N)
    OBVIOUS
  <2> HIDE DEF T, Same
  <2>2. \A n \in 1 .. N : n + 1 .. N \subseteq T => n \in T
    BY <1>4 DEF T
  <2> QED
    BY <1>1, <2>1, <2>2, Downward
<1> QED
  BY <1>1, <1>5
-----------------------------------------------------------------------------
(* Both sides of a node have no node in common.                            *)
Disjoint(t) ==
  \A n \in 1 .. Len(t) :
    ToSet(Visit(t)[t[n].next]) \cap ToSet(Visit(t)[t[n].previous]) = {}

LEMMA ConcatSet ==
  ASSUME NEW S, NEW x \in Seq(S), NEW y \in Seq(S), NEW n \in S
  PROVE  /\ ToSet(x \o y \o <<n>>) = ToSet(x) \cup ToSet(y) \cup {n}
         /\ Len(x \o y \o <<n>>) = Len(x) + Len(y) + 1
         /\ x \o y \o <<n>> \in Seq(S)
<1>1. ASSUME NEW a \in Seq(S), NEW b \in Seq(S)
      PROVE  ToSet(a \o b) = ToSet(a) \cup ToSet(b)
  <2>1. a \o b \in Seq(S) /\ Len(a \o b) = Len(a) + Len(b)
    OBVIOUS
  <2>2. ASSUME NEW p \in 1 .. Len(a) PROVE (a \o b)[p] = a[p] /\ p \in 1 .. Len(a \o b)
    BY <2>1
  <2>3. ASSUME NEW p \in 1 .. Len(b)
        PROVE  (a \o b)[Len(a) + p] = b[p] /\ Len(a) + p \in 1 .. Len(a \o b)
    BY <2>1
  <2>4. ASSUME NEW p \in 1 .. Len(a \o b), p \notin 1 .. Len(a)
        PROVE  p - Len(a) \in 1 .. Len(b) /\ (a \o b)[p] = b[p - Len(a)]
    BY <2>1, <2>4
  <2>5. DOMAIN (a \o b) = 1 .. Len(a \o b) /\ DOMAIN a = 1 .. Len(a) /\ DOMAIN b = 1 .. Len(b)
    BY <2>1
  <2>6. ToSet(a \o b) \subseteq ToSet(a) \cup ToSet(b)
    BY <2>2, <2>4, <2>5 DEF ToSet
  <2>7. ToSet(a) \subseteq ToSet(a \o b)
    BY <2>2, <2>5 DEF ToSet
  <2>8. ToSet(b) \subseteq ToSet(a \o b)
    BY <2>3, <2>5 DEF ToSet
  <2> QED
    BY <2>6, <2>7, <2>8
<1>2. x \o y \in Seq(S) /\ <<n>> \in Seq(S) /\ ToSet(<<n>>) = {n}
  BY DEF ToSet
<1>3. ToSet(x \o y \o <<n>>) = ToSet(x) \cup ToSet(y) \cup {n}
  BY <1>1, <1>2
<1> QED
  BY <1>3

(* What is freed at a node: the nodes of both sides and the node, which is *)
(* before them all.                                                        *)
LEMMA VisitType ==
  ASSUME NEW t, IsTree(t)
  PROVE  /\ Visit(t)[0] = <<>>
         /\ \A n \in 1 .. Len(t) :
              /\ Visit(t)[n] \in Seq(n .. Len(t))
              /\ ToSet(Visit(t)[n]) = ToSet(Visit(t)[t[n].previous])
                                      \cup ToSet(Visit(t)[t[n].next]) \cup {n}
              /\ Len(Visit(t)[n]) = Len(Visit(t)[t[n].previous])
                                    + Len(Visit(t)[t[n].next]) + 1
<1> DEFINE N == Len(t)
           V == Visit(t)
           Fits(n) == /\ V[n] \in Seq(n .. N)
                      /\ ToSet(V[n]) = ToSet(V[t[n].previous]) \cup ToSet(V[t[n].next])
                                       \cup {n}
                      /\ Len(V[n]) = Len(V[t[n].previous]) + Len(V[t[n].next]) + 1
           T == {n \in 1 .. N : Fits(n)}
<1>1. /\ N \in Nat /\ V[0] = <<>>
      /\ \A n \in 1 .. N : V[n] = V[t[n].previous] \o V[t[n].next] \o <<n>>
  <2>1. N \in Nat
    BY DEF IsTree
  <2>2. \A n \in 0 .. N : V[n] = VisitAt(t, V, n)
    BY VisitExists
  <2>3. 0 \in 0 .. N /\ \A n \in 1 .. N : n \in 0 .. N /\ n # 0
    BY <2>1
  <2> HIDE DEF V
  <2> QED
    BY <2>1, <2>2, <2>3 DEF VisitAt
<1>2. ASSUME NEW n \in 1 .. N, n + 1 .. N \subseteq T PROVE Fits(n)
  <2> HIDE DEF V
  <2>1. V[n] = V[t[n].previous] \o V[t[n].next] \o <<n>>
    BY <1>1
  <2>2. ASSUME NEW c \in {0} \cup n + 1 .. N PROVE V[c] \in Seq(n .. N)
    <3>1. CASE c = 0
      <4>1. <<>> \in Seq(n .. N)
        OBVIOUS
      <4> QED
        BY <1>1, <3>1, <4>1
    <3>2. CASE c \in n + 1 .. N
      <4>1. V[c] \in Seq(c .. N) /\ c .. N \subseteq n .. N
        <5>1. Fits(c)
          BY <1>2, <3>2
        <5>2. c .. N \subseteq n .. N
          BY <1>1, <3>2
        <5> QED
          BY <5>1, <5>2
      <4> QED
        BY <4>1
    <3> QED
      BY <3>1, <3>2
  <2>3. t[n].next \in {0} \cup n + 1 .. N /\ t[n].previous \in {0} \cup n + 1 .. N
    BY DEF IsTree
  <2>4. V[t[n].previous] \in Seq(n .. N) /\ V[t[n].next] \in Seq(n .. N) /\ n \in n .. N
    BY <1>1, <2>2, <2>3
  <2> QED
    BY <2>1, <2>4, ConcatSet
<1>3. T = 1 .. N
  <2>1. T \in SUBSET (1 .. N)
    OBVIOUS
  <2> HIDE DEF T, Fits
  <2>2. \A n \in 1 .. N : n + 1 .. N \subseteq T => n \in T
    BY <1>2 DEF T
  <2> QED
    BY <1>1, <2>1, <2>2, Downward
<1> QED
  BY <1>1, <1>3

LEMMA VisitNone ==
  ASSUME NEW t, IsTree(t)
  PROVE  ToSet(Visit(t)[0]) = {} /\ Len(Visit(t)[0]) = 0
<1>1. ToSet(<<>>) = {} /\ Len(<<>>) = 0
  BY DEF ToSet
<1>2. Visit(t)[0] = <<>>
  BY VisitType
<1> QED
  BY <1>1, <1>2

(* Where the new node was hung it is freed, once, and nowhere else.        *)
LEMMA VisitHung ==
  ASSUME NEW t, NEW u, IsTree(t), IsTree(u), NEW m, NEW d, NEW k, NEW v,
         Hangs(t, u, m, d, k, v), Disjoint(t)
  PROVE  \A n \in 0 .. Len(t) :
           IF m \in ToSet(Visit(t)[n])
             THEN /\ ToSet(Visit(u)[n]) = ToSet(Visit(t)[n]) \cup {Len(u)}
                  /\ Len(Visit(u)[n]) = Len(Visit(t)[n]) + 1
             ELSE /\ ToSet(Visit(u)[n]) = ToSet(Visit(t)[n])
                  /\ Len(Visit(u)[n]) = Len(Visit(t)[n])
<1> DEFINE N == Len(t)
           A(n) == ToSet(Visit(t)[n])
           B(n) == ToSet(Visit(u)[n])
           a(n) == Len(Visit(t)[n])
           b(n) == Len(Visit(u)[n])
           Grown(n) == IF m \in A(n) THEN B(n) = A(n) \cup {N + 1} /\ b(n) = a(n) + 1
                                     ELSE B(n) = A(n) /\ b(n) = a(n)
           T == {n \in 1 .. N : Grown(n)}
<1>1. N \in Nat /\ Len(u) = N + 1 /\ m \in 1 .. N /\ d \in {1, -1}
  BY DEF IsTree, Hangs
<1>2. A(0) = {} /\ B(0) = {} /\ a(0) = 0 /\ b(0) = 0
  BY VisitNone
<1>3. ASSUME NEW n \in 1 .. N
      PROVE  /\ A(n) = A(t[n].previous) \cup A(t[n].next) \cup {n}
             /\ a(n) = a(t[n].previous) + a(t[n].next) + 1
             /\ a(n) \in Nat /\ A(n) \subseteq n .. N
  <2>1. Visit(t)[n] \in Seq(n .. N)
    BY VisitType
  <2>2. a(n) \in Nat /\ A(n) \subseteq n .. N
    BY <2>1 DEF ToSet
  <2> QED
    BY <2>2, VisitType
<1>4. ASSUME NEW n \in 1 .. N + 1
      PROVE  /\ B(n) = B(u[n].previous) \cup B(u[n].next) \cup {n}
             /\ b(n) = b(u[n].previous) + b(u[n].next) + 1
  BY <1>1, VisitType
<1> HIDE DEF A, B, a, b
<1>5. B(N + 1) = {N + 1} /\ b(N + 1) = 1
  <2>1. u[N + 1].previous = 0 /\ u[N + 1].next = 0
    BY <1>1 DEF Hangs, NewNode
  <2> QED
    BY <1>1, <1>2, <1>4, <2>1
<1>6. ASSUME NEW n \in 1 .. N, n + 1 .. N \subseteq T PROVE Grown(n)
  <2> DEFINE p == t[n].previous
             x == t[n].next
  <2>1. p \in {0} \cup n + 1 .. N /\ x \in {0} \cup n + 1 .. N
    BY DEF IsTree
  <2>2. ASSUME NEW c \in {0} \cup n + 1 .. N
        PROVE  Grown(c) /\ a(c) \in Nat /\ (c = 0 \/ A(c) \subseteq c .. N)
    <3>1. c = 0 \/ c \in T
      BY <1>6, <2>2
    <3>2. CASE c = 0
      <4>1. m \notin A(0) /\ a(0) \in Nat
        BY <1>2
      <4>2. Grown(0)
        BY <1>2, <4>1
      <4> HIDE DEF Grown
      <4> QED
        BY <3>2, <4>1, <4>2
    <3>3. CASE c # 0
      <4>1. c \in 1 .. N
        BY <1>1, <2>2, <3>3
      <4>2. Grown(c)
        BY <3>1, <3>3
      <4> HIDE DEF Grown
      <4> QED
        BY <1>3, <4>1, <4>2
    <3> QED
      BY <3>2, <3>3
  <2>3. A(n) = A(p) \cup A(x) \cup {n} /\ a(n) = a(p) + a(x) + 1
    BY <1>3
  <2>4. A(p) \cap A(x) = {}
    BY DEF Disjoint, A
  <2>5. /\ u[n].next = IF n = m /\ d = 1 THEN N + 1 ELSE x
        /\ u[n].previous = IF n = m /\ d = -1 THEN N + 1 ELSE p
    BY <1>1 DEF Hangs
  <2>6. /\ B(n) = B(u[n].previous) \cup B(u[n].next) \cup {n}
        /\ b(n) = b(u[n].previous) + b(u[n].next) + 1
    BY <1>1, <1>4
  <2>7. Grown(p) /\ Grown(x) /\ a(p) \in Nat /\ a(x) \in Nat
    BY <2>1, <2>2
  <2>8. CASE n # m
    <3>1. B(n) = B(p) \cup B(x) \cup {n} /\ b(n) = b(p) + b(x) + 1
      BY <2>5, <2>6, <2>8
    <3> HIDE DEF p, x
    <3>2. CASE m \in A(p)
      BY <2>3, <2>4, <2>7, <2>8, <3>1, <3>2
    <3>3. CASE m \in A(x)
      BY <2>3, <2>4, <2>7, <2>8, <3>1, <3>3
    <3>4. CASE m \notin A(p) /\ m \notin A(x)
      BY <2>3, <2>4, <2>7, <2>8, <3>1, <3>4
    <3> QED
      BY <3>2, <3>3, <3>4
  <2>9. CASE n = m
    <3>1. m \notin A(p) /\ m \notin A(x)
      <4> SUFFICES ASSUME NEW c \in {0} \cup n + 1 .. N PROVE m \notin A(c)
        BY <2>1
      <4> QED
        BY <1>1, <1>2, <2>2, <2>9
    <3>2. m \in A(n)
      BY <2>3, <2>9
    <3>3. CASE d = 1
      <4>1. x = 0
        BY <2>9, <3>3 DEF Hangs
      <4>2. B(n) = B(p) \cup B(N + 1) \cup {n} /\ b(n) = b(p) + b(N + 1) + 1
        BY <2>5, <2>6, <2>9, <3>3
      <4> HIDE DEF p, x
      <4> QED
        BY <1>2, <1>5, <2>3, <2>7, <3>1, <3>2, <4>1, <4>2
    <3>4. CASE d = -1
      <4>1. p = 0
        BY <2>9, <3>4 DEF Hangs
      <4>2. B(n) = B(N + 1) \cup B(x) \cup {n} /\ b(n) = b(N + 1) + b(x) + 1
        BY <2>5, <2>6, <2>9, <3>4
      <4> HIDE DEF p, x
      <4> QED
        BY <1>2, <1>5, <2>3, <2>7, <3>1, <3>2, <4>1, <4>2
    <3> QED
      BY <1>1, <3>3, <3>4
  <2> QED
    BY <2>8, <2>9
<1>7. T = 1 .. N
  <2>1. T \in SUBSET (1 .. N)
    OBVIOUS
  <2> HIDE DEF T, Grown
  <2>2. \A n \in 1 .. N : n + 1 .. N \subseteq T => n \in T
    BY <1>6 DEF T
  <2> QED
    BY <1>1, <2>1, <2>2, Downward
<1>8. \A n \in 0 .. N : Grown(n)
  <2>1. \A n \in 0 .. N : n = 0 \/ n \in T
    BY <1>1, <1>7
  <2> QED
    BY <1>2, <2>1
<1> QED
  BY <1>1, <1>8 DEF A, B, a, b

(* All nodes hang under the first one.                                     *)
FreesAll(t) ==
  t # <<>> => ToSet(Visit(t)[1]) = 1 .. Len(t) /\ Len(Visit(t)[1]) = Len(t)

LEMMA ForestHung ==
  ASSUME NEW t, NEW u, IsTree(t), IsTree(u), NEW m, NEW d, NEW k, NEW v,
         Hangs(t, u, m, d, k, v), Disjoint(t), FreesAll(t)
  PROVE  Disjoint(u) /\ FreesAll(u)
<1> DEFINE N == Len(t)
           A(n) == ToSet(Visit(t)[n])
           B(n) == ToSet(Visit(u)[n])
<1>1. N \in Nat \ {0} /\ Len(u) = N + 1 /\ m \in 1 .. N /\ d \in {1, -1}
  BY DEF IsTree, Hangs
<1>2. A(0) = {} /\ B(0) = {}
  BY VisitNone
<1>3. \A n \in 0 .. N : B(n) = IF m \in A(n) THEN A(n) \cup {N + 1} ELSE A(n)
  <2>1. ASSUME NEW n \in 0 .. N
        PROVE  IF m \in A(n) THEN B(n) = A(n) \cup {Len(u)} ELSE B(n) = A(n)
    BY VisitHung
  <2> HIDE DEF A, B
  <2> QED
    BY <1>1, <2>1
<1>4. \A n \in 0 .. N : A(n) \subseteq n .. N
  <2>1. A(0) = {}
    BY <1>2
  <2>2. ASSUME NEW n \in 1 .. N PROVE A(n) \subseteq n .. N
    <3>1. Visit(t)[n] \in Seq(n .. N)
      BY VisitType
    <3> QED
      BY <3>1 DEF ToSet
  <2> HIDE DEF A
  <2> QED
    BY <1>1, <2>1, <2>2
<1>5. B(N + 1) = {N + 1}
  <2>1. u[N + 1].previous = 0 /\ u[N + 1].next = 0
    BY <1>1 DEF Hangs, NewNode
  <2>2. B(N + 1) = B(0) \cup B(0) \cup {N + 1}
    <3>1. \A n \in 1 .. Len(u) : B(n) = B(u[n].previous) \cup B(u[n].next) \cup {n}
      BY VisitType
    <3> HIDE DEF B
    <3> QED
      BY <1>1, <2>1, <3>1
  <2> HIDE DEF B
  <2> QED
    BY <1>2, <2>2
<1>6. Disjoint(u)
  <2> SUFFICES ASSUME NEW n \in 1 .. N + 1 PROVE B(u[n].next) \cap B(u[n].previous) = {}
    BY <1>1 DEF Disjoint
  <2>1. CASE n = N + 1
    <3>1. u[n].next = 0
      BY <1>1, <2>1 DEF Hangs, NewNode
    <3> HIDE DEF B
    <3> QED
      BY <1>2, <3>1
  <2>2. CASE n \in 1 .. N
    <3> DEFINE p == t[n].previous
               x == t[n].next
    <3>1. p \in 0 .. N /\ x \in 0 .. N /\ (p = 0 \/ p > n) /\ (x = 0 \/ x > n)
      BY <1>1, <2>2 DEF IsTree
    <3>2. /\ u[n].next = IF n = m /\ d = 1 THEN N + 1 ELSE x
          /\ u[n].previous = IF n = m /\ d = -1 THEN N + 1 ELSE p
      BY <1>1, <2>2 DEF Hangs
    <3>3. A(x) \cap A(p) = {}
      BY <2>2 DEF Disjoint
    <3>4. N + 1 \notin A(x) /\ N + 1 \notin A(p)
      <4> HIDE DEF A
      <4> QED
        BY <1>1, <1>4, <3>1
    <3> HIDE DEF A, B, p, x
    <3>5. CASE n # m
      BY <1>3, <3>1, <3>2, <3>3, <3>4, <3>5
    <3>6. CASE n = m
      <4>1. m \notin A(x) /\ m \notin A(p)
        BY <1>1, <1>2, <1>4, <2>2, <3>1, <3>6
      <4> QED
        BY <1>1, <1>3, <1>5, <3>1, <3>2, <3>4, <3>6, <4>1
    <3> QED
      BY <3>5, <3>6
  <2> QED
    BY <1>1, <2>1, <2>2
<1>7. FreesAll(u)
  <2>1. t # <<>>
    BY <1>1
  <2>2. A(1) = 1 .. N /\ Len(Visit(t)[1]) = N
    BY <2>1 DEF FreesAll
  <2>3. 1 \in 0 .. N /\ m \in A(1)
    <3> HIDE DEF A
    <3> QED
      BY <1>1, <2>2
  <2>4. B(1) = A(1) \cup {N + 1} /\ Len(Visit(u)[1]) = N + 1
    BY <1>1, <2>2, <2>3, VisitHung
  <2>5. B(1) = 1 .. N + 1
    <3>1. 1 .. N \cup {N + 1} = 1 .. N + 1
      BY <1>1
    <3> HIDE DEF A, B
    <3> QED
      BY <2>2, <2>4, <3>1
  <2> QED
    BY <1>1, <2>4, <2>5 DEF FreesAll
<1> QED
  BY <1>6, <1>7
-----------------------------------------------------------------------------
(* No insertion hides a node: the walk for its key finds every node.       *)
Findable(t) ==
  \A n \in 1 .. Len(t) :
    t[n].key \in Keys /\ Walk(t, t[n].key)[1] = [at |-> n, direction |-> 0]

TreeOK(t) == IsTree(t) /\ Findable(t) /\ Disjoint(t) /\ FreesAll(t)

Inv ==
  /\ TreeOK(node)
  /\ pc \in {"live", "keys", "tree", "gone"}
  /\ pc = "gone" => destroyed = PostOrder

LEMMA EmptyTree == TreeOK(<<>>)
  BY DEF TreeOK, IsTree, Findable, Disjoint, FreesAll

LEMMA OneNode ==
  ASSUME NEW k \in Keys, NEW v \in Values
  PROVE  TreeOK(<<NewNode(k, v)>>)
<1> DEFINE new == NewNode(k, v)
           t == <<new>>
<1>1. /\ new \in NodeType
      /\ new.key = k /\ new.value = v /\ new.next = 0 /\ new.previous = 0
  BY DictionaryAssumption DEF NewNode, NodeType
<1> HIDE DEF new
<1>2. t \in Seq(NodeType) /\ Len(t) = 1 /\ t[1] = new /\ 1 .. 1 = {1}
  BY <1>1
<1> HIDE DEF t
<1>3. IsTree(t)
  BY <1>1, <1>2 DEF IsTree
<1>4. Findable(t)
  <2>1. ~(k > k) /\ ~(k < k)
    BY DictionaryAssumption
  <2>2. Walk(t, k)[1] = WalkAt(t, k, Walk(t, k), 1)
    BY <1>2, <1>3, WalkExists
  <2>3. Walk(t, k)[1] = [at |-> 1, direction |-> 0]
    BY <1>1, <1>2, <2>1, <2>2 DEF WalkAt, Compared
  <2> QED
    BY <1>1, <1>2, <2>3 DEF Findable
<1>5. Disjoint(t)
  BY <1>1, <1>2, <1>3, VisitNone DEF Disjoint
<1>6. FreesAll(t)
  <2>1. /\ ToSet(Visit(t)[1]) = ToSet(Visit(t)[0]) \cup ToSet(Visit(t)[0]) \cup {1}
        /\ Len(Visit(t)[1]) = Len(Visit(t)[0]) + Len(Visit(t)[0]) + 1
    <3>1. t[1].previous = 0 /\ t[1].next = 0 /\ 1 \in 1 .. Len(t)
      BY <1>1, <1>2
    <3>2. /\ ToSet(Visit(t)[1]) = ToSet(Visit(t)[t[1].previous])
                                  \cup ToSet(Visit(t)[t[1].next]) \cup {1}
          /\ Len(Visit(t)[1]) = Len(Visit(t)[t[1].previous]) + Len(Visit(t)[t[1].next]) + 1
      BY <1>3, <3>1, VisitType
    <3> QED
      BY <3>1, <3>2
  <2>2. ToSet(Visit(t)[0]) = {} /\ Len(Visit(t)[0]) = 0
    BY <1>3, VisitNone
  <2> QED
    BY <1>2, <2>1, <2>2 DEF FreesAll
<1> QED
  BY <1>3, <1>4, <1>5, <1>6 DEF TreeOK, t, new

(* A tree has a key once, and the walk for it tells whether it is there.   *)
LEMMA KeysOnce ==
  ASSUME NEW t, TreeOK(t), NEW a \in 1 .. Len(t), NEW b \in 1 .. Len(t),
         t[a].key = t[b].key
  PROVE  a = b
<1>1. [at |-> a, direction |-> 0] = [at |-> b, direction |-> 0]
  BY DEF TreeOK, Findable
<1>2. [at |-> a, direction |-> 0].at = [at |-> b, direction |-> 0].at
  BY <1>1
<1> QED
  BY <1>2

LEMMA WalkTells ==
  ASSUME NEW t, TreeOK(t), t # <<>>, NEW k \in Keys, NEW p, p = Walk(t, k)[1]
  PROVE  /\ EndsAt(t, k, p)
         /\ p.direction = 0 => t[p.at].key = k
         /\ p.direction # 0 => \A n \in 1 .. Len(t) : t[n].key # k
         /\ p.direction \in {0, 1, -1}
<1>1. EndsAt(t, k, p)
  <2>1. 1 \in 1 .. Len(t)
    BY DEF TreeOK, IsTree
  <2> QED
    BY <2>1, WalkEnds DEF TreeOK
<1>2. p.direction = Compared(t[p.at], k)
  <2>1. p = [at |-> p.at, direction |-> Compared(t[p.at], k)]
    BY <1>1 DEF EndsAt
  <2>2. [at |-> p.at, direction |-> Compared(t[p.at], k)].direction = Compared(t[p.at], k)
    OBVIOUS
  <2> QED
    BY <2>1, <2>2, Zenon
<1>3. t[p.at].key \in Nat /\ k \in Nat
  BY <1>1, DictionaryAssumption DEF EndsAt, TreeOK, Findable
<1>4. p.direction \in {0, 1, -1} /\ (p.direction = 0 => t[p.at].key = k)
  BY <1>2, <1>3 DEF Compared
<1>5. ASSUME NEW n \in 1 .. Len(t), t[n].key = k PROVE p.direction = 0
  <2>1. Walk(t, t[n].key)[1] = [at |-> n, direction |-> 0]
    BY DEF TreeOK, Findable
  <2>2. p = [at |-> n, direction |-> 0]
    BY <1>5, <2>1
  <2> QED
    BY <2>2
<1> QED
  BY <1>1, <1>4, <1>5

(* Insertion of k keeps the tree a tree: nothing happens when k is there,  *)
(* and otherwise the tree has one more node.                               *)
LEMMA TreeInserted ==
  ASSUME TreeOK(node), NEW k \in Keys, NEW v \in Values, NEW u, u = Tree(k, v)
  PROVE  /\ TreeOK(u)
         /\ \/ u = node /\ \E n \in 1 .. Len(node) : node[n].key = k
            \/ /\ \A n \in 1 .. Len(node) :
                    node[n].key # k /\ u[n].key = node[n].key /\ u[n].value = node[n].value
               /\ Len(u) = Len(node) + 1
               /\ u[Len(u)].key = k /\ u[Len(u)].value = v
<1> DEFINE N == Len(node)
           p == Iterate(k)
<1>1. CASE node = <<>>
  <2>1. u = <<NewNode(k, v)>>
    BY <1>1 DEF Tree
  <2>2. Len(node) = 0 /\ Len(u) = 1 /\ u[1] = NewNode(k, v)
    BY <1>1, <2>1
  <2>3. u[1].key = k /\ u[1].value = v
    BY <2>2 DEF NewNode
  <2>4. TreeOK(u)
    BY <2>1, OneNode
  <2> QED
    BY <2>2, <2>3, <2>4
<1>2. ASSUME node # <<>>, p.direction = 0
      PROVE  u = node /\ \E n \in 1 .. Len(node) : node[n].key = k
  <2>1. u = node
    BY <1>2 DEF Tree, Hung
  <2>2. p.at \in 1 .. Len(node) /\ node[p.at].key = k
    BY <1>2, WalkTells, IterateIsWalk DEF EndsAt
  <2> QED
    BY <2>1, <2>2
<1>3. ASSUME node # <<>>, p.direction # 0
      PROVE  /\ TreeOK(u)
             /\ \A n \in 1 .. N :
                  node[n].key # k /\ u[n].key = node[n].key /\ u[n].value = node[n].value
             /\ Len(u) = N + 1 /\ u[N + 1].key = k /\ u[N + 1].value = v
  <2> DEFINE m == p.at
             d == p.direction
  <2>1. /\ m \in 1 .. N /\ d \in {1, -1}
        /\ d = 1 => node[m].next = 0
        /\ d = -1 => node[m].previous = 0
        /\ p = [at |-> m, direction |-> d]
        /\ \A n \in 1 .. N : node[n].key # k
    <3>1. EndsAt(node, k, p) /\ d \in {0, 1, -1} /\ \A n \in 1 .. N : node[n].key # k
      BY <1>3, WalkTells, IterateIsWalk
    <3> QED
      BY <1>3, <3>1 DEF EndsAt
  <2>2. IF d = 1 THEN u = Append([node EXCEPT ![m].next = N + 1], NewNode(k, v))
                 ELSE u = Append([node EXCEPT ![m].previous = N + 1], NewNode(k, v))
    BY <1>3, <2>1 DEF Tree, Hung
  <2>3. p = Walk(node, k)[1]
    BY IterateIsWalk
  <2> HIDE DEF p, m, d
  <2>4. Hangs(node, u, m, d, k, v) /\ IsTree(u)
    <3>1. k \in Nat /\ IsTree(node)
      BY DictionaryAssumption DEF TreeOK
    <3>2. \/ /\ d = 1 /\ node[m].next = 0
             /\ u = Append([node EXCEPT ![m].next = Len(node) + 1], NewNode(k, v))
          \/ /\ d = -1 /\ node[m].previous = 0
             /\ u = Append([node EXCEPT ![m].previous = Len(node) + 1], NewNode(k, v))
      BY <2>1, <2>2
    <3> QED
      BY <2>1, <3>1, <3>2, HungHangs
  <2>5. /\ Len(u) = N + 1 /\ u[N + 1].key = k /\ u[N + 1].value = v
        /\ \A n \in 1 .. N : u[n].key = node[n].key /\ u[n].value = node[n].value
    BY <2>4 DEF Hangs, NewNode
  <2>6. Disjoint(u) /\ FreesAll(u)
    BY <2>4, ForestHung DEF TreeOK
  <2>7. Findable(u)
    <3>1. 1 \in 1 .. N /\ N \in Nat
      BY <2>1 DEF TreeOK, IsTree
    <3>2. ASSUME NEW q \in Keys
          PROVE  Walk(u, q)[1] = IF Walk(node, q)[1] = [at |-> m, direction |-> d]
                                 THEN [at |-> N + 1, direction |-> Compared(u[N + 1], q)]
                                 ELSE Walk(node, q)[1]
      <4>1. q \in Nat
        BY DictionaryAssumption
      <4> QED
        BY <2>4, <2>5, <3>1, <4>1, WalkHung DEF TreeOK
    <3>3. Walk(u, k)[1] = [at |-> N + 1, direction |-> 0]
      <4>1. Compared(u[N + 1], k) = 0
        BY <2>5, DictionaryAssumption DEF Compared
      <4> QED
        BY <2>1, <2>3, <3>2, <4>1
    <3>4. ASSUME NEW n \in 1 .. N
          PROVE  node[n].key \in Keys /\ Walk(u, node[n].key)[1] = [at |-> n, direction |-> 0]
      <4>1. /\ node[n].key \in Keys
            /\ Walk(node, node[n].key)[1] = [at |-> n, direction |-> 0]
        BY DEF TreeOK, Findable
      <4>2. [at |-> n, direction |-> 0] # [at |-> m, direction |-> d]
        BY <2>1
      <4> QED
        BY <3>2, <4>1, <4>2
    <3>5. \A n \in 1 .. N + 1 : n = N + 1 \/ n \in 1 .. N
      BY <3>1
    <3> QED
      BY <2>5, <3>3, <3>4, <3>5 DEF Findable
  <2> QED
    BY <2>1, <2>4, <2>5, <2>6, <2>7 DEF TreeOK
<1> QED
  BY <1>1, <1>2, <1>3
-----------------------------------------------------------------------------
LEMMA InitInv == Init => Inv
  BY EmptyTree DEF Init, Inv

LEMMA NextInv ==
  ASSUME Inv, [Next]_vars
  PROVE  Inv'
<1>1. CASE UNCHANGED vars
  <2>1. PostOrder' = PostOrder
    BY <1>1 DEF vars, PostOrder
  <2> QED
    BY <1>1, <2>1 DEF Inv, vars
<1>2. ASSUME NEW k \in Keys, search_dict(k) PROVE Inv'
  BY <1>2 DEF Inv, search_dict
<1>3. ASSUME NEW k \in Keys, NEW v \in Values, insert_dict(k, v) PROVE Inv'
  <2>1. TreeOK(node')
    BY <1>3, TreeInserted DEF Inv, insert_dict
  <2> QED
    BY <1>3, <2>1 DEF Inv, insert_dict
<1>4. CASE dictionary_destructor
  BY <1>4 DEF Inv, dictionary_destructor
<1>5. CASE linked_list_destructor
  BY <1>5 DEF Inv, linked_list_destructor
<1>6. CASE recursive_dictionary_destroy
  <2>1. PostOrder' = PostOrder
    BY <1>6 DEF recursive_dictionary_destroy, PostOrder
  <2> QED
    BY <1>6, <2>1 DEF Inv, recursive_dictionary_destroy
<1>7. CASE Finished
  <2>1. PostOrder' = PostOrder
    BY <1>7 DEF Finished, vars, PostOrder
  <2> QED
    BY <1>7, <2>1 DEF Inv, Finished, vars
<1> QED
  BY <1>1, <1>2, <1>3, <1>4, <1>5, <1>6, <1>7 DEF Next

(***************************************************************************)
(* For every set of keys and every order of insertions the destructor      *)
(* frees each node of the tree exactly once (Dictionary.c:49-63,           *)
(* recursive_dictionary_destroy).                                          *)
(***************************************************************************)
THEOREM EveryNodeFreed == Spec => []FreesEveryNode
<1>1. ASSUME Inv PROVE FreesEveryNode
  <2> SUFFICES ASSUME pc = "gone"
               PROVE  ToSet(destroyed) = 1 .. Len(node) /\ Len(destroyed) = Len(node)
    BY DEF FreesEveryNode
  <2>1. destroyed = PostOrder /\ FreesAll(node)
    BY <1>1 DEF Inv, TreeOK
  <2>2. CASE node = <<>>
    <3>1. destroyed = <<>> /\ Len(node) = 0 /\ Len(<<>>) = 0
      BY <2>1, <2>2, PostOrderIsVisit
    <3> QED
      BY <3>1 DEF ToSet
  <2>3. CASE node # <<>>
    BY <2>1, <2>3, PostOrderIsVisit DEF FreesAll
  <2> QED
    BY <2>2, <2>3
<1> QED
  BY InitInv, NextInv, <1>1, PTL DEF Spec
-----------------------------------------------------------------------------
(* The contents of a tree.                                                 *)
LEMMA ContentsOf ==
  ASSUME NEW t, TreeOK(t), NEW c,
         c = [k \in Keys |-> IF \E n \in 1 .. Len(t) : t[n].key = k
                               THEN t[CHOOSE n \in 1 .. Len(t) : t[n].key = k].value
                               ELSE NULL]
  PROVE  /\ \A n \in 1 .. Len(t) : c[t[n].key] = t[n].value
         /\ \A k \in Keys : (\A n \in 1 .. Len(t) : t[n].key # k) => c[k] = NULL
<1>1. ASSUME NEW n \in 1 .. Len(t) PROVE c[t[n].key] = t[n].value
  <2> DEFINE k == t[n].key
             a == CHOOSE m \in 1 .. Len(t) : t[m].key = k
  <2>1. k \in Keys
    BY DEF TreeOK, Findable
  <2>2. a \in 1 .. Len(t) /\ t[a].key = k
    OBVIOUS
  <2>3. a = n
    <3> HIDE DEF a
    <3> QED
      BY <2>2, KeysOnce
  <2>4. c[k] = t[a].value
    BY <2>1
  <2> HIDE DEF a
  <2> QED
    BY <2>3, <2>4
<1>2. ASSUME NEW k \in Keys, \A n \in 1 .. Len(t) : t[n].key # k PROVE c[k] = NULL
  BY <1>2
<1> QED
  BY <1>1, <1>2

LEMMA SearchFinds ==
  ASSUME Inv, NEW k \in Keys, search_dict(k)
  PROVE  Abstract!Search(k)
<1>1. Contents' = Contents
  BY DEF search_dict, Contents
<1>2. reply' = <<k, Contents[k]>>
  <2>1. CASE node = <<>>
    <3>1. \A n \in 1 .. Len(node) : node[n].key # k
      BY <2>1
    <3> QED
      BY <2>1, <3>1, ContentsOf DEF Inv, search_dict, Contents
  <2>2. CASE node # <<>>
    <3> DEFINE p == Iterate(k)
    <3>1. /\ p.at \in 1 .. Len(node)
          /\ p.direction = 0 => node[p.at].key = k
          /\ p.direction # 0 => \A n \in 1 .. Len(node) : node[n].key # k
      BY <2>2, WalkTells, IterateIsWalk DEF Inv, EndsAt
    <3>2. reply' = <<k, IF p.direction = 0 THEN node[p.at].value ELSE NULL>>
      BY <2>2 DEF search_dict, Result
    <3> HIDE DEF p
    <3>3. /\ \A n \in 1 .. Len(node) : Contents[node[n].key] = node[n].value
          /\ (\A n \in 1 .. Len(node) : node[n].key # k) => Contents[k] = NULL
      BY ContentsOf DEF Inv, Contents
    <3> QED
      BY <3>1, <3>2, <3>3
  <2> QED
    BY <2>1, <2>2
<1> QED
  BY <1>1, <1>2 DEF Abstract!Search

LEMMA InsertKeepsFirst ==
  ASSUME Inv, Inv', NEW k \in Keys, NEW v \in Values, insert_dict(k, v)
  PROVE  Abstract!Insert(k, v)
<1>1. /\ \/ node' = node /\ \E n \in 1 .. Len(node) : node[n].key = k
         \/ /\ \A n \in 1 .. Len(node) : /\ node[n].key # k
                                         /\ node'[n].key = node[n].key
                                         /\ node'[n].value = node[n].value
            /\ Len(node') = Len(node) + 1
            /\ node'[Len(node')].key = k /\ node'[Len(node')].value = v
  BY TreeInserted DEF Inv, insert_dict
<1>2. Contents = [q \in Keys |-> Contents[q]] /\ Contents' = [q \in Keys |-> Contents'[q]]
  BY DEF Contents
<1>3. /\ \A n \in 1 .. Len(node) : Contents[node[n].key] = node[n].value
      /\ \A q \in Keys : (\A n \in 1 .. Len(node) : node[n].key # q) => Contents[q] = NULL
  BY ContentsOf DEF Inv, Contents
<1>4. /\ \A n \in 1 .. Len(node') : Contents'[node'[n].key] = node'[n].value
      /\ \A q \in Keys : (\A n \in 1 .. Len(node') : node'[n].key # q) => Contents'[q] = NULL
  BY ContentsOf DEF Inv, Contents
<1>5. CASE node' = node /\ \E n \in 1 .. Len(node) : node[n].key = k
  <2>1. Contents' = Contents
    BY <1>5 DEF Contents
  <2>2. Contents[k] \in Values
    <3>1. PICK n \in 1 .. Len(node) : node[n].key = k
      BY <1>5
    <3>2. node[n] \in NodeType
      BY DEF Inv, TreeOK, IsTree
    <3> QED
      BY <1>3, <3>1, <3>2 DEF NodeType
  <2>3. Contents[k] # NULL
    BY <2>2, DictionaryAssumption
  <2> QED
    BY <1>2, <2>1, <2>3 DEF Abstract!Insert, insert_dict
<1>6. CASE /\ \A n \in 1 .. Len(node) : /\ node[n].key # k
                                        /\ node'[n].key = node[n].key
                                        /\ node'[n].value = node[n].value
           /\ Len(node') = Len(node) + 1
           /\ node'[Len(node')].key = k /\ node'[Len(node')].value = v
  <2>1. Contents[k] = NULL
    BY <1>3, <1>6
  <2>2. Len(node) \in Nat
    BY DEF Inv, TreeOK, IsTree
  <2>3. Contents'[k] = v
    BY <1>6, <1>4, <2>2
  <2>4. ASSUME NEW q \in Keys, q # k PROVE Contents'[q] = Contents[q]
    <3>1. CASE \E n \in 1 .. Len(node) : node[n].key = q
      <4>1. PICK n \in 1 .. Len(node) : node[n].key = q
        BY <3>1
      <4>2. n \in 1 .. Len(node')
        BY <1>6, <2>2
      <4> QED
        BY <1>3, <1>4, <1>6, <4>1, <4>2
    <3>2. CASE \A n \in 1 .. Len(node) : node[n].key # q
      <4>1. \A n \in 1 .. Len(node') : n = Len(node') \/ n \in 1 .. Len(node)
        BY <1>6, <2>2
      <4>2. \A n \in 1 .. Len(node') : node'[n].key # q
        BY <1>6, <2>4, <3>2, <4>1
      <4> QED
        BY <1>3, <1>4, <3>2, <4>2
    <3> QED
      BY <3>1, <3>2
  <2>5. Contents' = [Contents EXCEPT ![k] = IF @ = NULL THEN v ELSE @]
    BY <1>2, <2>1, <2>3, <2>4
  <2> QED
    BY <2>5 DEF Abstract!Insert, insert_dict
<1> QED
  BY <1>1, <1>5, <1>6

(***************************************************************************)
(* For every set of keys and values the tree is a map: insert_dict keeps a *)
(* key's first value, search_dict returns it, and nothing else changes     *)
(* what is found (Dictionary.c:67-99).                                     *)
(***************************************************************************)
THEOREM Refinement == Spec => ImplementsMap
<1>1. Init => Abstract!Init
  BY DEF Init, Abstract!Init, Contents
<1>2. Inv /\ Inv' /\ [Next]_vars => [Abstract!Next]_(Abstract!vars)
  <2> SUFFICES ASSUME Inv, Inv', [Next]_vars PROVE [Abstract!Next]_(Abstract!vars)
    OBVIOUS
  <2>1. ASSUME UNCHANGED <<node, reply>> PROVE UNCHANGED Abstract!vars
    BY <2>1 DEF Abstract!vars, Contents
  <2>2. ASSUME NEW k \in Keys, search_dict(k) PROVE Abstract!Next
    BY <2>2, SearchFinds DEF Abstract!Next
  <2>3. ASSUME NEW k \in Keys, NEW v \in Values, insert_dict(k, v) PROVE Abstract!Next
    BY <2>3, InsertKeepsFirst DEF Abstract!Next
  <2> QED
    BY <2>1, <2>2, <2>3
       DEF Next, vars, dictionary_destructor, linked_list_destructor,
           recursive_dictionary_destroy, Finished
<1> QED
  BY InitInv, NextInv, <1>1, <1>2, PTL DEF Spec, ImplementsMap, Abstract!Spec
=============================================================================
