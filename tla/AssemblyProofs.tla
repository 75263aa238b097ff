--------------------------- MODULE AssemblyProofs ---------------------------
(***************************************************************************)
(* The assembly of requests, proved for every set of requests, every size  *)
(* of read_buffer and every way the bytes arrive.                          *)
(***************************************************************************)
EXTENDS RequestAssembly, SequenceTheorems, WellFoundedInduction, TLAPS

-----------------------------------------------------------------------------
(* Min of a set whose least member is known, and that there is one.        *)
LEMMA MinIs ==
  ASSUME NEW T \in SUBSET Int, NEW m \in T, \A k \in T : m <= k
  PROVE  Min(T) = m
<1>1. ASSUME NEW x \in T, \A k \in T : x <= k PROVE x = m
  <2>1. x \in Int /\ m \in Int /\ x <= m /\ m <= x
    BY <1>1
  <2> QED
    BY <2>1
<1>2. Min(T) \in T /\ \A k \in T : Min(T) <= k
  BY DEF Min
<1> QED
  BY <1>1, <1>2

LEMMA MinOf ==
  ASSUME NEW T \in SUBSET Nat, T # {}
  PROVE  Min(T) \in T /\ \A k \in T : Min(T) <= k
<1> DEFINE R == {ss \in Nat \X Nat : ss[1] < ss[2]}
<1>1. IsWellFoundedOn(R, Nat)
  BY NatLessThanWellFounded DEF OpToRel
<1>2. \A k, m \in Nat : k < m => <<k, m>> \in R
  OBVIOUS
<1> HIDE DEF R
<1>3. PICK m \in T : \A k \in T : <<k, m>> \notin R
  BY <1>1, WFMin
<1>4. ASSUME NEW k \in T PROVE m <= k
  <2>1. k \in Nat /\ m \in Nat
    OBVIOUS
  <2>2. ~ (k < m)
    BY <1>2, <1>3, <2>1
  <2> QED
    BY <2>1, <2>2
<1> QED
  BY <1>4 DEF Min
-----------------------------------------------------------------------------
LEMMA Joined ==
  ASSUME NEW S, NEW x \in Seq(S), NEW y \in Seq(S)
  PROVE  /\ x \o y \in Seq(S) /\ Len(x \o y) = Len(x) + Len(y)
         /\ \A p \in 1 .. Len(x) : (x \o y)[p] = x[p]
         /\ \A q \in 1 .. Len(y) : (x \o y)[Len(x) + q] = y[q]
<1>1. Len(x) \in Nat /\ Len(y) \in Nat
  OBVIOUS
<1>2. ASSUME NEW p \in 1 .. Len(x) PROVE (x \o y)[p] = x[p]
  BY <1>1, ConcatProperties
<1>3. ASSUME NEW q \in 1 .. Len(y) PROVE (x \o y)[Len(x) + q] = y[q]
  <2>1. Len(x) + q \in 1 .. Len(x) + Len(y) /\ ~(Len(x) + q <= Len(x)) /\ Len(x) + q - Len(x) = q
    BY <1>1
  <2> QED
    BY <2>1, ConcatProperties
<1> QED
  BY <1>2, <1>3, ConcatProperties

(* A piece of a sequence, and when two sequences are the same.             *)
LEMMA Cut ==
  ASSUME NEW S, NEW s \in Seq(S), NEW i \in 1 .. Len(s) + 1, NEW j \in i - 1 .. Len(s)
  PROVE  /\ SubSeq(s, i, j) \in Seq(S)
         /\ Len(SubSeq(s, i, j)) = j - i + 1
         /\ \A q \in 1 .. j - i + 1 : SubSeq(s, i, j)[q] = s[i + q - 1]
<1>1. i \in Int /\ j \in Int /\ (IF i <= j THEN j - i + 1 ELSE 0) = j - i + 1
  OBVIOUS
<1>2. \A p \in i .. j : s[p] \in S
  OBVIOUS
<1> QED
  BY <1>1, <1>2, SubSeqProperties

LEMMA SameSeq ==
  ASSUME NEW A, NEW B, NEW s \in Seq(A), NEW t \in Seq(B), Len(s) = Len(t),
         \A i \in 1 .. Len(s) : s[i] = t[i]
  PROVE  s = t
  OBVIOUS

(* A request on the wire, token by token: its line at 1, header p at       *)
(* 2p + 1, a CRLF behind each, the blank line, the body.                   *)
Fields(r) == Len(r.fields)
BlankAt(r) == 2 * Fields(r) + 2

OnTheWire(r, e) ==
  /\ Fields(r) \in Nat /\ Len(r.body) \in Nat
  /\ Len(e) = BlankAt(r) + 1 + Len(r.body)
  /\ e[1] = r.line
  /\ \A p \in 1 .. Fields(r) : e[2 * p + 1] = r.fields[p]
  /\ \A p \in 0 .. Fields(r) : e[2 * p + 2] = Crlf
  /\ e[BlankAt(r) + 1] = Crlf
  /\ \A q \in 1 .. Len(r.body) : e[BlankAt(r) + 1 + q] = r.body[q]

LEMMA EncodeIs ==
  ASSUME NEW r \in Requests
  PROVE  OnTheWire(r, Encode(r)) /\ \E S : Encode(r) \in Seq(S)
<1> DEFINE f == Len(r.fields)
           n == Len(r.body)
           a == <<r.line, Crlf>>
           b == [p \in 1 .. 2 * f |-> IF p % 2 = 1 THEN r.fields[(p + 1) \div 2] ELSE Crlf]
           c == <<Crlf>>
           S == {r.line, Crlf} \cup (Names \X Int) \cup {r.body[p] : p \in DOMAIN r.body}
<1>1. r.fields \in Seq(Names \X Int) /\ r.body \in Seq({r.body[p] : p \in DOMAIN r.body})
  BY AssemblyAssumption DEF IsRequest
<1>2. f \in Nat /\ n \in Nat /\ r.fields \in Seq(S) /\ r.body \in Seq(S)
  BY <1>1
<1>3. a \in Seq(S) /\ Len(a) = 2 /\ a[1] = r.line /\ a[2] = Crlf
  OBVIOUS
<1>4. /\ b \in Seq(S) /\ Len(b) = 2 * f
      /\ \A p \in 1 .. f : b[2 * p - 1] = r.fields[p] /\ b[2 * p] = Crlf
  <2>1. Crlf \in S
    OBVIOUS
  <2> HIDE DEF S
  <2>2. ASSUME NEW p \in 1 .. 2 * f, p % 2 = 1 PROVE (p + 1) \div 2 \in 1 .. f
    BY <1>2, <2>2
  <2>3. \A p \in 1 .. 2 * f : b[p] \in S
    BY <1>2, <2>1, <2>2
  <2>4. b \in Seq(S) /\ Len(b) = 2 * f
    <3>1. 2 * f \in Nat
      BY <1>2
    <3>2. b \in [1 .. 2 * f -> S]
      BY <2>3
    <3> HIDE DEF b
    <3> QED
      BY <3>1, <3>2
  <2>5. ASSUME NEW p \in 1 .. f PROVE b[2 * p - 1] = r.fields[p] /\ b[2 * p] = Crlf
    <3>1. /\ 2 * p - 1 \in 1 .. 2 * f /\ (2 * p - 1) % 2 = 1 /\ (2 * p - 1 + 1) \div 2 = p
          /\ 2 * p \in 1 .. 2 * f /\ (2 * p) % 2 = 0
      BY <1>2
    <3> QED
      BY <3>1
  <2> QED
    BY <2>4, <2>5
<1>5. c \in Seq(S) /\ Len(c) = 1 /\ c[1] = Crlf
  OBVIOUS
<1>6. Encode(r) = a \o b \o c \o r.body
  BY DEF Encode
<1> HIDE DEF a, b, c, S
<1> DEFINE d == r.body
           e == a \o b \o c \o d
<1>7. /\ a \o b \in Seq(S) /\ Len(a \o b) = 2 + 2 * f
      /\ \A p \in 1 .. 2 : (a \o b)[p] = a[p]
      /\ \A p \in 1 .. 2 * f : (a \o b)[2 + p] = b[p]
  <2>1. /\ a \o b \in Seq(S) /\ Len(a \o b) = Len(a) + Len(b)
        /\ \A p \in 1 .. Len(a) : (a \o b)[p] = a[p]
        /\ \A p \in 1 .. Len(b) : (a \o b)[Len(a) + p] = b[p]
    <3>1. a \in Seq(S)
      BY <1>3
    <3>2. b \in Seq(S)
      BY <1>4
    <3> QED
      BY <3>1, <3>2, Joined
  <2> QED
    BY <1>3, <1>4, <2>1
<1>8. /\ a \o b \o c \in Seq(S) /\ Len(a \o b \o c) = 2 + 2 * f + 1
      /\ \A p \in 1 .. 2 + 2 * f : (a \o b \o c)[p] = (a \o b)[p]
      /\ (a \o b \o c)[2 + 2 * f + 1] = Crlf
  <2> DEFINE x == a \o b
  <2>1. x \in Seq(S) /\ Len(x) = 2 + 2 * f
    BY <1>7
  <2> HIDE DEF x
  <2>2. /\ x \o c \in Seq(S) /\ Len(x \o c) = Len(x) + Len(c)
        /\ \A p \in 1 .. Len(x) : (x \o c)[p] = x[p]
        /\ \A p \in 1 .. Len(c) : (x \o c)[Len(x) + p] = c[p]
    <3>1. x \in Seq(S)
      BY <2>1
    <3>2. c \in Seq(S)
      BY <1>5
    <3> QED
      BY <3>1, <3>2, Joined
  <2>3. (x \o c)[2 + 2 * f + 1] = Crlf
    BY <1>5, <2>1, <2>2
  <2> QED
    BY <1>5, <2>1, <2>2, <2>3 DEF x
<1>9. d \in Seq(S) /\ Len(d) = n
  BY <1>2
<1>10. /\ e \in Seq(S) /\ Len(e) = 2 + 2 * f + 1 + n
       /\ \A p \in 1 .. 2 + 2 * f + 1 : e[p] = (a \o b \o c)[p]
       /\ \A q \in 1 .. n : e[2 + 2 * f + 1 + q] = d[q]
  <2> DEFINE x == a \o b \o c
  <2>1. x \in Seq(S) /\ Len(x) = 2 + 2 * f + 1
    BY <1>8
  <2> HIDE DEF x, d
  <2>2. /\ x \o d \in Seq(S) /\ Len(x \o d) = Len(x) + Len(d)
        /\ \A p \in 1 .. Len(x) : (x \o d)[p] = x[p]
        /\ \A p \in 1 .. Len(d) : (x \o d)[Len(x) + p] = d[p]
    <3>1. x \in Seq(S)
      BY <2>1
    <3>2. d \in Seq(S)
      BY <1>9
    <3> QED
      BY <3>1, <3>2, Joined
  <2> QED
    BY <1>9, <2>1, <2>2 DEF x
<1> HIDE DEF d, e
<1>11. \A p \in 1 .. 2 + 2 * f : e[p] = (a \o b)[p]
  <2>1. ASSUME NEW p \in 1 .. 2 + 2 * f PROVE p \in 1 .. 2 + 2 * f + 1
    BY <1>2
  <2> QED
    BY <1>8, <1>10, <2>1
<1>12. e[1] = r.line /\ e[2] = Crlf /\ e[2 + 2 * f + 1] = Crlf
  <2>1. /\ 1 \in 1 .. 2 /\ 2 \in 1 .. 2 /\ 1 \in 1 .. 2 + 2 * f /\ 2 \in 1 .. 2 + 2 * f
        /\ 2 + 2 * f + 1 \in 1 .. 2 + 2 * f + 1
    BY <1>2
  <2>2. e[1] = (a \o b)[1] /\ e[2] = (a \o b)[2] /\ (a \o b)[1] = a[1] /\ (a \o b)[2] = a[2]
    BY <1>7, <1>11, <2>1
  <2> QED
    BY <1>3, <1>8, <1>10, <2>1, <2>2
<1>13. ASSUME NEW p \in 1 .. f PROVE e[2 * p + 1] = r.fields[p] /\ e[2 * p + 2] = Crlf
  <2>1. 2 * p - 1 \in 1 .. 2 * f /\ 2 * p \in 1 .. 2 * f
    BY <1>2
  <2>2. 2 + (2 * p - 1) = 2 * p + 1 /\ 2 + 2 * p = 2 * p + 2
    BY <1>2
  <2>3. (a \o b)[2 * p + 1] = b[2 * p - 1] /\ (a \o b)[2 * p + 2] = b[2 * p]
    BY <1>7, <2>1, <2>2
  <2>4. 2 * p + 1 \in 1 .. 2 + 2 * f /\ 2 * p + 2 \in 1 .. 2 + 2 * f
    BY <1>2
  <2> QED
    BY <1>4, <1>11, <2>3, <2>4
<1>14. ASSUME NEW p \in 0 .. f PROVE e[2 * p + 2] = Crlf
  BY <1>2, <1>12, <1>13
<1>15. OnTheWire(r, e)
  <2>1. 2 + 2 * f + 1 = BlankAt(r) + 1 /\ Fields(r) = f
    BY <1>2 DEF BlankAt, Fields
  <2> QED
    BY <1>2, <1>10, <1>12, <1>13, <1>14, <2>1 DEF OnTheWire, d
<1> QED
  BY <1>6, <1>10, <1>15 DEF e, d
-----------------------------------------------------------------------------
(* What stands where in an honest request: every line is at an odd         *)
(* position and none is a CRLF, and the byte zero is nowhere.              *)
Announced(r) == {p \in DOMAIN r.fields : r.fields[p][1] \in LengthNames}

LEMMA FieldKinds ==
  ASSUME NEW r \in Requests
  PROVE  /\ r.line[1] \in {"line", "length-line"} /\ DOMAIN r.fields = 1 .. Fields(r)
         /\ \A p \in 1 .. Fields(r) : r.fields[p][1] \in Names /\ r.fields[p][2] \in Int
<1>1. r.line[1] \in {"line", "length-line"} /\ r.fields \in Seq(Names \X Int)
  BY AssemblyAssumption DEF IsRequest
<1> QED
  BY <1>1 DEF Fields

(* Every position is the request line's, a header's, a CRLF's or the body's. *)
LEMMA Places ==
  ASSUME NEW f \in Nat, NEW n \in Nat, NEW p \in 1 .. 2 * f + 3 + n
  PROVE  \/ p = 1
         \/ \E m \in 1 .. f : p = 2 * m + 1
         \/ \E m \in 0 .. f : p = 2 * m + 2
         \/ p = 2 * f + 3
         \/ \E q \in 1 .. n : p = 2 * f + 3 + q
<1>1. CASE p > 2 * f + 2
  <2>1. p = 2 * f + 3 \/ p - (2 * f + 3) \in 1 .. n
    BY <1>1
  <2> QED
    BY <2>1
<1>2. CASE p <= 2 * f + 2
  <2>1. CASE p % 2 = 1
    <3>1. p \div 2 \in 0 .. f /\ p = 2 * (p \div 2) + 1
      BY <1>2, <2>1
    <3> QED
      BY <3>1
  <2>2. CASE p % 2 = 0
    <3>1. p \div 2 - 1 \in 0 .. f /\ p = 2 * (p \div 2 - 1) + 2
      BY <1>2, <2>2
    <3> QED
      BY <3>1
  <2> QED
    BY <2>1, <2>2
<1> QED
  BY <1>1, <1>2

(* A prefix b of the wire e of r, j tokens long.                           *)
PrefixOf(b, e, j) == Len(b) = j /\ \A p \in 1 .. j : b[p] = e[p]

LEMMA NoZero ==
  ASSUME NEW r \in Requests, Honest(r), NEW e, OnTheWire(r, e),
         NEW j \in 0 .. Len(e), NEW b, PrefixOf(b, e, j)
  PROVE  CString(b) = b
<1> DEFINE f == Fields(r)
           n == Len(r.body)
<1>1. f \in Nat /\ n \in Nat /\ Len(e) = 2 * f + 3 + n
  BY DEF OnTheWire, BlankAt
<1>2. ASSUME NEW p \in 1 .. Len(e) PROVE e[p] # Zero
  <2>1. CASE p = 1
    <3>1. e[p][1] \in {"line", "length-line"}
      BY <2>1, FieldKinds DEF OnTheWire
    <3> QED
      BY <3>1 DEF Zero
  <2>2. ASSUME NEW m \in 1 .. f, p = 2 * m + 1 PROVE e[p] # Zero
    <3>1. e[p] = r.fields[m] /\ r.fields[m][1] \in Names
      BY <2>2, FieldKinds DEF OnTheWire
    <3> QED
      BY <3>1 DEF Zero, Names
  <2>3. ASSUME NEW m \in 0 .. f, p = 2 * m + 2 PROVE e[p] # Zero
    BY <2>3 DEF OnTheWire, Zero, Crlf
  <2>4. CASE p = 2 * f + 3
    BY <2>4, <1>1 DEF OnTheWire, BlankAt, Zero, Crlf
  <2>5. ASSUME NEW q \in 1 .. n, p = 2 * f + 3 + q PROVE e[p] # Zero
    <3>1. e[p] = r.body[q]
      BY <2>5, <1>1 DEF OnTheWire, BlankAt
    <3>2. r.body[q] # Zero
      BY DEF Honest, Positions
    <3> QED
      BY <3>1, <3>2
  <2> HIDE DEF f, n
  <2> QED
    BY <1>1, <2>1, <2>2, <2>3, <2>4, <2>5, Places
<1>3. Positions(b, {Zero}) = {}
  <2>1. ASSUME NEW p \in 1 .. Len(b) PROVE b[p] # Zero
    <3>1. p \in 1 .. Len(e) /\ b[p] = e[p]
      BY <1>1 DEF PrefixOf
    <3> QED
      BY <3>1, <1>2
  <2> QED
    BY <2>1 DEF Positions
<1> QED
  BY <1>3 DEF CString
-----------------------------------------------------------------------------
(* The completeness test.  No line is a CRLF: the first blank line is the  *)
(* one that ends the headers.                                              *)
LEMMA LinesAreNoCrlf ==
  ASSUME NEW r \in Requests, NEW e, OnTheWire(r, e), NEW m \in 0 .. Fields(r)
  PROVE  e[2 * m + 1] # Crlf
<1>1. CASE m = 0
  <2>1. e[2 * m + 1][1] \in {"line", "length-line"}
    BY <1>1, FieldKinds DEF OnTheWire
  <2> QED
    BY <2>1 DEF Crlf
<1>2. CASE m # 0
  <2>1. m \in 1 .. Fields(r)
    BY <1>2
  <2>2. e[2 * m + 1] = r.fields[m] /\ r.fields[m][1] \in Names
    BY <2>1, FieldKinds DEF OnTheWire
  <2> QED
    BY <2>2 DEF Crlf, Names
<1> QED
  BY <1>1, <1>2

LEMMA FirstBlank ==
  ASSUME NEW r \in Requests, NEW e, OnTheWire(r, e),
         NEW j \in 0 .. Len(e), NEW b, PrefixOf(b, e, j)
  PROVE  IF j <= BlankAt(r) THEN BlankLines(b) = {}
         ELSE BlankLines(b) # {} /\ HeadersEnd(b) = BlankAt(r)
<1> DEFINE f == Fields(r)
<1>1. f \in Nat /\ Len(e) \in Nat /\ j \in Nat /\ BlankAt(r) = 2 * f + 2 /\ Len(b) = j
  BY DEF OnTheWire, BlankAt, PrefixOf
<1>2. ASSUME NEW p \in BlankLines(b) PROVE p >= 2 * f + 2
  <2>1. p \in 1 .. j - 1 /\ e[p] = Crlf /\ e[p + 1] = Crlf
    BY <1>1 DEF BlankLines, PrefixOf
  <2>2. CASE p < 2 * f + 2 /\ p % 2 = 1
    <3>1. p \div 2 \in 0 .. f /\ p = 2 * (p \div 2) + 1
      BY <1>1, <2>1, <2>2
    <3> QED
      BY <2>1, <3>1, LinesAreNoCrlf
  <2>3. CASE p < 2 * f + 2 /\ p % 2 = 0
    <3>1. p \div 2 \in 0 .. f /\ p + 1 = 2 * (p \div 2) + 1
      BY <1>1, <2>1, <2>3
    <3> QED
      BY <2>1, <3>1, LinesAreNoCrlf
  <2> QED
    BY <1>1, <2>1, <2>2, <2>3
<1>3. CASE j <= BlankAt(r)
  <2>1. ASSUME NEW p \in BlankLines(b) PROVE FALSE
    <3>1. p \in 1 .. j - 1
      BY <1>1 DEF BlankLines
    <3> QED
      BY <1>1, <1>2, <1>3, <3>1
  <2> QED
    BY <1>3, <2>1
<1>4. CASE j > BlankAt(r)
  <2>1. 2 * f + 2 \in 1 .. j - 1 /\ 2 * f + 2 \in 1 .. j /\ 2 * f + 2 + 1 \in 1 .. j
    BY <1>1, <1>4
  <2>2. e[2 * f + 2] = Crlf /\ e[2 * f + 2 + 1] = Crlf
    <3>1. f \in 0 .. f
      BY <1>1
    <3> QED
      BY <1>1, <3>1 DEF OnTheWire
  <2>3. 2 * f + 2 \in BlankLines(b)
    BY <1>1, <2>1, <2>2 DEF BlankLines, PrefixOf
  <2>4. BlankLines(b) \in SUBSET Int
    BY <1>1 DEF BlankLines
  <2>5. Min(BlankLines(b)) = 2 * f + 2
    BY <1>2, <2>3, <2>4, MinIs
  <2> QED
    BY <1>1, <1>4, <2>3, <2>5 DEF HeadersEnd
<1> QED
  BY <1>1, <1>3, <1>4

(* The first text "Content-Length:" of the buffer is in the first header   *)
(* that has it.                                                            *)
LEMMA FirstLengthText ==
  ASSUME NEW r \in Requests, NEW e, OnTheWire(r, e), Announced(r) # {},
         r.line[1] = "line",
         NEW j \in 0 .. Len(e), NEW b, PrefixOf(b, e, j), j > BlankAt(r)
  PROVE  /\ LengthTexts(b) # {}
         /\ Min(Announced(r)) \in 1 .. Fields(r)
         /\ ContentLength(b) = r.fields[Min(Announced(r))][2]
<1> DEFINE f == Fields(r)
           k == Min(Announced(r))
<1>1. f \in Nat /\ Len(e) \in Nat /\ j \in Nat /\ BlankAt(r) = 2 * f + 2 /\ Len(b) = j
  BY DEF OnTheWire, BlankAt, PrefixOf
<1>2. k \in Announced(r) /\ \A p \in Announced(r) : k <= p
  <2>1. Announced(r) \in SUBSET Nat
    BY <1>1, FieldKinds DEF Announced
  <2> HIDE DEF k
  <2> QED
    BY <2>1, MinOf DEF k
<1>3. k \in 1 .. f
  BY <1>2, FieldKinds DEF Announced
<1> HIDE DEF k
<1>4. 2 * k + 1 \in LengthTexts(b) /\ b[2 * k + 1] = r.fields[k]
  <2>1. 2 * k + 1 \in 1 .. j
    BY <1>1, <1>3
  <2>2. b[2 * k + 1] = r.fields[k]
    BY <1>3, <2>1 DEF OnTheWire, PrefixOf
  <2>3. r.fields[k][1] \in LengthNames
    BY <1>2 DEF Announced
  <2> QED
    BY <1>1, <2>1, <2>2, <2>3 DEF LengthTexts, LengthLines
<1>5. ASSUME NEW p \in LengthTexts(b) PROVE 2 * k + 1 <= p
  <2>1. p \in 1 .. j /\ e[p][1] \in LengthLines
    BY <1>1 DEF LengthTexts, PrefixOf
  <2>2. CASE p > 2 * f + 2
    BY <1>1, <1>3, <2>1, <2>2
  <2>3. CASE p <= 2 * f + 2 /\ p % 2 = 0
    <3>1. p \div 2 - 1 \in 0 .. f /\ p = 2 * (p \div 2 - 1) + 2
      BY <1>1, <2>1, <2>3
    <3>2. e[p] = Crlf
      BY <3>1 DEF OnTheWire
    <3> QED
      BY <2>1, <3>2 DEF Crlf, LengthLines, LengthNames
  <2>4. CASE p = 1
    <3>1. e[p][1] = "line"
      BY <2>4 DEF OnTheWire
    <3> QED
      BY <2>1, <3>1 DEF LengthLines, LengthNames
  <2>5. CASE p <= 2 * f + 2 /\ p % 2 = 1 /\ p # 1
    <3>1. PICK m \in 1 .. f : p = 2 * m + 1
      <4>1. p \div 2 \in 1 .. f /\ p = 2 * (p \div 2) + 1
        BY <1>1, <2>1, <2>5
      <4> QED
        BY <4>1
    <3>2. e[p] = r.fields[m]
      BY <3>1 DEF OnTheWire
    <3>3. r.fields[m][1] \in Names /\ r.fields[m][1] \in LengthLines /\ m \in DOMAIN r.fields
      BY <2>1, <3>2, FieldKinds
    <3>4. m \in Announced(r)
      BY <3>3 DEF Announced, Names, LengthLines
    <3> QED
      BY <1>1, <1>2, <1>3, <3>1, <3>4
  <2> QED
    BY <1>1, <2>1, <2>2, <2>3, <2>4, <2>5
<1>6. Min(LengthTexts(b)) = 2 * k + 1
  <2>1. LengthTexts(b) \in SUBSET Int
    BY <1>1 DEF LengthTexts
  <2> QED
    BY <1>4, <1>5, <2>1, MinIs
<1> QED
  BY <1>3, <1>4, <1>6 DEF ContentLength, k

(* An honest request that is not ambiguous is as long as the first header  *)
(* with the text says.                                                     *)
LEMMA CountedRight ==
  ASSUME NEW r \in Requests, Honest(r), Unambiguous(r)
  PROVE  IF Announced(r) = {} THEN r.body = <<>>
         ELSE r.fields[Min(Announced(r))][2] = Len(r.body)
<1> DEFINE lengths == {p \in DOMAIN r.fields : r.fields[p][1] = "content-length"}
           k == Min(Announced(r))
<1>1. IF lengths = {} THEN r.body = <<>> ELSE r.fields[Min(lengths)][2] = Len(r.body)
  BY Zenon DEF Honest
<1>2. lengths \subseteq Announced(r)
  BY DEF Announced, LengthNames
<1>3. r.fields \in Seq(Names \X Int)
  BY AssemblyAssumption DEF IsRequest
<1>4. Announced(r) \in SUBSET Nat
  BY <1>3 DEF Announced
<1>5. ASSUME Announced(r) # {} PROVE k \in lengths /\ Min(lengths) = k
  <2>1. k \in Announced(r) /\ \A p \in Announced(r) : k <= p
    <3> HIDE DEF k
    <3> QED
      BY <1>4, <1>5, MinOf DEF k
  <2> HIDE DEF k
  <2>2. PICK q \in 1 .. k : r.fields[q][1] = "content-length"
    BY <2>1 DEF Unambiguous, Announced
  <2>3. q \in DOMAIN r.fields
    BY <1>3, <2>1 DEF Announced
  <2>4. q \in lengths
    BY <2>2, <2>3
  <2>5. k <= q /\ q <= k /\ k \in Nat /\ q \in Nat
    BY <1>2, <1>4, <2>1, <2>4
  <2>6. k \in lengths
    <3>1. k = q
      BY <2>5
    <3> QED
      BY <2>4, <3>1
  <2> HIDE DEF lengths
  <2>7. lengths \in SUBSET Int /\ \A p \in lengths : k <= p
    BY <1>2, <1>4, <2>1
  <2> QED
    BY <2>6, <2>7, MinIs
<1> HIDE DEF lengths
<1> QED
  BY <1>1, <1>2, <1>5

(* What the test calls complete is the whole request, and nothing of it is *)
(* missing.                                                                *)
LEMMA CompleteIsWhole ==
  ASSUME NEW r \in Requests, Honest(r), Unambiguous(r),
         NEW e, OnTheWire(r, e), Len(e) <= IntMax,
         NEW j \in 0 .. Len(e), NEW b, PrefixOf(b, e, j),
         TRUE \in request_complete(b)
  PROVE  j = Len(e)
<1> DEFINE total == HeadersEnd(b) + 1 + ContentLength(b)
<1>1. /\ BlankAt(r) \in Nat /\ Len(r.body) \in Nat /\ j \in Nat /\ Len(b) = j
      /\ Len(e) = BlankAt(r) + 1 + Len(r.body) /\ IntMax \in Nat
  BY AssemblyAssumption DEF OnTheWire, BlankAt, PrefixOf
<1>2. CString(b) = b
  BY NoZero
<1>3. /\ BlankLines(b) # {}
      /\ LengthTexts(b) # {} => total > IntMax \/ Enough(Len(b), total)
  BY <1>2, Zenon DEF request_complete
<1>4. j > BlankAt(r) /\ HeadersEnd(b) = BlankAt(r)
  BY <1>1, <1>3, FirstBlank
<1>5. CASE Announced(r) = {}
  <2>1. r.body = <<>>
    BY <1>5, CountedRight
  <2> QED
    BY <1>1, <1>4, <2>1
<1>6. CASE Announced(r) # {}
  <2>1. LengthTexts(b) # {} /\ ContentLength(b) = r.fields[Min(Announced(r))][2]
    BY <1>4, <1>6, FirstLengthText DEF Unambiguous
  <2>2. r.fields[Min(Announced(r))][2] = Len(r.body)
    BY <1>6, CountedRight
  <2>3. total = Len(e)
    BY <1>1, <1>4, <2>1, <2>2
  <2>4. j >= Len(e)
    BY <1>1, <1>3, <2>1, <2>3 DEF Enough
  <2> QED
    BY <1>1, <2>4
<1> QED
  BY <1>5, <1>6
-----------------------------------------------------------------------------
(* The parser.  Of the whole request it finds the line, the body and the   *)
(* first value of each header.                                             *)
LEMMA HeadIs ==
  ASSUME NEW r \in Requests, NEW e, OnTheWire(r, e), NEW S, e \in Seq(S)
  PROVE  /\ HeadOf(e) \in Seq(S) /\ Len(HeadOf(e)) = 2 * Fields(r) + 1
         /\ \A p \in 1 .. 2 * Fields(r) + 1 : HeadOf(e)[p] = e[p]
         /\ BodyOf(e) = r.body
<1> DEFINE f == Fields(r)
           n == Len(r.body)
           h == HeadOf(e)
<1>1. f \in Nat /\ n \in Nat /\ BlankAt(r) = 2 * f + 2 /\ Len(e) = 2 * f + 3 + n
  BY DEF OnTheWire, BlankAt
<1>2. HeadersEnd(e) = 2 * f + 2
  <2>1. PrefixOf(e, e, Len(e)) /\ Len(e) \in 0 .. Len(e) /\ ~(Len(e) <= BlankAt(r))
    BY <1>1 DEF PrefixOf
  <2> QED
    BY <1>1, <2>1, FirstBlank
<1>3. h \in Seq(S) /\ Len(h) = 2 * f + 1 /\ \A p \in 1 .. 2 * f + 1 : h[p] = e[p]
  <2> DEFINE l == 2 * f + 1
  <2>1. h = SubSeq(e, 1, l)
    BY <1>1, <1>2 DEF HeadOf
  <2>2. 1 \in 1 .. Len(e) + 1 /\ l \in 1 - 1 .. Len(e) /\ l - 1 + 1 = l
    BY <1>1
  <2> HIDE DEF h, l
  <2>3. /\ SubSeq(e, 1, l) \in Seq(S)
        /\ Len(SubSeq(e, 1, l)) = l - 1 + 1
        /\ \A p \in 1 .. l - 1 + 1 : SubSeq(e, 1, l)[p] = e[1 + p - 1]
    BY <2>2, Cut
  <2>4. h \in Seq(S) /\ Len(h) = l /\ \A p \in 1 .. l : h[p] = e[p]
    BY <2>1, <2>2, <2>3
  <2> QED
    BY <2>4 DEF l
<1> HIDE DEF h
<1>4. BodyOf(e) = r.body
  <2> DEFINE m == 2 * f + 4
             z == SubSeq(e, m, Len(e))
  <2>1. z \in Seq(S) /\ Len(z) = n /\ \A q \in 1 .. n : z[q] = e[m + q - 1]
    <3>1. \A p \in m .. Len(e) : e[p] \in S
      BY <1>1
    <3>2. m \in Int /\ Len(e) \in Int
      BY <1>1
    <3> HIDE DEF m, z
    <3>3. /\ SubSeq(e, m, Len(e)) \in Seq(S)
          /\ Len(SubSeq(e, m, Len(e))) = IF m <= Len(e) THEN Len(e) - m + 1 ELSE 0
          /\ \A q \in 1 .. Len(e) - m + 1 : SubSeq(e, m, Len(e))[q] = e[m + q - 1]
      BY <3>1, <3>2, SubSeqProperties
    <3>4. Len(e) - m + 1 = n /\ (IF m <= Len(e) THEN Len(e) - m + 1 ELSE 0) = n
      BY <1>1 DEF m
    <3> QED
      BY <3>3, <3>4 DEF z
  <2>2. \A q \in 1 .. n : z[q] = r.body[q]
    <3>1. ASSUME NEW q \in 1 .. n PROVE e[m + q - 1] = r.body[q]
      <4>1. m + q - 1 = BlankAt(r) + 1 + q
        BY <1>1
      <4> QED
        BY <4>1 DEF OnTheWire
    <3> QED
      BY <2>1, <3>1
  <2>3. PICK B : r.body \in Seq(B)
    BY AssemblyAssumption DEF IsRequest
  <2>4. z = r.body
    <3>1. z \in Seq(S)
      BY <2>1
    <3>2. Len(z) = Len(r.body) /\ \A q \in 1 .. Len(z) : z[q] = r.body[q]
      BY <2>1, <2>2
    <3> HIDE DEF z
    <3> QED
      BY <2>3, <3>1, <3>2, SameSeq
  <2>5. HeadersEnd(e) + 2 = m
    BY <1>1, <1>2
  <2> QED
    BY <2>4, <2>5 DEF BodyOf
<1> QED
  BY <1>3, <1>4 DEF h

(* Each line of the head is one token, and a CRLF or the head's end follows. *)
LEMMA LineIs ==
  ASSUME NEW r \in Requests, NEW e, OnTheWire(r, e), NEW S, e \in Seq(S),
         NEW m \in 0 .. Fields(r)
  PROVE  /\ LineEnd(HeadOf(e), 2 * m + 1) = 2 * m + 2
         /\ LineFrom(HeadOf(e), 2 * m + 1) = <<e[2 * m + 1]>>
<1> DEFINE f == Fields(r)
           h == HeadOf(e)
           k == 2 * m + 1
           T == {q \in k .. Len(h) : h[q] = Crlf} \cup {Len(h) + 1}
<1>1. f \in Nat /\ m \in 0 .. f /\ k \in 1 .. 2 * f + 1 /\ k + 1 = 2 * m + 2
  BY DEF OnTheWire
<1>2. h \in Seq(S) /\ Len(h) = 2 * f + 1 /\ \A p \in 1 .. 2 * f + 1 : h[p] = e[p]
  BY HeadIs
<1>3. h[k] = e[k] /\ h[k] # Crlf
  BY <1>1, <1>2, LinesAreNoCrlf
<1> HIDE DEF h
<1>4. k + 1 \in T
  <2>1. CASE m = f
    BY <1>1, <1>2, <2>1
  <2>2. CASE m # f
    <3>1. k + 1 \in 1 .. 2 * f + 1 /\ k + 1 \in k .. Len(h)
      BY <1>1, <1>2, <2>2
    <3>2. e[2 * m + 2] = Crlf
      BY <1>1 DEF OnTheWire
    <3> QED
      BY <1>1, <1>2, <3>1, <3>2
  <2> QED
    BY <2>1, <2>2
<1>5. ASSUME NEW q \in T PROVE k + 1 <= q
  <2>1. q # k /\ q >= k /\ q \in Int
    <3>1. CASE q = Len(h) + 1
      BY <1>1, <1>2, <3>1
    <3>2. CASE q \in k .. Len(h) /\ h[q] = Crlf
      <4>1. q # k
        <5> HIDE DEF k
        <5> QED
          BY <1>3, <3>2
      <4> QED
        BY <1>1, <1>2, <3>2, <4>1
    <3> QED
      BY <3>1, <3>2
  <2> QED
    BY <1>1, <2>1
<1>6. T \in SUBSET Int
  BY <1>1, <1>2
<1> HIDE DEF T
<1>7. LineEnd(h, k) = k + 1
  <2>1. Min(T) = k + 1
    BY <1>4, <1>5, <1>6, MinIs
  <2> QED
    BY <2>1 DEF LineEnd, T
<1>8. LineFrom(h, k) = <<e[k]>>
  <2> DEFINE u == SubSeq(h, k, k)
             v == <<e[k]>>
  <2>1. LineFrom(h, k) = u
    BY <1>1, <1>7 DEF LineFrom
  <2>2. k \in 1 .. Len(h) + 1 /\ k \in k - 1 .. Len(h) /\ k - k + 1 = 1 /\ k + 1 - 1 = k
    BY <1>1, <1>2
  <2>3. h[k] \in S
    BY <1>1, <1>2
  <2>4. v \in Seq(S) /\ Len(v) = 1 /\ v[1] = h[k]
    BY <1>3, <2>3
  <2> HIDE DEF k
  <2>5. /\ SubSeq(h, k, k) \in Seq(S) /\ Len(SubSeq(h, k, k)) = k - k + 1
        /\ \A q \in 1 .. k - k + 1 : SubSeq(h, k, k)[q] = h[k + q - 1]
    BY <1>2, <2>2, Cut
  <2>6. u \in Seq(S) /\ Len(u) = 1 /\ u[1] = h[k]
    BY <2>2, <2>5
  <2> HIDE DEF u, v
  <2>7. u = v
    BY <2>4, <2>6, SameSeq
  <2> QED
    BY <2>1, <2>7 DEF v
<1> QED
  BY <1>1, <1>7, <1>8 DEF h

(* The value under a header name is that of its first header.              *)
LEMMA FieldFound ==
  ASSUME NEW r \in Requests, NEW e, OnTheWire(r, e), NEW S, e \in Seq(S),
         NEW p \in 1 .. Fields(r),
         \A q \in 1 .. p - 1 : r.fields[q][1] # r.fields[p][1]
  PROVE  /\ r.fields[p][1] \in DOMAIN extract_header_fields(HeadOf(e))
         /\ extract_header_fields(HeadOf(e))[r.fields[p][1]] = <<r.fields[p]>>
<1> DEFINE f == Fields(r)
           h == HeadOf(e)
           lines == HeaderLines(h)
           k == r.fields[p][1]
           T == {x \in lines : h[x][1] = k}
<1>1. f \in Nat /\ p \in 1 .. f /\ 0 \in 0 .. f /\ 2 * 0 + 1 = 1
  BY DEF OnTheWire
<1>2. LineEnd(h, 1) = 2 /\ Len(h) = 2 * f + 1 /\ \A x \in 1 .. 2 * f + 1 : h[x] = e[x]
  <2>1. LineEnd(h, 2 * 0 + 1) = 2 * 0 + 2
    BY <1>1, LineIs
  <2> QED
    BY <2>1, HeadIs
<1>3. LineFrom(h, 2 * p + 1) = <<r.fields[p]>>
  <2>1. LineFrom(h, 2 * p + 1) = <<e[2 * p + 1]>>
    BY <1>1, LineIs
  <2> QED
    BY <2>1 DEF OnTheWire
<1> HIDE DEF h
<1>4. lines = {x \in 3 .. 2 * f + 1 : h[x - 1] = Crlf /\ IsField(h[x])}
  BY <1>1, <1>2 DEF HeaderLines
<1> HIDE DEF lines
<1>5. 2 * p + 1 \in T
  <2>1. 2 * p + 1 \in 3 .. 2 * f + 1 /\ 2 * p + 1 \in 1 .. 2 * f + 1 /\ 2 * p \in 1 .. 2 * f + 1
    BY <1>1
  <2>2. h[2 * p + 1] = r.fields[p]
    BY <1>1, <1>2, <2>1 DEF OnTheWire
  <2>3. h[2 * p + 1 - 1] = Crlf
    <3>1. p - 1 \in 0 .. f /\ 2 * (p - 1) + 2 = 2 * p /\ 2 * p + 1 - 1 = 2 * p
      BY <1>1
    <3>2. e[2 * (p - 1) + 2] = Crlf
      BY <1>1, <3>1 DEF OnTheWire
    <3> QED
      BY <1>2, <2>1, <3>1, <3>2
  <2>4. r.fields[p][1] \in Names
    BY FieldKinds
  <2> QED
    BY <1>4, <2>1, <2>2, <2>3, <2>4 DEF IsField
<1>6. ASSUME NEW x \in T PROVE 2 * p + 1 <= x
  <2>1. x \in 3 .. 2 * f + 1 /\ h[x] = e[x] /\ e[x][1] \in Names /\ e[x][1] = k
    <3>1. x \in 3 .. 2 * f + 1 /\ IsField(h[x]) /\ h[x][1] = k
      BY <1>4
    <3> QED
      BY <1>1, <1>2, <3>1 DEF IsField
  <2>2. CASE x % 2 = 0
    <3>1. x \div 2 - 1 \in 0 .. f /\ x = 2 * (x \div 2 - 1) + 2
      BY <1>1, <2>1, <2>2
    <3>2. e[x] = Crlf
      BY <3>1 DEF OnTheWire
    <3> QED
      BY <2>1, <3>2 DEF Crlf, Names
  <2>3. CASE x % 2 = 1
    <3>1. PICK m \in 1 .. f : x = 2 * m + 1
      <4>1. x \div 2 \in 1 .. f /\ x = 2 * (x \div 2) + 1
        BY <1>1, <2>1, <2>3
      <4> QED
        BY <4>1
    <3>2. r.fields[m][1] = k
      BY <2>1, <3>1 DEF OnTheWire
    <3>3. ~ (m \in 1 .. p - 1)
      BY <3>2
    <3> QED
      BY <1>1, <3>1, <3>3
  <2> QED
    BY <1>1, <2>1, <2>2, <2>3
<1>7. Min(T) = 2 * p + 1
  <2>1. T \in SUBSET Int
    BY <1>1, <1>4
  <2> HIDE DEF T
  <2> QED
    BY <1>5, <1>6, <2>1, MinIs
<1>8. k \in {h[x][1] : x \in lines}
  BY <1>5
<1> DEFINE g == [kk \in {h[x][1] : x \in lines} |->
                   LineFrom(h, Min({x \in lines : h[x][1] = kk}))]
<1>9. k \in DOMAIN g /\ g[k] = LineFrom(h, Min(T))
  BY <1>8
<1>10. g = extract_header_fields(h)
  BY DEF extract_header_fields, lines
<1> HIDE DEF g, T, k, lines
<1> QED
  BY <1>3, <1>7, <1>9, <1>10 DEF h, k

LEMMA Parsed ==
  ASSUME NEW r \in Requests, NEW e, OnTheWire(r, e), NEW S, e \in Seq(S),
         NEW h \in http_request_constructor(e)
  PROVE  h = Unparsed \/ Means(h, r)
<1> DEFINE g == extract_header_fields(HeadOf(e))
<1>1. LineFrom(HeadOf(e), 1) = <<r.line>> /\ BodyOf(e) = r.body
  <2>1. 0 \in 0 .. Fields(r) /\ 2 * 0 + 1 = 1
    BY DEF OnTheWire
  <2>2. LineFrom(HeadOf(e), 2 * 0 + 1) = <<e[2 * 0 + 1]>>
    BY <2>1, LineIs
  <2> QED
    BY <2>1, <2>2, HeadIs DEF OnTheWire
<1>2. CASE h = Unparsed
  BY <1>2
<1>3. CASE h # Unparsed
  <2>1. PICK copied \in BOOLEAN :
          h = [line |-> LineFrom(HeadOf(e), 1), fields |-> g,
               body |-> extract_body(BodyOf(e), g, copied)]
    BY <1>3 DEF http_request_constructor
  <2>2. h.line = <<r.line>> /\ h.fields = g /\ h.body = extract_body(r.body, g, copied)
    BY <1>1, <2>1
  <2>3. IF r.body = <<>> THEN h.body = <<>>
        ELSE "data" \in DOMAIN h.body /\ h.body["data"] = r.body
    <3>1. IF r.body = <<>> THEN extract_body(r.body, g, copied) = <<>>
          ELSE /\ "data" \in DOMAIN extract_body(r.body, g, copied)
               /\ extract_body(r.body, g, copied)["data"] = r.body
      <4> HIDE DEF g
      <4> QED
        BY DEF extract_body
    <3> QED
      BY <2>2, <3>1
  <2>4. ASSUME NEW p \in DOMAIN r.fields,
               \A q \in 1 .. p - 1 : r.fields[q][1] # r.fields[p][1]
        PROVE  /\ r.fields[p][1] \in DOMAIN h.fields
               /\ h.fields[r.fields[p][1]] = <<r.fields[p]>>
    <3>1. p \in 1 .. Fields(r)
      BY FieldKinds
    <3>2. r.fields[p][1] \in DOMAIN g /\ g[r.fields[p][1]] = <<r.fields[p]>>
      BY <2>4, <3>1, FieldFound
    <3> QED
      BY <2>2, <3>2
  <2> QED
    BY <2>2, <2>3, <2>4 DEF Means
<1> QED
  BY <1>2, <1>3
-----------------------------------------------------------------------------
(* What recv moves from the pending bytes of e to the buffer.              *)
LEMMA Moved ==
  ASSUME NEW S, NEW e \in Seq(S), NEW i \in 0 .. Len(e), NEW j \in i .. Len(e),
         NEW n \in 0 .. j - i, NEW box, box = SubSeq(e, i + 1, j)
  PROVE  /\ Len(box) = j - i
         /\ SubSeq(box, 1, n) = SubSeq(e, i + 1, i + n)
         /\ SubSeq(e, 1, i) \o SubSeq(box, 1, n) = SubSeq(e, 1, i + n)
         /\ SubSeq(box, n + 1, Len(box)) = SubSeq(e, i + n + 1, j)
<1>1. box \in Seq(S) /\ Len(box) = j - i /\ \A q \in 1 .. j - i : box[q] = e[i + q]
  <2> DEFINE k == i + 1
  <2>1. k \in 1 .. Len(e) + 1 /\ j \in k - 1 .. Len(e) /\ j - k + 1 = j - i /\ box = SubSeq(e, k, j)
    OBVIOUS
  <2>2. \A q \in 1 .. j - i : k + q - 1 = i + q
    OBVIOUS
  <2> HIDE DEF k
  <2>3. /\ SubSeq(e, k, j) \in Seq(S)
        /\ Len(SubSeq(e, k, j)) = j - k + 1
        /\ \A q \in 1 .. j - k + 1 : SubSeq(e, k, j)[q] = e[k + q - 1]
    BY <2>1, Cut
  <2> QED
    BY <2>1, <2>2, <2>3
<1>2. SubSeq(box, 1, n) = SubSeq(e, i + 1, i + n)
  <2> DEFINE u == SubSeq(box, 1, n)
             k == i + 1
             m == i + n
             v == SubSeq(e, k, m)
  <2>1. u \in Seq(S) /\ Len(u) = n /\ \A q \in 1 .. n : u[q] = e[i + q]
    <3>1. 1 \in 1 .. Len(box) + 1 /\ n \in 1 - 1 .. Len(box) /\ box \in Seq(S)
      BY <1>1
    <3>2. /\ SubSeq(box, 1, n) \in Seq(S)
          /\ Len(SubSeq(box, 1, n)) = n - 1 + 1
          /\ \A q \in 1 .. n - 1 + 1 : SubSeq(box, 1, n)[q] = box[1 + q - 1]
      BY <3>1, Cut
    <3> HIDE DEF u
    <3> QED
      BY <1>1, <3>2 DEF u
  <2>2. v \in Seq(S) /\ Len(v) = n /\ \A q \in 1 .. n : v[q] = e[i + q]
    <3>1. k \in 1 .. Len(e) + 1 /\ m \in k - 1 .. Len(e) /\ m - k + 1 = n
      OBVIOUS
    <3>2. \A q \in 1 .. n : k + q - 1 = i + q
      OBVIOUS
    <3> HIDE DEF k, m, v
    <3>3. /\ SubSeq(e, k, m) \in Seq(S)
          /\ Len(SubSeq(e, k, m)) = m - k + 1
          /\ \A q \in 1 .. m - k + 1 : SubSeq(e, k, m)[q] = e[k + q - 1]
      BY <3>1, Cut
    <3> QED
      BY <3>1, <3>2, <3>3 DEF v
  <2> HIDE DEF u, v
  <2>3. u = v
    BY <2>1, <2>2, SameSeq
  <2> QED
    BY <2>3 DEF u, v
<1>3. SubSeq(e, 1, i) \o SubSeq(e, i + 1, i + n) = SubSeq(e, 1, i + n)
  <2>1. 1 \in 1 .. Len(e) + 1 /\ i \in 1 - 1 .. Len(e) /\ i + n \in i .. Len(e)
    OBVIOUS
  <2> QED
    BY <2>1, ConcatAdjacentSubSeq
<1>4. SubSeq(box, n + 1, Len(box)) = SubSeq(e, i + n + 1, j)
  <2> DEFINE l == n + 1
             t == j - i
             u == SubSeq(box, l, t)
             k == i + n + 1
             v == SubSeq(e, k, j)
  <2>1. u \in Seq(S) /\ Len(u) = t - n /\ \A q \in 1 .. t - n : u[q] = e[i + n + q]
    <3>1. /\ l \in 1 .. Len(box) + 1 /\ t \in l - 1 .. Len(box) /\ t - l + 1 = t - n
          /\ \A q \in 1 .. t - n : l + q - 1 \in 1 .. t /\ i + (l + q - 1) = i + n + q
      BY <1>1
    <3>2. box \in Seq(S) /\ \A q \in 1 .. t : box[q] = e[i + q]
      BY <1>1
    <3> HIDE DEF l, t, u
    <3>3. /\ SubSeq(box, l, t) \in Seq(S)
          /\ Len(SubSeq(box, l, t)) = t - l + 1
          /\ \A q \in 1 .. t - l + 1 : SubSeq(box, l, t)[q] = box[l + q - 1]
      BY <3>1, <3>2, Cut
    <3> QED
      BY <3>1, <3>2, <3>3 DEF u
  <2>2. v \in Seq(S) /\ Len(v) = t - n /\ \A q \in 1 .. t - n : v[q] = e[i + n + q]
    <3>1. k \in 1 .. Len(e) + 1 /\ j \in k - 1 .. Len(e) /\ j - k + 1 = t - n
      OBVIOUS
    <3>2. \A q \in 1 .. t - n : k + q - 1 = i + n + q
      OBVIOUS
    <3> HIDE DEF k, t, v
    <3>3. /\ SubSeq(e, k, j) \in Seq(S)
          /\ Len(SubSeq(e, k, j)) = j - k + 1
          /\ \A q \in 1 .. j - k + 1 : SubSeq(e, k, j)[q] = e[k + q - 1]
      BY <3>1, Cut
    <3> QED
      BY <3>1, <3>2, <3>3 DEF v
  <2> HIDE DEF u, v
  <2>3. u = v
    BY <2>1, <2>2, SameSeq
  <2> QED
    BY <1>1, <2>3 DEF u, v
<1> QED
  BY <1>1, <1>2, <1>3, <1>4

LEMMA PrefixIs ==
  ASSUME NEW S, NEW e \in Seq(S), NEW j \in 0 .. Len(e)
  PROVE  PrefixOf(SubSeq(e, 1, j), e, j)
<1>1. 1 \in 1 .. Len(e) + 1 /\ j \in 1 - 1 .. Len(e)
  OBVIOUS
<1>2. /\ Len(SubSeq(e, 1, j)) = j - 1 + 1
      /\ \A q \in 1 .. j - 1 + 1 : SubSeq(e, 1, j)[q] = e[1 + q - 1]
  BY <1>1, Cut
<1> QED
  BY <1>2 DEF PrefixOf

-----------------------------------------------------------------------------
(* The inductive invariant.  At most one request is under way: the one     *)
(* behind those that were handled.  Its bytes are in read_buffer, in front *)
(* of those that are pending, and what follows them was lost.  While a     *)
(* handler has it nothing is pending, and before the reset read_buffer has *)
(* none of it.                                                             *)
Waiting == Len(handled) < Len(asked)
Current == Encode(asked[Len(handled) + 1])

UnderWay(e, buffer, box) ==
  \E i \in 0 .. Len(e) : \E j \in i .. Len(e) :
    buffer = SubSeq(e, 1, i) /\ box = SubSeq(e, i + 1, j)

Pieces ==
  /\ pc = "recv" => IF Waiting THEN UnderWay(Current, read_buffer, inbox)
                    ELSE read_buffer = <<>> /\ inbox = <<>>
  /\ pc = "respond" => Waiting /\ read_buffer = Current /\ inbox = <<>>
  /\ pc = "reset" => IF Waiting THEN UnderWay(Current, <<>>, inbox) ELSE inbox = <<>>

Given(h, r) == h = Unparsed \/ Means(h, r)

InStep ==
  /\ Len(handled) <= Len(asked) /\ Len(asked) <= Len(handled) + 1
  /\ \A n \in DOMAIN handled : Given(handled[n], asked[n])
  /\ Pieces

Typed ==
  /\ asked \in Seq(Requests) /\ \E S : handled \in Seq(S)
  /\ pc \in {"recv", "respond", "reset"}

IInv ==
  /\ Typed
  /\ Countable => InStep

LEMMA InitInv == Init => IInv
<1> SUFFICES ASSUME Init PROVE IInv
  OBVIOUS
<1>1. asked = <<>> /\ handled = <<>> /\ pc = "recv" /\ read_buffer = leftover /\ inbox = <<>>
  BY DEF Init
<1>2. Typed
  <2>1. handled \in Seq({})
    BY <1>1
  <2> QED
    BY <1>1, <2>1 DEF Typed
<1>3. Countable => InStep
  BY <1>1 DEF InStep, Pieces, Waiting, Countable
<1> QED
  BY <1>2, <1>3 DEF IInv

(* What is asked is never taken back: an honest client was honest before.  *)
LEMMA HonestBefore ==
  ASSUME Typed, NEW r \in Requests, leftover' = leftover,
         asked' = Append(asked, r), Countable'
  PROVE  /\ Countable
         /\ Len(asked') = Len(asked) + 1 /\ asked'[Len(asked) + 1] = r
         /\ \A n \in 1 .. Len(asked) : asked'[n] = asked[n]
<1>1. asked \in Seq(Requests)
  BY DEF Typed
<1>2. /\ asked' \in Seq(Requests)
      /\ Len(asked') = Len(asked) + 1 /\ asked'[Len(asked) + 1] = r
      /\ \A n \in 1 .. Len(asked) : asked'[n] = asked[n]
  BY <1>1, AppendProperties
<1>3. DOMAIN asked = 1 .. Len(asked) /\ DOMAIN asked' = 1 .. Len(asked') /\ Len(asked) \in Nat
  BY <1>1, <1>2
<1>4. ASSUME NEW n \in DOMAIN asked PROVE Honest(asked[n]) /\ Unambiguous(asked[n])
  <2>1. n \in DOMAIN asked' /\ asked'[n] = asked[n]
    BY <1>2, <1>3
  <2> QED
    BY <2>1 DEF Countable
<1> QED
  BY <1>2, <1>4 DEF Countable
-----------------------------------------------------------------------------
(* A request is under way when it was sent, when its tail is lost and when *)
(* a piece of it is received.                                              *)
LEMMA SentIsUnderWay ==
  ASSUME NEW S, NEW e \in Seq(S)
  PROVE  UnderWay(e, <<>>, e)
<1>1. 0 \in 0 .. Len(e) /\ Len(e) \in 0 .. Len(e) /\ Len(e) \in Nat
  OBVIOUS
<1>2. <<>> = SubSeq(e, 1, 0)
  BY SubSeqEmpty
<1>3. e = SubSeq(e, 0 + 1, Len(e))
  BY SubSeqFull
<1> QED
  BY <1>1, <1>2, <1>3 DEF UnderWay

LEMMA CutIsUnderWay ==
  ASSUME NEW S, NEW e \in Seq(S), NEW buffer, NEW box, UnderWay(e, buffer, box),
         NEW n \in 0 .. Len(box)
  PROVE  UnderWay(e, buffer, SubSeq(box, 1, n))
<1>1. PICK i \in 0 .. Len(e) : \E j \in i .. Len(e) :
        buffer = SubSeq(e, 1, i) /\ box = SubSeq(e, i + 1, j)
  BY DEF UnderWay
<1>2. PICK j \in i .. Len(e) : buffer = SubSeq(e, 1, i) /\ box = SubSeq(e, i + 1, j)
  BY <1>1
<1>3. 0 \in 0 .. j - i
  OBVIOUS
<1>4. Len(box) = j - i
  BY <1>2, <1>3, Moved
<1>5. n \in 0 .. j - i
  BY <1>4
<1>6. SubSeq(box, 1, n) = SubSeq(e, i + 1, i + n)
  BY <1>2, <1>5, Moved
<1>7. i + n \in i .. Len(e)
  BY <1>5
<1> QED
  BY <1>2, <1>6, <1>7 DEF UnderWay

Received(e, buffer, box, n) ==
  \E m \in 0 .. Len(e) :
    /\ buffer \o SubSeq(box, 1, n) = SubSeq(e, 1, m)
    /\ UnderWay(e, SubSeq(e, 1, m), SubSeq(box, n + 1, Len(box)))
    /\ m = Len(e) => SubSeq(box, n + 1, Len(box)) = <<>>

LEMMA ReceivedIsUnderWay ==
  ASSUME NEW S, NEW e \in Seq(S), NEW buffer, NEW box, UnderWay(e, buffer, box),
         NEW n \in 0 .. Len(box)
  PROVE  Received(e, buffer, box, n)
<1>1. PICK i \in 0 .. Len(e) : \E j \in i .. Len(e) :
        buffer = SubSeq(e, 1, i) /\ box = SubSeq(e, i + 1, j)
  BY DEF UnderWay
<1>2. PICK j \in i .. Len(e) : buffer = SubSeq(e, 1, i) /\ box = SubSeq(e, i + 1, j)
  BY <1>1
<1>3. 0 \in 0 .. j - i
  OBVIOUS
<1>4. Len(box) = j - i
  BY <1>2, <1>3, Moved
<1>5. n \in 0 .. j - i
  BY <1>4
<1> DEFINE m == i + n
<1>6. /\ buffer \o SubSeq(box, 1, n) = SubSeq(e, 1, m)
      /\ SubSeq(box, n + 1, Len(box)) = SubSeq(e, m + 1, j)
  BY <1>2, <1>5, Moved
<1>7. m \in 0 .. Len(e) /\ j \in m .. Len(e)
  BY <1>5
<1>8. m = Len(e) => SubSeq(e, m + 1, j) = <<>>
  <2>1. ASSUME m = Len(e) PROVE j < m + 1 /\ m + 1 \in Int /\ j \in Int
    BY <1>7, <2>1
  <2> HIDE DEF m
  <2> QED
    BY <2>1, SubSeqEmpty
<1> HIDE DEF m
<1> QED
  BY <1>6, <1>7, <1>8 DEF UnderWay, Received

(* The request under way.                                                  *)
LEMMA CurrentIs ==
  ASSUME Typed, Countable, Waiting, Len(asked) <= Len(handled) + 1
  PROVE  \E r \in Requests :
           /\ asked[Len(handled) + 1] = r /\ Honest(r) /\ Unambiguous(r) /\ Len(asked) = Len(handled) + 1
           /\ OnTheWire(r, Current) /\ Len(Current) <= IntMax
           /\ \E S : Current \in Seq(S)
<1>1. asked \in Seq(Requests) /\ Len(handled) \in Nat
  BY DEF Typed
<1>2. Len(asked) = Len(handled) + 1 /\ Len(handled) + 1 \in DOMAIN asked
  BY <1>1 DEF Waiting
<1> DEFINE r == asked[Len(handled) + 1]
<1>3. r \in Requests /\ Honest(r) /\ Unambiguous(r)
  BY <1>1, <1>2 DEF Countable
<1> HIDE DEF r
<1>4. OnTheWire(r, Encode(r)) /\ \E S : Encode(r) \in Seq(S)
  BY <1>3, EncodeIs
<1>5. Len(Encode(r)) <= IntMax
  BY <1>3 DEF Honest
<1> QED
  BY <1>2, <1>3, <1>4, <1>5 DEF r, Current

-----------------------------------------------------------------------------
(* The client's steps.                                                     *)
LEMMA AskStep ==
  ASSUME IInv, NEW r \in Requests, client_ask(r)
  PROVE  IInv'
<1>1. /\ Len(asked) <= Len(handled) /\ asked' = Append(asked, r)
      /\ inbox' = inbox \o Encode(r)
      /\ read_buffer' = read_buffer /\ pc' = pc /\ handled' = handled
      /\ leftover' = leftover
  BY DEF client_ask
<1>2. Typed'
  <2>1. asked' \in Seq(Requests)
    BY <1>1 DEF IInv, Typed
  <2> QED
    BY <1>1, <2>1 DEF IInv, Typed
<1>3. ASSUME Countable' PROVE InStep'
  <2>1. /\ Countable
        /\ Len(asked') = Len(asked) + 1 /\ asked'[Len(asked) + 1] = r
        /\ \A n \in 1 .. Len(asked) : asked'[n] = asked[n]
    BY <1>1, <1>3, HonestBefore DEF IInv
  <2>2. InStep
    BY <2>1 DEF IInv
  <2>3. /\ Len(asked) \in Nat /\ Len(handled) \in Nat /\ DOMAIN handled = 1 .. Len(handled)
    BY DEF IInv, Typed
  <2>4. Len(asked) = Len(handled) /\ ~ Waiting
    BY <1>1, <2>2, <2>3 DEF InStep, Waiting
  <2>5. Waiting' /\ Current' = Encode(r)
    BY <1>1, <2>1, <2>3, <2>4 DEF Waiting, Current
  <2>6. PICK S : Encode(r) \in Seq(S)
    BY EncodeIs
  <2>7. \A n \in DOMAIN handled' : Given(handled'[n], asked'[n])
    <3>1. \A n \in DOMAIN handled : Given(handled[n], asked[n]) /\ asked'[n] = asked[n]
      BY <2>1, <2>2, <2>3, <2>4 DEF InStep
    <3> QED
      BY <1>1, <3>1
  <2>8. pc # "respond" => UnderWay(Encode(r), <<>>, inbox')
    <3>1. ASSUME pc # "respond" PROVE inbox = <<>>
      BY <2>2, <2>4, <3>1 DEF IInv, Typed, InStep, Pieces
    <3>2. <<>> \o Encode(r) = Encode(r)
      BY <2>6, ConcatEmptySeq
    <3>3. UnderWay(Encode(r), <<>>, Encode(r))
      BY <2>6, SentIsUnderWay
    <3> QED
      BY <1>1, <3>1, <3>2, <3>3
  <2>9. pc = "recv" => read_buffer = <<>>
    BY <2>2, <2>4 DEF InStep, Pieces
  <2>10. pc # "respond"
    BY <2>2, <2>4 DEF InStep, Pieces
  <2>11. Pieces'
    BY <1>1, <2>5, <2>8, <2>9, <2>10 DEF Pieces
  <2> QED
    BY <1>1, <2>1, <2>3, <2>4, <2>7, <2>11 DEF InStep
<1> QED
  BY <1>2, <1>3 DEF IInv

LEMMA LeaveStep ==
  ASSUME IInv, client_leave
  PROVE  IInv'
<1>1. /\ read_buffer' = read_buffer /\ pc' = pc /\ handled' = handled /\ asked' = asked
      /\ leftover' = leftover
      /\ \E n \in 0 .. Len(inbox) : inbox' = SubSeq(inbox, 1, n)
  BY DEF client_leave
<1>2. PICK n \in 0 .. Len(inbox) : inbox' = SubSeq(inbox, 1, n)
  BY <1>1
<1>3. Typed' /\ (Countable' <=> Countable) /\ (Waiting' <=> Waiting) /\ Current' = Current
  BY <1>1 DEF IInv, Typed, Countable, Waiting, Current
<1>4. ASSUME Countable PROVE InStep'
  <2>1. InStep
    BY <1>4 DEF IInv
  <2>2. inbox = <<>> => inbox' = <<>>
    <3>1. ASSUME inbox = <<>> PROVE inbox' = <<>>
      <4>1. n = 0
        BY <3>1
      <4>2. SubSeq(inbox, 1, 0) = <<>>
        BY SubSeqEmpty
      <4> QED
        BY <1>2, <4>1, <4>2
    <3> QED
      BY <3>1
  <2>3. ASSUME Waiting, NEW buffer, UnderWay(Current, buffer, inbox)
        PROVE  UnderWay(Current, buffer, inbox')
    <3>1. PICK S : Current \in Seq(S)
      BY <1>4, <2>1, <2>3, CurrentIs DEF IInv, InStep
    <3> QED
      BY <1>2, <2>3, <3>1, CutIsUnderWay
  <2>4. Pieces'
    BY <1>1, <1>3, <2>1, <2>2, <2>3 DEF InStep, Pieces
  <2> QED
    BY <1>1, <2>1, <2>4 DEF InStep
<1> QED
  BY <1>3, <1>4 DEF IInv
-----------------------------------------------------------------------------
(* The worker's steps.  What recv completes is the request under way.      *)
LEMMA RecvTakesPending ==
  ASSUME NEW n \in Nat, NEW l \in Nat, NEW k \in Int, n <= Min({l, k})
  PROVE  n <= l
<1>1. CASE l <= k
  <2>1. Min({l, k}) = l
    BY <1>1, MinIs
  <2> QED
    BY <2>1
<1>2. CASE ~ (l <= k)
  <2>1. Min({l, k}) = k
    <3>1. \A m \in {l, k} : k <= m
      BY <1>2
    <3>2. {l, k} \in SUBSET Int /\ k \in {l, k}
      OBVIOUS
    <3> QED
      BY <3>1, <3>2, MinIs
  <2> QED
    BY <1>2, <2>1
<1> QED
  BY <1>1, <1>2

LEMMA TestIsBoolean ==
  ASSUME NEW b, NEW complete \in request_complete(b)
  PROVE  complete \in BOOLEAN
<1> DEFINE s == CString(b)
           total == HeadersEnd(s) + 1 + ContentLength(s)
<1>1. Enough(Len(b), total) \in BOOLEAN
  <2> HIDE DEF total
  <2> QED
    BY DEF Enough
<1> DEFINE enough == Enough(Len(b), total)
<1>2. complete \in {FALSE} \cup {TRUE} \cup BOOLEAN \cup {enough}
  BY DEF request_complete
<1> HIDE DEF enough
<1>3. enough \in BOOLEAN
  BY <1>1 DEF enough
<1> QED
  BY <1>2, <1>3

LEMMA RecvStep ==
  ASSUME IInv, NEW n \in 1 .. BufSize, worker_recv(n)
  PROVE  IInv'
<1>1. /\ pc = "recv" /\ n <= Min({Len(inbox), Room})
      /\ inbox' = SubSeq(inbox, n + 1, Len(inbox))
      /\ asked' = asked /\ handled' = handled /\ leftover' = leftover
      /\ read_buffer' = read_buffer \o SubSeq(inbox, 1, n)
  BY DEF worker_recv
<1>2. PICK complete \in request_complete(read_buffer') :
        pc' = IF complete THEN "respond" ELSE "recv"
  BY <1>1 DEF worker_recv
<1>3. complete \in BOOLEAN
  BY <1>2, TestIsBoolean
<1>4. Typed' /\ (Countable' <=> Countable) /\ (Waiting' <=> Waiting) /\ Current' = Current
  BY <1>1, <1>2, <1>3 DEF IInv, Typed, Countable, Waiting, Current
<1>5. ASSUME Countable PROVE InStep'
  <2>1. InStep /\ Typed
    BY <1>5 DEF IInv
  <2>2. CASE ~ Waiting
    <3>1. inbox = <<>> /\ read_buffer = <<>>
      BY <1>1, <2>1, <2>2 DEF InStep, Pieces
    <3>2. Len(inbox) = 0 /\ n \in Nat /\ n > 0
      BY <3>1, AssemblyAssumption
    <3>3. Room \in Int
      BY <3>1, AssemblyAssumption DEF Room
    <3>4. n <= Len(inbox)
      <4> DEFINE l == Len(inbox)
      <4>1. l \in Nat /\ n <= Min({l, Room})
        BY <1>1, <3>2
      <4> HIDE DEF l
      <4>2. n <= l
        BY <3>2, <3>3, <4>1, RecvTakesPending
      <4> QED
        BY <4>2 DEF l
    <3> QED
      BY <3>2, <3>4
  <2>3. CASE Waiting
    <3>1. PICK r \in Requests :
            /\ asked[Len(handled) + 1] = r /\ Honest(r) /\ Unambiguous(r) /\ Len(asked) = Len(handled) + 1
            /\ OnTheWire(r, Current) /\ Len(Current) <= IntMax
            /\ \E S : Current \in Seq(S)
      BY <1>5, <2>1, <2>3, CurrentIs DEF InStep
    <3>2. PICK S : Current \in Seq(S)
      BY <3>1
    <3>3. UnderWay(Current, read_buffer, inbox)
      BY <1>1, <2>1, <2>3 DEF InStep, Pieces
    <3>4. Len(inbox) \in Nat /\ Len(read_buffer) \in Nat
      <4>1. PICK i \in 0 .. Len(Current) : \E j \in i .. Len(Current) :
              read_buffer = SubSeq(Current, 1, i) /\ inbox = SubSeq(Current, i + 1, j)
        BY <3>3 DEF UnderWay
      <4>2. PICK j \in i .. Len(Current) :
              read_buffer = SubSeq(Current, 1, i) /\ inbox = SubSeq(Current, i + 1, j)
        BY <4>1
      <4>3. Len(read_buffer) = i
        BY <3>2, <4>2, PrefixIs DEF PrefixOf
      <4>4. Len(inbox) = j - i
        <5>1. 0 \in 0 .. j - i
          OBVIOUS
        <5> QED
          BY <3>2, <4>2, <5>1, Moved
      <4> QED
        BY <4>3, <4>4
    <3>5. n \in 0 .. Len(inbox)
      <4> DEFINE l == Len(inbox)
      <4>1. l \in Nat /\ n <= Min({l, Room}) /\ n \in Nat /\ Room \in Int
        BY <1>1, <3>4, AssemblyAssumption DEF Room
      <4> HIDE DEF l
      <4>2. n <= l
        BY <4>1, RecvTakesPending
      <4>3. n \in 0 .. l
        BY <4>1, <4>2
      <4> QED
        BY <4>3 DEF l
    <3>6. PICK m \in 0 .. Len(Current) :
            /\ read_buffer \o SubSeq(inbox, 1, n) = SubSeq(Current, 1, m)
            /\ UnderWay(Current, SubSeq(Current, 1, m), SubSeq(inbox, n + 1, Len(inbox)))
            /\ m = Len(Current) => SubSeq(inbox, n + 1, Len(inbox)) = <<>>
      <4>1. Received(Current, read_buffer, inbox, n)
        BY <3>2, <3>3, <3>5, ReceivedIsUnderWay
      <4> QED
        BY <4>1 DEF Received
    <3>7. /\ read_buffer' = SubSeq(Current, 1, m)
          /\ UnderWay(Current, read_buffer', inbox')
          /\ m = Len(Current) => inbox' = <<>>
      BY <1>1, <3>6
    <3>8. complete => m = Len(Current)
      <4>1. PrefixOf(read_buffer', Current, m)
        BY <3>2, <3>7, PrefixIs
      <4>2. ASSUME complete PROVE m = Len(Current)
        <5>1. TRUE \in request_complete(read_buffer')
          BY <1>2, <1>3, <4>2
        <5> DEFINE b == read_buffer'
                   e == Current
        <5>2. /\ OnTheWire(r, e) /\ Len(e) <= IntMax /\ m \in 0 .. Len(e)
              /\ PrefixOf(b, e, m) /\ TRUE \in request_complete(b)
              /\ Honest(r) /\ Unambiguous(r)
          BY <3>1, <4>1, <5>1
        <5> HIDE DEF b, e
        <5>3. m = Len(e)
          BY <5>2, CompleteIsWhole
        <5> QED
          BY <5>3 DEF e
      <4> QED
        BY <4>2
    <3>9. complete => read_buffer' = Current /\ inbox' = <<>>
      BY <3>2, <3>7, <3>8, SubSeqFull
    <3>10. Pieces'
      BY <1>2, <1>3, <1>4, <2>3, <3>7, <3>9 DEF Pieces
    <3> QED
      BY <1>1, <2>1, <3>10 DEF InStep
  <2> QED
    BY <2>2, <2>3
<1> QED
  BY <1>4, <1>5 DEF IInv

LEMMA CloseStep ==
  ASSUME IInv, worker_recv_zero
  PROVE  IInv'
  BY DEF worker_recv_zero, IInv, Typed, Countable, InStep, Pieces, Waiting, Current

LEMMA RespondStep ==
  ASSUME IInv, worker_respond
  PROVE  IInv'
<1>1. /\ pc = "respond" /\ pc' = "reset"
      /\ \E x \in http_request_constructor(CString(read_buffer)) : handled' = Append(handled, x)
      /\ read_buffer' = read_buffer /\ inbox' = inbox /\ asked' = asked /\ leftover' = leftover
  BY DEF worker_respond
<1>2. PICK S : handled \in Seq(S)
  BY DEF IInv, Typed
<1>2a. PICK h \in http_request_constructor(CString(read_buffer)) : handled' = Append(handled, h)
  BY <1>1
<1>3. handled \in Seq(S \cup {h}) /\ h \in S \cup {h}
  BY <1>2
<1>4. /\ handled' \in Seq(S \cup {h}) /\ Len(handled') = Len(handled) + 1
      /\ handled'[Len(handled) + 1] = h
      /\ \A n \in 1 .. Len(handled) : handled'[n] = handled[n]
  BY <1>2a, <1>3, AppendProperties
<1>5. Typed' /\ (Countable' <=> Countable)
  BY <1>1, <1>4 DEF IInv, Typed, Countable
<1>6. ASSUME Countable PROVE InStep'
  <2>1. InStep /\ Typed
    BY <1>6 DEF IInv
  <2>2. Waiting /\ read_buffer = Current /\ inbox = <<>>
    BY <1>1, <2>1 DEF InStep, Pieces
  <2>3. PICK r \in Requests :
          /\ asked[Len(handled) + 1] = r /\ Honest(r) /\ Unambiguous(r) /\ Len(asked) = Len(handled) + 1
          /\ OnTheWire(r, Current) /\ Len(Current) <= IntMax
          /\ \E T : Current \in Seq(T)
    BY <1>6, <2>1, <2>2, CurrentIs DEF InStep
  <2>4. Given(h, r)
    <3> DEFINE e == Current
    <3>1. PICK T : e \in Seq(T)
      BY <2>3
    <3>2. OnTheWire(r, e) /\ Honest(r) /\ Len(e) \in 0 .. Len(e)
      BY <2>3, <3>1
    <3>3. h \in http_request_constructor(CString(e))
      BY <1>2a, <2>2
    <3> HIDE DEF e
    <3>4. PrefixOf(e, e, Len(e))
      BY DEF PrefixOf
    <3>5. CString(e) = e
      BY <3>2, <3>4, NoZero
    <3>6. h \in http_request_constructor(e)
      BY <3>3, <3>5
    <3> QED
      BY <3>1, <3>2, <3>6, Parsed DEF Given
  <2>5. Len(handled) \in Nat /\ DOMAIN handled = 1 .. Len(handled) /\ Len(handled') = Len(handled) + 1
        /\ DOMAIN handled' = 1 .. Len(handled')
    BY <1>2, <1>4
  <2>6. \A n \in DOMAIN handled' : Given(handled'[n], asked'[n])
    <3>1. ASSUME NEW n \in 1 .. Len(handled) PROVE Given(handled'[n], asked'[n])
      <4>1. Given(handled[n], asked[n])
        BY <2>1, <2>5 DEF InStep
      <4> QED
        BY <1>1, <1>4, <4>1
    <3>2. Given(handled'[Len(handled) + 1], asked'[Len(handled) + 1])
      BY <1>1, <1>4, <2>3, <2>4
    <3>3. \A n \in DOMAIN handled' : n \in 1 .. Len(handled) \/ n = Len(handled) + 1
      BY <2>5
    <3> QED
      BY <3>1, <3>2, <3>3
  <2>7. ~ Waiting'
    BY <1>1, <2>3, <2>5 DEF Waiting
  <2>8. Pieces'
    BY <1>1, <2>2, <2>7 DEF Pieces
  <2> QED
    BY <1>1, <2>3, <2>5, <2>6, <2>8 DEF InStep
<1> QED
  BY <1>5, <1>6 DEF IInv

LEMMA ResetStep ==
  ASSUME IInv, worker_reset
  PROVE  IInv'
<1>1. /\ pc = "reset" /\ pc' = "recv" /\ read_buffer' = <<>>
      /\ inbox' = inbox /\ asked' = asked /\ handled' = handled /\ leftover' = leftover
  BY DEF worker_reset
<1> QED
  BY <1>1 DEF IInv, Typed, Countable, InStep, Pieces, Waiting, Current

LEMMA NextInv ==
  ASSUME IInv, [Next]_vars
  PROVE  IInv'
<1>1. ASSUME NEW r \in Requests, client_ask(r) PROVE IInv'
  BY <1>1, AskStep
<1>2. CASE client_leave
  BY <1>2, LeaveStep
<1>3. ASSUME NEW n \in 1 .. BufSize, worker_recv(n) PROVE IInv'
  BY <1>3, RecvStep
<1>4. CASE worker_recv_zero
  BY <1>4, CloseStep
<1>5. CASE worker_respond
  BY <1>5, RespondStep
<1>6. CASE worker_reset
  BY <1>6, ResetStep
<1>7. CASE UNCHANGED vars
  BY <1>7 DEF vars, IInv, Typed, Countable, InStep, Pieces, Waiting, Current
<1> QED
  BY <1>1, <1>2, <1>3, <1>4, <1>5, <1>6, <1>7 DEF Next, Worker, closed

(* In a slot that nobody left bytes in, however the client's bytes are cut *)
(* into pieces and whatever set of honest and unambiguous requests it      *)
(* chooses from, a handler gets exactly the requests that were sent,       *)
(* whole, once and in order, or an empty one in the place of a request the *)
(* parser found no memory for (thread_pool.c, http_parser.c).              *)
THEOREM RequestsAsSent == Spec => []HandledAsSent
<1>1. IInv => HandledAsSent
  BY DEF IInv, InStep, HandledAsSent, Given
<1> QED
  BY <1>1, InitInv, NextInv, PTL DEF Spec
=============================================================================
