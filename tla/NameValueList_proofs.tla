------------------------ MODULE NameValueList_proofs ------------------------
(***************************************************************************)
(* Proofs about the linked lists of namevaluetree.c, for every set of      *)
(* cells and of objects.                                                   *)
(*                                                                         *)
(* The invariant IInv says that behind the heap there is a sequence q of   *)
(* distinct cells, the list: pNext leads from each cell of q to the next,  *)
(* the root knows the first and the last, the allocated cells are those of *)
(* q, and the cursors are places in q (Shape and Cursor).  A cursor also   *)
(* remembers what it has passed: a search has not met its object yet, a    *)
(* match has met no profile of the peer, sbSessAbort has marked every      *)
(* channel before it.  Behind the walk of the server loop a session is     *)
(* taken out, and its cursor is at the entry after the one that goes: this *)
(* is why the loop must move on before it removes.  An action keeps q,     *)
(* appends a cell to it, or takes its k-th cell out (Gone).                *)
(*                                                                         *)
(* That Chain, which is defined by following pNext, yields q is shown by   *)
(* an induction over the places of q (ChainIs, by SetInduction).           *)
(*                                                                         *)
(* The last part shows that the list is an EntryList.                      *)
(***************************************************************************)
EXTENDS NameValueList, Queues_proofs, FiniteSetTheorems

\* The k-th of the cells q, NULL when there is none.
At(q, k) == IF k \in 1 .. Len(q) THEN q[k] ELSE NULL

\* The cells q are chained in this order, and the last one ends the chain.
Linked(h, q) ==
  /\ q \in Seq(Cells) /\ Distinct(q)
  /\ \A i \in 1 .. Len(q) : h[q[i]].pNext = At(q, i + 1)

\* q without its first k - 1 cells.
From(q, k) == [i \in 1 .. Len(q) + 1 - k |-> q[k + i - 1]]

\* The number of cells bounds the length of every chain.
LEMMA ChainFits ==
  ASSUME NEW q \in Seq(Cells), Distinct(q)
  PROVE  Len(q) \in Nat /\ Cardinality(Cells) \in Nat /\ Len(q) <= Cardinality(Cells)
<1>1. IsFiniteSet(Cells)
  BY ListAssumption
<1>2. Len(q) \in Nat /\ Cardinality(Cells) \in Nat
  BY <1>1, FS_CardinalityType
<1>3. q \in Injection(1 .. Len(q), Cells)
  BY DEF Distinct, Injection, IsInjective
<1>4. Cardinality(1 .. Len(q)) <= Cardinality(Cells)
  BY <1>1, <1>3, FS_Injection
<1>5. Cardinality(1 .. Len(q)) = Len(q)
  <2>. PICK n \in Nat : n = Len(q)
    BY <1>2
  <2>1. 1 \in Int /\ n \in Int
    OBVIOUS
  <2>2. Cardinality(1 .. n) = IF 1 > n THEN 0 ELSE n - 1 + 1
    BY <2>1, FS_Interval, Zenon
  <2> QED BY <1>2, <2>2
<1> QED BY <1>2, <1>4, <1>5

\* Following pNext from any cell of the chain meets the cells behind it.
LEMMA ChainIs ==
  ASSUME NEW h, NEW q, Linked(h, q), NEW k \in 1 .. Len(q) + 1
  PROVE  ChainIn(h, At(q, k)) = From(q, k)
<1>. DEFINE N == Cardinality(Cells)
            p == At(q, k)
            next == [c \in Cells \union {NULL} |-> IF c = NULL THEN NULL ELSE h[c].pNext]
            Follows(f) == f = [n \in 1 .. N |-> IF n = 1 THEN p ELSE next[f[n - 1]]]
            cell == CHOOSE f : Follows(f)
            g == [n \in 1 .. N |-> At(q, k + n - 1)]
<1>1. /\ q \in Seq(Cells) /\ Len(q) \in Nat /\ N \in Nat /\ Len(q) <= N
      /\ NULL \notin Cells /\ k \in Nat
      /\ \A i \in 1 .. Len(q) : q[i] \in Cells /\ h[q[i]].pNext = At(q, i + 1)
  <2>1. q \in Seq(Cells) /\ Distinct(q) /\ NULL \notin Cells
    BY ListAssumption DEF Linked
  <2>2. Len(q) \in Nat /\ N \in Nat /\ Len(q) <= N
    BY <2>1, ChainFits
  <2>3. \A i \in 1 .. Len(q) : q[i] \in Cells /\ h[q[i]].pNext = At(q, i + 1)
    BY <2>1 DEF Linked
  <2> QED BY <2>1, <2>2, <2>3
<1>2. ASSUME NEW i \in Nat, i >= 1
      PROVE  /\ At(q, i) \in Cells \union {NULL} /\ (At(q, i) = NULL <=> i > Len(q))
             /\ next[At(q, i)] = At(q, i + 1)
  <2>1. CASE i <= Len(q)
    <3>1. At(q, i) = q[i] /\ q[i] \in Cells /\ q[i] # NULL /\ h[q[i]].pNext = At(q, i + 1)
      BY <1>1, <1>2, <2>1 DEF At
    <3> QED BY <2>1, <3>1
  <2>2. CASE i > Len(q)
    <3>1. At(q, i) = NULL /\ At(q, i + 1) = NULL
      BY <1>1, <1>2, <2>2 DEF At
    <3> QED BY <2>2, <3>1
  <2> QED BY <1>1, <2>1, <2>2
<1> HIDE DEF next
<1>3. Follows(g)
  <2>1. ASSUME NEW n \in 1 .. N PROVE g[n] = IF n = 1 THEN p ELSE next[g[n - 1]]
    <3>1. CASE n = 1
      BY <1>1, <3>1
    <3>2. CASE n # 1
      <4>1. n - 1 \in 1 .. N /\ k + (n - 1) - 1 \in Nat /\ k + (n - 1) - 1 >= 1
        BY <1>1, <3>2
      <4>2. next[At(q, k + (n - 1) - 1)] = At(q, (k + (n - 1) - 1) + 1)
        BY <1>2, <4>1
      <4>3. (k + (n - 1) - 1) + 1 = k + n - 1
        BY <1>1
      <4> QED BY <3>2, <4>1, <4>2, <4>3
    <3> QED BY <3>1, <3>2
  <2> QED BY <2>1
<1>4. Follows(cell)
  BY <1>3
<1>5. ChainIn(h, p) = [n \in {m \in DOMAIN cell : cell[m] # NULL} |-> cell[n]]
  BY DEF ChainIn, next
<1> HIDE DEF cell, p
<1>6. \A n \in 1 .. N : cell[n] = At(q, k + n - 1)
  <2>. DEFINE T == {m \in Nat : m + 1 \in 1 .. N => cell[m + 1] = At(q, k + m)}
  <2>1. 0 \in T
    BY <1>1, <1>4 DEF p
  <2>2. ASSUME NEW m \in T PROVE m + 1 \in T
    <3>. SUFFICES ASSUME (m + 1) + 1 \in 1 .. N PROVE cell[(m + 1) + 1] = At(q, k + (m + 1))
      OBVIOUS
    <3>1. cell[m + 1] = At(q, k + m) /\ k + m \in Nat /\ k + m >= 1
      BY <1>1
    <3>2. cell[(m + 1) + 1] = next[cell[m + 1]]
      <4>1. (m + 1) + 1 # 1 /\ ((m + 1) + 1) - 1 = m + 1
        OBVIOUS
      <4> QED BY <1>4, <4>1
    <3>3. next[At(q, k + m)] = At(q, (k + m) + 1) /\ (k + m) + 1 = k + (m + 1)
      BY <1>1, <1>2, <3>1
    <3> QED BY <3>1, <3>2, <3>3
  <2>3. T = Nat
    BY <2>1, <2>2, SetInduction
  <2>4. ASSUME NEW n \in 1 .. N PROVE cell[n] = At(q, k + n - 1)
    <3>1. n - 1 \in Nat /\ (n - 1) + 1 = n /\ k + (n - 1) = k + n - 1
      BY <1>1
    <3>2. n - 1 \in T
      BY <2>3, <3>1
    <3> QED BY <3>1, <3>2
  <2> QED BY <2>4
<1>7. {m \in DOMAIN cell : cell[m] # NULL} = 1 .. Len(q) + 1 - k
  <2>1. DOMAIN cell = 1 .. N
    BY <1>4
  <2>2. ASSUME NEW m \in 1 .. N PROVE cell[m] # NULL <=> m \in 1 .. Len(q) + 1 - k
    <3>1. k + m - 1 \in Nat /\ k + m - 1 >= 1
      BY <1>1
    <3>2. cell[m] = NULL <=> k + m - 1 > Len(q)
      BY <1>2, <1>6, <3>1
    <3> QED BY <1>1, <3>2
  <2>3. 1 .. Len(q) + 1 - k \subseteq 1 .. N
    BY <1>1
  <2> QED BY <2>1, <2>2, <2>3
<1>8. \A n \in 1 .. Len(q) + 1 - k : cell[n] = q[k + n - 1]
  <2>. SUFFICES ASSUME NEW n \in 1 .. Len(q) + 1 - k PROVE cell[n] = q[k + n - 1]
    OBVIOUS
  <2>1. n \in 1 .. N /\ k + n - 1 \in 1 .. Len(q)
    BY <1>1
  <2> QED BY <1>6, <2>1 DEF At
<1> QED BY <1>5, <1>7, <1>8 DEF From, p
-----------------------------------------------------------------------------
\* Every listed object exists, and is listed once.
Objects ==
  /\ \A c \in live : heap[c].pUsr \in alive
  /\ \A c, d \in live : heap[c].pUsr = heap[d].pUsr => c = d

\* What is in use while what is done.
Phases ==
  /\ pc = "idle" => pEntry = NULL
  /\ pc # "search" => pThis = NULL /\ pPrev = NULL /\ pUsr = NULL
  /\ pc = "search" => /\ kind \in {"sessions", "channels"} /\ pUsr \in alive
                      /\ kind = "channels" => pEntry = NULL
  /\ pc = "walk" => kind = "sessions"
  /\ pc = "abort" => kind = "channels"
  /\ pc = "match" => kind = "profiles"
  /\ pc = "match" <=> remote # {}
  /\ Ending /\ kind = "channels" => \A c \in live : heap[c].pUsr \in aborted

\* The cells q are the list; while it is destroyed, what is left of it.
Shape(q) ==
  /\ Linked(heap, q) /\ Range(q) = live
  /\ Ending => pEntry = At(q, 1)
  /\ ~Ending => pFirst = At(q, 1) /\ pLast = At(q, Len(q))

\* A walk has met the objects before its cursor, a search has passed them, and
\* a session is taken out behind the back of the walk.
Cursor(q) ==
  /\ ~Ending =>
       \E k \in 1 .. Len(q) + 1 :
          /\ pEntry = At(q, k)
          /\ \A i \in 1 .. k - 1 : /\ pc = "match" => heap[q[i]].pUsr \notin remote
                                   /\ pc = "abort" => heap[q[i]].pUsr \in aborted
  /\ pc = "search" =>
       \E k \in 1 .. Len(q) + 1 :
          /\ pThis = At(q, k) /\ pPrev = At(q, k - 1)
          /\ \A i \in 1 .. k - 1 : heap[q[i]].pUsr # pUsr
  /\ pc = "search" /\ kind = "sessions" =>
       \E k \in 1 .. Len(q) : heap[q[k]].pUsr = pUsr /\ pEntry = At(q, k + 1)

\* The heap holds the list q, in a state the code can be in.
IsList(q) == TypeOK /\ Objects /\ Phases /\ q \in Seq(Cells) /\ Shape(q) /\ Cursor(q)

IInv == \E q \in Seq(Cells) : IsList(q)
-----------------------------------------------------------------------------
\* Places in a chain.
LEMMA AtIs ==
  ASSUME NEW q \in Seq(Cells)
  PROVE  /\ \A k \in Int : At(q, k) \in Range(q) \union {NULL}
         /\ \A k \in 1 .. Len(q) : At(q, k) = q[k] /\ q[k] \in Cells /\ q[k] # NULL
         /\ \A k \in Int : k \notin 1 .. Len(q) => At(q, k) = NULL
         /\ \A k \in Int : At(q, k) # NULL => k \in 1 .. Len(q)
         /\ Len(q) \in Nat
<1>1. NULL \notin Cells
  BY ListAssumption
<1>2. \A k \in 1 .. Len(q) : At(q, k) = q[k] /\ q[k] \in Cells /\ q[k] # NULL
  BY <1>1 DEF At
<1>3. \A k \in Int : k \notin 1 .. Len(q) => At(q, k) = NULL
  BY DEF At
<1>4. \A k \in 1 .. Len(q) : q[k] \in Range(q)
  BY RangeIdx
<1> QED BY <1>2, <1>3, <1>4

\* An entry is hung behind the last one.
Hung(h, g, q, c) ==
  /\ c \in Cells /\ c \notin Range(q)
  /\ \A d \in Range(q) : d # At(q, Len(q)) => g[d].pNext = h[d].pNext
  /\ At(q, Len(q)) # NULL => g[At(q, Len(q))].pNext = c
  /\ g[c].pNext = NULL

\* It is the last cell of a chain.
LEMMA LinkedAppend ==
  ASSUME NEW h, NEW g, NEW q, Linked(h, q), NEW c, Hung(h, g, q, c)
  PROVE  /\ Append(q, c) \in Seq(Cells)
         /\ Linked(g, Append(q, c)) /\ Range(Append(q, c)) = Range(q) \union {c}
         /\ Len(Append(q, c)) = Len(q) + 1
         /\ At(Append(q, c), Len(q) + 1) = c
<1>. DEFINE r == Append(q, c)
            n == Len(q)
<1>1. q \in Seq(Cells) /\ Distinct(q) /\ n \in Nat /\ c \in Cells /\ c \notin Range(q)
  BY DEF Linked, Hung
<1>2. /\ r \in Seq(Cells) /\ Len(r) = n + 1 /\ r[n + 1] = c
      /\ \A i \in 1 .. n : r[i] = q[i] /\ i \in 1 .. n + 1
  BY <1>1
<1>3. Distinct(r) /\ Range(r) = Range(q) \union {c}
  BY <1>1, DistinctAppend, RangeAppend
<1> HIDE DEF r, n
<1>4. /\ At(r, n + 1) = c /\ At(r, n + 2) = NULL
      /\ \A k \in 1 .. n : At(r, k) = q[k] /\ At(q, k) = q[k]
  BY <1>1, <1>2 DEF At, n
<1>5. ASSUME NEW i \in 1 .. Len(r) PROVE g[r[i]].pNext = At(r, i + 1)
  <2>1. CASE i = n + 1
    BY <1>1, <1>2, <1>4, <2>1 DEF Hung
  <2>2. CASE i = n
    <3>1. q[n] # NULL /\ At(q, n) = q[n]
      BY <1>1, <1>2, <2>2, AtIs DEF n
    <3> QED BY <1>1, <1>2, <1>4, <2>2, <3>1 DEF n, Hung
  <2>3. CASE i # n /\ i # n + 1
    <3>1. i \in 1 .. n /\ i + 1 \in 1 .. n /\ n \in 1 .. n
      BY <1>1, <1>2, <2>3
    <3>2. q[i] \in Range(q) /\ q[i] # q[n]
      BY <1>1, <2>3, <3>1, RangeIdx DEF Distinct, n
    <3>3. h[q[i]].pNext = At(q, i + 1)
      BY <3>1 DEF Linked, n
    <3> QED BY <1>2, <1>4, <3>1, <3>2, <3>3 DEF n, Hung
  <2> QED BY <2>1, <2>2, <2>3
<1> QED BY <1>2, <1>3, <1>4, <1>5 DEF Linked, r, n

\* The places in a list that was added to.
LEMMA AppendAt ==
  ASSUME NEW q \in Seq(Cells), NEW c \in Cells
  PROVE  \A k \in 1 .. Len(q) : At(Append(q, c), k) = At(q, k)
  BY DEF At

\* q without its k-th element.
Gone(q, k) == [i \in 1 .. Len(q) - 1 |-> IF i < k THEN q[i] ELSE q[i + 1]]

\* It is as long as q but for one.
LEMMA GoneIs ==
  ASSUME NEW D, NEW q \in Seq(D), NEW k \in 1 .. Len(q)
  PROVE  /\ Gone(q, k) \in Seq(D) /\ Len(Gone(q, k)) = Len(q) - 1
         /\ \A i \in 1 .. Len(q) - 1 :
               Gone(q, k)[i] = IF i < k THEN q[i] ELSE q[i + 1]
<1>. DEFINE n == Len(q) - 1
<1>1. n \in Nat /\ \A i \in 1 .. n : i \in 1 .. Len(q) /\ i + 1 \in 1 .. Len(q)
  OBVIOUS
<1>2. \A i \in 1 .. n : (IF i < k THEN q[i] ELSE q[i + 1]) \in D
  BY <1>1
<1>3. Gone(q, k) \in [1 .. n -> D]
  BY <1>2 DEF Gone
<1> QED BY <1>1, <1>3 DEF Gone

\* The places in a list that was taken from.
LEMMA GoneAt ==
  ASSUME NEW q \in Seq(Cells), NEW k \in 1 .. Len(q)
  PROVE  /\ \A i \in 1 .. k - 1 : At(Gone(q, k), i) = At(q, i)
         /\ \A i \in k .. Len(q) : At(Gone(q, k), i) = At(q, i + 1)
<1>. DEFINE r == Gone(q, k)
            n == Len(q) - 1
<1>1. /\ r \in Seq(Cells) /\ Len(r) = n /\ n \in Nat /\ Len(q) = n + 1
      /\ \A i \in 1 .. n : r[i] = IF i < k THEN q[i] ELSE q[i + 1]
  BY GoneIs
<1> HIDE DEF r, n
<1>2. \A i \in 1 .. k - 1 : At(r, i) = At(q, i)
  BY <1>1 DEF At
<1>3. \A i \in k .. Len(q) : At(r, i) = At(q, i + 1)
  BY <1>1 DEF At
<1> QED BY <1>2, <1>3 DEF r

\* The cells of a list that was taken from.
LEMMA RangeGone ==
  ASSUME NEW q \in Seq(Cells), Distinct(q), NEW k \in 1 .. Len(q)
  PROVE  Range(Gone(q, k)) = Range(q) \ {q[k]}
<1>. DEFINE r == Gone(q, k)
            n == Len(q) - 1
<1>1. q \in Seq(Cells) /\ n \in Nat /\ k \in Nat /\ Len(q) = n + 1 /\ k <= n + 1 /\ k >= 1
  OBVIOUS
<1>2. /\ r \in Seq(Cells) /\ Len(r) = n
      /\ \A i \in 1 .. n : r[i] = IF i < k THEN q[i] ELSE q[i + 1]
  BY <1>1, GoneIs
<1> HIDE DEF r, n
<1>3. Range(r) = Range(q) \ {q[k]}
  <2>1. ASSUME NEW i \in 1 .. n PROVE r[i] \in Range(q) \ {q[k]}
    <3>. DEFINE j == IF i < k THEN i ELSE i + 1
    <3>1. j \in 1 .. Len(q) /\ j # k /\ r[i] = q[j]
      BY <1>1, <1>2
    <3> HIDE DEF j
    <3>2. q[j] \in Range(q)
      BY <1>1, <3>1, RangeIdx
    <3> QED BY <1>1, <3>1, <3>2 DEF Distinct
  <2>2. ASSUME NEW j \in 1 .. Len(q), j # k PROVE \E i \in 1 .. n : r[i] = q[j]
    <3>1. CASE j < k
      <4>1. j \in 1 .. n /\ r[j] = q[j]
        BY <1>1, <1>2, <3>1
      <4> QED BY <4>1
    <3>2. CASE j > k
      <4>1. j - 1 \in 1 .. n /\ ~(j - 1 < k) /\ (j - 1) + 1 = j
        BY <1>1, <3>2
      <4>2. r[j - 1] = q[(j - 1) + 1]
        BY <1>2, <4>1
      <4> QED BY <4>1, <4>2
    <3> QED BY <1>1, <2>2, <3>1, <3>2
  <2>3. ASSUME NEW x PROVE x \in Range(r) <=> x \in Range(q) \ {q[k]}
    <3>1. x \in Range(r) <=> \E i \in 1 .. n : r[i] = x
      BY <1>2, RangeIdx
    <3>2. x \in Range(q) <=> \E i \in 1 .. Len(q) : q[i] = x
      BY <1>1, RangeIdx
    <3>3. ASSUME x \in Range(q) \ {q[k]} PROVE x \in Range(r)
      <4>1. PICK j \in 1 .. Len(q) : q[j] = x
        BY <3>2, <3>3
      <4>2. j # k
        BY <3>3, <4>1
      <4> QED BY <2>2, <3>1, <4>1, <4>2
    <3> QED BY <2>1, <3>1, <3>3
  <2> QED BY <2>3
<1> QED BY <1>3 DEF r

\* An entry is unlinked.
Passed(h, g, q, k) ==
  /\ k \in 1 .. Len(q)
  /\ \A i \in 1 .. Len(q) : i # k /\ i # k - 1 => g[q[i]].pNext = h[q[i]].pNext
  /\ k > 1 => g[q[k - 1]].pNext = At(q, k + 1)

\* The chain goes on without its k-th cell.
LEMMA LinkedGone ==
  ASSUME NEW h, NEW g, NEW q, Linked(h, q), NEW k, Passed(h, g, q, k)
  PROVE  /\ Gone(q, k) \in Seq(Cells) /\ Len(Gone(q, k)) = Len(q) - 1
         /\ Linked(g, Gone(q, k))
<1>. DEFINE r == Gone(q, k)
            n == Len(q) - 1
<1>1. q \in Seq(Cells) /\ Distinct(q) /\ n \in Nat /\ k \in Nat /\ Len(q) = n + 1
      /\ k <= n + 1 /\ k >= 1 /\ k \in 1 .. Len(q)
  BY DEF Linked, Passed
<1>2. /\ r \in Seq(Cells) /\ Len(r) = n
      /\ \A i \in 1 .. n : r[i] = IF i < k THEN q[i] ELSE q[i + 1]
  BY <1>1, GoneIs
<1> HIDE DEF r, n
<1>3. Distinct(r)
  BY <1>1, <1>2 DEF Distinct
<1>4. \A i \in 1 .. k - 1 : At(r, i) = At(q, i)
  BY <1>1, <1>2 DEF At
<1>5. \A i \in k .. Len(q) : At(r, i) = At(q, i + 1)
  BY <1>1, <1>2 DEF At
<1>6. ASSUME NEW i \in 1 .. Len(r) PROVE g[r[i]].pNext = At(r, i + 1)
  <2>1. CASE i < k - 1
    <3>1. i \in 1 .. Len(q) /\ r[i] = q[i] /\ i + 1 \in 1 .. k - 1
      BY <1>1, <1>2, <2>1
    <3>2. g[q[i]].pNext = At(q, i + 1)
      <4>1. h[q[i]].pNext = At(q, i + 1)
        BY <3>1 DEF Linked
      <4> QED BY <1>1, <2>1, <3>1, <4>1 DEF Passed
    <3> QED BY <1>4, <3>1, <3>2
  <2>2. CASE i = k - 1
    <3>1. r[i] = q[k - 1] /\ i + 1 = k /\ k > 1 /\ k \in k .. Len(q)
      BY <1>1, <1>2, <2>2
    <3> QED BY <1>5, <3>1 DEF Passed
  <2>3. CASE i >= k
    <3>1. i + 1 \in 1 .. Len(q) /\ r[i] = q[i + 1] /\ i + 1 \in k .. Len(q) /\ i + 1 # k /\ i + 1 # k - 1
      BY <1>1, <1>2, <2>3
    <3>2. g[q[i + 1]].pNext = At(q, (i + 1) + 1)
      BY <3>1 DEF Linked, Passed
    <3> QED BY <1>5, <3>1, <3>2
  <2> QED BY <1>1, <1>2, <2>1, <2>2, <2>3
<1> QED BY <1>1, <1>2, <1>3, <1>4, <1>5, <1>6 DEF Linked, r, n
-----------------------------------------------------------------------------
\* The cells of the list, and their objects.
LEMMA ListFacts ==
  ASSUME NEW q, IsList(q)
  PROVE  /\ q \in Seq(Cells) /\ Len(q) \in Nat /\ Range(q) = live /\ Distinct(q)
         /\ Linked(heap, q)
         /\ NULL \notin Cells /\ NULL \notin Users /\ NULL \notin alive
         /\ \A i \in 1 .. Len(q) : /\ q[i] \in Cells /\ q[i] \in live /\ q[i] # NULL
                                   /\ At(q, i) = q[i]
                                   /\ heap[q[i]].pNext = At(q, i + 1)
                                   /\ heap[q[i]].pUsr \in alive
         /\ \A i, j \in 1 .. Len(q) : heap[q[i]].pUsr = heap[q[j]].pUsr => i = j
         /\ \A k \in Int : At(q, k) \in live \union {NULL}
         /\ At(q, Len(q) + 1) = NULL /\ At(q, 0) = NULL
<1>1. /\ q \in Seq(Cells) /\ Range(q) = live /\ Linked(heap, q) /\ Distinct(q)
      /\ TypeOK /\ Objects
  BY DEF IsList, Shape, Linked
<1>2. NULL \notin Cells /\ NULL \notin Users /\ NULL \notin alive
  BY <1>1, ListAssumption DEF TypeOK
<1>3. Len(q) \in Nat /\ \A k \in Int : At(q, k) \in live \union {NULL}
  BY <1>1, AtIs
<1>4. \A i \in 1 .. Len(q) : q[i] \in Cells /\ q[i] \in live /\ q[i] # NULL /\ At(q, i) = q[i]
  BY <1>1, RangeIdx, AtIs
<1>5. At(q, Len(q) + 1) = NULL /\ At(q, 0) = NULL
  BY <1>3 DEF At
<1>6. \A i \in 1 .. Len(q) : heap[q[i]].pNext = At(q, i + 1) /\ heap[q[i]].pUsr \in alive
  BY <1>1, <1>4 DEF Linked, Objects
<1>7. \A i, j \in 1 .. Len(q) : heap[q[i]].pUsr = heap[q[j]].pUsr => i = j
  BY <1>1, <1>4 DEF Objects, Distinct
<1> QED BY <1>1, <1>2, <1>3, <1>4, <1>5, <1>6, <1>7

\* The places of the cursors.
LEMMA CursorFacts ==
  ASSUME NEW q, IsList(q)
  PROVE  /\ {pEntry, pThis, pPrev} \subseteq live \union {NULL}
         /\ ~Ending => {pFirst, pLast} \subseteq live \union {NULL}
         /\ ~Ending => pFirst = At(q, 1) /\ pLast = At(q, Len(q))
         /\ Ending => pEntry = At(q, 1)
<1>1. /\ Len(q) \in Nat /\ \A k \in Int : At(q, k) \in live \union {NULL}
      /\ Shape(q) /\ Cursor(q) /\ Phases
  BY ListFacts DEF IsList
<1>2. /\ ~Ending => pFirst = At(q, 1) /\ pLast = At(q, Len(q))
      /\ Ending => pEntry = At(q, 1)
  BY <1>1 DEF Shape
<1>3. pEntry \in live \union {NULL}
  <2>1. ASSUME ~Ending PROVE \E k \in 1 .. Len(q) + 1 : pEntry = At(q, k)
    BY <1>1, <2>1 DEF Cursor
  <2> QED BY <1>1, <1>2, <2>1
<1>4. {pThis, pPrev} \subseteq live \union {NULL}
  <2>1. CASE pc = "search"
    <3>1. PICK k \in 1 .. Len(q) + 1 : pThis = At(q, k) /\ pPrev = At(q, k - 1)
      BY <1>1, <2>1 DEF Cursor
    <3> QED BY <1>1, <3>1
  <2>2. CASE pc # "search"
    BY <1>1, <2>2 DEF Phases
  <2> QED BY <2>1, <2>2
<1> QED BY <1>1, <1>2, <1>3, <1>4

\* A root is empty at first.
LEMMA InitList == ASSUME Init PROVE IsList(<<>>)
<1>1. /\ pc = "idle" /\ pEntry = NULL /\ pThis = NULL /\ pPrev = NULL /\ pUsr = NULL
      /\ live = {} /\ pFirst = NULL /\ pLast = NULL /\ remote = {} /\ pProf = NULL
      /\ alive = {} /\ aborted = {} /\ kind \in Kinds
      /\ heap = [c \in Cells |-> Blank]
  BY DEF Init
<1>2. TypeOK
  BY <1>1 DEF TypeOK, Entry, Blank
<1>3. Objects /\ Phases
  BY <1>1 DEF Objects, Phases, Ending
<1>4. <<>> \in Seq(Cells) /\ Len(<<>>) = 0 /\ Range(<<>>) = {} /\ \A k \in Int : At(<<>>, k) = NULL
  BY RangeEmpty DEF At
<1>5. Shape(<<>>)
  BY <1>1, <1>4, DistinctEmpty DEF Shape, Linked, Ending
<1>6. Cursor(<<>>)
  BY <1>1, <1>4 DEF Cursor
<1> QED BY <1>2, <1>3, <1>4, <1>5, <1>6 DEF IsList

\* A step of a cursor leaves the list alone.
LEMMA ListKept ==
  ASSUME NEW q, IsList(q), UNCHANGED <<kind, rootVars>>,
         alive \subseteq alive', aborted' \in SUBSET Users, alive' \in SUBSET Users,
         pc' \in {"idle", "search", "walk", "abort", "match", "destroy"},
         Ending => pc' = pc /\ pEntry' = pEntry,
         pc' = "destroy" => pEntry' = At(q, 1),
         {pThis', pPrev', pEntry'} \subseteq live \union {NULL},
         {pUsr', pProf'} \subseteq Users \union {NULL}, remote' \in SUBSET Users,
         Phases', Cursor(q)'
  PROVE  IsList(q)'
<1>1. UNCHANGED <<kind, heap, live, pFirst, pLast>> /\ TypeOK /\ Objects /\ Shape(q)
  BY DEF rootVars, IsList
<1>2. live \subseteq Cells
  BY <1>1 DEF TypeOK
<1>3. TypeOK'
  BY <1>1, <1>2 DEF TypeOK
<1>4. Objects'
  BY <1>1 DEF Objects
<1>5. Shape(q)'
  BY <1>1 DEF Shape, Ending
<1> QED BY <1>3, <1>4, <1>5 DEF IsList
-----------------------------------------------------------------------------
\* The channel of a client that could not be listed.
LEMMA AddFailsKeeps == ASSUME NEW q, IsList(q), NEW u \in Users, AddFails(u) PROVE IsList(q)'
<1>1. /\ pc = "idle" /\ alive' = alive \union {u} /\ TypeOK /\ Phases /\ Cursor(q)
      /\ UNCHANGED <<kind, rootVars, pc, pEntry, pThis, pPrev, pUsr, remote, pProf, aborted>>
  BY DEF AddFails, IsList, searchVars, matchVars
<1>2. UNCHANGED <<heap, live>>
  BY <1>1 DEF rootVars
<1>3. Phases' /\ Cursor(q)'
  BY <1>1, <1>2 DEF Phases, Cursor, Ending
<1> QED BY <1>1, <1>3, ListKept, CursorFacts DEF TypeOK, Ending

\* A frame that was taken from its queue is destroyed.
LEMMA FramDestroyKeeps ==
  ASSUME NEW q, IsList(q), NEW u \in Users, FramDestroy(u) PROVE IsList(q)'
<1>1. /\ pc = "idle" /\ alive' = alive \ {u} /\ \A c \in live : heap[c].pUsr # u
      /\ TypeOK /\ Objects /\ Phases /\ Shape(q) /\ Cursor(q) /\ q \in Seq(Cells)
      /\ UNCHANGED <<kind, rootVars, pc, pEntry, pThis, pPrev, pUsr, remote, pProf, aborted>>
  BY DEF FramDestroy, IsList, searchVars, matchVars
<1>2. UNCHANGED <<heap, live, pFirst, pLast>>
  BY <1>1 DEF rootVars
<1>3. TypeOK'
  BY <1>1, <1>2 DEF TypeOK
<1>4. Objects'
  BY <1>1, <1>2 DEF Objects
<1>5. Phases' /\ Cursor(q)' /\ Shape(q)'
  BY <1>1, <1>2 DEF Phases, Cursor, Shape, Ending
<1> QED BY <1>1, <1>3, <1>4, <1>5 DEF IsList

\* A search begins.
LEMMA ChanDestroyKeeps ==
  ASSUME NEW q, IsList(q), NEW u \in Users, ChanDestroy(u) PROVE IsList(q)'
<1>1. /\ pc = "idle" /\ kind = "channels" /\ u \in alive
      /\ pUsr' = u /\ pThis' = pFirst /\ pPrev' = NULL /\ pc' = "search"
      /\ TypeOK /\ Phases
      /\ UNCHANGED <<kind, rootVars, pEntry, alive, aborted, remote, pProf>>
  BY DEF ChanDestroy, StartSearch, IsList, matchVars
<1>2. pFirst = At(q, 1) /\ At(q, 0) = NULL /\ At(q, Len(q) + 1) = NULL /\ Len(q) \in Nat
  BY <1>1, CursorFacts, ListFacts DEF Ending
<1>3. pEntry' = NULL /\ UNCHANGED <<heap, live>>
  BY <1>1 DEF Phases, rootVars
<1>4. Phases'
  BY <1>1, <1>3 DEF Phases, Ending
<1>5. Cursor(q)'
  <2>1. Len(q) + 1 \in 1 .. Len(q) + 1 /\ 1 \in 1 .. Len(q) + 1 /\ 1 - 1 = 0
    BY <1>2
  <2>2. pThis' = At(q, 1) /\ pPrev' = At(q, 1 - 1) /\ pEntry' = At(q, Len(q) + 1)
    BY <1>1, <1>2, <1>3, <2>1
  <2>3. \E k \in 1 .. Len(q) + 1 :
          /\ pThis' = At(q, k) /\ pPrev' = At(q, k - 1)
          /\ \A i \in 1 .. k - 1 : heap'[q[i]].pUsr # pUsr'
    BY <2>1, <2>2
  <2> QED BY <1>1, <2>1, <2>2, <2>3 DEF Cursor, Ending
<1>6. pThis' \in live \union {NULL}
  BY <1>1, CursorFacts DEF Ending
<1> QED BY <1>1, <1>3, <1>4, <1>5, <1>6, ListKept, CursorFacts DEF TypeOK, Ending

\* The search goes on to the next entry.
LEMMA SearchNextKeeps == ASSUME NEW q, IsList(q), SearchNext PROVE IsList(q)'
<1>1. /\ pc = "search" /\ pThis # NULL /\ heap[pThis].pUsr # pUsr
      /\ pPrev' = pThis /\ pThis' = heap[pThis].pNext
      /\ TypeOK /\ Phases /\ Cursor(q)
      /\ UNCHANGED <<kind, rootVars, pc, pEntry, pUsr, alive, aborted, remote, pProf>>
  BY DEF SearchNext, IsList, matchVars
<1>2. UNCHANGED <<heap, live>>
  BY <1>1 DEF rootVars
<1>3. PICK k \in 1 .. Len(q) + 1 : /\ pThis = At(q, k) /\ pPrev = At(q, k - 1)
                                   /\ \A i \in 1 .. k - 1 : heap[q[i]].pUsr # pUsr
  BY <1>1 DEF Cursor
<1>4. /\ k \in 1 .. Len(q) /\ pThis = q[k] /\ Len(q) \in Nat
      /\ pThis' = At(q, k + 1) /\ pPrev' = At(q, k)
  <2>1. k \in 1 .. Len(q) /\ Len(q) \in Nat
    BY <1>1, <1>3, ListFacts
  <2> QED BY <1>1, <1>3, <2>1, ListFacts
<1>5. Phases'
  BY <1>1, <1>2 DEF Phases, Ending
<1>6. Cursor(q)'
  <2>1. k + 1 \in 1 .. Len(q) + 1 /\ (k + 1) - 1 = k
    BY <1>4
  <2>2. \A i \in 1 .. (k + 1) - 1 : heap[q[i]].pUsr # pUsr
    BY <1>1, <1>3, <1>4
  <2>3. \E j \in 1 .. Len(q) + 1 :
          /\ pThis' = At(q, j) /\ pPrev' = At(q, j - 1)
          /\ \A i \in 1 .. j - 1 : heap'[q[i]].pUsr # pUsr'
    BY <1>1, <1>2, <1>4, <2>1, <2>2
  <2> QED BY <1>1, <1>2, <2>3 DEF Cursor, Ending
<1>7. {pThis', pPrev'} \subseteq live \union {NULL}
  BY <1>4, ListFacts
<1> QED BY <1>1, <1>5, <1>6, <1>7, ListKept, CursorFacts DEF TypeOK, Ending
-----------------------------------------------------------------------------
\* The server loop begins with the first session.
LEMMA StartWalkKeeps == ASSUME NEW q, IsList(q), StartWalk PROVE IsList(q)'
<1>1. /\ pc = "idle" /\ kind = "sessions" /\ pEntry' = pFirst /\ pc' = "walk"
      /\ TypeOK /\ Phases
      /\ UNCHANGED <<kind, rootVars, pThis, pPrev, pUsr, alive, aborted, remote, pProf>>
  BY DEF StartWalk, IsList, matchVars, searchVars
<1>2. pFirst = At(q, 1) /\ Len(q) \in Nat /\ pFirst \in live \union {NULL}
  BY <1>1, CursorFacts, ListFacts DEF Ending
<1>3. Phases'
  BY <1>1 DEF Phases, Ending
<1>4. Cursor(q)'
  <2>1. 1 \in 1 .. Len(q) + 1 /\ 1 - 1 = 0
    BY <1>2
  <2> QED BY <1>1, <1>2, <2>1 DEF Cursor, Ending
<1> QED BY <1>1, <1>2, <1>3, <1>4, ListKept, CursorFacts DEF TypeOK, Ending

\* The cursor of a walk, and where it goes next.
LEMMA EntryIs ==
  ASSUME NEW q, IsList(q), pEntry # NULL, ~Ending
  PROVE  \E k \in 1 .. Len(q) :
            /\ pEntry = q[k] /\ heap[pEntry].pNext = At(q, k + 1)
            /\ k + 1 \in 1 .. Len(q) + 1 /\ (k + 1) - 1 = k
            /\ \A i \in 1 .. k - 1 : /\ pc = "match" => heap[q[i]].pUsr \notin remote
                                     /\ pc = "abort" => heap[q[i]].pUsr \in aborted
<1>1. PICK k \in 1 .. Len(q) + 1 :
        /\ pEntry = At(q, k)
        /\ \A i \in 1 .. k - 1 : /\ pc = "match" => heap[q[i]].pUsr \notin remote
                                 /\ pc = "abort" => heap[q[i]].pUsr \in aborted
  BY DEF IsList, Cursor
<1>2. k \in 1 .. Len(q) /\ Len(q) \in Nat
  BY <1>1, ListFacts
<1>3. pEntry = q[k] /\ heap[pEntry].pNext = At(q, k + 1)
  BY <1>1, <1>2, ListFacts
<1> QED BY <1>1, <1>2, <1>3

\* The loop moves on.
LEMMA VisitKeeps == ASSUME NEW q, IsList(q), Visit PROVE IsList(q)'
<1>1. /\ pc = "walk" /\ pEntry # NULL /\ pEntry' = heap[pEntry].pNext
      /\ TypeOK /\ Phases
      /\ UNCHANGED <<kind, rootVars, pc, pThis, pPrev, pUsr, alive, aborted, remote, pProf>>
  BY DEF Visit, IsList, matchVars, searchVars
<1>2. PICK k \in 1 .. Len(q) :
            /\ pEntry = q[k] /\ heap[pEntry].pNext = At(q, k + 1)
            /\ k + 1 \in 1 .. Len(q) + 1
  BY <1>1, EntryIs DEF Ending
<1>3. Phases'
  BY <1>1 DEF Phases, Ending
<1>4. Cursor(q)'
  BY <1>1, <1>2 DEF Cursor, Ending
<1>5. pEntry' \in live \union {NULL}
  BY <1>1, <1>2, ListFacts
<1> QED BY <1>1, <1>3, <1>4, <1>5, ListKept, CursorFacts DEF TypeOK, Ending

\* The loop has moved on when the session is searched for, to be taken out.
LEMMA VisitAndRemoveKeeps == ASSUME NEW q, IsList(q), VisitAndRemove PROVE IsList(q)'
<1>1. /\ pc = "walk" /\ pEntry # NULL /\ pEntry' = heap[pEntry].pNext
      /\ pUsr' = heap[pEntry].pUsr /\ pThis' = pFirst /\ pPrev' = NULL /\ pc' = "search"
      /\ TypeOK /\ Phases
      /\ UNCHANGED <<kind, rootVars, alive, aborted, remote, pProf>>
  BY DEF VisitAndRemove, StartSearch, IsList, matchVars
<1>2. PICK k \in 1 .. Len(q) :
            /\ pEntry = q[k] /\ heap[pEntry].pNext = At(q, k + 1)
            /\ k + 1 \in 1 .. Len(q) + 1
  BY <1>1, EntryIs DEF Ending
<1>3. /\ pFirst = At(q, 1) /\ At(q, 0) = NULL /\ Len(q) \in Nat /\ heap[q[k]].pUsr \in alive
      /\ pFirst \in live \union {NULL}
  BY <1>1, CursorFacts, ListFacts DEF Ending
<1>4. UNCHANGED <<heap, live>> /\ kind = "sessions"
  BY <1>1 DEF rootVars, Phases
<1>5. Phases'
  BY <1>1, <1>2, <1>3, <1>4 DEF Phases, Ending
<1>6. Cursor(q)'
  <2>1. 1 \in 1 .. Len(q) + 1 /\ 1 - 1 = 0
    BY <1>3
  <2>2. \E j \in 1 .. Len(q) + 1 :
          /\ pThis' = At(q, j) /\ pPrev' = At(q, j - 1)
          /\ \A i \in 1 .. j - 1 : heap'[q[i]].pUsr # pUsr'
    BY <1>1, <1>3, <2>1
  <2> QED BY <1>1, <1>2, <1>4, <2>2 DEF Cursor, Ending
<1>7. pEntry' \in live \union {NULL} /\ pUsr' \in Users
  BY <1>1, <1>2, <1>3, ListFacts DEF TypeOK
<1> QED BY <1>1, <1>3, <1>5, <1>6, <1>7, ListKept DEF TypeOK, Ending

\* The loop has come to the end of the list.
LEMMA WalkEndsKeeps == ASSUME NEW q, IsList(q), WalkEnds PROVE IsList(q)'
<1>1. /\ pc = "walk" /\ pEntry = NULL /\ pc' = "idle"
      /\ TypeOK /\ Phases
      /\ UNCHANGED <<kind, rootVars, pEntry, pThis, pPrev, pUsr, alive, aborted, remote, pProf>>
  BY DEF WalkEnds, IsList, matchVars, searchVars
<1>2. Phases'
  BY <1>1 DEF Phases, Ending
<1>3. Cursor(q)'
  BY <1>1 DEF IsList, Cursor, Ending
<1> QED BY <1>1, <1>2, <1>3, ListKept, CursorFacts DEF TypeOK, Ending
-----------------------------------------------------------------------------
\* The channels are marked from the first on.
LEMMA StartAbortKeeps == ASSUME NEW q, IsList(q), StartAbort PROVE IsList(q)'
<1>1. /\ pc = "idle" /\ kind = "channels" /\ pEntry' = pFirst /\ pc' = "abort"
      /\ TypeOK /\ Phases
      /\ UNCHANGED <<kind, rootVars, pThis, pPrev, pUsr, alive, aborted, remote, pProf>>
  BY DEF StartAbort, IsList, matchVars, searchVars
<1>2. pFirst = At(q, 1) /\ Len(q) \in Nat /\ pFirst \in live \union {NULL}
  BY <1>1, CursorFacts, ListFacts DEF Ending
<1>3. Phases'
  BY <1>1 DEF Phases, Ending
<1>4. Cursor(q)'
  <2>1. 1 \in 1 .. Len(q) + 1 /\ 1 - 1 = 0
    BY <1>2
  <2> QED BY <1>1, <1>2, <2>1 DEF Cursor, Ending
<1> QED BY <1>1, <1>2, <1>3, <1>4, ListKept, CursorFacts DEF TypeOK, Ending

\* All channels before the cursor are marked.
LEMMA MarkChannelKeeps == ASSUME NEW q, IsList(q), MarkChannel PROVE IsList(q)'
<1>1. /\ pc = "abort" /\ pEntry # NULL /\ pEntry' = heap[pEntry].pNext
      /\ aborted' = aborted \union {heap[pEntry].pUsr}
      /\ TypeOK /\ Phases
      /\ UNCHANGED <<kind, rootVars, pc, pThis, pPrev, pUsr, alive, remote, pProf>>
  BY DEF MarkChannel, IsList, matchVars, searchVars
<1>2. PICK k \in 1 .. Len(q) :
            /\ pEntry = q[k] /\ heap[pEntry].pNext = At(q, k + 1)
            /\ k + 1 \in 1 .. Len(q) + 1 /\ (k + 1) - 1 = k
            /\ \A i \in 1 .. k - 1 : /\ pc = "match" => heap[q[i]].pUsr \notin remote
                                     /\ pc = "abort" => heap[q[i]].pUsr \in aborted
  BY <1>1, EntryIs DEF Ending
<1>3. UNCHANGED heap /\ heap[pEntry].pUsr \in Users
  <2>1. heap[q[k]].pUsr \in alive /\ alive \subseteq Users
    BY <1>1, <1>2, ListFacts DEF TypeOK
  <2> QED BY <1>1, <1>2, <2>1 DEF rootVars
<1>4. Phases'
  BY <1>1 DEF Phases, Ending
<1>5. Cursor(q)'
  <2>1. \A i \in 1 .. k : heap[q[i]].pUsr \in aborted'
    <3>. TAKE i \in 1 .. k
    <3>1. CASE i = k
      BY <1>1, <1>2, <3>1
    <3>2. CASE i # k
      BY <1>1, <1>2, <3>2
    <3> QED BY <3>1, <3>2
  <2>2. \E j \in 1 .. Len(q) + 1 :
          /\ pEntry' = At(q, j)
          /\ \A i \in 1 .. j - 1 : /\ pc' = "match" => heap'[q[i]].pUsr \notin remote'
                                   /\ pc' = "abort" => heap'[q[i]].pUsr \in aborted'
    BY <1>1, <1>2, <1>3, <2>1
  <2> QED BY <1>1, <2>2 DEF Cursor, Ending
<1>6. pEntry' \in live \union {NULL} /\ aborted' \subseteq Users
  BY <1>1, <1>2, <1>3, ListFacts DEF TypeOK
<1> QED BY <1>1, <1>4, <1>5, <1>6, ListKept, CursorFacts DEF TypeOK, Ending

\* A session marks its channels before it destroys the list of them.
LEMMA StartDestroyKeeps == ASSUME NEW q, IsList(q), StartDestroy PROVE IsList(q)'
<1>1. /\ (pc = "idle" /\ kind # "channels") \/ (pc = "abort" /\ pEntry = NULL)
      /\ pEntry' = pFirst /\ pc' = "destroy"
      /\ TypeOK /\ Phases /\ Cursor(q)
      /\ UNCHANGED <<kind, rootVars, pThis, pPrev, pUsr, alive, aborted, remote, pProf>>
  BY DEF StartDestroy, IsList, matchVars, searchVars
<1>2. /\ pFirst = At(q, 1) /\ Len(q) \in Nat /\ pFirst \in live \union {NULL}
      /\ Range(q) = live /\ q \in Seq(Cells) /\ ~Ending
  BY <1>1, CursorFacts, ListFacts DEF Ending
<1>3. UNCHANGED <<heap, live>>
  BY <1>1 DEF rootVars
<1>4. kind = "channels" => \A c \in live : heap[c].pUsr \in aborted
  <2>. SUFFICES ASSUME pc = "abort", pEntry = NULL, NEW c \in live
                PROVE  heap[c].pUsr \in aborted
    BY <1>1
  <2>1. PICK k \in 1 .. Len(q) + 1 :
          pEntry = At(q, k) /\ \A i \in 1 .. k - 1 : heap[q[i]].pUsr \in aborted
    BY <1>1, <1>2 DEF Cursor
  <2>2. k = Len(q) + 1
    BY <1>2, <2>1, ListFacts
  <2>3. PICK i \in 1 .. Len(q) : q[i] = c
    BY <1>2, RangeIdx
  <2> QED BY <1>2, <2>1, <2>2, <2>3
<1>5. Phases'
  BY <1>1, <1>3, <1>4 DEF Phases, Ending
<1>6. Cursor(q)'
  BY <1>1 DEF Cursor, Ending
<1> QED BY <1>1, <1>2, <1>5, <1>6, ListKept, CursorFacts DEF TypeOK, Ending
-----------------------------------------------------------------------------
\* The search for a profile begins with the preferred one.
LEMMA FindMatchKeeps ==
  ASSUME NEW q, IsList(q), NEW R \in (SUBSET Users) \ {{}}, FindMatch(R) PROVE IsList(q)'
<1>1. /\ pc = "idle" /\ kind = "profiles" /\ pEntry' = pFirst /\ pc' = "match"
      /\ remote' = R /\ pProf' = NULL
      /\ TypeOK /\ Phases
      /\ UNCHANGED <<kind, rootVars, pThis, pPrev, pUsr, alive, aborted>>
  BY DEF FindMatch, IsList, searchVars
<1>2. pFirst = At(q, 1) /\ Len(q) \in Nat /\ pFirst \in live \union {NULL}
  BY <1>1, CursorFacts, ListFacts DEF Ending
<1>3. Phases'
  BY <1>1 DEF Phases, Ending
<1>4. Cursor(q)'
  <2>1. 1 \in 1 .. Len(q) + 1 /\ 1 - 1 = 0
    BY <1>2
  <2> QED BY <1>1, <1>2, <2>1 DEF Cursor, Ending
<1> QED BY <1>1, <1>2, <1>3, <1>4, ListKept, CursorFacts DEF TypeOK, Ending

\* All profiles before the cursor are unknown to the peer.
LEMMA MatchNextKeeps == ASSUME NEW q, IsList(q), MatchNext PROVE IsList(q)'
<1>1. /\ pc = "match" /\ pEntry # NULL /\ pEntry' = heap[pEntry].pNext
      /\ heap[pEntry].pUsr \notin remote
      /\ TypeOK /\ Phases
      /\ UNCHANGED <<kind, rootVars, pc, pThis, pPrev, pUsr, alive, aborted, remote, pProf>>
  BY DEF MatchNext, IsList, matchVars, searchVars
<1>2. PICK k \in 1 .. Len(q) :
            /\ pEntry = q[k] /\ heap[pEntry].pNext = At(q, k + 1)
            /\ k + 1 \in 1 .. Len(q) + 1 /\ (k + 1) - 1 = k
            /\ \A i \in 1 .. k - 1 : /\ pc = "match" => heap[q[i]].pUsr \notin remote
                                     /\ pc = "abort" => heap[q[i]].pUsr \in aborted
  BY <1>1, EntryIs DEF Ending
<1>3. UNCHANGED heap
  BY <1>1 DEF rootVars
<1>4. Phases'
  BY <1>1 DEF Phases, Ending
<1>5. Cursor(q)'
  <2>1. \A i \in 1 .. k : heap[q[i]].pUsr \notin remote
    <3>. TAKE i \in 1 .. k
    <3>1. CASE i = k
      BY <1>1, <1>2, <3>1
    <3>2. CASE i # k
      BY <1>1, <1>2, <3>2
    <3> QED BY <3>1, <3>2
  <2>2. \E j \in 1 .. Len(q) + 1 :
          /\ pEntry' = At(q, j)
          /\ \A i \in 1 .. j - 1 : /\ pc' = "match" => heap'[q[i]].pUsr \notin remote'
                                   /\ pc' = "abort" => heap'[q[i]].pUsr \in aborted'
    BY <1>1, <1>2, <1>3, <2>1
  <2> QED BY <1>1, <2>2 DEF Cursor, Ending
<1>6. pEntry' \in live \union {NULL}
  BY <1>1, <1>2, ListFacts
<1> QED BY <1>1, <1>4, <1>5, <1>6, ListKept, CursorFacts DEF TypeOK, Ending

\* The search for a profile ends.
LEMMA MatchEndKeeps == ASSUME NEW q, IsList(q), MatchEnd PROVE IsList(q)'
<1>1. /\ pc = "match" /\ pc' = "idle" /\ pEntry' = NULL /\ remote' = {}
      /\ (pProf' = NULL) \/ (pProf' \in remote)
      /\ TypeOK /\ Phases
      /\ UNCHANGED <<kind, rootVars, pThis, pPrev, pUsr, alive, aborted>>
  BY DEF MatchEnd, IsList, searchVars
<1>2. At(q, Len(q) + 1) = NULL /\ Len(q) \in Nat
  BY ListFacts
<1>3. Phases'
  BY <1>1 DEF Phases, Ending
<1>4. Cursor(q)'
  <2>1. Len(q) + 1 \in 1 .. Len(q) + 1
    BY <1>2
  <2> QED BY <1>1, <1>2, <2>1 DEF Cursor, Ending
<1> QED BY <1>1, <1>3, <1>4, ListKept, CursorFacts DEF TypeOK, Ending
-----------------------------------------------------------------------------
\* A list at rest.
LEMMA Resting ==
  ASSUME NEW r \in Seq(Cells), pc' = "idle", pEntry' = NULL PROVE Cursor(r)'
<1>1. Len(r) + 1 \in 1 .. Len(r) + 1 /\ At(r, Len(r) + 1) = NULL
  BY AtIs
<1> QED BY <1>1 DEF Cursor, Ending

\* The new entry is the last of the list.
LEMMA AddEntryKeeps ==
  ASSUME NEW q, IsList(q), NEW u \in Users, AddEntry(u)
  PROVE  \E c \in Cells \ live :
           /\ IsList(Append(q, c))' /\ heap'[c].pUsr = u
           /\ \A d \in live : heap'[d].pUsr = heap[d].pUsr
<1>1. PICK c \in Cells \ live :
        /\ heap' = Chained(c, u) /\ live' = live \union {c}
        /\ pFirst' = IF pLast = NULL THEN c ELSE pFirst
        /\ pLast' = c
  BY DEF AddEntry
<1>2. /\ pc = "idle" /\ u \notin alive /\ alive' = alive \union {u}
      /\ TypeOK /\ Objects /\ Phases
      /\ UNCHANGED <<kind, pc, pEntry, pThis, pPrev, pUsr, remote, pProf, aborted>>
  BY DEF AddEntry, IsList, searchVars, matchVars
<1>3. /\ q \in Seq(Cells) /\ Len(q) \in Nat /\ Range(q) = live /\ Linked(heap, q)
      /\ pFirst = At(q, 1) /\ pLast = At(q, Len(q)) /\ pLast \in live \union {NULL}
      /\ NULL \notin Cells /\ live \subseteq Cells
  BY <1>2, ListFacts, CursorFacts DEF Ending, TypeOK
<1>4. /\ heap' \in [Cells -> Entry] /\ heap'[c] = [pNext |-> NULL, pUsr |-> u]
      /\ \A d \in live : /\ heap'[d].pUsr = heap[d].pUsr
                         /\ d # pLast => heap'[d].pNext = heap[d].pNext
                         /\ d = pLast => heap'[d].pNext = c
  <2>1. heap \in [Cells -> Entry] /\ c \in Cells
    BY <1>2 DEF TypeOK
  <2>2. \A d \in Cells : heap[d] \in [pNext : Cells \union {NULL}, pUsr : Users \union {NULL}]
    BY <2>1 DEF Entry
  <2>3. \A d \in Cells : Chained(c, u)[d] \in Entry
    BY <2>2 DEF Entry, Chained
  <2>4. heap' \in [Cells -> Entry]
    BY <1>1, <2>3 DEF Chained
  <2>5. heap'[c] = [pNext |-> NULL, pUsr |-> u]
    BY <1>1, <2>1 DEF Chained
  <2>6. ASSUME NEW d \in live
        PROVE  /\ heap'[d].pUsr = heap[d].pUsr
               /\ d # pLast => heap'[d].pNext = heap[d].pNext
               /\ d = pLast => heap'[d].pNext = c
    BY <1>1, <1>3, <2>2 DEF Chained
  <2> QED BY <2>4, <2>5, <2>6
<1>. DEFINE r == Append(q, c)
<1>5. /\ r \in Seq(Cells) /\ Linked(heap', r) /\ Range(r) = Range(q) \union {c}
      /\ Len(r) = Len(q) + 1 /\ At(r, Len(q) + 1) = c
      /\ \A k \in 1 .. Len(q) : At(r, k) = At(q, k)
  <2>1. At(q, Len(q)) # NULL => heap'[At(q, Len(q))].pNext = c
    BY <1>3, <1>4
  <2>2. \A d \in Range(q) : d # At(q, Len(q)) => heap'[d].pNext = heap[d].pNext
    BY <1>3, <1>4
  <2>3. heap'[c].pNext = NULL /\ c \notin Range(q) /\ c \in Cells
    BY <1>3, <1>4
  <2>4. Hung(heap, heap', q, c)
    BY <2>1, <2>2, <2>3 DEF Hung
  <2>5. /\ Append(q, c) \in Seq(Cells) /\ Linked(heap', Append(q, c))
        /\ Range(Append(q, c)) = Range(q) \union {c}
        /\ Len(Append(q, c)) = Len(q) + 1 /\ At(Append(q, c), Len(q) + 1) = c
    BY <1>3, <2>4, LinkedAppend
  <2> QED BY <1>3, <2>3, <2>5, AppendAt
<1>6. pFirst' = At(r, 1)
  <2>1. CASE Len(q) = 0
    <3>1. pLast = NULL
      BY <1>3, <2>1, ListFacts
    <3> QED BY <1>1, <1>5, <2>1, <3>1
  <2>2. CASE Len(q) # 0
    <3>1. 1 \in 1 .. Len(q) /\ Len(q) \in 1 .. Len(q)
      BY <1>3, <2>2
    <3>2. pLast # NULL /\ At(r, 1) = At(q, 1)
      BY <1>3, <1>5, <3>1, ListFacts
    <3> QED BY <1>1, <1>3, <3>2
  <2> QED BY <2>1, <2>2
<1>7. TypeOK'
  <2>1. live' \subseteq Cells /\ {pFirst', pLast', pEntry', pThis', pPrev'} \subseteq Cells \union {NULL}
    BY <1>1, <1>2, <1>3, CursorFacts DEF TypeOK
  <2> QED BY <1>2, <1>4, <2>1 DEF TypeOK
<1>8. Objects'
  BY <1>1, <1>2, <1>4 DEF Objects
<1>9. Phases'
  BY <1>2 DEF Phases, Ending
<1>10. Shape(r)'
  <2>1. pLast' = At(r, Len(r)) /\ Range(r) = live' /\ pc' # "destroy"
    BY <1>1, <1>2, <1>3, <1>5
  <2> QED BY <1>5, <1>6, <2>1 DEF Shape, Ending
<1>11. Cursor(r)'
  <2>1. pc' = "idle" /\ pEntry' = NULL
    BY <1>2 DEF Phases
  <2> QED BY <1>5, <2>1, Resting
<1>12. IsList(r)'
  BY <1>5, <1>7, <1>8, <1>9, <1>10, <1>11 DEF IsList
<1> QED BY <1>4, <1>12
-----------------------------------------------------------------------------
\* What is left when an entry is unlinked and freed, with its object or not.
Left(q, k) ==
  /\ heap' \in [Cells -> Entry] /\ live' \in SUBSET Cells /\ alive' \in SUBSET Users
  /\ Objects' /\ live' = live \ {q[k]} /\ \A d \in live' : heap'[d].pUsr = heap[d].pUsr
  /\ Gone(q, k) \in Seq(Cells) /\ Len(Gone(q, k)) = Len(q) - 1
  /\ Linked(heap', Gone(q, k)) /\ Range(Gone(q, k)) = live'
  /\ \A i \in 1 .. k - 1 : At(Gone(q, k), i) = At(q, i)
  /\ \A i \in k .. Len(q) : At(Gone(q, k), i) = At(q, i + 1)

\* UnlinkElement and UnlinkFromList take the k-th entry out.
LEMMA Unlinked ==
  ASSUME NEW q, IsList(q), NEW k \in 1 .. Len(q),
         heap' = [(IF k = 1 THEN heap ELSE [heap EXCEPT ![q[k - 1]].pNext = At(q, k + 1)])
                    EXCEPT ![q[k]] = Blank],
         live' = live \ {q[k]}, alive' \in {alive, alive \ {heap[q[k]].pUsr}}
  PROVE  Left(q, k)
<1>1. /\ q \in Seq(Cells) /\ Len(q) \in Nat /\ Range(q) = live /\ Linked(heap, q) /\ Distinct(q)
      /\ NULL \notin Cells /\ live \subseteq Cells /\ alive \subseteq Users
      /\ heap \in [Cells -> Entry] /\ Objects
      /\ \A i \in 1 .. Len(q) : q[i] \in Cells /\ q[i] \in live
      /\ At(q, k + 1) \in Cells \union {NULL}
  <2>1. live \subseteq Cells /\ alive \subseteq Users /\ heap \in [Cells -> Entry] /\ Objects
    BY DEF IsList, TypeOK
  <2>2. k + 1 \in Int /\ \A i \in Int : At(q, i) \in live \union {NULL}
    BY ListFacts
  <2> QED BY <2>1, <2>2, ListFacts
<1>. DEFINE g == IF k = 1 THEN heap ELSE [heap EXCEPT ![q[k - 1]].pNext = At(q, k + 1)]
<1>2. /\ g \in [Cells -> Entry] /\ \A d \in Cells : g[d].pUsr = heap[d].pUsr
      /\ \A d \in Cells : (k = 1 \/ d # q[k - 1]) => g[d].pNext = heap[d].pNext
      /\ k > 1 => g[q[k - 1]].pNext = At(q, k + 1)
  <2>1. CASE k = 1
    BY <1>1, <2>1
  <2>2. CASE k # 1
    <3>1. q[k - 1] \in Cells
      BY <1>1, <2>2
    <3>2. \A d \in Cells : heap[d] \in [pNext : Cells \union {NULL}, pUsr : Users \union {NULL}]
      BY <1>1 DEF Entry
    <3>3. g = [heap EXCEPT ![q[k - 1]].pNext = At(q, k + 1)]
      BY <2>2
    <3> HIDE DEF g
    <3>4. \A d \in Cells : g[d] \in Entry
      BY <1>1, <3>1, <3>2, <3>3 DEF Entry
    <3>5. g \in [Cells -> Entry]
      BY <1>1, <3>3, <3>4
    <3>6. \A d \in Cells : /\ g[d].pUsr = heap[d].pUsr
                           /\ d # q[k - 1] => g[d].pNext = heap[d].pNext
                           /\ d = q[k - 1] => g[d].pNext = At(q, k + 1)
      BY <1>1, <3>1, <3>2, <3>3
    <3> QED BY <2>2, <3>1, <3>5, <3>6
  <2> QED BY <2>1, <2>2
<1>3. heap' = [g EXCEPT ![q[k]] = Blank]
  OBVIOUS
<1> HIDE DEF g
<1>4. Blank \in Entry
  BY DEF Blank, Entry
<1>5. heap' \in [Cells -> Entry] /\ \A d \in Cells : d # q[k] => heap'[d] = g[d]
  BY <1>1, <1>2, <1>3, <1>4
<1>6. live' \in SUBSET Cells /\ alive' \in SUBSET Users
  BY <1>1
<1>7. \A d \in live' : d \in live /\ d # q[k] /\ heap'[d].pUsr = heap[d].pUsr
  BY <1>1, <1>2, <1>5
<1>8. Objects'
  <2>1. \A d \in live : d # q[k] => heap[d].pUsr \in alive /\ heap[d].pUsr # heap[q[k]].pUsr
    BY <1>1 DEF Objects
  <2>2. \A d \in live' : heap'[d].pUsr \in alive'
    BY <1>7, <2>1
  <2>3. \A d, e \in live' : heap'[d].pUsr = heap'[e].pUsr => d = e
    BY <1>1, <1>7 DEF Objects
  <2> QED BY <2>2, <2>3 DEF Objects
<1>9. \A i \in 1 .. Len(q) : i # k /\ i # k - 1 => heap'[q[i]].pNext = heap[q[i]].pNext
  <2>. SUFFICES ASSUME NEW i \in 1 .. Len(q), i # k, i # k - 1
                PROVE  heap'[q[i]].pNext = heap[q[i]].pNext
    OBVIOUS
  <2>1. q[i] # q[k] /\ q[i] \in Cells
    BY <1>1 DEF Distinct
  <2>2. k = 1 \/ q[i] # q[k - 1]
    BY <1>1 DEF Distinct
  <2> QED BY <1>2, <1>5, <2>1, <2>2
<1>10. k > 1 => heap'[q[k - 1]].pNext = At(q, k + 1)
  <2>. SUFFICES ASSUME k > 1 PROVE heap'[q[k - 1]].pNext = At(q, k + 1)
    OBVIOUS
  <2>1. q[k - 1] \in Cells /\ q[k - 1] # q[k]
    BY <1>1 DEF Distinct
  <2> QED BY <1>2, <1>5, <2>1
<1>11. /\ Gone(q, k) \in Seq(Cells) /\ Len(Gone(q, k)) = Len(q) - 1
       /\ Linked(heap', Gone(q, k)) /\ Range(Gone(q, k)) = Range(q) \ {q[k]}
       /\ \A i \in 1 .. k - 1 : At(Gone(q, k), i) = At(q, i)
       /\ \A i \in k .. Len(q) : At(Gone(q, k), i) = At(q, i + 1)
  <2>1. Passed(heap, heap', q, k)
    BY <1>9, <1>10 DEF Passed
  <2>2. /\ Gone(q, k) \in Seq(Cells) /\ Len(Gone(q, k)) = Len(q) - 1
        /\ Linked(heap', Gone(q, k))
    BY <1>1, <2>1, LinkedGone
  <2> QED BY <1>1, <2>2, GoneAt, RangeGone
<1> QED BY <1>1, <1>5, <1>6, <1>7, <1>8, <1>11 DEF Left
\* It is a list again, when the root and the cursors have moved with it.
LEMMA LeftKeeps ==
  ASSUME NEW q, IsList(q), NEW k \in 1 .. Len(q), Left(q, k),
         UNCHANGED <<kind, aborted, remote, pProf>>,
         pc' \in {"idle", "walk", "destroy"},
         {pFirst', pLast', pEntry', pThis', pPrev'} \subseteq Cells \union {NULL},
         pUsr' \in Users \union {NULL}, Phases', Cursor(Gone(q, k))',
         pc' = "destroy" => pEntry' = At(Gone(q, k), 1),
         pc' # "destroy" => /\ pFirst' = At(Gone(q, k), 1)
                            /\ pLast' = At(Gone(q, k), Len(q) - 1)
  PROVE  IsList(Gone(q, k))'
<1>. DEFINE r == Gone(q, k)
<1>1. /\ heap' \in [Cells -> Entry] /\ live' \in SUBSET Cells /\ alive' \in SUBSET Users
      /\ Objects' /\ r \in Seq(Cells) /\ Len(r) = Len(q) - 1
      /\ Linked(heap', r) /\ Range(r) = live'
  BY DEF Left
<1>2. TypeOK'
  <2>1. TypeOK
    BY DEF IsList
  <2> QED BY <1>1, <2>1 DEF TypeOK
<1>3. Shape(r)'
  BY <1>1 DEF Shape, Ending
<1> QED BY <1>1, <1>2, <1>3 DEF IsList
-----------------------------------------------------------------------------
\* The first entry of a queue.
LEMMA FirstTaken ==
  ASSUME NEW q, IsList(q), pc = "idle", UnlinkElement, Free(heap, pFirst),
         alive' \in {alive, alive \ {heap[pFirst].pUsr}},
         UNCHANGED <<kind, pc, pEntry, searchVars, aborted, matchVars>>
  PROVE  /\ 1 \in 1 .. Len(q) /\ pFirst = q[1]
         /\ Left(q, 1) /\ IsList(Gone(q, 1))'
<1>1. /\ pFirst # NULL /\ pFirst' = heap[pFirst].pNext
      /\ pLast' = IF heap[pFirst].pNext = NULL THEN NULL ELSE pLast
      /\ heap' = [heap EXCEPT ![pFirst] = Blank] /\ live' = live \ {pFirst}
      /\ TypeOK /\ Phases
      /\ UNCHANGED <<kind, pc, pEntry, pThis, pPrev, pUsr, aborted, remote, pProf>>
  BY DEF UnlinkElement, Free, IsList, searchVars, matchVars
<1>2. pFirst = At(q, 1) /\ pLast = At(q, Len(q)) /\ Len(q) \in Nat /\ q \in Seq(Cells)
  BY ListFacts, CursorFacts DEF Ending
<1>3. 1 \in 1 .. Len(q) /\ pFirst = q[1] /\ heap[pFirst].pNext = At(q, 1 + 1)
  <2>1. 1 \in 1 .. Len(q) /\ pFirst = q[1]
    BY <1>1, <1>2 DEF At
  <2> QED BY <2>1, ListFacts
<1>4. Left(q, 1)
  BY <1>1, <1>3, Unlinked
<1>. DEFINE r == Gone(q, 1)
<1>5. /\ r \in Seq(Cells) /\ Len(r) = Len(q) - 1 /\ live' \subseteq live
      /\ \A i \in 1 .. Len(q) : At(r, i) = At(q, i + 1)
      /\ \A d \in live' : heap'[d].pUsr = heap[d].pUsr
  BY <1>1, <1>4 DEF Left
<1> HIDE DEF r
<1>6. pFirst' = At(r, 1)
  BY <1>1, <1>3, <1>5
<1>7. pLast' = At(r, Len(q) - 1)
  <2>1. CASE Len(q) = 1
    <3>1. At(q, 1 + 1) = NULL /\ At(r, Len(q) - 1) = NULL
      BY <2>1 DEF At
    <3> QED BY <1>1, <1>3, <3>1
  <2>2. CASE Len(q) # 1
    <3>1. 1 + 1 \in 1 .. Len(q) /\ Len(q) - 1 \in 1 .. Len(q) /\ (Len(q) - 1) + 1 = Len(q)
      <4>. PICK n \in Nat : n = Len(q)
        BY <1>2
      <4>1. n >= 1
        BY <1>3
      <4>2. n >= 2
        BY <2>2, <4>1
      <4> QED BY <4>2
    <3>2. At(q, 1 + 1) # NULL /\ At(r, Len(q) - 1) = At(q, Len(q))
      BY <1>2, <1>5, <3>1, AtIs
    <3> QED BY <1>1, <1>2, <1>3, <3>2
  <2> QED BY <2>1, <2>2
<1>8. Phases'
  BY <1>1, <1>5 DEF Phases, Ending
<1>9. Cursor(r)'
  <2>1. pc' = "idle" /\ pEntry' = NULL
    BY <1>1 DEF Phases
  <2> QED BY <1>5, <2>1, Resting
<1>10. {pFirst', pLast', pEntry', pThis', pPrev'} \subseteq Cells \union {NULL}
  <2>1. {pEntry, pThis, pPrev} \subseteq Cells \union {NULL}
    BY <1>1 DEF TypeOK
  <2>2. {At(r, 1), At(r, Len(q) - 1)} \subseteq Cells \union {NULL}
    BY <1>2, <1>5, AtIs, RangeIdx
  <2> QED BY <1>1, <1>6, <1>7, <2>1, <2>2
<1>11. pUsr' \in Users \union {NULL}
  BY <1>1 DEF TypeOK
<1>12. IsList(r)'
  BY <1>1, <1>3, <1>4, <1>6, <1>7, <1>8, <1>9, <1>10, <1>11, LeftKeeps DEF r
<1> QED BY <1>3, <1>4, <1>12 DEF r

\* The listener's queue, whose frame goes with its entry.
LEMMA NVTRRemoveFirstKeeps ==
  ASSUME NEW q, IsList(q), NVTRRemoveFirst
  PROVE  /\ 1 \in 1 .. Len(q) /\ pFirst = q[1]
         /\ Left(q, 1) /\ IsList(Gone(q, 1))'
  BY FirstTaken DEF NVTRRemoveFirst

\* The client's queue, whose frame stays.
LEMMA RecvFramKeeps ==
  ASSUME NEW q, IsList(q), RecvFram
  PROVE  /\ 1 \in 1 .. Len(q) /\ pFirst = q[1]
         /\ Left(q, 1) /\ IsList(Gone(q, 1))'
  BY FirstTaken DEF RecvFram

\* The list is destroyed from its first entry on.
LEMMA DestroyEntryKeeps ==
  ASSUME NEW q, IsList(q), DestroyEntry
  PROVE  /\ 1 \in 1 .. Len(q) /\ pEntry = q[1]
         /\ Left(q, 1) /\ IsList(Gone(q, 1))'
<1>1. /\ pc = "destroy" /\ pEntry # NULL /\ pEntry' = heap[pEntry].pNext
      /\ heap' = [heap EXCEPT ![pEntry] = Blank] /\ live' = live \ {pEntry}
      /\ alive' \in {alive, alive \ {heap[pEntry].pUsr}}
      /\ TypeOK /\ Phases
      /\ UNCHANGED <<kind, pFirst, pLast, pc, pThis, pPrev, pUsr, aborted, remote, pProf>>
  BY DEF DestroyEntry, Free, IsList, searchVars, matchVars
<1>2. pEntry = At(q, 1) /\ Len(q) \in Nat /\ q \in Seq(Cells)
  BY <1>1, ListFacts, CursorFacts DEF Ending
<1>3. 1 \in 1 .. Len(q) /\ pEntry = q[1] /\ heap[pEntry].pNext = At(q, 1 + 1)
  <2>1. 1 \in 1 .. Len(q) /\ pEntry = q[1]
    BY <1>1, <1>2 DEF At
  <2> QED BY <2>1, ListFacts
<1>4. Left(q, 1)
  BY <1>1, <1>3, Unlinked
<1>. DEFINE r == Gone(q, 1)
<1>5. /\ r \in Seq(Cells) /\ Len(r) = Len(q) - 1 /\ live' \subseteq live
      /\ \A i \in 1 .. Len(q) : At(r, i) = At(q, i + 1)
      /\ \A d \in live' : heap'[d].pUsr = heap[d].pUsr
  BY <1>1, <1>4 DEF Left
<1> HIDE DEF r
<1>6. pEntry' = At(r, 1)
  BY <1>1, <1>3, <1>5
<1>7. Phases'
  BY <1>1, <1>5 DEF Phases, Ending
<1>8. Cursor(r)'
  BY <1>1 DEF Cursor, Ending
<1>9. {pFirst', pLast', pEntry', pThis', pPrev'} \subseteq Cells \union {NULL}
  <2>1. {pFirst, pLast, pThis, pPrev} \subseteq Cells \union {NULL}
    BY <1>1 DEF TypeOK
  <2>2. At(r, 1) \in Cells \union {NULL}
    BY <1>5, AtIs, RangeIdx
  <2> QED BY <1>1, <1>6, <2>1, <2>2
<1>10. pUsr' \in Users \union {NULL}
  BY <1>1 DEF TypeOK
<1>11. IsList(r)'
  BY <1>1, <1>3, <1>4, <1>6, <1>7, <1>8, <1>9, <1>10, LeftKeeps DEF r
<1> QED BY <1>3, <1>4, <1>11 DEF r
-----------------------------------------------------------------------------
\* The search has found the entry of its object.
LEMMA SearchFound ==
  ASSUME NEW q, IsList(q), SearchEnd, pThis # NULL
  PROVE  \E k \in 1 .. Len(q) :
           /\ heap[q[k]].pUsr = pUsr /\ Left(q, k) /\ IsList(Gone(q, k))'
           /\ pc' = "walk" => pEntry = At(q, k + 1)
<1>1. /\ pc = "search" /\ heap[pThis].pUsr = pUsr /\ UnlinkFromList
      /\ alive' = alive \ {pUsr} /\ pc' = IF kind = "sessions" THEN "walk" ELSE "idle"
      /\ pThis' = NULL /\ pPrev' = NULL /\ pUsr' = NULL
      /\ UNCHANGED <<kind, pEntry, aborted, remote, pProf>>
      /\ TypeOK /\ Phases /\ Cursor(q)
  BY DEF SearchEnd, IsList, matchVars
<1>2. PICK k \in 1 .. Len(q) + 1 : pThis = At(q, k) /\ pPrev = At(q, k - 1)
  BY <1>1 DEF Cursor
<1>3. /\ q \in Seq(Cells) /\ Len(q) \in Nat /\ Distinct(q)
      /\ pFirst = At(q, 1) /\ pLast = At(q, Len(q)) /\ NULL \notin Cells
      /\ \A i \in 1 .. Len(q) : q[i] \in Cells /\ At(q, i) = q[i] /\ q[i] # NULL
  BY <1>1, ListFacts, CursorFacts DEF Ending
<1>4. /\ k \in 1 .. Len(q) /\ pThis = q[k]
      /\ pPrev = NULL => k = 1
      /\ pPrev # NULL => k # 1 /\ pPrev = q[k - 1]
  <2>1. k \in 1 .. Len(q) /\ pThis = q[k]
    BY <1>2, <1>3 DEF At
  <2>2. CASE k = 1
    <3>1. At(q, k - 1) = NULL
      BY <1>3, <2>2 DEF At
    <3> QED BY <1>2, <2>1, <2>2, <3>1
  <2>3. CASE k # 1
    <3>1. k - 1 \in 1 .. Len(q)
      BY <1>3, <2>1, <2>3
    <3> QED BY <1>2, <1>3, <2>1, <2>3, <3>1
  <2> QED BY <2>2, <2>3
<1>5. heap[pThis].pNext = At(q, k + 1)
  BY <1>4, ListFacts
<1>6. /\ heap' = [(IF k = 1 THEN heap ELSE [heap EXCEPT ![q[k - 1]].pNext = At(q, k + 1)])
                   EXCEPT ![q[k]] = Blank]
      /\ live' = live \ {q[k]}
      /\ pFirst' = IF k = 1 THEN At(q, k + 1) ELSE pFirst
      /\ pLast' = IF pLast = q[k] THEN pPrev ELSE pLast
  <2>1. CASE pPrev = NULL
    BY <1>1, <1>4, <1>5, <2>1 DEF UnlinkFromList, Free
  <2>2. CASE pPrev # NULL
    BY <1>1, <1>4, <1>5, <2>2 DEF UnlinkFromList, Free
  <2> QED BY <2>1, <2>2
<1>7. Left(q, k)
  <2>1. alive' = alive \ {heap[q[k]].pUsr}
    BY <1>1, <1>4
  <2> QED BY <1>4, <1>6, <2>1, Unlinked
<1>. DEFINE r == Gone(q, k)
<1>8. /\ r \in Seq(Cells) /\ Len(r) = Len(q) - 1 /\ live' \subseteq live
      /\ \A i \in 1 .. k - 1 : At(r, i) = At(q, i)
      /\ \A i \in k .. Len(q) : At(r, i) = At(q, i + 1)
      /\ \A d \in live' : heap'[d].pUsr = heap[d].pUsr
  BY <1>6, <1>7 DEF Left
<1> HIDE DEF r
<1>9. pFirst' = At(r, 1)
  <2>1. CASE k = 1
    BY <1>4, <1>6, <1>8, <2>1
  <2>2. CASE k # 1
    <3>1. 1 \in 1 .. k - 1
      BY <1>4, <2>2
    <3> QED BY <1>3, <1>6, <1>8, <2>2, <3>1
  <2> QED BY <2>1, <2>2
<1>10. pLast' = At(r, Len(q) - 1)
  <2>1. CASE k = Len(q)
    <3>1. pLast' = At(q, k - 1)
      BY <1>2, <1>3, <1>4, <1>6, <2>1
    <3>2. CASE k = 1
      <4>1. At(q, 0) = NULL /\ At(r, 0) = NULL
        BY DEF At
      <4> QED BY <2>1, <3>1, <3>2, <4>1
    <3>3. CASE k # 1
      <4>1. k - 1 \in 1 .. k - 1
        BY <1>4, <3>3
      <4> QED BY <1>8, <2>1, <3>1, <4>1
    <3> QED BY <3>2, <3>3
  <2>2. CASE k # Len(q)
    <3>1. Len(q) \in 1 .. Len(q) /\ Len(q) - 1 \in k .. Len(q) /\ (Len(q) - 1) + 1 = Len(q)
      BY <1>3, <1>4, <2>2
    <3>2. pLast = q[Len(q)] /\ q[Len(q)] # q[k]
      BY <1>3, <1>4, <2>2, <3>1 DEF Distinct
    <3> QED BY <1>3, <1>6, <1>8, <3>1, <3>2
  <2> QED BY <2>1, <2>2
<1>11. pc' = "walk" => pEntry = At(q, k + 1)
  <2>. SUFFICES ASSUME kind = "sessions" PROVE pEntry = At(q, k + 1)
    BY <1>1
  <2>1. PICK j \in 1 .. Len(q) : heap[q[j]].pUsr = pUsr /\ pEntry = At(q, j + 1)
    BY <1>1 DEF Cursor
  <2>2. j = k
    BY <1>1, <1>4, <2>1, ListFacts
  <2> QED BY <2>1, <2>2
<1>12. Phases'
  BY <1>1 DEF Phases, Ending
<1>13. Cursor(r)'
  <2>1. CASE kind = "sessions"
    <3>1. k \in k .. Len(q) /\ k \in 1 .. Len(r) + 1
      BY <1>4, <1>8
    <3>2. pEntry' = At(r, k)
      BY <1>1, <1>8, <1>11, <2>1, <3>1
    <3>3. pc' = "walk"
      BY <1>1, <2>1
    <3> QED BY <3>1, <3>2, <3>3 DEF Cursor, Ending
  <2>2. CASE kind # "sessions"
    <3>1. pc' = "idle" /\ pEntry' = NULL
      BY <1>1, <2>2 DEF Phases
    <3> QED BY <1>8, <3>1, Resting
  <2> QED BY <2>1, <2>2
<1>14. {pFirst', pLast', pEntry', pThis', pPrev'} \subseteq Cells \union {NULL}
  <2>1. pEntry \in Cells \union {NULL}
    BY <1>1 DEF TypeOK
  <2>2. {At(r, 1), At(r, Len(q) - 1)} \subseteq Cells \union {NULL}
    BY <1>3, <1>8, AtIs, RangeIdx
  <2> QED BY <1>1, <1>9, <1>10, <2>1, <2>2
<1>15. IsList(r)'
  <2>1. pc' \in {"idle", "walk", "destroy"} /\ pc' # "destroy" /\ pUsr' \in Users \union {NULL}
    BY <1>1
  <2> QED BY <1>1, <1>4, <1>7, <1>9, <1>10, <1>12, <1>13, <1>14, <2>1, LeftKeeps DEF r
<1> QED BY <1>1, <1>4, <1>7, <1>11, <1>15 DEF r

\* The channel that is destroyed was not listed.
LEMMA SearchMissed ==
  ASSUME NEW q, IsList(q), SearchEnd, pThis = NULL
  PROVE  /\ IsList(q)' /\ pc' = "idle" /\ UNCHANGED <<heap, live>>
         /\ \A c \in live : heap[c].pUsr # pUsr
<1>1. /\ pc = "search" /\ UNCHANGED rootVars
      /\ alive' = alive \ {pUsr} /\ pc' = IF kind = "sessions" THEN "walk" ELSE "idle"
      /\ pThis' = NULL /\ pPrev' = NULL /\ pUsr' = NULL
      /\ UNCHANGED <<kind, pEntry, aborted, remote, pProf>>
      /\ TypeOK /\ Objects /\ Phases /\ Shape(q) /\ Cursor(q)
  BY DEF SearchEnd, IsList, matchVars
<1>2. UNCHANGED <<heap, live, pFirst, pLast>>
  BY <1>1 DEF rootVars
<1>3. q \in Seq(Cells) /\ Range(q) = live /\ Len(q) \in Nat
  BY ListFacts
<1>4. \A i \in 1 .. Len(q) : heap[q[i]].pUsr # pUsr
  <2>1. PICK k \in 1 .. Len(q) + 1 :
          pThis = At(q, k) /\ \A i \in 1 .. k - 1 : heap[q[i]].pUsr # pUsr
    BY <1>1 DEF Cursor
  <2>2. k = Len(q) + 1
    <3>1. \A i \in 1 .. Len(q) : At(q, i) # NULL
      BY ListFacts
    <3> QED BY <1>3, <2>1, <3>1
  <2> QED BY <1>3, <2>1, <2>2
<1>5. \A c \in live : heap[c].pUsr # pUsr
  BY <1>3, <1>4, RangeIdx
<1>6. kind # "sessions" /\ pc' = "idle" /\ pEntry' = NULL
  <2>1. kind # "sessions"
    BY <1>1, <1>4 DEF Cursor
  <2> QED BY <1>1, <2>1 DEF Phases
<1>7. TypeOK'
  BY <1>1, <1>2, <1>6 DEF TypeOK
<1>8. Objects'
  BY <1>1, <1>2, <1>5 DEF Objects
<1>9. Phases'
  BY <1>1, <1>6 DEF Phases, Ending
<1>10. Shape(q)'
  BY <1>1, <1>2, <1>6 DEF Shape, Ending
<1>11. Cursor(q)'
  BY <1>3, <1>6, Resting
<1>12. IsList(q)'
  BY <1>3, <1>7, <1>8, <1>9, <1>10, <1>11 DEF IsList
<1> QED BY <1>2, <1>5, <1>6, <1>12
-----------------------------------------------------------------------------
\* A step leaves a list.
LEMMA StepKeeps == ASSUME IInv, [Next]_vars PROVE IInv'
<1>1. PICK q \in Seq(Cells) : IsList(q)
  BY DEF IInv
<1>2. ASSUME UNCHANGED vars PROVE IsList(q)'
  <2>1. UNCHANGED <<kind, heap, live, pFirst, pLast, pc, pEntry, pThis, pPrev, pUsr,
                    remote, pProf, alive, aborted>>
    BY <1>2 DEF vars, rootVars, searchVars, matchVars
  <2> QED BY <1>1, <2>1 DEF IsList, TypeOK, Objects, Phases, Shape, Cursor, Ending
<1>3. ASSUME NEW u \in Users, AddEntry(u) PROVE IInv'
  <2>1. PICK c \in Cells \ live : IsList(Append(q, c))'
    BY <1>1, <1>3, AddEntryKeeps
  <2>2. Append(q, c) \in Seq(Cells)
    OBVIOUS
  <2> QED BY <2>1, <2>2 DEF IInv
<1>4. ASSUME NVTRRemoveFirst \/ RecvFram \/ DestroyEntry PROVE IInv'
  <2>1. 1 \in 1 .. Len(q) /\ IsList(Gone(q, 1))'
    BY <1>1, <1>4, NVTRRemoveFirstKeeps, RecvFramKeeps, DestroyEntryKeeps
  <2>2. Gone(q, 1) \in Seq(Cells)
    BY <2>1, GoneIs
  <2> QED BY <2>1, <2>2 DEF IInv
<1>5. ASSUME SearchEnd PROVE IInv'
  <2>1. CASE pThis = NULL
    BY <1>1, <1>5, <2>1, SearchMissed DEF IInv
  <2>2. CASE pThis # NULL
    <3>1. PICK k \in 1 .. Len(q) : IsList(Gone(q, k))'
      BY <1>1, <1>5, <2>2, SearchFound
    <3>2. Gone(q, k) \in Seq(Cells)
      BY GoneIs
    <3> QED BY <3>1, <3>2 DEF IInv
  <2> QED BY <2>1, <2>2
<1>6. ASSUME NEW u \in Users, AddFails(u) \/ FramDestroy(u) \/ ChanDestroy(u) PROVE IsList(q)'
  BY <1>1, <1>6, AddFailsKeeps, FramDestroyKeeps, ChanDestroyKeeps
<1>7. ASSUME NEW R \in (SUBSET Users) \ {{}}, FindMatch(R) PROVE IsList(q)'
  BY <1>1, <1>7, FindMatchKeeps
<1>8. ASSUME SearchNext \/ StartWalk \/ Visit \/ VisitAndRemove \/ WalkEnds PROVE IsList(q)'
  BY <1>1, <1>8, SearchNextKeeps, StartWalkKeeps, VisitKeeps, VisitAndRemoveKeeps, WalkEndsKeeps
<1>9. ASSUME StartAbort \/ MarkChannel \/ StartDestroy \/ MatchNext \/ MatchEnd PROVE IsList(q)'
  BY <1>1, <1>9, StartAbortKeeps, MarkChannelKeeps, StartDestroyKeeps, MatchNextKeeps, MatchEndKeeps
<1>10. IsList(q)' => IInv'
  BY DEF IInv
<1> QED BY <1>2, <1>3, <1>4, <1>5, <1>6, <1>7, <1>8, <1>9, <1>10 DEF Next

\* There is a list behind every state.
LEMMA Inductive == Spec => []IInv
<1>1. Init => IInv
  <2>1. <<>> \in Seq(Cells)
    OBVIOUS
  <2> QED BY <2>1, InitList DEF IInv
<1>2. IInv /\ [Next]_vars => IInv'
  BY StepKeeps
<1> QED BY <1>1, <1>2, PTL DEF Spec
-----------------------------------------------------------------------------
\* Every pointer is NULL or the address of an entry (TypeOK).
THEOREM ListTypeCorrect == Spec => []TypeOK
<1>1. IInv => TypeOK
  BY DEF IInv, IsList
<1> QED BY <1>1, Inductive, PTL

\* No loop over a list holds a pointer to an entry that was freed, whichever
\* entries leave while it runs (NoStaleEntry; beeplisten.c:814, namevaluetree.c:67).
THEOREM NoLoopHoldsFreedEntry == Spec => []NoStaleEntry
<1>1. IInv => NoStaleEntry
  BY CursorFacts DEF IInv, NoStaleEntry
<1> QED BY <1>1, Inductive, PTL

\* The cells of a chain are its list.
LEMMA ChainOfFirst == ASSUME NEW q, IsList(q) PROVE Chain(At(q, 1)) = q
<1>1. q \in Seq(Cells) /\ Len(q) \in Nat /\ Linked(heap, q)
  BY ListFacts
<1>2. 1 \in 1 .. Len(q) + 1
  BY <1>1
<1>3. ChainIn(heap, At(q, 1)) = From(q, 1)
  BY <1>1, <1>2, ChainIs
<1>4. From(q, 1) = [i \in 1 .. Len(q) |-> q[i]]
  BY <1>1 DEF From
<1>5. q = [i \in 1 .. Len(q) |-> q[i]]
  BY <1>1
<1> QED BY <1>3, <1>4, <1>5 DEF Chain

\* A list of distinct cells is as long as their set is large.
LEMMA ListSize ==
  ASSUME NEW q \in Seq(Cells), Distinct(q) PROVE Cardinality(Range(q)) = Len(q)
<1>1. q \in Bijection(1 .. Len(q), Range(q))
  <2>1. \A i \in 1 .. Len(q) : q[i] \in Range(q)
    BY RangeIdx
  <2>2. \A x \in Range(q) : \E i \in 1 .. Len(q) : q[i] = x
    BY RangeIdx
  <2>3. q \in [1 .. Len(q) -> Range(q)]
    BY <2>1
  <2> QED BY <2>2, <2>3 DEF Distinct, Bijection, Injection, Surjection, IsInjective
<1>. PICK n \in Nat : n = Len(q)
  OBVIOUS
<1>2. 1 \in Int /\ n \in Int
  OBVIOUS
<1>3. IsFiniteSet(1 .. n) /\ Cardinality(1 .. n) = IF 1 > n THEN 0 ELSE n - 1 + 1
  BY <1>2, FS_Interval, Zenon
<1>4. Cardinality(1 .. n) = n
  BY <1>3
<1>5. q \in Bijection(1 .. n, Range(q))
  BY <1>1
<1>6. Cardinality(Range(q)) = Cardinality(1 .. n)
  <2>1. ExistsBijection(1 .. n, Range(q))
    BY <1>5 DEF ExistsBijection
  <2> QED BY <1>3, <2>1, FS_Bijection, Zenon
<1> QED BY <1>4, <1>6

\* The chain runs through every entry that is allocated and ends at pLast, where
\* sbNVTAddEntry hangs the next entry (WellLinked; namevaluetree.c:706).
THEOREM NoEntryIsLost == Spec => []WellLinked
<1>1. ASSUME IInv PROVE WellLinked
  <2>. SUFFICES ASSUME ~Ending
                PROVE  /\ ToSet(Chain(pFirst)) = live
                       /\ Len(Chain(pFirst)) = Cardinality(live)
                       /\ pLast = IF live = {} THEN NULL ELSE Last(Chain(pFirst))
    BY DEF WellLinked
  <2>1. PICK q \in Seq(Cells) : IsList(q)
    BY <1>1 DEF IInv
  <2>2. Range(q) = live /\ Distinct(q) /\ pFirst = At(q, 1) /\ pLast = At(q, Len(q))
    BY <2>1, ListFacts, CursorFacts
  <2>3. Chain(pFirst) = q
    BY <2>1, <2>2, ChainOfFirst
  <2>4. ToSet(q) = Range(q)
    BY DEF ToSet, Range
  <2>5. Cardinality(live) = Len(q)
    BY <2>2, ListSize
  <2>6. pLast = IF live = {} THEN NULL ELSE Last(q)
    <3>1. CASE q = <<>>
      <4>1. live = {} /\ At(q, Len(q)) = NULL
        BY <2>2, <3>1, RangeEmpty DEF At
      <4> QED BY <2>2, <4>1
    <3>2. CASE q # <<>>
      <4>1. live # {} /\ Len(q) \in 1 .. Len(q)
        BY <2>2, <3>2, RangeIdx
      <4> QED BY <2>2, <4>1 DEF At, Last
    <3> QED BY <3>1, <3>2
  <2> QED BY <2>2, <2>3, <2>4, <2>5, <2>6
<1> QED BY <1>1, Inductive, PTL
-----------------------------------------------------------------------------
(***************************************************************************)
(* The linked list is the list of EntryList: what its pointers show are    *)
(* the objects of q, and each step is a step of that list or shows the     *)
(* same.                                                                   *)
(***************************************************************************)
\* The objects of the cells of q from the k-th on.
UsersAt(h, q, k) == [i \in 1 .. Len(q) + 1 - k |-> h[q[k + i - 1]].pUsr]

UsersIn(h, p) == [i \in DOMAIN ChainIn(h, p) |-> h[ChainIn(h, p)[i]].pUsr]

\* A pointer into the chain shows the objects from there on.
LEMMA UsersAre ==
  ASSUME NEW h, NEW q, Linked(h, q), NEW k \in 1 .. Len(q) + 1
  PROVE  UsersIn(h, At(q, k)) = UsersAt(h, q, k)
<1>1. ChainIn(h, At(q, k)) = From(q, k)
  BY ChainIs
<1>2. /\ DOMAIN From(q, k) = 1 .. Len(q) + 1 - k
      /\ \A i \in 1 .. Len(q) + 1 - k : From(q, k)[i] = q[k + i - 1]
  BY DEF From
<1> QED BY <1>1, <1>2 DEF UsersIn, UsersAt

\* The cells of q point to members of D.
Pointing(h, q, D) == \A i \in 1 .. Len(q) : h[q[i]].pUsr \in D

\* Then the objects are a sequence of members of D.
LEMMA UsersSeq ==
  ASSUME NEW h, NEW q, Linked(h, q), NEW k \in 1 .. Len(q) + 1, NEW D, Pointing(h, q, D)
  PROVE  UsersAt(h, q, k) \in Seq(D) /\ Len(UsersAt(h, q, k)) = Len(q) + 1 - k
<1>1. q \in Seq(Cells) /\ Len(q) + 1 - k \in Nat
  BY DEF Linked
<1>. DEFINE m == Len(q) + 1 - k
<1>2. \A i \in 1 .. m : k + i - 1 \in 1 .. Len(q)
  BY <1>1
<1>3. UsersAt(h, q, k) \in [1 .. m -> D]
  BY <1>2 DEF UsersAt, Pointing
<1> HIDE DEF m
<1>4. m \in Nat
  BY <1>1 DEF m
<1>5. UsersAt(h, q, k) \in Seq(D) /\ Len(UsersAt(h, q, k)) = m
  BY <1>3, <1>4
<1> QED BY <1>5 DEF m

\* Nothing is behind the last cell.
LEMMA UsersNone ==
  ASSUME NEW h, NEW q \in Seq(Cells) PROVE UsersAt(h, q, Len(q) + 1) = <<>>
<1>1. Len(q) + 1 - (Len(q) + 1) = 0 /\ 1 .. 0 = {}
  OBVIOUS
<1>2. UsersAt(h, q, Len(q) + 1) = [i \in {} |-> h[q[(Len(q) + 1) + i - 1]].pUsr]
  BY <1>1 DEF UsersAt
<1> QED BY <1>2

\* What is shown before and after a step.
LEMMA ListedIs == ASSUME NEW q, IsList(q) PROVE Listed = UsersAt(heap, q, 1)
<1>1. Linked(heap, q) /\ 1 \in 1 .. Len(q) + 1
  BY ListFacts
<1>2. (IF Ending THEN pEntry ELSE pFirst) = At(q, 1)
  BY CursorFacts
<1>3. Listed = UsersIn(heap, At(q, 1))
  BY <1>2 DEF Listed, UsersFrom, UsersIn, Chain
<1> QED BY <1>1, <1>3, UsersAre

\* After a step ...
LEMMA ListedNext ==
  ASSUME NEW q \in Seq(Cells), IsList(q)' PROVE Listed' = UsersAt(heap', q, 1)
<1>1. Linked(heap', q) /\ 1 \in 1 .. Len(q) + 1
  BY DEF IsList, Shape
<1>2. (IF Ending' THEN pEntry' ELSE pFirst') = At(q, 1)
  BY DEF IsList, Shape
<1>3. Listed' = UsersIn(heap', At(q, 1))
  BY <1>2 DEF Listed, UsersFrom, UsersIn, Chain
<1> QED BY <1>1, <1>3, UsersAre

\* What a walk has still to meet.
LEMMA ToMeetIs ==
  ASSUME NEW q, IsList(q), NEW k \in 1 .. Len(q) + 1, pEntry = At(q, k)
  PROVE  ToMeet = IF pc \in {"destroy", "match"} THEN <<>> ELSE UsersAt(heap, q, k)
<1>1. Linked(heap, q)
  BY ListFacts
<1>2. UsersFrom(pEntry) = UsersIn(heap, At(q, k))
  BY DEF UsersFrom, UsersIn, Chain
<1> QED BY <1>1, <1>2, UsersAre DEF ToMeet

\* After a step ...
LEMMA ToMeetNext ==
  ASSUME NEW q \in Seq(Cells), IsList(q)', NEW k \in 1 .. Len(q) + 1, pEntry' = At(q, k)
  PROVE  ToMeet' = IF pc' \in {"destroy", "match"} THEN <<>> ELSE UsersAt(heap', q, k)
<1>1. Linked(heap', q)
  BY DEF IsList, Shape
<1>2. UsersFrom(pEntry)' = UsersIn(heap', At(q, k))
  BY DEF UsersFrom, UsersIn, Chain
<1> QED BY <1>1, <1>2, UsersAre DEF ToMeet

\* A walk without a cursor has met everything.
LEMMA NothingToMeet == ASSUME NEW q, IsList(q), pEntry = NULL PROVE ToMeet = <<>>
<1>1. q \in Seq(Cells) /\ Len(q) + 1 \in 1 .. Len(q) + 1 /\ At(q, Len(q) + 1) = NULL
  BY ListFacts
<1> QED BY <1>1, ToMeetIs, UsersNone

\* After a step ...
LEMMA NothingToMeetNext ==
  ASSUME NEW q \in Seq(Cells), IsList(q)', pEntry' = NULL PROVE ToMeet' = <<>>
<1>1. Len(q) + 1 \in 1 .. Len(q) + 1 /\ At(q, Len(q) + 1) = NULL
  BY AtIs
<1> QED BY <1>1, ToMeetNext, UsersNone
-----------------------------------------------------------------------------
\* Nothing is under way while the list is at rest.
LEMMA AtRest ==
  ASSUME NEW q, IsList(q), pc = "idle"
  PROVE  Abstract!Quiet /\ ToMeet = <<>> /\ Leaving = {} /\ remote = {} /\ Ending = FALSE
<1>1. pEntry = NULL /\ remote = {}
  BY DEF IsList, Phases
<1>2. ToMeet = <<>>
  BY <1>1, NothingToMeet
<1>3. Leaving = {} /\ Ending = FALSE
  BY DEF Leaving, Ending
<1> QED BY <1>1, <1>2, <1>3 DEF Abstract!Quiet

\* Nothing is under way when a step leaves the list at rest.
LEMMA AtRestNext ==
  ASSUME NEW q \in Seq(Cells), IsList(q)', pc' = "idle"
  PROVE  ToMeet' = <<>> /\ Leaving' = {} /\ remote' = {} /\ Ending' = FALSE
<1>1. pEntry' = NULL /\ remote' = {}
  BY DEF IsList, Phases
<1>2. ToMeet' = <<>>
  BY <1>1, NothingToMeetNext
<1> QED BY <1>1, <1>2 DEF Leaving, Ending

\* The list stays when its cells do.
LEMMA SameList ==
  ASSUME NEW q, IsList(q), IsList(q)', UNCHANGED heap PROVE Listed' = Listed
<1>1. q \in Seq(Cells)
  BY DEF IsList
<1> QED BY <1>1, ListedIs, ListedNext

\* The objects of the list, and those of what is left of it.
LEMMA ListedSeq ==
  ASSUME NEW q, IsList(q)
  PROVE  /\ Listed \in Seq(alive) /\ Len(Listed) = Len(q)
         /\ \A i \in 1 .. Len(q) : Listed[i] = heap[q[i]].pUsr
<1>1. /\ Linked(heap, q) /\ q \in Seq(Cells) /\ 1 \in 1 .. Len(q) + 1 /\ Len(q) \in Nat
      /\ \A i \in 1 .. Len(q) : heap[q[i]].pUsr \in alive
  BY ListFacts
<1>2. UsersAt(heap, q, 1) \in Seq(alive) /\ Len(UsersAt(heap, q, 1)) = Len(q) + 1 - 1
  <2>1. Pointing(heap, q, alive)
    BY <1>1 DEF Pointing
  <2> QED BY <1>1, <2>1, UsersSeq
<1>3. Len(q) + 1 - 1 = Len(q) /\ \A i \in 1 .. Len(q) : 1 + i - 1 = i
  BY <1>1
<1>4. \A i \in 1 .. Len(q) : UsersAt(heap, q, 1)[i] = heap[q[i]].pUsr
  BY <1>3 DEF UsersAt
<1> QED BY <1>2, <1>3, <1>4, ListedIs

\* After a step ...
LEMMA ListedSeqNext ==
  ASSUME NEW q \in Seq(Cells), IsList(q)'
  PROVE  /\ Listed' \in Seq(alive') /\ Len(Listed') = Len(q)
         /\ \A i \in 1 .. Len(q) : Listed'[i] = heap'[q[i]].pUsr
<1>1. /\ Linked(heap', q) /\ 1 \in 1 .. Len(q) + 1 /\ Len(q) \in Nat /\ Range(q) = live'
      /\ \A c \in live' : heap'[c].pUsr \in alive'
  BY DEF IsList, Shape, Objects
<1>2. \A i \in 1 .. Len(q) : heap'[q[i]].pUsr \in alive'
  BY <1>1, RangeIdx
<1>3. UsersAt(heap', q, 1) \in Seq(alive') /\ Len(UsersAt(heap', q, 1)) = Len(q) + 1 - 1
  <2>1. Pointing(heap', q, alive')
    BY <1>2 DEF Pointing
  <2> QED BY <1>1, <2>1, UsersSeq
<1>4. Len(q) + 1 - 1 = Len(q) /\ \A i \in 1 .. Len(q) : 1 + i - 1 = i
  BY <1>1
<1>5. \A i \in 1 .. Len(q) : UsersAt(heap', q, 1)[i] = heap'[q[i]].pUsr
  BY <1>4 DEF UsersAt
<1> QED BY <1>3, <1>4, <1>5, ListedNext

\* The objects that the list names are those of the entries.
LEMMA ListedSet == ASSUME NEW q, IsList(q) PROVE ToSet(Listed) = {heap[c].pUsr : c \in live}
<1>1. /\ q \in Seq(Cells) /\ Range(q) = live /\ DOMAIN Listed = 1 .. Len(q)
      /\ \A i \in 1 .. Len(q) : Listed[i] = heap[q[i]].pUsr
  BY ListFacts, ListedSeq
<1>2. ToSet(Listed) = {heap[q[i]].pUsr : i \in 1 .. Len(q)}
  BY <1>1 DEF ToSet
<1>3. \A x : x \in live <=> \E i \in 1 .. Len(q) : q[i] = x
  BY <1>1, RangeIdx
<1> QED BY <1>2, <1>3
-----------------------------------------------------------------------------
\* The new object is the last of the list.
LEMMA AddEntryShows ==
  ASSUME NEW q, IsList(q), NEW u \in Users, AddEntry(u) PROVE Abstract!Add(u)
<1>1. PICK c \in Cells \ live :
        /\ IsList(Append(q, c))' /\ heap'[c].pUsr = u
        /\ \A d \in live : heap'[d].pUsr = heap[d].pUsr
  BY AddEntryKeeps
<1>2. /\ pc = "idle" /\ pc' = "idle" /\ u \notin alive /\ alive' = alive \union {u}
      /\ remote' = remote /\ pProf' = pProf
  BY DEF AddEntry, matchVars
<1>. DEFINE r == Append(q, c)
<1>3. /\ q \in Seq(Cells) /\ r \in Seq(Cells) /\ Len(q) \in Nat /\ Len(r) = Len(q) + 1
      /\ r[Len(q) + 1] = c /\ \A i \in 1 .. Len(q) : r[i] = q[i] /\ q[i] \in live
  BY ListFacts
<1> HIDE DEF r
<1>4. IsList(r)'
  BY <1>1 DEF r
<1>5. /\ Listed \in Seq(alive) /\ Len(Listed) = Len(q)
      /\ \A i \in 1 .. Len(q) : Listed[i] = heap[q[i]].pUsr
  BY ListedSeq
<1>6. /\ Listed' \in Seq(alive') /\ Len(Listed') = Len(q) + 1
      /\ \A i \in 1 .. Len(q) + 1 : Listed'[i] = heap'[r[i]].pUsr
  BY <1>3, <1>4, ListedSeqNext
<1>7. Listed' = Append(Listed, u)
  <2>. DEFINE s == Append(Listed, u)
  <2>1. /\ s \in Seq(alive') /\ Len(s) = Len(q) + 1 /\ s[Len(q) + 1] = u
        /\ \A i \in 1 .. Len(q) : s[i] = Listed[i]
    BY <1>2, <1>5
  <2> HIDE DEF s
  <2>2. ASSUME NEW i \in 1 .. Len(q) + 1 PROVE Listed'[i] = s[i]
    <3>1. CASE i = Len(q) + 1
      BY <1>1, <1>3, <1>6, <2>1, <3>1
    <3>2. CASE i # Len(q) + 1
      <4>1. i \in 1 .. Len(q)
        BY <1>3, <3>2
      <4> QED BY <1>1, <1>3, <1>5, <1>6, <2>1, <4>1
    <3> QED BY <3>1, <3>2
  <2>3. Listed' = s
    BY <1>6, <2>1, <2>2
  <2> QED BY <2>3 DEF s
<1>8. ToMeet' = ToMeet /\ Leaving' = Leaving /\ Ending' = Ending /\ Match' = Match /\ Abstract!Quiet
  BY <1>2, <1>3, <1>4, AtRest, AtRestNext DEF Match
<1> QED BY <1>2, <1>7, <1>8 DEF Abstract!Add

\* The object without an entry is not in the list.
LEMMA AddFailsShows ==
  ASSUME NEW q, IsList(q), NEW u \in Users, AddFails(u) PROVE Abstract!Refuse(u)
<1>1. /\ pc = "idle" /\ pc' = "idle" /\ u \notin alive /\ alive' = alive \union {u}
      /\ remote' = remote /\ pProf' = pProf /\ heap' = heap
  BY DEF AddFails, matchVars, rootVars
<1>2. IsList(q)' /\ q \in Seq(Cells)
  BY AddFailsKeeps, ListFacts
<1>3. ToMeet' = ToMeet /\ Leaving' = Leaving /\ Ending' = Ending /\ Match' = Match /\ Abstract!Quiet
  BY <1>1, <1>2, AtRest, AtRestNext DEF Match
<1> QED BY <1>1, <1>2, <1>3, SameList DEF Abstract!Refuse

\* The frame that is freed was taken from the queue.
LEMMA FramDestroyShows ==
  ASSUME NEW q, IsList(q), NEW u \in Users, FramDestroy(u) PROVE Abstract!FreeTaken(u)
<1>1. /\ pc = "idle" /\ pc' = "idle" /\ u \in alive /\ alive' = alive \ {u}
      /\ \A c \in live : heap[c].pUsr # u
      /\ remote' = remote /\ pProf' = pProf /\ heap' = heap
  BY DEF FramDestroy, matchVars, rootVars
<1>2. IsList(q)' /\ q \in Seq(Cells)
  BY FramDestroyKeeps, ListFacts
<1>3. ToMeet' = ToMeet /\ Leaving' = Leaving /\ Ending' = Ending /\ Match' = Match
  BY <1>1, <1>2, AtRest, AtRestNext DEF Match
<1>4. u \notin ToSet(Listed)
  BY <1>1, ListedSet
<1> QED BY <1>1, <1>2, <1>3, <1>4, SameList DEF Abstract!FreeTaken, Abstract!ToSet, ToSet

\* A channel begins to leave.
LEMMA ChanDestroyShows ==
  ASSUME NEW q, IsList(q), NEW u \in Users, ChanDestroy(u) PROVE Abstract!Dismiss(u)
<1>1. /\ pc = "idle" /\ pc' = "search" /\ u \in alive /\ alive' = alive /\ pUsr' = u
      /\ remote' = remote /\ pProf' = pProf /\ heap' = heap /\ pEntry' = pEntry
  BY DEF ChanDestroy, StartSearch, matchVars, rootVars
<1>2. IsList(q)' /\ q \in Seq(Cells) /\ pEntry = NULL
  BY <1>1, ChanDestroyKeeps, ListFacts DEF IsList, Phases
<1>3. ToMeet' = ToMeet /\ Abstract!Quiet
  BY <1>1, <1>2, AtRest, NothingToMeetNext
<1>4. Leaving' = {u} /\ Ending' = Ending /\ Match' = Match
  BY <1>1 DEF Leaving, Ending, Match
<1> QED BY <1>1, <1>2, <1>3, <1>4, SameList DEF Abstract!Dismiss

\* A walk has every object of the list to meet.
LEMMA StartWalkShows ==
  ASSUME NEW q, IsList(q), StartWalk \/ StartAbort PROVE Abstract!StartWalk
<1>1. /\ pc = "idle" /\ pc' \in {"walk", "abort"} /\ alive' = alive /\ pEntry' = pFirst
      /\ remote' = remote /\ pProf' = pProf /\ heap' = heap
  BY DEF StartWalk, StartAbort, matchVars, rootVars
<1>2. /\ IsList(q)' /\ q \in Seq(Cells) /\ pFirst = At(q, 1) /\ 1 \in 1 .. Len(q) + 1
  BY <1>1, StartWalkKeeps, StartAbortKeeps, ListFacts, CursorFacts DEF Ending
<1>3. ToMeet' = Listed
  BY <1>1, <1>2, ToMeetNext, ListedIs
<1>4. Leaving' = Leaving /\ Ending' = Ending /\ Match' = Match
  BY <1>1 DEF Leaving, Ending, Match
<1> QED BY <1>1, <1>2, <1>3, <1>4, SameList, AtRest DEF Abstract!StartWalk

\* The list ends after the walks over it.
LEMMA StartDestroyShows ==
  ASSUME NEW q, IsList(q), StartDestroy PROVE Abstract!Finish
<1>1. /\ pc = "idle" \/ (pc = "abort" /\ pEntry = NULL)
      /\ pc' = "destroy" /\ alive' = alive
      /\ remote' = remote /\ pProf' = pProf /\ heap' = heap
  BY DEF StartDestroy, matchVars, rootVars
<1>2. IsList(q)' /\ q \in Seq(Cells) /\ pEntry = NULL /\ remote = {}
  BY <1>1, StartDestroyKeeps, ListFacts DEF IsList, Phases
<1>3. ToMeet = <<>> /\ ToMeet' = <<>>
  BY <1>1, <1>2, NothingToMeet DEF ToMeet
<1>4. Leaving = {} /\ Leaving' = {} /\ ~Ending /\ Ending' = TRUE /\ Match' = Match
  BY <1>1 DEF Leaving, Ending, Match
<1> QED BY <1>1, <1>2, <1>3, <1>4, SameList DEF Abstract!Finish, Abstract!Quiet

\* A profile of the peer is looked for.
LEMMA FindMatchShows ==
  ASSUME NEW q, IsList(q), NEW R \in (SUBSET Users) \ {{}}, FindMatch(R) PROVE Abstract!Seek(R)
<1>1. /\ pc = "idle" /\ pc' = "match" /\ alive' = alive /\ heap' = heap
      /\ remote' = R /\ pProf' = NULL
  BY DEF FindMatch, rootVars
<1>2. IsList(q)'
  BY FindMatchKeeps
<1>3. ToMeet' = ToMeet /\ Abstract!Quiet
  BY <1>1, AtRest DEF ToMeet
<1>4. Leaving' = Leaving /\ Ending' = Ending /\ Match' = {}
  BY <1>1 DEF Leaving, Ending, Match
<1> QED BY <1>1, <1>2, <1>3, <1>4, SameList DEF Abstract!Seek
-----------------------------------------------------------------------------
\* A sequence without its first element.
LEMMA GoneFirst ==
  ASSUME NEW D, NEW s \in Seq(D), 1 \in 1 .. Len(s)
  PROVE  s # <<>> /\ Gone(s, 1) = Tail(s) /\ Head(s) = s[1]
<1>1. s # <<>> /\ Head(s) = s[1] /\ Len(s) - 1 \in Nat
  OBVIOUS
<1>2. /\ Gone(s, 1) \in Seq(D) /\ Len(Gone(s, 1)) = Len(s) - 1
      /\ \A i \in 1 .. Len(s) - 1 : Gone(s, 1)[i] = IF i < 1 THEN s[i] ELSE s[i + 1]
  BY GoneIs
<1>3. /\ Tail(s) \in Seq(D) /\ Len(Tail(s)) = Len(s) - 1
      /\ \A i \in 1 .. Len(s) - 1 : Tail(s)[i] = s[i + 1]
  BY <1>1
<1>4. \A i \in 1 .. Len(s) - 1 : Gone(s, 1)[i] = Tail(s)[i]
  BY <1>1, <1>2, <1>3
<1>5. Gone(s, 1) = Tail(s)
  BY <1>1, <1>2, <1>3, <1>4
<1> QED BY <1>1, <1>5

\* Sequences with the same elements.
LEMMA SameSeq ==
  ASSUME NEW D, NEW s \in Seq(D), NEW t \in Seq(D), Len(s) = Len(t),
         \A i \in 1 .. Len(s) : s[i] = t[i]
  PROVE  s = t
  OBVIOUS

\* A sequence without its k-th element, as RemoveAt puts it.
LEMMA GoneRemoved ==
  ASSUME NEW D, NEW s \in Seq(D), NEW k \in 1 .. Len(s)
  PROVE  Gone(s, k) = Abstract!RemoveAt(s, k)
<1>. DEFINE a == SubSeq(s, 1, k - 1)
            b == SubSeq(s, k + 1, Len(s))
            g == Gone(s, k)
            n == Len(s)
<1>1. n \in Nat /\ k \in Nat /\ 1 <= k /\ k <= n
  OBVIOUS
<1>2. /\ g \in Seq(D) /\ Len(g) = n - 1
      /\ \A i \in 1 .. n - 1 : g[i] = IF i < k THEN s[i] ELSE s[i + 1]
  BY GoneIs
<1>3. a \in Seq(D) /\ Len(a) = k - 1 /\ \A i \in 1 .. k - 1 : a[i] = s[i]
  BY <1>1
<1>4. b \in Seq(D) /\ Len(b) = n - k /\ \A i \in 1 .. n - k : b[i] = s[k + i]
  <2>1. \A i \in k + 1 .. n : s[i] \in D
    BY <1>1
  <2>2. b \in Seq(D) /\ Len(b) = n - k
    BY <1>1, <2>1
  <2>3. \A i \in 1 .. n - k : b[i] = s[(k + 1) + i - 1]
    BY <1>1
  <2> QED BY <1>1, <2>2, <2>3
<1> HIDE DEF a, b, g
<1>5. /\ a \o b \in Seq(D) /\ Len(a \o b) = (k - 1) + (n - k)
      /\ \A i \in 1 .. k - 1 : (a \o b)[i] = a[i]
      /\ \A i \in 1 .. n - k : (a \o b)[(k - 1) + i] = b[i]
  <2>1. /\ a \o b \in Seq(D) /\ Len(a \o b) = Len(a) + Len(b)
        /\ \A i \in 1 .. Len(a) : (a \o b)[i] = a[i]
        /\ \A i \in 1 .. Len(b) : (a \o b)[Len(a) + i] = b[i]
    <3>1. a \in Seq(D) /\ b \in Seq(D)
      BY <1>3, <1>4
    <3>2. a \o b \in Seq(D) /\ Len(a \o b) = Len(a) + Len(b)
      BY <3>1
    <3>3. \A i \in 1 .. Len(a) : (a \o b)[i] = a[i]
      BY <3>1
    <3>4. \A i \in 1 .. Len(b) : (a \o b)[Len(a) + i] = b[i]
      BY <3>1
    <3> QED BY <3>2, <3>3, <3>4
  <2> QED BY <1>3, <1>4, <2>1
<1>6. ASSUME NEW i \in 1 .. n - 1 PROVE (a \o b)[i] = g[i]
  <2>1. CASE i < k
    BY <1>1, <1>2, <1>3, <1>5, <2>1
  <2>2. CASE i >= k
    <3>. DEFINE j == i - (k - 1)
    <3>1. j \in 1 .. n - k /\ (k - 1) + j = i /\ k + j = i + 1
      BY <1>1, <2>2
    <3> HIDE DEF j
    <3>2. (a \o b)[i] = b[j] /\ b[j] = s[i + 1]
      BY <1>4, <1>5, <3>1
    <3> QED BY <1>1, <1>2, <2>2, <3>2
  <2>3. i < k \/ i >= k
    BY <1>1
  <2> QED BY <2>1, <2>2, <2>3
<1>7. g = a \o b
  <2>1. Len(a \o b) = n - 1 /\ n - 1 \in Nat
    BY <1>1, <1>5
  <2>2. Len(g) = Len(a \o b) /\ \A i \in 1 .. Len(g) : g[i] = (a \o b)[i]
    BY <1>2, <1>6, <2>1
  <2> QED BY <1>2, <1>5, <2>2, SameSeq
<1> QED BY <1>7 DEF a, b, g, Abstract!RemoveAt

\* The object of the entry that is unlinked leaves the list.
LEMMA LeftShows ==
  ASSUME NEW q, IsList(q), NEW k \in 1 .. Len(q), Left(q, k), IsList(Gone(q, k))'
  PROVE  Listed' = Gone(Listed, k)
<1>. DEFINE r == Gone(q, k)
            n == Len(q) - 1
<1>1. /\ q \in Seq(Cells) /\ n \in Nat /\ \A i \in 1 .. n : i \in 1 .. Len(q) /\ i + 1 \in 1 .. Len(q)
      /\ r \in Seq(Cells) /\ Len(r) = n
      /\ \A i \in 1 .. n : r[i] = IF i < k THEN q[i] ELSE q[i + 1]
      /\ Range(r) = live' /\ \A d \in live' : heap'[d].pUsr = heap[d].pUsr
  <2>1. q \in Seq(Cells) /\ n \in Nat /\ \A i \in 1 .. n : i \in 1 .. Len(q) /\ i + 1 \in 1 .. Len(q)
    BY ListFacts
  <2>2. /\ r \in Seq(Cells) /\ Len(r) = n
        /\ \A i \in 1 .. n : r[i] = IF i < k THEN q[i] ELSE q[i + 1]
    BY <2>1, GoneIs
  <2>3. Range(r) = live' /\ \A d \in live' : heap'[d].pUsr = heap[d].pUsr
    BY DEF Left
  <2> QED BY <2>1, <2>2, <2>3
<1>2. /\ Listed \in Seq(alive) /\ Len(Listed) = Len(q)
      /\ \A i \in 1 .. Len(q) : Listed[i] = heap[q[i]].pUsr
  BY ListedSeq
<1> HIDE DEF r
<1>3. /\ Listed' \in Seq(alive') /\ Len(Listed') = n
      /\ \A i \in 1 .. n : Listed'[i] = heap'[r[i]].pUsr
  <2>1. IsList(r)'
    BY DEF r
  <2> QED BY <1>1, <2>1, ListedSeqNext
<1>4. /\ Gone(Listed, k) \in Seq(alive) /\ Len(Gone(Listed, k)) = n
      /\ \A i \in 1 .. n : Gone(Listed, k)[i] = IF i < k THEN Listed[i] ELSE Listed[i + 1]
  BY <1>2, GoneIs
<1> HIDE DEF n
<1>5. ASSUME NEW i \in 1 .. n PROVE Listed'[i] = Gone(Listed, k)[i]
  <2>1. r[i] \in live'
    BY <1>1, RangeIdx
  <2>2. Listed'[i] = heap[r[i]].pUsr
    BY <1>1, <1>3, <2>1
  <2>3. CASE i < k
    BY <1>1, <1>2, <1>4, <2>2, <2>3
  <2>4. CASE ~(i < k)
    BY <1>1, <1>2, <1>4, <2>2, <2>4
  <2> QED BY <2>3, <2>4
<1> QED BY <1>1, <1>3, <1>4, <1>5

\* The first entry of a queue goes, with its object or without.
LEMMA ShiftShows ==
  ASSUME NEW q, IsList(q), NVTRRemoveFirst \/ RecvFram PROVE Abstract!Shift
<1>1. /\ 1 \in 1 .. Len(q) /\ pFirst = q[1] /\ Left(q, 1) /\ IsList(Gone(q, 1))'
  BY NVTRRemoveFirstKeeps, RecvFramKeeps
<1>2. /\ pc = "idle" /\ pc' = "idle" /\ remote' = remote /\ pProf' = pProf
      /\ alive' \in {alive, alive \ {heap[pFirst].pUsr}}
  BY DEF NVTRRemoveFirst, RecvFram, matchVars
<1>3. /\ Listed \in Seq(alive) /\ Len(Listed) = Len(q) /\ Listed[1] = heap[q[1]].pUsr
  BY <1>1, ListedSeq
<1>4. /\ Listed # <<>> /\ Listed' = Tail(Listed) /\ Head(Listed) = heap[pFirst].pUsr
  <2>1. Listed' = Gone(Listed, 1)
    BY <1>1, LeftShows
  <2>2. Listed # <<>> /\ Gone(Listed, 1) = Tail(Listed) /\ Head(Listed) = Listed[1]
    BY <1>1, <1>3, GoneFirst
  <2> QED BY <1>1, <1>3, <2>1, <2>2
<1>5. Gone(q, 1) \in Seq(Cells)
  BY <1>1 DEF Left
<1>6. ToMeet' = ToMeet /\ Leaving' = Leaving /\ Ending' = Ending /\ Match' = Match /\ Abstract!Quiet
  BY <1>1, <1>2, <1>5, AtRest, AtRestNext DEF Match
<1> QED BY <1>2, <1>4, <1>6 DEF Abstract!Shift

\* A channel that is destroyed with its list was marked, so it is freed as well.
LEMMA DestroyEntryShows == ASSUME NEW q, IsList(q), DestroyEntry PROVE Abstract!FreeNext
<1>1. /\ 1 \in 1 .. Len(q) /\ pEntry = q[1] /\ Left(q, 1) /\ IsList(Gone(q, 1))'
  BY DestroyEntryKeeps
<1>2. /\ pc = "destroy" /\ pc' = "destroy" /\ remote' = remote /\ pProf' = pProf
      /\ alive' = IF kind = "channels" /\ heap[pEntry].pUsr \notin aborted
                  THEN alive ELSE alive \ {heap[pEntry].pUsr}
      /\ Phases
  BY DEF DestroyEntry, matchVars, IsList
<1>3. /\ Listed \in Seq(alive) /\ Len(Listed) = Len(q) /\ Listed[1] = heap[q[1]].pUsr
  BY <1>1, ListedSeq
<1>4. /\ Listed # <<>> /\ Listed' = Tail(Listed) /\ Head(Listed) = heap[pEntry].pUsr
  <2>1. Listed' = Gone(Listed, 1)
    BY <1>1, LeftShows
  <2>2. Listed # <<>> /\ Gone(Listed, 1) = Tail(Listed) /\ Head(Listed) = Listed[1]
    BY <1>1, <1>3, GoneFirst
  <2> QED BY <1>1, <1>3, <2>1, <2>2
<1>5. alive' = alive \ {heap[pEntry].pUsr}
  <2>1. pEntry \in live
    BY <1>1, ListFacts
  <2> QED BY <1>2, <2>1 DEF Phases, Ending
<1>6. ToMeet' = ToMeet /\ Leaving' = Leaving /\ Ending' = Ending /\ Match' = Match /\ Ending
  BY <1>2 DEF ToMeet, Leaving, Ending, Match
<1> QED BY <1>2, <1>4, <1>5, <1>6 DEF Abstract!FreeNext

\* A search ends with the removal of its object, if it was listed, and with its end.
LEMMA SearchEndShows == ASSUME NEW q, IsList(q), SearchEnd PROVE Abstract!Leave
<1>1. /\ pc = "search" /\ alive' = alive \ {pUsr} /\ pUsr' = NULL
      /\ pc' = IF kind = "sessions" THEN "walk" ELSE "idle"
      /\ pEntry' = pEntry /\ remote' = remote /\ pProf' = pProf
      /\ Phases
  BY DEF SearchEnd, matchVars, IsList
<1>2. Leaving = {pUsr} /\ Leaving' = {} /\ Ending' = Ending /\ Match' = Match
  BY <1>1 DEF Leaving, Ending, Match
<1>3. CASE pThis = NULL
  <2>1. IsList(q)' /\ heap' = heap /\ pc' = "idle" /\ \A c \in live : heap[c].pUsr # pUsr
    BY <1>3, SearchMissed
  <2>2. Leaving \intersect ToSet(Listed) = {}
    BY <1>2, <2>1, ListedSet
  <2>3. ToMeet' = ToMeet
    <3>1. q \in Seq(Cells) /\ pEntry = NULL
      BY <1>1, <2>1, ListFacts DEF Phases
    <3> QED BY <1>1, <2>1, <3>1, NothingToMeet, NothingToMeetNext
  <2> QED BY <1>1, <1>2, <2>1, <2>2, <2>3, SameList DEF Abstract!Leave, Abstract!ToSet, ToSet
<1>4. CASE pThis # NULL
  <2>1. PICK k \in 1 .. Len(q) : /\ heap[q[k]].pUsr = pUsr /\ Left(q, k) /\ IsList(Gone(q, k))'
                                 /\ pc' = "walk" => pEntry = At(q, k + 1)
    BY <1>4, SearchFound
  <2>. DEFINE r == Gone(q, k)
  <2>2. /\ q \in Seq(Cells) /\ r \in Seq(Cells) /\ Len(r) = Len(q) - 1 /\ Len(q) \in Nat
        /\ At(r, k) = At(q, k + 1)
    <3>1. k \in k .. Len(q)
      OBVIOUS
    <3> QED BY <2>1, <3>1, ListFacts DEF Left
  <2>3. /\ Listed \in Seq(alive) /\ Len(Listed) = Len(q) /\ Listed[k] = pUsr
    BY <2>1, ListedSeq
  <2>4. k \in DOMAIN Listed /\ Listed[k] \in Leaving /\ Listed' = Abstract!RemoveAt(Listed, k)
    <3>1. Listed' = Gone(Listed, k)
      BY <2>1, LeftShows
    <3>2. Gone(Listed, k) = Abstract!RemoveAt(Listed, k)
      BY <2>3, GoneRemoved
    <3> QED BY <1>2, <2>3, <3>1, <3>2
  <2>5. ToMeet' = ToMeet
    <3>1. CASE kind = "sessions"
      <4>1. pEntry = At(q, k + 1) /\ pEntry' = At(r, k) /\ pc' = "walk"
        BY <1>1, <2>1, <2>2, <3>1
      <4>2. k + 1 \in 1 .. Len(q) + 1 /\ k \in 1 .. Len(r) + 1
        BY <2>2
      <4>3. ToMeet = UsersAt(heap, q, k + 1)
        BY <1>1, <4>1, <4>2, ToMeetIs
      <4>4. ToMeet' = UsersAt(heap', r, k)
        BY <2>1, <2>2, <4>1, <4>2, ToMeetNext
      <4>5. UsersAt(heap', r, k) = UsersAt(heap, q, k + 1)
        <5>1. Len(r) + 1 - k = Len(q) + 1 - (k + 1)
          BY <2>2
        <5>2. ASSUME NEW i \in 1 .. Len(r) + 1 - k
              PROVE heap'[r[k + i - 1]].pUsr = heap[q[(k + 1) + i - 1]].pUsr
          <6>1. /\ k + i - 1 \in 1 .. Len(q) - 1 /\ ~(k + i - 1 < k)
                /\ (k + i - 1) + 1 = (k + 1) + i - 1 /\ k + i - 1 \in 1 .. Len(r)
            BY <2>2
          <6>2. r[k + i - 1] = q[(k + 1) + i - 1]
            BY <2>2, <6>1, GoneIs
          <6>3. r[k + i - 1] \in live' /\ \A d \in live' : heap'[d].pUsr = heap[d].pUsr
            <7>1. r[k + i - 1] \in Range(r)
              BY <2>2, <6>1, RangeIdx
            <7> QED BY <2>1, <7>1 DEF Left
          <6> QED BY <6>2, <6>3
        <5> QED BY <5>1, <5>2 DEF UsersAt
      <4> QED BY <4>3, <4>4, <4>5
    <3>2. CASE kind # "sessions"
      <4>1. pEntry = NULL /\ pEntry' = NULL
        BY <1>1, <3>2 DEF Phases
      <4> QED BY <2>1, <2>2, <4>1, NothingToMeet, NothingToMeetNext
    <3> QED BY <3>1, <3>2
  <2> QED BY <1>1, <1>2, <2>4, <2>5 DEF Abstract!Leave
<1> QED BY <1>3, <1>4
-----------------------------------------------------------------------------
\* The cursor of a walk goes on to the next cell.
LEMMA UsersNext ==
  ASSUME NEW q, IsList(q), NEW k \in 1 .. Len(q)
  PROVE  /\ UsersAt(heap, q, k) # <<>> /\ Head(UsersAt(heap, q, k)) = heap[q[k]].pUsr
         /\ Tail(UsersAt(heap, q, k)) = UsersAt(heap, q, k + 1)
<1>1. /\ Linked(heap, q) /\ Len(q) \in Nat /\ k \in 1 .. Len(q) + 1 /\ k + 1 \in 1 .. Len(q) + 1
  BY ListFacts
<1>2. Pointing(heap, q, alive)
  BY ListFacts DEF Pointing
<1>. DEFINE s == UsersAt(heap, q, k)
            t == UsersAt(heap, q, k + 1)
            m == Len(q) - k
<1>3. m \in Nat /\ Len(q) + 1 - k = m + 1 /\ Len(q) + 1 - (k + 1) = m
  BY <1>1
<1>4. s \in Seq(alive) /\ Len(s) = m + 1
  BY <1>1, <1>2, <1>3, UsersSeq
<1>5. t \in Seq(alive) /\ Len(t) = m
  BY <1>1, <1>2, <1>3, UsersSeq
<1>6. \A i \in 1 .. m + 1 : s[i] = heap[q[k + i - 1]].pUsr
  BY <1>3 DEF UsersAt
<1>7. \A i \in 1 .. m : t[i] = heap[q[(k + 1) + i - 1]].pUsr
  BY <1>3 DEF UsersAt
<1> HIDE DEF s, t, m
<1>8. s # <<>> /\ Head(s) = heap[q[k]].pUsr
  <2>1. s # <<>> /\ Head(s) = s[1] /\ 1 \in 1 .. m + 1 /\ k + 1 - 1 = k
    BY <1>3, <1>4
  <2> QED BY <1>6, <2>1
<1>9. Tail(s) \in Seq(alive) /\ Len(Tail(s)) = m /\ \A i \in 1 .. m : Tail(s)[i] = s[i + 1]
  BY <1>3, <1>4, <1>8
<1>10. ASSUME NEW i \in 1 .. m PROVE Tail(s)[i] = t[i]
  <2>1. i + 1 \in 1 .. m + 1 /\ k + (i + 1) - 1 = (k + 1) + i - 1
    BY <1>1, <1>3
  <2> QED BY <1>6, <1>7, <1>9, <2>1
<1>11. Tail(s) = t
  <2>1. Len(Tail(s)) = Len(t) /\ \A i \in 1 .. Len(Tail(s)) : Tail(s)[i] = t[i]
    BY <1>5, <1>9, <1>10
  <2> QED BY <1>5, <1>9, <2>1, SameSeq
<1> QED BY <1>8, <1>11 DEF s, t

\* A walk meets the next object, and a session that it meets may leave.
LEMMA MeetShows ==
  ASSUME NEW q, IsList(q), Visit \/ VisitAndRemove \/ MarkChannel PROVE Abstract!Meet
<1>1. /\ pc \in {"walk", "abort"} /\ pEntry # NULL /\ pEntry' = heap[pEntry].pNext
      /\ pc' \in {"walk", "abort"} \/ (pc' = "search" /\ pUsr' = heap[pEntry].pUsr)
      /\ alive' = alive /\ remote' = remote /\ pProf' = pProf /\ heap' = heap
  BY DEF Visit, VisitAndRemove, MarkChannel, StartSearch, matchVars, rootVars
<1>2. IsList(q)' /\ q \in Seq(Cells)
  BY VisitKeeps, VisitAndRemoveKeeps, MarkChannelKeeps, ListFacts
<1>3. PICK k \in 1 .. Len(q) : /\ pEntry = q[k] /\ heap[pEntry].pNext = At(q, k + 1)
                               /\ k + 1 \in 1 .. Len(q) + 1
  BY <1>1, EntryIs DEF Ending
<1>4. pEntry = At(q, k) /\ k \in 1 .. Len(q) + 1
  BY <1>2, <1>3 DEF At
<1>5. ToMeet = UsersAt(heap, q, k)
  BY <1>1, <1>4, ToMeetIs
<1>6. ToMeet' = UsersAt(heap, q, k + 1)
  <2>1. pEntry' = At(q, k + 1) /\ pc' \notin {"destroy", "match"}
    BY <1>1, <1>3
  <2> QED BY <1>1, <1>2, <1>3, <2>1, ToMeetNext
<1>7. ToMeet # <<>> /\ ToMeet' = Tail(ToMeet) /\ Head(ToMeet) = heap[pEntry].pUsr
  BY <1>3, <1>5, <1>6, UsersNext
<1>8. Leaving = {} /\ Leaving' \in {{}, {Head(ToMeet)}} /\ Ending' = Ending /\ Match' = Match
  BY <1>1, <1>7 DEF Leaving, Ending, Match
<1> QED BY <1>1, <1>2, <1>7, <1>8, SameList DEF Abstract!Meet

\* The first profile that the peer has too is the one that is found.
LEMMA MatchEndShows == ASSUME NEW q, IsList(q), MatchEnd PROVE Abstract!Settle
<1>1. /\ pc = "match" /\ pc' = "idle" /\ remote' = {} /\ pEntry' = NULL
      /\ \/ pEntry = NULL /\ pProf' = NULL
         \/ pEntry # NULL /\ heap[pEntry].pUsr \in remote /\ pProf' = heap[pEntry].pUsr
      /\ alive' = alive /\ heap' = heap
      /\ Phases /\ Cursor(q)
  BY DEF MatchEnd, rootVars, IsList
<1>2. IsList(q)' /\ q \in Seq(Cells) /\ Len(q) \in Nat /\ remote # {}
  BY <1>1, MatchEndKeeps, ListFacts DEF Phases
<1>3. ToMeet = <<>> /\ ToMeet' = <<>>
  BY <1>1, <1>2, AtRestNext DEF ToMeet
<1>4. Leaving' = Leaving /\ Ending' = Ending
  BY <1>1 DEF Leaving, Ending
<1>5. /\ DOMAIN Listed = 1 .. Len(q) /\ \A i \in 1 .. Len(q) : Listed[i] = heap[q[i]].pUsr
  BY ListedSeq
<1>. DEFINE fit == {i \in DOMAIN Listed : Listed[i] \in remote}
            first == {j \in fit : \A i \in fit : j <= i}
<1>6. PICK k \in 1 .. Len(q) + 1 :
        pEntry = At(q, k) /\ \A i \in 1 .. k - 1 : heap[q[i]].pUsr \notin remote
  BY <1>1 DEF Cursor, Ending
<1>7. \A i \in fit : i \in 1 .. Len(q) /\ k <= i
  BY <1>2, <1>5, <1>6
<1>8. Match' = {Listed[i] : i \in first}
  <2>1. CASE pEntry = NULL
    <3>1. k = Len(q) + 1
      <4>1. k \notin 1 .. Len(q)
        <5>1. At(q, k) = NULL /\ \A i \in 1 .. Len(q) : At(q, i) # NULL
          BY <1>2, <1>6, <2>1, AtIs
        <5> QED BY <5>1
      <4> QED BY <1>2, <4>1
    <3>2. fit = {}
      BY <1>2, <1>7, <3>1
    <3> QED BY <1>1, <2>1, <3>2 DEF Match
  <2>2. CASE pEntry # NULL
    <3>1. k \in 1 .. Len(q) /\ pEntry = q[k]
      BY <1>2, <1>6, <2>2 DEF At
    <3>2. Listed[k] = heap[pEntry].pUsr /\ Listed[k] \in remote
      BY <1>1, <1>5, <2>2, <3>1
    <3>3. k \in fit
      BY <1>5, <3>1, <3>2
    <3>4. first = {k}
      BY <1>7, <3>3
    <3>5. pProf' = Listed[k] /\ pProf' # NULL
      BY <1>1, <2>2, <3>1, <3>2, ListFacts
    <3> QED BY <3>4, <3>5 DEF Match
  <2> QED BY <2>1, <2>2
<1> QED BY <1>1, <1>2, <1>3, <1>4, <1>8, SameList DEF Abstract!Settle

\* The other steps move a cursor over the same list.
LEMMA NothingShows ==
  ASSUME NEW q, IsList(q), SearchNext \/ MatchNext \/ WalkEnds \/ UNCHANGED vars
  PROVE  UNCHANGED Abstract!listVars
<1>1. CASE UNCHANGED vars
  <2>1. UNCHANGED <<kind, heap, live, pFirst, pLast, pc, pEntry, pThis, pPrev, pUsr,
                    remote, pProf, alive, aborted>>
    BY <1>1 DEF vars, rootVars, searchVars, matchVars
  <2> QED BY <2>1 DEF Abstract!listVars, Listed, ToMeet, Leaving, Match, UsersFrom, Chain, Ending
<1>2. CASE SearchNext \/ MatchNext \/ WalkEnds
  <2>1. /\ UNCHANGED <<heap, pUsr, remote, pProf, alive>>
        /\ \/ pc \in {"match", "search"} /\ pc' = pc
           \/ pc = "walk" /\ pEntry = NULL /\ pEntry' = NULL /\ pc' = "idle"
        /\ pc = "search" => pEntry' = pEntry
    BY <1>2 DEF SearchNext, MatchNext, WalkEnds, rootVars, searchVars, matchVars
  <2>2. IsList(q)' /\ q \in Seq(Cells)
    BY <1>2, SearchNextKeeps, MatchNextKeeps, WalkEndsKeeps, ListFacts
  <2>3. ToMeet' = ToMeet
    <3>1. CASE pc = "match"
      BY <2>1, <3>1 DEF ToMeet
    <3>2. CASE pc = "search"
      <4>1. PICK k \in 1 .. Len(q) + 1 : pEntry = At(q, k)
        BY <3>2 DEF IsList, Cursor, Ending
      <4>2. ToMeet = UsersAt(heap, q, k)
        BY <3>2, <4>1, ToMeetIs
      <4>3. ToMeet' = UsersAt(heap', q, k)
        <5>1. pEntry' = At(q, k) /\ pc' \notin {"destroy", "match"}
          BY <2>1, <3>2, <4>1
        <5> QED BY <2>2, <5>1, ToMeetNext
      <4> QED BY <2>1, <4>2, <4>3
    <3>3. CASE pc = "walk"
      <4>1. pEntry = NULL /\ pEntry' = NULL
        BY <2>1, <3>3
      <4> QED BY <2>2, <4>1, NothingToMeet, NothingToMeetNext
    <3> QED BY <2>1, <3>1, <3>2, <3>3
  <2>4. Leaving' = Leaving /\ Match' = Match /\ Ending' = Ending
    BY <2>1 DEF Leaving, Match, Ending
  <2> QED BY <2>1, <2>2, <2>3, <2>4, SameList DEF Abstract!listVars
<1> QED BY <1>1, <1>2

\* Each step of the linked list is a step of the list of EntryList, or none.
LEMMA StepShows == ASSUME IInv, [Next]_vars PROVE [Abstract!Next]_(Abstract!listVars)
<1>1. PICK q \in Seq(Cells) : IsList(q)
  BY DEF IInv
<1>2. ASSUME NEW u \in Users, AddEntry(u) \/ AddFails(u) \/ FramDestroy(u) \/ ChanDestroy(u)
      PROVE  Abstract!Add(u) \/ Abstract!Refuse(u) \/ Abstract!FreeTaken(u) \/ Abstract!Dismiss(u)
  BY <1>1, <1>2, AddEntryShows, AddFailsShows, FramDestroyShows, ChanDestroyShows
<1>3. ASSUME NEW R \in (SUBSET Users) \ {{}}, FindMatch(R) PROVE Abstract!Seek(R)
  BY <1>1, <1>3, FindMatchShows
<1>4. NVTRRemoveFirst \/ RecvFram => Abstract!Shift
  BY <1>1, ShiftShows
<1>5. SearchEnd => Abstract!Leave
  BY <1>1, SearchEndShows
<1>6. StartWalk \/ StartAbort => Abstract!StartWalk
  BY <1>1, StartWalkShows
<1>7. Visit \/ VisitAndRemove \/ MarkChannel => Abstract!Meet
  BY <1>1, MeetShows
<1>8. (StartDestroy => Abstract!Finish) /\ (DestroyEntry => Abstract!FreeNext)
  BY <1>1, StartDestroyShows, DestroyEntryShows
<1>9. MatchEnd => Abstract!Settle
  BY <1>1, MatchEndShows
<1>10. SearchNext \/ MatchNext \/ WalkEnds \/ UNCHANGED vars => UNCHANGED Abstract!listVars
  BY <1>1, NothingShows
<1>11. CASE \E u \in Users : AddEntry(u) \/ AddFails(u) \/ FramDestroy(u) \/ ChanDestroy(u)
  BY <1>2, <1>11 DEF Abstract!Next
<1>12. CASE \E R \in (SUBSET Users) \ {{}} : FindMatch(R)
  BY <1>3, <1>12 DEF Abstract!Next
<1>13. CASE \/ NVTRRemoveFirst \/ RecvFram \/ SearchEnd \/ StartWalk \/ Visit \/ VisitAndRemove
            \/ StartAbort \/ MarkChannel \/ StartDestroy \/ DestroyEntry \/ MatchEnd
  BY <1>4, <1>5, <1>6, <1>7, <1>8, <1>9, <1>13 DEF Abstract!Next
<1>14. CASE SearchNext \/ MatchNext \/ WalkEnds \/ UNCHANGED vars
  BY <1>10, <1>14
<1> QED BY <1>11, <1>12, <1>13, <1>14 DEF Next

\* An empty chain shows an empty list.
LEMMA InitShows == ASSUME Init PROVE Abstract!Init
<1>1. IsList(<<>>) /\ Len(<<>>) = 0
  BY InitList
<1>2. pEntry = NULL /\ pc = "idle" /\ remote = {} /\ pProf = NULL /\ alive = {}
  BY DEF Init
<1>3. Listed = <<>>
  <2>1. Listed \in Seq(alive) /\ Len(Listed) = 0
    BY <1>1, ListedSeq
  <2> QED BY <2>1
<1>4. ToMeet = <<>>
  BY <1>1, <1>2, NothingToMeet
<1> QED BY <1>2, <1>3, <1>4 DEF Abstract!Init, Leaving, Match, Ending

\* The linked list of namevaluetree.c keeps the promises of EntryList: what its
\* users see through the pointers is a list whose walks meet every object once
\* while others leave, whose removals free the object that was asked for, once,
\* and no other, and whose matches are the first in the order of preference.
\* (KeepsList, without the fairness: that every loop comes to its end.)
THEOREM ImplementsEntryList == Spec => Abstract!Spec
<1>1. Init => Abstract!Init
  BY InitShows
<1>2. IInv /\ [Next]_vars => [Abstract!Next]_(Abstract!listVars)
  BY StepShows
<1> QED BY <1>1, <1>2, Inductive, PTL DEF Spec, Abstract!Spec
=============================================================================
