---------------------------- MODULE Queues_proofs ----------------------------
(***************************************************************************)
(* What Queues and the operations on sequences do to the elements of a     *)
(* queue: the facts the proofs about the components cite.                  *)
(***************************************************************************)
EXTENDS Queues, Functions, TLAPS, WellFoundedInduction

\* Induction over the natural numbers, for a set (the library's theorems take
\* an operator).
LEMMA SetInduction ==
  ASSUME NEW T, T \subseteq Nat, 0 \in T, \A n \in T : n + 1 \in T
  PROVE  T = Nat
<1>. SUFFICES ASSUME Nat \ T # {} PROVE FALSE
  OBVIOUS
<1>. DEFINE R == OpToRel(<, Nat)
            U == Nat \ T
<1>1. IsWellFoundedOn(R, Nat)
  BY NatLessThanWellFounded
<1>2. \A x \in Nat : x - 1 \in Nat => <<x - 1, x>> \in R
  <2>. SUFFICES ASSUME NEW x \in Nat, x - 1 \in Nat PROVE <<x - 1, x>> \in R
    OBVIOUS
  <2>1. x - 1 < x
    OBVIOUS
  <2> QED BY <2>1, Zenon DEF OpToRel
<1> HIDE DEF R
<1>3. PICK x \in U : \A y \in U : ~ (<<y, x>> \in R)
  <2>1. U \subseteq Nat /\ U # {}
    OBVIOUS
  <2> HIDE DEF U
  <2> QED BY <1>1, <2>1, WFMin
<1>4. x \in Nat /\ x # 0 /\ x - 1 \in Nat
  BY <1>3
<1>5. x - 1 \in T
  BY <1>2, <1>3, <1>4
<1>6. x \in T
  BY <1>4, <1>5
<1> QED BY <1>3, <1>6

\* g is the function Without walks the queue with.
Keeps(g, q, S) ==
  g = [n \in 0 .. Len(q) |->
         IF n = 0 THEN <<>>
         ELSE IF q[n] \in S THEN g[n - 1] ELSE Append(g[n - 1], q[n])]

\* kept is a function.
LEMMA KeptExists ==
  ASSUME NEW D, NEW q \in Seq(D), NEW S
  PROVE  \E g : Keeps(g, q, S)
<1>. DEFINE Kept(g, m) ==
              \A n \in 0 .. m :
                g[n] = IF n = 0 THEN <<>>
                       ELSE IF q[n] \in S THEN g[n - 1] ELSE Append(g[n - 1], q[n])
            T == {m \in Nat : m <= Len(q) => \E g \in [0 .. m -> Seq(D)] : Kept(g, m)}
<1>1. 0 \in T
  <2>1. [n \in 0 .. 0 |-> <<>>] \in [0 .. 0 -> Seq(D)]
    OBVIOUS
  <2>2. Kept([n \in 0 .. 0 |-> <<>>], 0)
    OBVIOUS
  <2> QED BY <2>1, <2>2
<1>2. ASSUME NEW m \in Nat, m + 1 <= Len(q), NEW g \in [0 .. m -> Seq(D)], Kept(g, m)
      PROVE  \E h \in [0 .. m + 1 -> Seq(D)] : Kept(h, m + 1)
  <2>. DEFINE last == IF q[m + 1] \in S THEN g[m] ELSE Append(g[m], q[m + 1])
              h == [n \in 0 .. m + 1 |-> IF n = m + 1 THEN last ELSE g[n]]
  <2>1. last \in Seq(D)
    BY <1>2
  <2>2. h \in [0 .. m + 1 -> Seq(D)]
    BY <2>1
  <2>3. ASSUME NEW n \in 0 .. m + 1
        PROVE h[n] = IF n = 0 THEN <<>>
                     ELSE IF q[n] \in S THEN h[n - 1] ELSE Append(h[n - 1], q[n])
    <3>1. CASE n = m + 1
      <4>1. h[n] = last /\ h[n - 1] = g[m] /\ n # 0
        BY <3>1
      <4> QED BY <3>1, <4>1
    <3>2. CASE n \in 0 .. m
      <4>1. h[n] = g[n] /\ (n # 0 => h[n - 1] = g[n - 1])
        BY <3>2
      <4> QED BY <4>1, <3>2, <1>2
    <3> QED BY <3>1, <3>2
  <2>4. Kept(h, m + 1)
    BY <2>3
  <2> QED BY <2>2, <2>4
<1>3. Len(q) \in T
  <2>1. T \subseteq Nat
    OBVIOUS
  <2>2. \A m \in T : m + 1 \in T
    <3> HIDE DEF Kept
    <3> QED BY <1>2
  <2> HIDE DEF T
  <2>3. T = Nat
    BY <1>1, <2>1, <2>2, SetInduction
  <2> QED BY <2>3
<1>4. PICK g \in [0 .. Len(q) -> Seq(D)] : Kept(g, Len(q))
  BY <1>3
<1> QED BY <1>4 DEF Keeps

\* Without keeps what is not in S, in its place relative to the others.
LEMMA WithoutIs ==
  ASSUME NEW D, NEW q \in Seq(D), NEW S
  PROVE  /\ Without(q, S) \in Seq(D)
         /\ Range(Without(q, S)) = Range(q) \ S
         /\ (\A i, j \in 1 .. Len(q) : q[i] = q[j] => i = j)
            => \A i, j \in 1 .. Len(Without(q, S)) :
                  Without(q, S)[i] = Without(q, S)[j] => i = j
<1>. DEFINE g == CHOOSE g : Keeps(g, q, S)
<1>1. Without(q, S) = g[Len(q)]
  BY DEF Without, Keeps
<1>2. Keeps(g, q, S)
  BY KeptExists
<1> HIDE DEF g
<1>3. /\ g[0] = <<>>
      /\ \A n \in 0 .. Len(q) : n # 0 =>
            g[n] = IF q[n] \in S THEN g[n - 1] ELSE Append(g[n - 1], q[n])
  <2>1. 0 \in 0 .. Len(q)
    OBVIOUS
  <2>2. \A n \in 0 .. Len(q) : g[n] = IF n = 0 THEN <<>>
         ELSE IF q[n] \in S THEN g[n - 1] ELSE Append(g[n - 1], q[n])
    <3>. DEFINE e(n) == IF n = 0 THEN <<>>
         ELSE IF q[n] \in S THEN g[n - 1] ELSE Append(g[n - 1], q[n])
    <3>1. g = [n \in 0 .. Len(q) |-> e(n)]
      BY <1>2 DEF Keeps
    <3> HIDE DEF e
    <3>2. \A n \in 0 .. Len(q) : g[n] = e(n)
      BY <3>1
    <3> QED BY <3>2 DEF e
  <2> QED BY <2>1, <2>2
<1>. DEFINE Good(m) ==
       /\ g[m] \in Seq(D)
       /\ \A x : (\E i \in 1 .. Len(g[m]) : g[m][i] = x)
                   <=> (\E i \in 1 .. m : q[i] = x) /\ x \notin S
       /\ (\A i, j \in 1 .. Len(q) : q[i] = q[j] => i = j)
            => \A i, j \in 1 .. Len(g[m]) : g[m][i] = g[m][j] => i = j
     T == {m \in Nat : m <= Len(q) => Good(m)}
<1>4. Good(0)
  BY <1>3
<1>5. ASSUME NEW m \in Nat, m + 1 <= Len(q), Good(m) PROVE Good(m + 1)
  <2>1. g[m + 1] = IF q[m + 1] \in S THEN g[m] ELSE Append(g[m], q[m + 1])
    BY <1>3, <1>5
  <2>2. m + 1 \in 1 .. Len(q) /\ q[m + 1] \in D
    BY <1>5
  <2>3. CASE q[m + 1] \in S
    BY <2>1, <2>2, <2>3, <1>5
  <2>4. CASE q[m + 1] \notin S
    <3>. DEFINE p == g[m]
                x == q[m + 1]
    <3>1. /\ p \in Seq(D)
          /\ \A y : (\E i \in 1 .. Len(p) : p[i] = y)
                   <=> (\E i \in 1 .. m : q[i] = y) /\ y \notin S
          /\ (\A i, j \in 1 .. Len(q) : q[i] = q[j] => i = j)
            => \A i, j \in 1 .. Len(p) : p[i] = p[j] => i = j
          /\ g[m + 1] = Append(p, x) /\ x \in D /\ x \notin S
      BY <1>5, <2>1, <2>2, <2>4
    <3>2. /\ Append(p, x) \in Seq(D) /\ Len(Append(p, x)) = Len(p) + 1
          /\ Append(p, x)[Len(p) + 1] = x
          /\ \A i \in 1 .. Len(p) : Append(p, x)[i] = p[i]
      BY <3>1
    <3> HIDE DEF p
    <3>3. ASSUME NEW y
          PROVE (\E i \in 1 .. Len(Append(p, x)) : Append(p, x)[i] = y)
                  <=> (\E i \in 1 .. m + 1 : q[i] = y) /\ y \notin S
      BY <3>1, <3>2, <2>2
    <3>4. ASSUME \A i, j \in 1 .. Len(q) : q[i] = q[j] => i = j
          PROVE  \A i, j \in 1 .. Len(p) + 1 : Append(p, x)[i] = Append(p, x)[j] => i = j
      <4>1. ASSUME NEW i \in 1 .. Len(p), p[i] = x PROVE FALSE
        <5>1. PICK k \in 1 .. m : q[k] = x
          BY <3>1, <4>1
        <5> QED BY <5>1, <3>4, <2>2, <1>5
      <4> QED BY <4>1, <3>1, <3>2, <3>4
    <3>5. /\ \A i \in 1 .. Len(Append(p, x)) : i \in 1 .. Len(p) + 1
          /\ Append(p, x) \in Seq(D)
      BY <3>2
    <3>6. (\A i, j \in 1 .. Len(q) : q[i] = q[j] => i = j)
            => \A i, j \in 1 .. Len(Append(p, x)) : Append(p, x)[i] = Append(p, x)[j] => i = j
      BY <3>4, <3>5
    <3> QED BY <3>1, <3>3, <3>5, <3>6, Zenon
  <2> QED BY <2>3, <2>4
<1>6. Good(Len(q))
  <2> HIDE DEF Good
  <2>1. T \subseteq Nat /\ 0 \in T /\ \A m \in T : m + 1 \in T
    BY <1>4, <1>5
  <2> HIDE DEF T
  <2>2. T = Nat
    BY <2>1, SetInduction
  <2> QED BY <2>2 DEF T
<1>. DEFINE w == Without(q, S)
<1>7. /\ w \in Seq(D)
      /\ \A x : (\E i \in 1 .. Len(w) : w[i] = x)
                   <=> (\E i \in 1 .. Len(q) : q[i] = x) /\ x \notin S
      /\ (\A i, j \in 1 .. Len(q) : q[i] = q[j] => i = j)
            => \A i, j \in 1 .. Len(w) : w[i] = w[j] => i = j
  BY <1>1, <1>6
<1> HIDE DEF w
<1>8. Range(w) = Range(q) \ S
  <2>1. DOMAIN w = 1 .. Len(w) /\ DOMAIN q = 1 .. Len(q)
    BY <1>7
  <2>2. \A x : (x \in Range(w) <=> \E i \in 1 .. Len(w) : w[i] = x)
               /\ (x \in Range(q) <=> \E i \in 1 .. Len(q) : q[i] = x)
    BY <2>1 DEF Range
  <2> QED BY <2>2, <1>7
<1> QED
  BY <1>7, <1>8 DEF w
-----------------------------------------------------------------------------
(***************************************************************************)
(* What a queue holds after each of the ways it changes.                   *)
(***************************************************************************)
LEMMA RangeEmpty == Range(<<>>) = {}
  BY DEF Range

\* A queue of one element.
LEMMA RangeOne == ASSUME NEW e PROVE Range(<<e>>) = {e}
  BY DEF Range

\* The elements of a queue by their place.
LEMMA RangeIdx ==
  ASSUME NEW D, NEW q \in Seq(D)
  PROVE  /\ \A x : x \in Range(q) <=> \E i \in 1 .. Len(q) : q[i] = x
         /\ \A i \in 1 .. Len(q) : q[i] \in Range(q)
         /\ Range(q) \subseteq D
         /\ q = <<>> <=> Range(q) = {}
<1>1. DOMAIN q = 1 .. Len(q)
  OBVIOUS
<1>2. \A x : x \in Range(q) <=> \E i \in 1 .. Len(q) : q[i] = x
  BY <1>1 DEF Range
<1>3. q = <<>> => Range(q) = {}
  BY RangeEmpty
<1>4. ASSUME Range(q) = {} PROVE q = <<>>
  <2>1. Len(q) = 0
    BY <1>2, <1>4
  <2> QED BY <2>1
<1> QED BY <1>2, <1>3, <1>4

\* The first element is taken.
LEMMA RangeTail ==
  ASSUME NEW D, NEW q \in Seq(D), q # <<>>
  PROVE  /\ Tail(q) \in Seq(D) /\ Head(q) \in D /\ Head(q) \in Range(q)
         /\ Range(q) = {Head(q)} \union Range(Tail(q))
         /\ Range(Tail(q)) \subseteq Range(q)
<1>1. Tail(q) \in Seq(D) /\ Head(q) \in D
  OBVIOUS
<1>2. ASSUME NEW x
      PROVE (\E i \in 1 .. Len(q) : q[i] = x)
              <=> x = Head(q) \/ \E i \in 1 .. Len(Tail(q)) : Tail(q)[i] = x
  <2>1. /\ 1 \in 1 .. Len(q) /\ Head(q) = q[1] /\ Len(Tail(q)) = Len(q) - 1
        /\ \A i \in 1 .. Len(Tail(q)) : i + 1 \in 1 .. Len(q) /\ Tail(q)[i] = q[i + 1]
    OBVIOUS
  <2>2. ASSUME NEW i \in 1 .. Len(q), i # 1
        PROVE  i - 1 \in 1 .. Len(Tail(q)) /\ Tail(q)[i - 1] = q[i]
    <3>1. i - 1 \in 1 .. Len(Tail(q))
      BY <2>1, <2>2
    <3>2. Tail(q)[i - 1] = q[(i - 1) + 1]
      BY <2>1, <3>1
    <3> QED BY <3>1, <3>2
  <2>3. ASSUME NEW i \in 1 .. Len(q), q[i] = x
        PROVE  x = Head(q) \/ \E j \in 1 .. Len(Tail(q)) : Tail(q)[j] = x
    BY <2>1, <2>2, <2>3
  <2>4. x = Head(q) \/ (\E i \in 1 .. Len(Tail(q)) : Tail(q)[i] = x)
          => \E i \in 1 .. Len(q) : q[i] = x
    BY <2>1
  <2> QED BY <2>3, <2>4
<1> QED BY <1>1, <1>2, RangeIdx

\* An element is added.
LEMMA RangeAppend ==
  ASSUME NEW D, NEW q \in Seq(D), NEW e \in D
  PROVE  /\ Append(q, e) \in Seq(D) /\ Append(q, e) # <<>>
         /\ Range(Append(q, e)) = Range(q) \union {e}
<1>1. /\ Append(q, e) \in Seq(D) /\ Append(q, e) # <<>>
      /\ Len(Append(q, e)) = Len(q) + 1 /\ Append(q, e)[Len(q) + 1] = e
      /\ \A i \in 1 .. Len(q) : Append(q, e)[i] = q[i]
  OBVIOUS
<1>2. ASSUME NEW x
      PROVE (\E i \in 1 .. Len(Append(q, e)) : Append(q, e)[i] = x)
              <=> x = e \/ \E i \in 1 .. Len(q) : q[i] = x
  BY <1>1
<1> QED BY <1>1, <1>2, RangeIdx

\* A queue is added.
LEMMA RangeConcat ==
  ASSUME NEW D, NEW p \in Seq(D), NEW q \in Seq(D)
  PROVE  /\ p \o q \in Seq(D)
         /\ Range(p \o q) = Range(p) \union Range(q)
<1>1. /\ p \o q \in Seq(D) /\ Len(p \o q) = Len(p) + Len(q)
      /\ \A i \in 1 .. Len(p) : (p \o q)[i] = p[i]
      /\ \A i \in 1 .. Len(q) : (p \o q)[Len(p) + i] = q[i]
      /\ \A i \in 1 .. Len(p \o q) : i \in 1 .. Len(p) \/ i - Len(p) \in 1 .. Len(q)
  OBVIOUS
<1>2. ASSUME NEW x
      PROVE (\E i \in 1 .. Len(p \o q) : (p \o q)[i] = x)
              <=> (\E i \in 1 .. Len(p) : p[i] = x) \/ \E i \in 1 .. Len(q) : q[i] = x
  <2>1. ASSUME NEW i \in 1 .. Len(q) PROVE Len(p) + i \in 1 .. Len(p \o q)
    BY <1>1
  <2>2. ASSUME NEW i \in 1 .. Len(p \o q), i \notin 1 .. Len(p)
        PROVE  i - Len(p) \in 1 .. Len(q) /\ (p \o q)[i] = q[i - Len(p)]
    <3>1. i - Len(p) \in 1 .. Len(q)
      BY <1>1, <2>2
    <3>2. (p \o q)[Len(p) + (i - Len(p))] = q[i - Len(p)]
      BY <1>1, <3>1
    <3> QED BY <3>1, <3>2
  <2>3. \A i \in 1 .. Len(p) : i \in 1 .. Len(p \o q)
    BY <1>1
  <2> QED BY <1>1, <2>1, <2>2, <2>3
<1> QED BY <1>1, <1>2, RangeIdx

\* The queue is cut short.
LEMMA RangeFront ==
  ASSUME NEW D, NEW q \in Seq(D), NEW n \in 0 .. Len(q)
  PROVE  /\ SubSeq(q, 1, n) \in Seq(D)
         /\ Len(SubSeq(q, 1, n)) = n
         /\ \A i \in 1 .. n : SubSeq(q, 1, n)[i] = q[i]
         /\ Range(SubSeq(q, 1, n)) \subseteq Range(q)
<1>1. /\ SubSeq(q, 1, n) \in Seq(D) /\ Len(SubSeq(q, 1, n)) = n
      /\ \A i \in 1 .. n : SubSeq(q, 1, n)[i] = q[i]
  OBVIOUS
<1>2. \A i \in 1 .. n : i \in 1 .. Len(q)
  OBVIOUS
<1>. DEFINE p == SubSeq(q, 1, n)
<1>4. p \in Seq(D) /\ Len(p) = n /\ \A i \in 1 .. n : p[i] = q[i]
  BY <1>1
<1> HIDE DEF p
<1>3. ASSUME NEW x \in Range(p) PROVE x \in Range(q)
  <2>1. PICK i \in 1 .. n : p[i] = x
    BY <1>4, RangeIdx
  <2> QED BY <1>4, <1>2, <2>1, RangeIdx
<1> QED BY <1>1, <1>3 DEF p
-----------------------------------------------------------------------------
(***************************************************************************)
(* Queues that hold nothing twice.                                         *)
(***************************************************************************)
\* Nothing is in the queue twice.
Distinct(q) == \A i, j \in 1 .. Len(q) : q[i] = q[j] => i = j

\* The queue grows and shrinks without doubling anything.
LEMMA DistinctTail ==
  ASSUME NEW D, NEW q \in Seq(D), q # <<>>, Distinct(q)
  PROVE  Distinct(Tail(q)) /\ Head(q) \notin Range(Tail(q))
<1>1. /\ 1 \in 1 .. Len(q) /\ Head(q) = q[1] /\ Len(Tail(q)) = Len(q) - 1
      /\ Tail(q) \in Seq(D)
      /\ \A i \in 1 .. Len(Tail(q)) : i + 1 \in 1 .. Len(q) /\ Tail(q)[i] = q[i + 1]
  OBVIOUS
<1>2. Distinct(Tail(q))
  BY <1>1 DEF Distinct
<1>3. ASSUME Head(q) \in Range(Tail(q)) PROVE FALSE
  <2>1. PICK i \in 1 .. Len(Tail(q)) : Tail(q)[i] = Head(q)
    BY <1>1, <1>3, RangeIdx
  <2>2. q[i + 1] = q[1] /\ i + 1 \in 1 .. Len(q) /\ i + 1 # 1
    BY <1>1, <2>1
  <2> QED BY <1>1, <2>2 DEF Distinct
<1> QED BY <1>2, <1>3

\* Something new is added.
LEMMA DistinctAppend ==
  ASSUME NEW D, NEW q \in Seq(D), NEW e \in D, Distinct(q), e \notin Range(q)
  PROVE  Distinct(Append(q, e))
<1>1. /\ Len(Append(q, e)) = Len(q) + 1 /\ Append(q, e)[Len(q) + 1] = e
      /\ \A i \in 1 .. Len(q) : Append(q, e)[i] = q[i] /\ q[i] # e
  BY RangeIdx
<1> QED BY <1>1 DEF Distinct

\* The empty queue.
LEMMA DistinctEmpty == Distinct(<<>>)
  BY DEF Distinct
=============================================================================
