------------------------- MODULE FrameStream_proofs -------------------------
(***************************************************************************)
(* The listener reads what the client wrote, and hands over what was       *)
(* logged: for any texts, any FrameMax and any length of the session.      *)
(*                                                                         *)
(* In order: reading a %u back gives the number (DecimalTells); the text   *)
(* of a frame, taken from the right (RestIs, WholeIs); for every state of  *)
(* the machine, what is left of the frame it is in (Expects), and that the *)
(* next octet leads to a state that waits for one octet less               *)
(* (MachineReads); the octets on their way as the rest of a frame and the  *)
(* frames after it (Follows); and the invariant IInv.                      *)
(*                                                                         *)
(* Then the payloads: what a fold does, as a path of states (FoldPath);    *)
(* the messages a RAW text is split into, put together again               *)
(* (SplitRejoins); the text behind a MIME header (MIMEExtractText); and    *)
(* the invariant TInv, IInv with the payload of every frame.               *)
(***************************************************************************)
EXTENDS FrameStream, Queues_proofs, SequenceTheorems

\* The octets.  (All of them are in STRING, but the provers do not know that of
\* a literal.)
Literals == {"0", "1", "2", "3", "4", "5", "6", "7", "8", "9", " ", ".", CR, LF,
             "A", "D", "E", "G", "H", "L", "M", "N", "P", "Q", "R", "S", "U", "Y",
             "e", "k"}
Octet == STRING \union Literals
-----------------------------------------------------------------------------
(***************************************************************************)
(* Numbers in decimal.                                                     *)
(***************************************************************************)
\* What %u makes of n, when d has the texts of the smaller numbers.
DecimalStep(d, n) ==
  IF n < 10 THEN <<Digit[n + 1]>>
  ELSE Append(d[n \div 10], Digit[(n % 10) + 1])

LEMMA DivMod ==
  ASSUME NEW n \in Nat
  PROVE  /\ n \div 10 \in Nat
         /\ n % 10 \in 0 .. 9
         /\ n = 10 * (n \div 10) + (n % 10)
         /\ n >= 10 => n \div 10 < n
OBVIOUS

LEMMA DigitType ==
  /\ \A k \in 1 .. 10 : Digit[k] \in Octet
  /\ ToSet(Digit) = {Digit[k] : k \in 1 .. 10}
  /\ \A c \in ToSet(Digit) : DigitVal[c] \in 0 .. 9 /\ Digit[DigitVal[c] + 1] = c
<1>1. \A k \in 1 .. 10 : Digit[k] \in Octet
  <2>1. \A k \in 1 .. 10 :
          Digit[k] \in {"0", "1", "2", "3", "4", "5", "6", "7", "8", "9"}
    BY DEF Digit
  <2>2. {"0", "1", "2", "3", "4", "5", "6", "7", "8", "9"} \subseteq Octet
    BY DEF Octet, Literals
  <2> QED BY <2>1, <2>2
<1>2. ToSet(Digit) = {Digit[k] : k \in 1 .. 10}
  <2>1. DOMAIN Digit = 1 .. 10
    BY DEF Digit
  <2> QED BY <2>1 DEF ToSet
<1>3. ASSUME NEW c \in ToSet(Digit)
      PROVE  DigitVal[c] \in 0 .. 9 /\ Digit[DigitVal[c] + 1] = c
  <2>1. PICK k \in 1 .. 10 : c = Digit[k]
    BY <1>2
  <2>2. k - 1 \in 0 .. 9 /\ (k - 1) + 1 = k
    OBVIOUS
  <2>3. \E d \in 0 .. 9 : Digit[d + 1] = c
    BY <2>1, <2>2
  <2>4. DigitVal[c] = CHOOSE d \in 0 .. 9 : Digit[d + 1] = c
    BY DEF DigitVal
  <2> QED BY <2>3, <2>4
<1> QED BY <1>1, <1>2, <1>3

\* The digits are ten different octets, and DigitVal tells them apart.
LEMMA DigitOfVal ==
  \A d \in 0 .. 9 : Digit[d + 1] \in ToSet(Digit) /\ DigitVal[Digit[d + 1]] = d
<1>. SUFFICES ASSUME NEW d \in 0 .. 9
              PROVE  Digit[d + 1] \in ToSet(Digit) /\ DigitVal[Digit[d + 1]] = d
  OBVIOUS
<1>1. d + 1 \in 1 .. 10
  OBVIOUS
<1>2. Digit[d + 1] \in ToSet(Digit)
  BY <1>1, DigitType
<1>3. DigitVal[Digit[d + 1]] \in 0 .. 9
      /\ Digit[DigitVal[Digit[d + 1]] + 1] = Digit[d + 1]
  BY <1>2, DigitType
<1>4. \A a, b \in 0 .. 9 : Digit[a + 1] = Digit[b + 1] => a = b
  BY DEF Digit
<1> QED BY <1>2, <1>3, <1>4

DecimalUpTo(d, m) ==
  d \in [0 .. m -> Seq(Octet)] /\ \A n \in 0 .. m : d[n] = DecimalStep(d, n)

LEMMA DecimalUpToExists ==
  \A m \in Nat : \E d : DecimalUpTo(d, m)
<1>. DEFINE T == {m \in Nat : \E d : DecimalUpTo(d, m)}
<1>1. 0 \in T
  <2>. DEFINE d == [n \in 0 .. 0 |-> <<Digit[1]>>]
  <2>1. <<Digit[1]>> \in Seq(Octet)
    BY DigitType
  <2>2. d \in [0 .. 0 -> Seq(Octet)]
    BY <2>1
  <2>3. \A n \in 0 .. 0 : d[n] = DecimalStep(d, n)
    BY DEF DecimalStep
  <2> QED BY <2>2, <2>3 DEF DecimalUpTo
<1>2. ASSUME NEW m \in Nat, NEW d, DecimalUpTo(d, m)
      PROVE  \E e : DecimalUpTo(e, m + 1)
  <2>. DEFINE last == DecimalStep(d, m + 1)
              e == [n \in 0 .. m + 1 |-> IF n = m + 1 THEN last ELSE d[n]]
  <2>1. last \in Seq(Octet)
    <3>1. CASE m + 1 < 10
      <4>1. (m + 1) + 1 \in 1 .. 10
        BY <3>1
      <4> QED BY <4>1, <3>1, DigitType DEF DecimalStep
    <3>2. CASE m + 1 >= 10
      <4>1. (m + 1) \div 10 \in 0 .. m /\ ((m + 1) % 10) + 1 \in 1 .. 10
        BY <3>2, DivMod
      <4>2. d[(m + 1) \div 10] \in Seq(Octet)
        BY <4>1, <1>2 DEF DecimalUpTo
      <4>3. Digit[((m + 1) % 10) + 1] \in Octet
        BY <4>1, DigitType
      <4>4. last = Append(d[(m + 1) \div 10], Digit[((m + 1) % 10) + 1])
        BY <3>2 DEF DecimalStep
      <4> HIDE DEF last
      <4> QED BY <4>2, <4>3, <4>4
    <3> QED BY <3>1, <3>2
  <2>2. e \in [0 .. m + 1 -> Seq(Octet)]
    BY <2>1, <1>2 DEF DecimalUpTo
  <2>3. ASSUME NEW n \in 0 .. m + 1 PROVE e[n] = DecimalStep(e, n)
    <3>1. n >= 10 => n \div 10 \in 0 .. m
      BY DivMod
    <3>2. n >= 10 => e[n \div 10] = d[n \div 10]
      BY <3>1
    <3>3. DecimalStep(e, n) = DecimalStep(d, n)
      BY <3>2 DEF DecimalStep
    <3>4. n # m + 1 => d[n] = DecimalStep(d, n)
      BY <1>2 DEF DecimalUpTo
    <3>5. e[n] = IF n = m + 1 THEN last ELSE d[n]
      OBVIOUS
    <3> QED BY <3>3, <3>4, <3>5
  <2> QED BY <2>2, <2>3 DEF DecimalUpTo
<1>3. T \subseteq Nat /\ \A m \in T : m + 1 \in T
  BY <1>2
<1> HIDE DEF T
<1>4. T = Nat
  BY <1>1, <1>3, SetInduction
<1> QED BY <1>4 DEF T

LEMMA DecimalUpToUnique ==
  ASSUME NEW m \in Nat, NEW k \in Nat, NEW d, NEW e,
         DecimalUpTo(d, m), DecimalUpTo(e, k)
  PROVE  \A n \in Nat : n <= m /\ n <= k => d[n] = e[n]
<1>. DEFINE T == {j \in Nat : \A n \in 0 .. j : n <= m /\ n <= k => d[n] = e[n]}
<1>1. ASSUME NEW n \in Nat, n <= m, n <= k,
             \A i \in Nat : i < n /\ i <= m /\ i <= k => d[i] = e[i]
      PROVE  d[n] = e[n]
  <2>1. n >= 10 => d[n \div 10] = e[n \div 10]
    BY <1>1, DivMod
  <2>2. DecimalStep(d, n) = DecimalStep(e, n)
    BY <2>1 DEF DecimalStep
  <2> QED BY <1>1, <2>2 DEF DecimalUpTo
<1>2. 0 \in T
  <2>1. d[0] = e[0]
    BY <1>1
  <2> QED BY <2>1
<1>3. ASSUME NEW j \in T PROVE j + 1 \in T
  <2>1. ASSUME NEW n \in 0 .. j + 1, n <= m, n <= k PROVE d[n] = e[n]
    BY <1>1, <1>3, <2>1
  <2> QED BY <2>1
<1>4. T \subseteq Nat
  OBVIOUS
<1> HIDE DEF T
<1>5. T = Nat
  BY <1>2, <1>3, <1>4, SetInduction
<1> QED BY <1>5 DEF T

\* Decimal is a function, and does what its definition says.
LEMMA DecimalIs ==
  \A n \in Nat : Decimal[n] \in Seq(Octet) /\ Decimal[n] = DecimalStep(Decimal, n)
<1>. DEFINE A(m) == CHOOSE d : DecimalUpTo(d, m)
            dec == [n \in Nat |-> A(n)[n]]
<1>1. \A m \in Nat : DecimalUpTo(A(m), m)
  BY DecimalUpToExists
<1>2. \A m \in Nat : dec[m] = A(m)[m]
  OBVIOUS
<1> HIDE DEF A
<1>3. ASSUME NEW n \in Nat PROVE dec[n] \in Seq(Octet) /\ dec[n] = DecimalStep(dec, n)
  <2>1. DecimalUpTo(A(n), n)
    BY <1>1
  <2>2. A(n)[n] \in Seq(Octet) /\ A(n)[n] = DecimalStep(A(n), n)
    BY <2>1 DEF DecimalUpTo
  <2>3. n >= 10 => A(n)[n \div 10] = dec[n \div 10]
    <3>. SUFFICES ASSUME n >= 10 PROVE A(n)[n \div 10] = dec[n \div 10]
      OBVIOUS
    <3>1. n \div 10 \in Nat /\ n \div 10 <= n
      BY DivMod
    <3>2. DecimalUpTo(A(n \div 10), n \div 10)
      BY <3>1, <1>1
    <3>3. A(n)[n \div 10] = A(n \div 10)[n \div 10]
      BY <2>1, <3>1, <3>2, DecimalUpToUnique
    <3> QED BY <3>1, <3>3, <1>2
  <2>4. DecimalStep(A(n), n) = DecimalStep(dec, n)
    BY <2>3 DEF DecimalStep
  <2> QED BY <2>2, <2>4, <1>2
<1>4. dec = [n \in Nat |-> IF n < 10 THEN <<Digit[n + 1]>>
                           ELSE Append(dec[n \div 10], Digit[(n % 10) + 1])]
  <2>1. \A n \in Nat : dec[n] = IF n < 10 THEN <<Digit[n + 1]>>
                           ELSE Append(dec[n \div 10], Digit[(n % 10) + 1])
    <3> HIDE DEF dec
    <3> QED BY <1>3 DEF DecimalStep
  <2>2. dec = [n \in Nat |-> dec[n]]
    OBVIOUS
  <2> HIDE DEF dec
  <2> QED BY <2>1, <2>2, Zenon
<1>. HIDE DEF dec
<1>5. Decimal = [n \in Nat |-> IF n < 10 THEN <<Digit[n + 1]>>
                               ELSE Append(Decimal[n \div 10], Digit[(n % 10) + 1])]
  BY <1>4, Zenon DEF Decimal
<1>6. \A n \in Nat : Decimal[n] = DecimalStep(Decimal, n)
  BY <1>5, Zenon DEF DecimalStep
<1>7. ASSUME NEW m \in Nat PROVE Decimal[m] \in Seq(Octet)
  <2>. DEFINE T == {j \in Nat : \A n \in 0 .. j : Decimal[n] \in Seq(Octet)}
  <2>1. ASSUME NEW n \in Nat, \A i \in Nat : i < n => Decimal[i] \in Seq(Octet)
        PROVE  Decimal[n] \in Seq(Octet)
    <3>0. Decimal[n] = DecimalStep(Decimal, n)
      BY <1>6
    <3>1. CASE n < 10
      <4>1. n + 1 \in 1 .. 10
        BY <3>1
      <4>2. Digit[n + 1] \in Octet
        BY <4>1, DigitType
      <4>3. Decimal[n] = <<Digit[n + 1]>>
        BY <3>0, <3>1 DEF DecimalStep
      <4> QED BY <4>2, <4>3
    <3>2. CASE n >= 10
      <4>1. n \div 10 \in Nat /\ n \div 10 < n /\ (n % 10) + 1 \in 1 .. 10
        BY <3>2, DivMod
      <4>2. Decimal[n \div 10] \in Seq(Octet) /\ Digit[(n % 10) + 1] \in Octet
        BY <4>1, <2>1, DigitType
      <4>3. Decimal[n] = Append(Decimal[n \div 10], Digit[(n % 10) + 1])
        BY <3>0, <3>2 DEF DecimalStep
      <4> QED BY <4>2, <4>3
    <3> QED BY <3>1, <3>2
  <2>2. 0 \in T
    <3>1. Decimal[0] \in Seq(Octet)
      BY <2>1
    <3> QED BY <3>1
  <2>3. ASSUME NEW j \in T PROVE j + 1 \in T
    <3>1. Decimal[j + 1] \in Seq(Octet)
      BY <2>1, <2>3
    <3> QED BY <3>1, <2>3
  <2>4. T \subseteq Nat
    OBVIOUS
  <2> HIDE DEF T
  <2>5. T = Nat
    BY <2>2, <2>3, <2>4, SetInduction
  <2>6. m \in T
    BY <2>5
  <2>7. m \in 0 .. m
    OBVIOUS
  <2> QED BY <2>6, <2>7 DEF T
<1> QED BY <1>6, <1>7
\* The digits s, read after the number v, make it n: g is the number after
\* each of them.
Tells(s, v, n) ==
  \E g \in [0 .. Len(s) -> Nat] :
    /\ g[0] = v /\ g[Len(s)] = n
    /\ \A k \in 1 .. Len(s) : IsDigit(s[k]) /\ g[k] = 10 * g[k - 1] + DigitVal[s[k]]

LEMMA TellsNothing ==
  ASSUME NEW v, NEW n, Tells(<<>>, v, n)
  PROVE  v = n
BY DEF Tells

LEMMA TellsDigit ==
  ASSUME NEW s \in Seq(Octet), s # <<>>, NEW v, NEW n, Tells(s, v, n)
  PROVE  /\ IsDigit(Head(s)) /\ DigitVal[Head(s)] \in Nat
         /\ 10 * v + DigitVal[Head(s)] \in Nat
         /\ Tells(Tail(s), 10 * v + DigitVal[Head(s)], n)
<1>1. PICK g \in [0 .. Len(s) -> Nat] :
        /\ g[0] = v /\ g[Len(s)] = n
        /\ \A k \in 1 .. Len(s) :
             IsDigit(s[k]) /\ g[k] = 10 * g[k - 1] + DigitVal[s[k]]
  BY DEF Tells
<1>. DEFINE h == [k \in 0 .. Len(Tail(s)) |-> g[k + 1]]
<1>2. /\ Len(s) \in Nat /\ Len(s) >= 1 /\ Tail(s) \in Seq(Octet)
      /\ Len(Tail(s)) = Len(s) - 1 /\ Head(s) = s[1]
      /\ \A k \in 1 .. Len(s) - 1 : Tail(s)[k] = s[k + 1]
  OBVIOUS
<1>3. IsDigit(s[1]) /\ g[1] = 10 * g[0] + DigitVal[s[1]] /\ g[0] \in Nat /\ g[1] \in Nat
  <2>1. 1 \in 1 .. Len(s) /\ 0 \in 0 .. Len(s) /\ 1 \in 0 .. Len(s) /\ 1 - 1 = 0
    BY <1>2
  <2> QED BY <1>1, <2>1
<1>4. DigitVal[s[1]] \in Nat
  <2>1. s[1] \in ToSet(Digit)
    BY <1>3 DEF IsDigit
  <2>2. DigitVal[s[1]] \in 0 .. 9
    BY <2>1, DigitType
  <2> QED BY <2>2
<1>5. h \in [0 .. Len(Tail(s)) -> Nat]
  <2>1. \A k \in 0 .. Len(Tail(s)) : k + 1 \in 0 .. Len(s)
    BY <1>2
  <2> QED BY <2>1
<1>6. h[0] = 10 * v + DigitVal[Head(s)] /\ h[Len(Tail(s))] = n
  <2>1. 0 \in 0 .. Len(Tail(s)) /\ Len(Tail(s)) \in 0 .. Len(Tail(s))
        /\ Len(Tail(s)) + 1 = Len(s)
    BY <1>2
  <2> QED BY <1>1, <1>2, <1>3, <2>1
<1>7. ASSUME NEW k \in 1 .. Len(Tail(s))
      PROVE  IsDigit(Tail(s)[k]) /\ h[k] = 10 * h[k - 1] + DigitVal[Tail(s)[k]]
  <2>1. /\ k + 1 \in 1 .. Len(s) /\ k \in 0 .. Len(Tail(s)) /\ k - 1 \in 0 .. Len(Tail(s))
        /\ (k - 1) + 1 = k /\ (k + 1) - 1 = k /\ k \in 1 .. Len(s) - 1
    BY <1>2
  <2>2. h[k] = g[k + 1] /\ h[k - 1] = g[k] /\ Tail(s)[k] = s[k + 1]
    BY <1>2, <2>1
  <2>3. IsDigit(s[k + 1]) /\ g[k + 1] = 10 * g[(k + 1) - 1] + DigitVal[s[k + 1]]
    BY <1>1, <2>1
  <2> HIDE DEF h
  <2> QED BY <2>1, <2>2, <2>3
<1> HIDE DEF h
<1>8. Tells(Tail(s), 10 * v + DigitVal[Head(s)], n)
  BY <1>5, <1>6, <1>7, Zenon DEF Tells
<1>9. v \in Nat
  BY <1>1, <1>3
<1> QED BY <1>2, <1>3, <1>4, <1>8, <1>9

\* Reading what %u wrote gives the number back.
LEMMA DecimalTells ==
  \A n \in Nat : Tells(Decimal[n], 0, n)
<1>. DEFINE T == {j \in Nat : \A n \in 0 .. j : Tells(Decimal[n], 0, n)}
<1>1. ASSUME NEW n \in Nat, n < 10
      PROVE  Tells(Decimal[n], 0, n)
  <2>. DEFINE s == <<Digit[n + 1]>>
              g == [k \in 0 .. 1 |-> IF k = 0 THEN 0 ELSE n]
  <2>1. Decimal[n] = s
    BY <1>1, DecimalIs DEF DecimalStep
  <2>2. n \in 0 .. 9
    BY <1>1
  <2>3. IsDigit(s[1]) /\ DigitVal[s[1]] = n /\ Len(s) = 1
    BY <2>2, DigitOfVal DEF IsDigit
  <2>4. g \in [0 .. 1 -> Nat] /\ g[0] = 0 /\ g[1] = n
    OBVIOUS
  <2>5. \A k \in 1 .. 1 : IsDigit(s[k]) /\ g[k] = 10 * g[k - 1] + DigitVal[s[k]]
    BY <2>3, <2>4
  <2> HIDE DEF s, g
  <2> QED BY <2>1, <2>3, <2>4, <2>5 DEF Tells
<1>2. ASSUME NEW n \in Nat, n >= 10, Tells(Decimal[n \div 10], 0, n \div 10)
      PROVE  Tells(Decimal[n], 0, n)
  <2>. DEFINE m == n \div 10
              s == Decimal[m]
              c == Digit[(n % 10) + 1]
              l == Len(s)
  <2>1. m \in Nat /\ n % 10 \in 0 .. 9 /\ n = 10 * m + (n % 10)
    BY DivMod
  <2>2. IsDigit(c) /\ DigitVal[c] = n % 10
    BY <2>1, DigitOfVal DEF IsDigit
  <2>3. s \in Seq(Octet) /\ l \in Nat
    BY <2>1, DecimalIs
  <2>4. Decimal[n] = Append(s, c)
    <3>1. Decimal[n] = DecimalStep(Decimal, n)
      BY DecimalIs
    <3> QED BY <3>1, <1>2 DEF DecimalStep
  <2>5. PICK g \in [0 .. l -> Nat] :
          /\ g[0] = 0 /\ g[l] = m
          /\ \A k \in 1 .. l : IsDigit(s[k]) /\ g[k] = 10 * g[k - 1] + DigitVal[s[k]]
    BY <1>2 DEF Tells
  <2>. DEFINE h == [k \in 0 .. l + 1 |-> IF k = l + 1 THEN n ELSE g[k]]
              r == Append(s, c)
  <2> HIDE DEF s, c, m
  <2>6. Len(r) = l + 1 /\ r[l + 1] = c /\ \A k \in 1 .. l : r[k] = s[k]
    BY <2>3
  <2>7. h \in [0 .. l + 1 -> Nat]
    <3>1. \A k \in 0 .. l + 1 : k # l + 1 => k \in 0 .. l
      BY <2>3
    <3> QED BY <3>1
  <2>8. h[0] = 0 /\ h[l + 1] = n
    BY <2>3, <2>5
  <2>9. ASSUME NEW k \in 1 .. l + 1
        PROVE  IsDigit(r[k]) /\ h[k] = 10 * h[k - 1] + DigitVal[r[k]]
    <3>1. CASE k = l + 1
      <4>1. h[k] = n /\ h[k - 1] = g[l]
        BY <3>1, <2>3
      <4>2. g[l] = m /\ r[k] = c
        BY <2>5, <2>6, <3>1
      <4> QED BY <4>1, <4>2, <2>1, <2>2
    <3>2. CASE k \in 1 .. l
      <4>1. h[k] = g[k] /\ h[k - 1] = g[k - 1]
        BY <3>2, <2>3
      <4>2. r[k] = s[k]
        BY <3>2, <2>6
      <4>3. IsDigit(s[k]) /\ g[k] = 10 * g[k - 1] + DigitVal[s[k]]
        BY <3>2, <2>5
      <4> QED BY <4>1, <4>2, <4>3
    <3> QED BY <3>1, <3>2, <2>3
  <2> HIDE DEF h, r, l
  <2>10. Tells(r, 0, n)
    BY <2>6, <2>7, <2>8, <2>9 DEF Tells
  <2> QED BY <2>4, <2>10 DEF r
<1>3. 0 \in T
  <2>1. Tells(Decimal[0], 0, 0)
    BY <1>1
  <2> QED BY <2>1
<1>4. ASSUME NEW j \in T PROVE j + 1 \in T
  <2>1. j + 1 >= 10 => Tells(Decimal[(j + 1) \div 10], 0, (j + 1) \div 10)
    <3>. SUFFICES ASSUME j + 1 >= 10
                  PROVE  Tells(Decimal[(j + 1) \div 10], 0, (j + 1) \div 10)
      OBVIOUS
    <3>1. (j + 1) \div 10 \in 0 .. j
      BY DivMod
    <3> QED BY <3>1, <1>4
  <2>2. Tells(Decimal[j + 1], 0, j + 1)
    BY <1>1, <1>2, <2>1
  <2>3. \A n \in 0 .. j + 1 : n = j + 1 \/ n \in 0 .. j
    OBVIOUS
  <2> QED BY <2>2, <2>3, <1>4
<1>5. T \subseteq Nat
  OBVIOUS
<1> HIDE DEF T
<1>6. T = Nat
  BY <1>3, <1>4, <1>5, SetInduction
<1>7. ASSUME NEW n \in Nat PROVE Tells(Decimal[n], 0, n)
  <2>1. n \in T /\ n \in 0 .. n
    BY <1>6
  <2> QED BY <2>1 DEF T
<1> QED BY <1>7
-----------------------------------------------------------------------------
(***************************************************************************)
(* Sequences.                                                              *)
(***************************************************************************)
LEMMA FirstOfConcat ==
  ASSUME NEW D, NEW s \in Seq(D), NEW t \in Seq(D), s # <<>>
  PROVE  /\ s \o t \in Seq(D) /\ s \o t # <<>>
         /\ Head(s \o t) = Head(s) /\ Tail(s \o t) = Tail(s) \o t
         /\ Head(s) \in D /\ Tail(s) \in Seq(D)
<1>1. s \o t \in Seq(D) /\ s \o t # <<>> /\ Head(s \o t) = Head(s)
  BY ConcatProperties
<1>2. Head(s) \in D /\ Tail(s) \in Seq(D) /\ Len(Tail(s)) = Len(s) - 1
      /\ \A i \in 1 .. Len(Tail(s)) : Tail(s)[i] = s[i + 1]
  OBVIOUS
<1>3. Tail(s \o t) \in Seq(D) /\ Len(Tail(s \o t)) = Len(s) + Len(t) - 1
      /\ \A i \in 1 .. Len(s) + Len(t) - 1 : Tail(s \o t)[i] = (s \o t)[i + 1]
  BY <1>1, ConcatProperties
<1>4. Tail(s) \o t \in Seq(D) /\ Len(Tail(s) \o t) = Len(s) + Len(t) - 1
  BY <1>2
<1>5. ASSUME NEW i \in 1 .. Len(s) + Len(t) - 1
      PROVE  Tail(s \o t)[i] = (Tail(s) \o t)[i]
  <2>1. (s \o t)[i + 1] = IF i + 1 <= Len(s) THEN s[i + 1] ELSE t[(i + 1) - Len(s)]
    OBVIOUS
  <2>2. (Tail(s) \o t)[i] = IF i <= Len(s) - 1 THEN Tail(s)[i] ELSE t[i - (Len(s) - 1)]
    BY <1>2
  <2>3. (i + 1) - Len(s) = i - (Len(s) - 1) /\ (i + 1 <= Len(s) <=> i <= Len(s) - 1)
    OBVIOUS
  <2>4. i <= Len(s) - 1 => Tail(s)[i] = s[i + 1]
    BY <1>2
  <2> QED BY <1>3, <2>1, <2>2, <2>3, <2>4
<1>6. Tail(s \o t) = Tail(s) \o t
  BY <1>3, <1>4, <1>5, SeqEqual
<1> QED BY <1>1, <1>2, <1>6

LEMMA OctetsAssoc ==
  \A x, y, z \in Seq(Octet) : (x \o y) \o z = x \o (y \o z)
BY ConcatAssociative

\* The first element of s, moved to the end of b.
LEMMA MoveFirst ==
  ASSUME NEW D, NEW b \in Seq(D), NEW s \in Seq(D), s # <<>>
  PROVE  /\ Append(b, Head(s)) \in Seq(D)
         /\ Len(Append(b, Head(s))) = Len(b) + 1
         /\ Append(b, Head(s)) \o Tail(s) = b \o s
<1>1. Head(s) \in D /\ Tail(s) \in Seq(D)
  OBVIOUS
<1>2. Append(b, Head(s)) = b \o <<Head(s)>>
  BY <1>1
<1>3. s = <<Head(s)>> \o Tail(s)
  BY <1>1
<1>4. (b \o <<Head(s)>>) \o Tail(s) = b \o (<<Head(s)>> \o Tail(s))
  BY <1>1, ConcatAssociative
<1> QED BY <1>1, <1>2, <1>3, <1>4

\* Streams(w, fs, k): the octets w are the frames of fs after the first k, as
\* they were written.  ws[i] is what is left from frame i on.
Streams(w, fs, k) ==
  \E ws \in [k + 1 .. Len(fs) + 1 -> Seq(Octet)] :
    /\ ws[k + 1] = w /\ ws[Len(fs) + 1] = <<>>
    /\ \A i \in k + 1 .. Len(fs) : ws[i] = Octets(fs[i]) \o ws[i + 1]

LEMMA StreamsEmpty ==
  ASSUME NEW F, NEW fs \in Seq(F)
  PROVE  Streams(<<>>, fs, Len(fs))
<1>. DEFINE ws == [i \in Len(fs) + 1 .. Len(fs) + 1 |-> <<>>]
<1>1. ws \in [Len(fs) + 1 .. Len(fs) + 1 -> Seq(Octet)]
  OBVIOUS
<1>2. ws[Len(fs) + 1] = <<>>
  OBVIOUS
<1>3. \A i \in Len(fs) + 1 .. Len(fs) : FALSE
  OBVIOUS
<1> HIDE DEF ws
<1> QED BY <1>1, <1>2, <1>3 DEF Streams

LEMMA StreamsFirst ==
  ASSUME NEW F, NEW fs \in Seq(F), NEW k \in Nat, NEW w, Streams(w, fs, k),
         k <= Len(fs)
  PROVE  /\ k = Len(fs) => w = <<>>
         /\ k < Len(fs) => \E v \in Seq(Octet) : /\ w = Octets(fs[k + 1]) \o v
                                                 /\ Streams(v, fs, k + 1)
<1>1. PICK ws \in [k + 1 .. Len(fs) + 1 -> Seq(Octet)] :
        /\ ws[k + 1] = w /\ ws[Len(fs) + 1] = <<>>
        /\ \A i \in k + 1 .. Len(fs) : ws[i] = Octets(fs[i]) \o ws[i + 1]
  BY DEF Streams
<1>2. k = Len(fs) => w = <<>>
  BY <1>1
<1>3. ASSUME k < Len(fs)
      PROVE  \E v \in Seq(Octet) : w = Octets(fs[k + 1]) \o v /\ Streams(v, fs, k + 1)
  <2>. DEFINE v == ws[(k + 1) + 1]
              vs == [i \in (k + 1) + 1 .. Len(fs) + 1 |-> ws[i]]
  <2>1. /\ k + 1 \in k + 1 .. Len(fs) /\ (k + 1) + 1 \in k + 1 .. Len(fs) + 1
        /\ Len(fs) + 1 \in (k + 1) + 1 .. Len(fs) + 1
        /\ (k + 1) + 1 \in (k + 1) + 1 .. Len(fs) + 1
    BY <1>3
  <2>2. v \in Seq(Octet) /\ w = Octets(fs[k + 1]) \o v
    BY <1>1, <2>1
  <2>3. vs \in [(k + 1) + 1 .. Len(fs) + 1 -> Seq(Octet)]
    OBVIOUS
  <2>4. vs[(k + 1) + 1] = v /\ vs[Len(fs) + 1] = <<>>
    BY <1>1, <2>1
  <2>5. ASSUME NEW i \in (k + 1) + 1 .. Len(fs)
        PROVE  vs[i] = Octets(fs[i]) \o vs[i + 1]
    <3>1. i \in k + 1 .. Len(fs) /\ i \in (k + 1) + 1 .. Len(fs) + 1
          /\ i + 1 \in (k + 1) + 1 .. Len(fs) + 1
      OBVIOUS
    <3>2. vs[i] = ws[i] /\ vs[i + 1] = ws[i + 1]
      BY <3>1
    <3> QED BY <1>1, <3>1, <3>2
  <2> HIDE DEF v, vs
  <2>6. Streams(v, fs, k + 1)
    BY <2>3, <2>4, <2>5, Zenon DEF Streams
  <2> QED BY <2>2, <2>6
<1> QED BY <1>2, <1>3

LEMMA StreamsAppend ==
  ASSUME NEW F, NEW fs \in Seq(F), NEW f \in F, NEW k \in Nat, k <= Len(fs),
         NEW w, Streams(w, fs, k),
         \A i \in 1 .. Len(fs) : Octets(fs[i]) \in Seq(Octet),
         Octets(f) \in Seq(Octet)
  PROVE  Streams(w \o Octets(f), Append(fs, f), k)
<1>. DEFINE m == Len(fs) + 1
            gs == Append(fs, f)
<1>1. PICK ws \in [k + 1 .. Len(fs) + 1 -> Seq(Octet)] :
        /\ ws[k + 1] = w /\ ws[Len(fs) + 1] = <<>>
        /\ \A i \in k + 1 .. Len(fs) : ws[i] = Octets(fs[i]) \o ws[i + 1]
  BY DEF Streams
<1>. DEFINE vs == [i \in k + 1 .. Len(gs) + 1 |->
                     IF i = m + 1 THEN <<>> ELSE ws[i] \o Octets(f)]
<1>2. m \in Nat /\ Len(gs) = m /\ gs[m] = f /\ \A i \in 1 .. Len(fs) : gs[i] = fs[i]
  OBVIOUS
<1>3. ASSUME NEW i \in k + 1 .. m PROVE vs[i] = ws[i] \o Octets(f) /\ vs[i] \in Seq(Octet)
  <2>1. i \in k + 1 .. Len(gs) + 1 /\ i # m + 1 /\ ws[i] \in Seq(Octet)
    BY <1>2
  <2> QED BY <2>1, ConcatProperties
<1>4. vs[m + 1] = <<>>
  <2>1. m + 1 \in k + 1 .. Len(gs) + 1
    BY <1>2
  <2> QED BY <2>1
<1>5. vs \in [k + 1 .. Len(gs) + 1 -> Seq(Octet)]
  <2>1. \A i \in k + 1 .. Len(gs) + 1 : i = m + 1 \/ i \in k + 1 .. m
    BY <1>2
  <2>2. <<>> \in Seq(Octet)
    OBVIOUS
  <2>3. \A i \in k + 1 .. Len(gs) + 1 :
          (IF i = m + 1 THEN <<>> ELSE ws[i] \o Octets(f)) \in Seq(Octet)
    <3>1. \A i \in k + 1 .. m : ws[i] \in Seq(Octet)
      OBVIOUS
    <3>2. \A i \in k + 1 .. m : ws[i] \o Octets(f) \in Seq(Octet)
      BY <3>1, ConcatProperties
    <3> QED BY <2>1, <2>2, <3>2
  <2> QED BY <2>3
<1> HIDE DEF vs, gs
<1>6. vs[k + 1] = w \o Octets(f) /\ vs[Len(gs) + 1] = <<>>
  <2>1. k + 1 \in k + 1 .. m
    BY <1>2
  <2> QED BY <1>1, <1>2, <1>3, <1>4, <2>1
<1>7. ASSUME NEW i \in k + 1 .. Len(gs) PROVE vs[i] = Octets(gs[i]) \o vs[i + 1]
  <2>1. CASE i = m
    <3>1. m \in k + 1 .. m
      OBVIOUS
    <3>2. ws[m] = <<>>
      BY <1>1
    <3>3. vs[m] = <<>> \o Octets(f)
      BY <1>3, <3>1, <3>2
    <3>4. vs[m] = Octets(f) \o <<>>
      BY <3>3, ConcatEmptySeq
    <3> QED BY <2>1, <1>2, <1>4, <3>4
  <2>2. CASE i \in k + 1 .. Len(fs)
    <3>1. i \in k + 1 .. m /\ i + 1 \in k + 1 .. m /\ i \in 1 .. Len(fs)
      BY <2>2
    <3>2. ws[i] = Octets(fs[i]) \o ws[i + 1] /\ ws[i + 1] \in Seq(Octet)
      BY <1>1, <2>2, <3>1
    <3>0. Octets(fs[i]) \in Seq(Octet)
      BY <3>1
    <3>3. (Octets(fs[i]) \o ws[i + 1]) \o Octets(f)
            = Octets(fs[i]) \o (ws[i + 1] \o Octets(f))
      BY <3>0, <3>2, OctetsAssoc, ZenonT(30)
    <3>4. vs[i] = ws[i] \o Octets(f) /\ vs[i + 1] = ws[i + 1] \o Octets(f)
      BY <1>3, <3>1
    <3>5. gs[i] = fs[i]
      BY <1>2, <3>1
    <3> QED BY <3>2, <3>3, <3>4, <3>5
  <2>3. i = m \/ i \in k + 1 .. Len(fs)
    BY <1>2
  <2> QED BY <2>1, <2>2, <2>3
<1>8. Streams(w \o Octets(f), gs, k)
  BY <1>5, <1>6, <1>7, Zenon DEF Streams
<1> QED BY <1>8 DEF gs
-----------------------------------------------------------------------------
(***************************************************************************)
(* The text of a frame that carries data.                                  *)
(***************************************************************************)
DataCommands == {MSG, ANS, RPY, ERR, NUL}
Names == {"chan", "msgno", "more", "seqno", "size", "ansno", "ackno", "window"}

\* What sbFramCreateFramFromMesg makes: the fields the text form has room for.
DataFram(f) ==
  /\ f \in [cmd : DataCommands, payload : Seq(Octet), val : [Names -> Nat]]
  /\ f.val.size = Len(f.payload)
  /\ f.val.more = 0 /\ f.val.ackno = 0 /\ f.val.window = 0
  /\ f.cmd # ANS => f.val.ansno = 0

NF(cmd) == IF cmd = ANS THEN 6 ELSE 5

LEMMA NotSEQ ==
  SEQ \notin DataCommands
BY DEF DataCommands, MSG, ANS, RPY, ERR, NUL, SEQ

LEMMA FieldsIs ==
  ASSUME NEW cmd \in DataCommands
  PROVE  /\ Len(Fields(cmd)) = NF(cmd)
         /\ Fields(cmd)[1] = "chan" /\ Fields(cmd)[2] = "msgno"
         /\ Fields(cmd)[3] = "more" /\ Fields(cmd)[4] = "seqno"
         /\ Fields(cmd)[5] = "size" /\ (cmd = ANS => Fields(cmd)[6] = "ansno")
<1>1. cmd # SEQ
  BY NotSEQ
<1>2. CASE cmd = ANS
  <2>1. Fields(cmd) = <<"chan", "msgno", "more", "seqno", "size">> \o <<"ansno">>
    BY <1>1, <1>2 DEF Fields
  <2> QED BY <2>1, <1>2 DEF NF
<1>3. CASE cmd # ANS
  <2>1. Fields(cmd) = <<"chan", "msgno", "more", "seqno", "size">> \o <<>>
    BY <1>1, <1>3 DEF Fields
  <2> QED BY <2>1, <1>3 DEF NF
<1> QED BY <1>2, <1>3

\* The text from field i on.
Rest6(f) == IF f.cmd = ANS THEN Item(f, "ansno") \o Body(f) ELSE Body(f)
Rest5(f) == Item(f, "size") \o Rest6(f)
Rest4(f) == Item(f, "seqno") \o Rest5(f)
Rest3(f) == Item(f, "more") \o Rest4(f)
Rest2(f) == Item(f, "msgno") \o Rest3(f)
Rest1(f) == Item(f, "chan") \o Rest2(f)
Rest(f, i) ==
  CASE i = 1 -> Rest1(f) [] i = 2 -> Rest2(f) [] i = 3 -> Rest3(f)
    [] i = 4 -> Rest4(f) [] i = 5 -> Rest5(f) [] i = 6 -> Rest6(f)
    [] OTHER -> Body(f)

LEMMA Literally ==
  /\ " " \in Octet /\ "." \in Octet /\ CR \in Octet /\ LF \in Octet
  /\ <<" ">> \in Seq(Octet) /\ <<".">> \in Seq(Octet)
  /\ CRLF \in Seq(Octet) /\ Trailer \in Seq(Octet)
  /\ <<CR>> \in Seq(Octet) /\ <<LF>> \in Seq(Octet)
  /\ \A cmd \in DataCommands : cmd \in Seq(Octet) /\ Len(cmd) = 3
<1>1. Literals \subseteq Octet
  BY DEF Octet
<1>2. /\ " " \in Literals /\ "." \in Literals /\ CR \in Literals /\ LF \in Literals
      /\ "E" \in Literals /\ "N" \in Literals /\ "D" \in Literals /\ "M" \in Literals
      /\ "S" \in Literals /\ "G" \in Literals /\ "A" \in Literals /\ "R" \in Literals
      /\ "P" \in Literals /\ "Y" \in Literals /\ "U" \in Literals /\ "L" \in Literals
  BY DEF Literals
<1>3. /\ " " \in Octet /\ "." \in Octet /\ CR \in Octet /\ LF \in Octet
      /\ "E" \in Octet /\ "N" \in Octet /\ "D" \in Octet /\ "M" \in Octet
      /\ "S" \in Octet /\ "G" \in Octet /\ "A" \in Octet /\ "R" \in Octet
      /\ "P" \in Octet /\ "Y" \in Octet /\ "U" \in Octet /\ "L" \in Octet
  BY <1>1, <1>2
<1>6. \A a, b, c, d, e \in Octet :
        /\ <<a>> \in Seq(Octet) /\ <<a, b>> \in Seq(Octet)
        /\ <<a, b, c>> \in Seq(Octet) /\ Len(<<a, b, c>>) = 3
        /\ <<a, b, c, d, e>> \in Seq(Octet)
  OBVIOUS
<1>4. <<" ">> \in Seq(Octet) /\ <<".">> \in Seq(Octet)
      /\ <<CR>> \in Seq(Octet) /\ <<LF>> \in Seq(Octet)
  BY <1>3, <1>6
<1>5. CRLF \in Seq(Octet) /\ Trailer \in Seq(Octet)
  BY <1>3, <1>6 DEF CRLF, Trailer
<1>7. /\ MSG \in Seq(Octet) /\ Len(MSG) = 3 /\ ANS \in Seq(Octet) /\ Len(ANS) = 3
      /\ RPY \in Seq(Octet) /\ Len(RPY) = 3 /\ ERR \in Seq(Octet) /\ Len(ERR) = 3
      /\ NUL \in Seq(Octet) /\ Len(NUL) = 3
  BY <1>3, <1>6 DEF MSG, ANS, RPY, ERR, NUL
<1> QED BY <1>3, <1>4, <1>5, <1>7 DEF DataCommands

LEMMA OctetsLen ==
  \A x \in Seq(Octet) : Len(x) \in Nat
OBVIOUS

LEMMA OctetsConcat ==
  \A x, y \in Seq(Octet) :
    x \o y \in Seq(Octet) /\ Len(x \o y) = Len(x) + Len(y)
BY ConcatProperties

LEMMA OctetsLast ==
  \A x, y \in Seq(Octet) : Len(x) >= 1 => (x \o y)[Len(x)] = x[Len(x)]
BY ConcatProperties

LEMMA ItemType ==
  ASSUME NEW f, DataFram(f), NEW name \in Names
  PROVE  FieldText(f, name) \in Seq(Octet) /\ Item(f, name) \in Seq(Octet)
<1>1. f.val[name] \in Nat
  BY DEF DataFram
<1>2. FieldText(f, name) \in Seq(Octet)
  BY <1>1, DecimalIs, Literally DEF FieldText
<1> QED BY <1>2, Literally, OctetsConcat DEF Item

LEMMA OneThenRest ==
  ASSUME NEW c \in Octet, NEW t \in Seq(Octet)
  PROVE  /\ <<c>> \o t \in Seq(Octet) /\ <<c>> \o t # <<>>
         /\ Head(<<c>> \o t) = c /\ Tail(<<c>> \o t) = t
<1>1. <<c>> \in Seq(Octet) /\ <<c>> # <<>> /\ Head(<<c>>) = c /\ Tail(<<c>>) = <<>>
  OBVIOUS
<1>2. <<>> \o t = t
  BY ConcatEmptySeq
<1> QED BY <1>1, <1>2, FirstOfConcat

LEMMA PairIs ==
  ASSUME NEW a \in Octet, NEW b \in Octet
  PROVE  <<a, b>> = <<a>> \o <<b>>
<1>1. /\ <<a>> \in Seq(Octet) /\ <<b>> \in Seq(Octet) /\ <<a, b>> \in Seq(Octet)
      /\ Len(<<a>>) = 1 /\ Len(<<b>>) = 1 /\ Len(<<a, b>>) = 2
  OBVIOUS
<1>2. <<a>> \o <<b>> \in Seq(Octet) /\ Len(<<a>> \o <<b>>) = 2
  BY <1>1
<1>3. (<<a>> \o <<b>>)[1] = a /\ (<<a>> \o <<b>>)[2] = b
  BY <1>1
<1>4. \A i \in 1 .. 2 : <<a, b>>[i] = (<<a>> \o <<b>>)[i]
  BY <1>3
<1> QED BY <1>1, <1>2, <1>4, SeqEqual

LEMMA ItemSplit ==
  ASSUME NEW f, DataFram(f), NEW name \in Names, NEW r \in Seq(Octet),
         NEW p, p = Item(f, name) \o r
  PROVE  /\ p \in Seq(Octet) /\ p # <<>> /\ Head(p) = " "
         /\ Tail(p) = FieldText(f, name) \o r
<1>1. FieldText(f, name) \in Seq(Octet) /\ <<" ">> \in Seq(Octet) /\ " " \in Octet
  BY ItemType, Literally
<1>2. p = <<" ">> \o (FieldText(f, name) \o r)
  BY <1>1, OctetsAssoc, Zenon DEF Item
<1>3. FieldText(f, name) \o r \in Seq(Octet)
  BY <1>1, OctetsConcat, Zenon
<1> QED BY <1>1, <1>2, <1>3, OneThenRest

LEMMA BodyType ==
  ASSUME NEW f, DataFram(f)
  PROVE  Body(f) \in Seq(Octet) /\ Len(Body(f)) >= Len(f.payload)
<1>1. f.payload \in Seq(Octet) /\ Len(f.payload) \in Nat
  BY DEF DataFram
<1>2. CRLF \o f.payload \in Seq(Octet) /\ Len(CRLF \o f.payload) = Len(CRLF) + Len(f.payload)
  BY <1>1, Literally, OctetsConcat
<1>3. /\ (CRLF \o f.payload) \o Trailer \in Seq(Octet)
      /\ Len((CRLF \o f.payload) \o Trailer) = Len(CRLF \o f.payload) + Len(Trailer)
  BY <1>2, Literally, OctetsConcat
<1>4. Len(CRLF) \in Nat /\ Len(Trailer) \in Nat
  BY Literally, OctetsLen
<1> QED BY <1>1, <1>2, <1>3, <1>4 DEF Body

LEMMA BodySplit ==
  ASSUME NEW f, DataFram(f)
  PROVE  /\ Body(f) = <<CR>> \o (<<LF>> \o (f.payload \o Trailer))
         /\ <<LF>> \o (f.payload \o Trailer) \in Seq(Octet)
         /\ f.payload \o Trailer \in Seq(Octet)
<1>1. /\ f.payload \in Seq(Octet) /\ Trailer \in Seq(Octet) /\ <<LF>> \in Seq(Octet)
      /\ <<CR>> \in Seq(Octet) /\ CRLF \in Seq(Octet)
  BY Literally DEF DataFram
<1>2. f.payload \o Trailer \in Seq(Octet)
  BY <1>1, OctetsConcat, Zenon
<1>3. <<LF>> \o (f.payload \o Trailer) \in Seq(Octet)
  BY <1>1, <1>2, OctetsConcat, Zenon
<1>4. (CRLF \o f.payload) \o Trailer = CRLF \o (f.payload \o Trailer)
  BY <1>1, OctetsAssoc, ZenonT(30)
<1>5. CRLF = <<CR>> \o <<LF>>
  BY PairIs, Literally DEF CRLF
<1>6. (<<CR>> \o <<LF>>) \o (f.payload \o Trailer)
        = <<CR>> \o (<<LF>> \o (f.payload \o Trailer))
  BY <1>1, <1>2, OctetsAssoc, ZenonT(30)
<1> QED BY <1>2, <1>3, <1>4, <1>5, <1>6, Zenon DEF Body

LEMMA RestIs ==
  ASSUME NEW f, DataFram(f)
  PROVE  /\ \A i \in 1 .. NF(f.cmd) + 1 : Rest(f, i) \in Seq(Octet)
         /\ \A i \in 1 .. NF(f.cmd) :
              Rest(f, i) = Item(f, Fields(f.cmd)[i]) \o Rest(f, i + 1)
         /\ Rest(f, NF(f.cmd) + 1) = Body(f)
<1>. DEFINE F == Fields(f.cmd)
            n == NF(f.cmd)
<1>1. f.cmd \in DataCommands
  BY DEF DataFram
<1>2. /\ F[1] = "chan" /\ F[2] = "msgno" /\ F[3] = "more" /\ F[4] = "seqno"
      /\ F[5] = "size" /\ (f.cmd = ANS => F[6] = "ansno")
  BY <1>1, FieldsIs
<1>3. n = IF f.cmd = ANS THEN 6 ELSE 5
  BY DEF NF
<1> HIDE DEF F, n
<1>4. /\ Rest(f, 1) = Rest1(f) /\ Rest(f, 2) = Rest2(f) /\ Rest(f, 3) = Rest3(f)
      /\ Rest(f, 4) = Rest4(f) /\ Rest(f, 5) = Rest5(f) /\ Rest(f, 6) = Rest6(f)
      /\ Rest(f, 7) = Body(f)
  BY DEF Rest
<1>5. ASSUME NEW i \in 1 .. n PROVE Rest(f, i) = Item(f, F[i]) \o Rest(f, i + 1)
  <2>1. CASE i = 1
    <3>1. i = 1 /\ i + 1 = 2
      BY <2>1
    <3> QED BY <1>2, <1>4, <2>1, <3>1 DEF Rest1
  <2>2. CASE i = 2
    <3>1. i = 2 /\ i + 1 = 3
      BY <2>2
    <3> QED BY <1>2, <1>4, <2>2, <3>1 DEF Rest2
  <2>3. CASE i = 3
    <3>1. i = 3 /\ i + 1 = 4
      BY <2>3
    <3> QED BY <1>2, <1>4, <2>3, <3>1 DEF Rest3
  <2>4. CASE i = 4
    <3>1. i = 4 /\ i + 1 = 5
      BY <2>4
    <3> QED BY <1>2, <1>4, <2>4, <3>1 DEF Rest4
  <2>5. CASE i = 5
    <3>1. i = 5 /\ i + 1 = 6
      BY <2>5
    <3> QED BY <1>2, <1>4, <2>5, <3>1 DEF Rest5
  <2>6. CASE i = 6 /\ f.cmd = ANS
    <3>1. i = 6 /\ i + 1 = 7
      BY <2>6
    <3> QED BY <1>2, <1>4, <2>6, <3>1 DEF Rest6
  <2>7. i = 1 \/ i = 2 \/ i = 3 \/ i = 4 \/ i = 5 \/ (i = 6 /\ f.cmd = ANS)
    BY <1>3
  <2> QED BY <2>1, <2>2, <2>3, <2>4, <2>5, <2>6, <2>7
<1>6. Rest(f, n + 1) = Body(f)
  BY <1>3, <1>4 DEF Rest6
<1>7. \A i \in 1 .. n + 1 : Rest(f, i) \in Seq(Octet)
  <2>1. Item(f, "chan") \in Seq(Octet) /\ Item(f, "msgno") \in Seq(Octet)
        /\ Item(f, "more") \in Seq(Octet) /\ Item(f, "seqno") \in Seq(Octet)
        /\ Item(f, "size") \in Seq(Octet) /\ Item(f, "ansno") \in Seq(Octet)
    BY ItemType DEF Names
  <2>2. Rest(f, 7) \in Seq(Octet)
    BY <1>4, BodyType
  <2>3. Rest(f, 6) \in Seq(Octet)
    BY <1>4, <2>1, <2>2, OctetsConcat, Zenon DEF Rest6
  <2>4. Rest(f, 5) \in Seq(Octet)
    BY <1>4, <2>1, <2>3, OctetsConcat, Zenon DEF Rest5
  <2>5. Rest(f, 4) \in Seq(Octet)
    BY <1>4, <2>1, <2>4, OctetsConcat, Zenon DEF Rest4
  <2>6. Rest(f, 3) \in Seq(Octet)
    BY <1>4, <2>1, <2>5, OctetsConcat, Zenon DEF Rest3
  <2>7. Rest(f, 2) \in Seq(Octet)
    BY <1>4, <2>1, <2>6, OctetsConcat, Zenon DEF Rest2
  <2>8. Rest(f, 1) \in Seq(Octet)
    BY <1>4, <2>1, <2>7, OctetsConcat, Zenon DEF Rest1
  <2>9. \A i \in 1 .. n + 1 : \/ i = 1 \/ i = 2 \/ i = 3 \/ i = 4 \/ i = 5
                              \/ i = 6 \/ i = 7
    BY <1>3
  <2> QED BY <2>2, <2>3, <2>4, <2>5, <2>6, <2>7, <2>8, <2>9
<1> QED BY <1>5, <1>6, <1>7 DEF F, n

\* The three formats, taken from the left, are the command and the rest.
LEMMA WholeIs ==
  ASSUME NEW f, DataFram(f)
  PROVE  /\ Whole(f) = f.cmd \o Rest(f, 1)
         /\ Whole(f) \in Seq(Octet)
         /\ Len(Whole(f)) >= Len(f.payload)
<1>1. f.cmd \in DataCommands /\ f.cmd \in Seq(Octet) /\ f.cmd # SEQ
  <2>1. f.cmd \in DataCommands
    BY DEF DataFram
  <2> QED BY <2>1, Literally, NotSEQ
<1>. DEFINE c == f.cmd
            i1 == Item(f, "chan")
            i2 == Item(f, "msgno")
            i3 == Item(f, "more")
            i4 == Item(f, "seqno")
            i5 == Item(f, "size")
            i6 == IF f.cmd = ANS THEN Item(f, "ansno") ELSE <<>>
            b == Body(f)
<1>2. Whole(f) = ((((((c \o i1) \o i2) \o i3) \o i4) \o i5) \o i6) \o b
  BY <1>1 DEF Whole
<1>3. i1 \in Seq(Octet) /\ i2 \in Seq(Octet) /\ i3 \in Seq(Octet)
      /\ i4 \in Seq(Octet) /\ i5 \in Seq(Octet) /\ b \in Seq(Octet) /\ c \in Seq(Octet)
  BY <1>1, ItemType, BodyType DEF Names
<1>4. i6 \in Seq(Octet)
  <2>1. Item(f, "ansno") \in Seq(Octet) /\ <<>> \in Seq(Octet)
    BY ItemType DEF Names
  <2> QED BY <2>1
<1>5. Rest(f, 1) = i1 \o (i2 \o (i3 \o (i4 \o (i5 \o (i6 \o b)))))
  <2>1. Rest6(f) = i6 \o b
    <3>1. f.cmd # ANS => i6 \o b = b
      BY <1>3, ConcatEmptySeq
    <3> QED BY <3>1 DEF Rest6
  <2>2. Rest(f, 1) = Rest1(f)
    BY DEF Rest
  <2> HIDE DEF i6, b
  <2> QED BY <2>1, <2>2 DEF Rest1, Rest2, Rest3, Rest4, Rest5
<1> HIDE DEF c, i1, i2, i3, i4, i5, i6, b
<1>. DEFINE c1 == c \o i1
            r6 == i6 \o b
<1>6. c1 \in Seq(Octet) /\ r6 \in Seq(Octet) /\ c1 = c \o i1 /\ r6 = i6 \o b
  BY <1>3, <1>4, OctetsConcat, Zenon
<1> HIDE DEF c1, r6
<1>. DEFINE c2 == c1 \o i2
            r5 == i5 \o r6
<1>7. c2 \in Seq(Octet) /\ r5 \in Seq(Octet) /\ c2 = c1 \o i2 /\ r5 = i5 \o r6
  BY <1>3, <1>6, OctetsConcat, Zenon
<1> HIDE DEF c2, r5
<1>. DEFINE c3 == c2 \o i3
            r4 == i4 \o r5
<1>8. c3 \in Seq(Octet) /\ r4 \in Seq(Octet) /\ c3 = c2 \o i3 /\ r4 = i4 \o r5
  BY <1>3, <1>7, OctetsConcat, Zenon
<1> HIDE DEF c3, r4
<1>. DEFINE c4 == c3 \o i4
            r3 == i3 \o r4
<1>9. c4 \in Seq(Octet) /\ r3 \in Seq(Octet) /\ c4 = c3 \o i4 /\ r3 = i3 \o r4
  BY <1>3, <1>8, OctetsConcat, Zenon
<1> HIDE DEF c4, r3
<1>. DEFINE c5 == c4 \o i5
            r2 == i2 \o r3
<1>10. c5 \in Seq(Octet) /\ r2 \in Seq(Octet) /\ c5 = c4 \o i5 /\ r2 = i2 \o r3
  BY <1>3, <1>9, OctetsConcat, Zenon
<1> HIDE DEF c5, r2
<1>11. (c5 \o i6) \o b = c5 \o r6
  <2>1. c5 \in Seq(Octet) /\ i6 \in Seq(Octet) /\ b \in Seq(Octet)
    BY <1>3, <1>4, <1>6, <1>7, <1>8, <1>9, <1>10, Zenon
  <2>2. (c5 \o i6) \o b = c5 \o (i6 \o b)
    BY <2>1, OctetsAssoc, ZenonT(30)
  <2>3. (c5 \o i6) = c5 \o i6 /\ r6 = i6 \o b
    BY <1>6, <1>7, <1>8, <1>9, <1>10, Zenon
  <2> QED BY <2>2, <2>3, Zenon
<1>12. c5 \o r6 = c4 \o r5
  <2>1. c4 \in Seq(Octet) /\ i5 \in Seq(Octet) /\ r6 \in Seq(Octet)
    BY <1>3, <1>4, <1>6, <1>7, <1>8, <1>9, <1>10, Zenon
  <2>2. (c4 \o i5) \o r6 = c4 \o (i5 \o r6)
    BY <2>1, OctetsAssoc, ZenonT(30)
  <2>3. c5 = c4 \o i5 /\ r5 = i5 \o r6
    BY <1>6, <1>7, <1>8, <1>9, <1>10, Zenon
  <2> QED BY <2>2, <2>3, Zenon
<1>13. c4 \o r5 = c3 \o r4
  <2>1. c3 \in Seq(Octet) /\ i4 \in Seq(Octet) /\ r5 \in Seq(Octet)
    BY <1>3, <1>4, <1>6, <1>7, <1>8, <1>9, <1>10, Zenon
  <2>2. (c3 \o i4) \o r5 = c3 \o (i4 \o r5)
    BY <2>1, OctetsAssoc, ZenonT(30)
  <2>3. c4 = c3 \o i4 /\ r4 = i4 \o r5
    BY <1>6, <1>7, <1>8, <1>9, <1>10, Zenon
  <2> QED BY <2>2, <2>3, Zenon
<1>14. c3 \o r4 = c2 \o r3
  <2>1. c2 \in Seq(Octet) /\ i3 \in Seq(Octet) /\ r4 \in Seq(Octet)
    BY <1>3, <1>4, <1>6, <1>7, <1>8, <1>9, <1>10, Zenon
  <2>2. (c2 \o i3) \o r4 = c2 \o (i3 \o r4)
    BY <2>1, OctetsAssoc, ZenonT(30)
  <2>3. c3 = c2 \o i3 /\ r3 = i3 \o r4
    BY <1>6, <1>7, <1>8, <1>9, <1>10, Zenon
  <2> QED BY <2>2, <2>3, Zenon
<1>15. c2 \o r3 = c1 \o r2
  <2>1. c1 \in Seq(Octet) /\ i2 \in Seq(Octet) /\ r3 \in Seq(Octet)
    BY <1>3, <1>4, <1>6, <1>7, <1>8, <1>9, <1>10, Zenon
  <2>2. (c1 \o i2) \o r3 = c1 \o (i2 \o r3)
    BY <2>1, OctetsAssoc, ZenonT(30)
  <2>3. c2 = c1 \o i2 /\ r2 = i2 \o r3
    BY <1>6, <1>7, <1>8, <1>9, <1>10, Zenon
  <2> QED BY <2>2, <2>3, Zenon
<1>16. c1 \o r2 = c \o (i1 \o r2)
  <2>1. c \in Seq(Octet) /\ i1 \in Seq(Octet) /\ r2 \in Seq(Octet)
    BY <1>3, <1>4, <1>6, <1>7, <1>8, <1>9, <1>10, Zenon
  <2>2. (c \o i1) \o r2 = c \o (i1 \o r2)
    BY <2>1, OctetsAssoc, ZenonT(30)
  <2>3. c1 = c \o i1 /\ (i1 \o r2) = i1 \o r2
    BY <1>6, <1>7, <1>8, <1>9, <1>10, Zenon
  <2> QED BY <2>2, <2>3, Zenon
<1>17. Whole(f) = (c5 \o i6) \o b /\ Rest(f, 1) = i1 \o r2
  BY <1>2, <1>5, <1>6, <1>7, <1>8, <1>9, <1>10, Zenon
<1>18. Whole(f) = c \o Rest(f, 1)
  BY <1>11, <1>12, <1>13, <1>14, <1>15, <1>16, <1>17, Zenon
<1>19. c5 \o i6 \in Seq(Octet)
  BY <1>4, <1>10, OctetsConcat, Zenon
<1>20. Whole(f) \in Seq(Octet) /\ Len(Whole(f)) = Len(c5 \o i6) + Len(b)
  BY <1>3, <1>17, <1>19, OctetsConcat, Zenon
<1>21. Len(c5 \o i6) \in Nat /\ Len(b) \in Nat
  BY <1>3, <1>19, OctetsLen, Zenon
<1>22. Len(f.payload) \in Nat /\ Len(b) >= Len(f.payload)
  BY BodyType DEF b, DataFram
<1> QED BY <1>18, <1>20, <1>21, <1>22 DEF c

LEMMA OctetsType ==
  ASSUME NEW f, DataFram(f)
  PROVE  Octets(f) \in Seq(Octet)
<1>1. Whole(f) \in Seq(Octet) /\ Len(Whole(f)) \in Nat
  BY WholeIs
<1>2. Len(Whole(f)) > FrameMax => SubSeq(Whole(f), 1, FrameMax) \in Seq(Octet)
  BY <1>1, StreamAssumption
<1> QED BY <1>1, <1>2, StreamAssumption DEF Octets, Fits
-----------------------------------------------------------------------------
(***************************************************************************)
(* The state machine, in the middle of a frame.                            *)
(***************************************************************************)
Under(st, cmd, buf, i, val, n) ==
  [st |-> st, cmd |-> cmd, buf |-> buf, i |-> i, val |-> val, n |-> n]

\* The numbers of f before field i.
Known(f, i) ==
  [m \in Names |-> IF \E j \in 1 .. i - 1 : Fields(f.cmd)[j] = m THEN f.val[m] ELSE 0]

\* The machine in state q has read a part of the frame f, and p is what it has
\* not read of it.
InCommand(q, f, p) ==
  \E b, s \in Seq(Octet) :
    /\ s # <<>> /\ b \o s = f.cmd
    /\ q = Under("CMD", <<>>, b, 0, NoVal, 0)
    /\ p = s \o Rest(f, 1)
BeforeField(q, f, p) ==
  \E i \in 1 .. NF(f.cmd) :
    q = Under("SP", f.cmd, <<>>, i, Known(f, i), 0) /\ p = Rest(f, i)
InMore(q, f, p) ==
  /\ q = Under("IN", f.cmd, <<>>, 3, [Known(f, 3) EXCEPT !["more"] = 0], 0)
  /\ p = <<".">> \o Rest(f, 4)
InNumber(q, f, p) ==
  \E i \in (1 .. NF(f.cmd)) \ {3}, s \in Seq(Octet), v \in Nat :
    /\ q = Under("IN", f.cmd, <<>>, i, [Known(f, i) EXCEPT ![Fields(f.cmd)[i]] = v], 0)
    /\ Tells(s, v, f.val[Fields(f.cmd)[i]])
    /\ p = s \o Rest(f, i + 1)
BeforeLF(q, f, p) ==
  /\ q = Under("HDRLF", f.cmd, <<>>, NF(f.cmd), f.val, 0)
  /\ p = <<LF>> \o (f.payload \o Trailer)
InPayload(q, f, p) ==
  \E b, s \in Seq(Octet) :
    /\ s # <<>> /\ b \o s = f.payload
    /\ q = Under("PAYLOAD", f.cmd, b, NF(f.cmd), f.val, Len(s))
    /\ p = s \o Trailer
InTrailer(q, f, p) ==
  \E n \in 0 .. 4 :
    /\ q = Under("TRAILER", f.cmd, f.payload, NF(f.cmd), f.val, n)
    /\ p = SubSeq(Trailer, n + 1, 5)

Expects(q, f, p) ==
  \/ InCommand(q, f, p) \/ BeforeField(q, f, p) \/ InMore(q, f, p)
  \/ InNumber(q, f, p) \/ BeforeLF(q, f, p) \/ InPayload(q, f, p)
  \/ InTrailer(q, f, p)

\* q has read all of f.
Complete(q, f) ==
  q.st = "DONE" /\ q.cmd = f.cmd /\ q.val = f.val /\ q.buf = f.payload

LEMMA FieldNames ==
  ASSUME NEW cmd \in DataCommands
  PROVE  /\ \A i \in 1 .. NF(cmd) : Fields(cmd)[i] \in Names
         /\ \A i, j \in 1 .. NF(cmd) : Fields(cmd)[i] = Fields(cmd)[j] => i = j
         /\ \A i \in 1 .. NF(cmd) : /\ Fields(cmd)[i] = "more" <=> i = 3
                                    /\ Fields(cmd)[i] = "size" <=> i = 5
         /\ \A m \in Names \ {"more", "ackno", "window"} :
              (m = "ansno" /\ cmd # ANS) \/ \E i \in 1 .. NF(cmd) : Fields(cmd)[i] = m
         /\ NF(cmd) \in 5 .. 6
<1>. DEFINE F == Fields(cmd)
            n == NF(cmd)
<1>1. /\ F[1] = "chan" /\ F[2] = "msgno" /\ F[3] = "more" /\ F[4] = "seqno"
      /\ F[5] = "size" /\ (cmd = ANS => F[6] = "ansno")
  BY FieldsIs
<1>2. n = IF cmd = ANS THEN 6 ELSE 5
  BY DEF NF
<1> HIDE DEF F, n
<1>3. \A i \in 1 .. n : i = 1 \/ i = 2 \/ i = 3 \/ i = 4 \/ i = 5 \/ (i = 6 /\ cmd = ANS)
  BY <1>2
<1>4. 1 \in 1 .. n /\ 2 \in 1 .. n /\ 3 \in 1 .. n /\ 4 \in 1 .. n /\ 5 \in 1 .. n
      /\ (cmd = ANS => 6 \in 1 .. n) /\ n \in 5 .. 6
  BY <1>2
<1>5. \A i \in 1 .. n : F[i] \in Names
  BY <1>1, <1>3 DEF Names
<1>6. \A i, j \in 1 .. n : F[i] = F[j] => i = j
  BY <1>1, <1>3
<1>7. \A i \in 1 .. n : (F[i] = "more" <=> i = 3) /\ (F[i] = "size" <=> i = 5)
  BY <1>1, <1>3
<1>8. \A m \in Names \ {"more", "ackno", "window"} :
        (m = "ansno" /\ cmd # ANS) \/ \E i \in 1 .. n : F[i] = m
  BY <1>1, <1>4 DEF Names
<1> QED BY <1>4, <1>5, <1>6, <1>7, <1>8 DEF F, n

LEMMA KnownIs ==
  ASSUME NEW f, DataFram(f)
  PROVE  /\ Known(f, 1) = NoVal
         /\ \A i \in 1 .. NF(f.cmd) :
              /\ Known(f, i) \in [Names -> Nat]
              /\ [Known(f, i) EXCEPT ![Fields(f.cmd)[i]] = f.val[Fields(f.cmd)[i]]]
                   = Known(f, i + 1)
         /\ Known(f, NF(f.cmd) + 1) = f.val
<1>. DEFINE F == Fields(f.cmd)
            n == NF(f.cmd)
<1>1. /\ \A i \in 1 .. n : F[i] \in Names
      /\ \A i, j \in 1 .. n : F[i] = F[j] => i = j
      /\ \A m \in Names \ {"more", "ackno", "window"} :
           (m = "ansno" /\ f.cmd # ANS) \/ \E i \in 1 .. n : F[i] = m
      /\ n \in Nat
  <2>1. f.cmd \in DataCommands
    BY DEF DataFram
  <2> QED BY <2>1, FieldNames
<1>2. f.val \in [Names -> Nat] /\ f.val.more = 0 /\ f.val.ackno = 0
      /\ f.val.window = 0 /\ (f.cmd # ANS => f.val.ansno = 0)
  BY DEF DataFram
<1> HIDE DEF n, F
<1>3. Known(f, 1) = NoVal
  <2>1. Known(f, 1) = [m \in Names |-> 0]
    BY DEF Known
  <2> QED BY <2>1 DEF NoVal, Names
<1>4. ASSUME NEW i \in 1 .. n PROVE Known(f, i) \in [Names -> Nat]
  BY <1>2 DEF Known
<1>5. ASSUME NEW i \in 1 .. n
      PROVE  [Known(f, i) EXCEPT ![F[i]] = f.val[F[i]]] = Known(f, i + 1)
  <2>. DEFINE K == [Known(f, i) EXCEPT ![F[i]] = f.val[F[i]]]
              L == Known(f, i + 1)
  <2>1. F[i] \in Names
    BY <1>1
  <2>2. K = [m \in Names |-> IF m = F[i] THEN f.val[F[i]] ELSE Known(f, i)[m]]
    BY <2>1, <1>4
  <2>3. ASSUME NEW m \in Names
        PROVE  (IF m = F[i] THEN f.val[F[i]] ELSE Known(f, i)[m])
                 = IF \E j \in 1 .. (i + 1) - 1 : F[j] = m THEN f.val[m] ELSE 0
    <3>1. Known(f, i)[m] = IF \E j \in 1 .. i - 1 : F[j] = m THEN f.val[m] ELSE 0
      BY DEF Known, F
    <3>2. \A j \in 1 .. (i + 1) - 1 : j = i \/ j \in 1 .. i - 1
      OBVIOUS
    <3>3. \A j \in 1 .. i - 1 : j \in 1 .. (i + 1) - 1
      OBVIOUS
    <3>4. i \in 1 .. (i + 1) - 1
      OBVIOUS
    <3> QED BY <3>1, <3>2, <3>3, <3>4, Zenon
  <2>4. L = [m \in Names |->
               IF \E j \in 1 .. (i + 1) - 1 : F[j] = m THEN f.val[m] ELSE 0]
    BY DEF Known, F
  <2> HIDE DEF K, L
  <2>5. K = L
    BY <2>2, <2>3, <2>4
  <2> QED BY <2>5 DEF K, L
<1>6. Known(f, n + 1) = f.val
  <2>1. ASSUME NEW m \in Names
        PROVE  (IF \E j \in 1 .. (n + 1) - 1 : F[j] = m THEN f.val[m] ELSE 0) = f.val[m]
    <3>1. (n + 1) - 1 = n
      BY <1>1
    <3>2. (\E j \in 1 .. n : F[j] = m) \/ f.val[m] = 0
      BY <1>1, <1>2
    <3> QED BY <3>1, <3>2
  <2>2. Known(f, n + 1) = [m \in Names |->
               IF \E j \in 1 .. (n + 1) - 1 : F[j] = m THEN f.val[m] ELSE 0]
    BY DEF Known, F
  <2>3. f.val = [m \in Names |-> f.val[m]]
    BY <1>2
  <2> QED BY <2>1, <2>2, <2>3
<1> QED BY <1>3, <1>4, <1>5, <1>6 DEF n, F
\* What the octet c makes of q: f when nothing (t) is left of it, or a state
\* that waits for t.
Reads(q, c, f, t) ==
  LET r == BuildFrame(q, c)
  IN (Complete(r, f) /\ t = <<>>) \/ (r.st # "DONE" /\ Expects(r, f, t))

LEMMA ReadsCommand ==
  ASSUME NEW f, DataFram(f), NEW q, NEW p, InCommand(q, f, p)
  PROVE  /\ p \in Seq(Octet) /\ p # <<>> /\ q.st # "NULL"
         /\ Reads(q, Head(p), f, Tail(p))
<1>1. PICK b \in Seq(Octet), s \in Seq(Octet) :
        /\ s # <<>> /\ b \o s = f.cmd
        /\ q = Under("CMD", <<>>, b, 0, NoVal, 0)
        /\ p = s \o Rest(f, 1)
  BY DEF InCommand
<1>2. f.cmd \in DataCommands /\ Len(f.cmd) = 3 /\ Rest(f, 1) \in Seq(Octet)
  <2>1. f.cmd \in DataCommands
    BY DEF DataFram
  <2>2. 1 \in 1 .. NF(f.cmd) + 1
    BY <2>1, FieldNames
  <2> QED BY <2>1, <2>2, Literally, RestIs
<1>. DEFINE c == Head(s)
            d == Append(b, c)
            t == Tail(s)
<1>3. /\ p \in Seq(Octet) /\ p # <<>> /\ Head(p) = c /\ Tail(p) = t \o Rest(f, 1)
      /\ t \in Seq(Octet)
  BY <1>1, <1>2, FirstOfConcat
<1>4. d \in Seq(Octet) /\ Len(d) = Len(b) + 1 /\ d \o t = f.cmd
  BY <1>1, MoveFirst
<1>5. d[Len(d)] = c /\ Len(b) \in Nat
  BY <1>1
<1> HIDE DEF c, d, t
<1>6. q.st = "CMD" /\ q.buf = b /\ q.st # "NULL"
  BY <1>1 DEF Under
<1>7. BuildFrame(q, c) = OnCommand(q, c)
  BY <1>6 DEF BuildFrame
<1>8. CASE t = <<>>
  <2>1. d = f.cmd
    BY <1>4, <1>8, ConcatEmptySeq
  <2>2. d \in Commands /\ ~(Len(d) < 3)
    <3>1. DataCommands \subseteq Commands
      BY DEF Commands, DataCommands
    <3>2. d \in Commands /\ Len(d) = 3
      BY <1>2, <2>1, <3>1, Zenon
    <3>3. ~(3 < 3)
      OBVIOUS
    <3> QED BY <3>2, <3>3, Zenon
  <2>3. OnCommand(q, c) = Under("SP", f.cmd, <<>>, 1, NoVal, 0)
    <3>1. OnCommand(q, c) = [q EXCEPT !.st = "SP", !.cmd = d, !.buf = <<>>, !.i = 1]
      BY <1>6, <2>2 DEF OnCommand, d
    <3> QED BY <3>1, <1>1, <2>1 DEF Under
  <2>4. NoVal = Known(f, 1) /\ 1 \in 1 .. NF(f.cmd)
    BY KnownIs, <1>2, FieldNames
  <2>5. Tail(p) = Rest(f, 1)
    BY <1>2, <1>3, <1>8, ConcatEmptySeq
  <2>6. BeforeField(OnCommand(q, c), f, Tail(p))
    BY <2>3, <2>4, <2>5 DEF BeforeField
  <2>7. OnCommand(q, c).st # "DONE"
    BY <2>3 DEF Under
  <2> QED BY <1>3, <1>6, <1>7, <2>6, <2>7 DEF Reads, Expects
<1>9. CASE t # <<>>
  <2>1. Len(d) + Len(t) = 3 /\ Len(t) \in Nat /\ Len(t) >= 1 /\ f.cmd[Len(d)] = c
    <3>1. Len(d \o t) = Len(d) + Len(t) /\ Len(t) \in Nat
      BY <1>3, <1>4, OctetsConcat, OctetsLen
    <3>2. Len(t) >= 1
      BY <1>3, <1>9
    <3>3. Len(d) >= 1
      BY <1>4, <1>5
    <3>4. (d \o t)[Len(d)] = d[Len(d)]
      BY <1>3, <1>4, <3>3, OctetsLast, Zenon
    <3> QED BY <1>2, <1>4, <1>5, <3>1, <3>2, <3>4
  <2>2. Len(d) \in 1 .. 2
    BY <2>1, <1>4, <1>5
  <2>3. \A k \in 1 .. 2 : \A cmd \in DataCommands : cmd[k] \in CommandOctets[k]
    <3>1. \A cmd \in DataCommands : cmd[1] \in {"A", "E", "M", "N", "R", "S"}
      BY DEF DataCommands, MSG, ANS, RPY, ERR, NUL
    <3>2. \A cmd \in DataCommands : cmd[2] \in {"N", "R", "S", "U", "P", "E"}
      BY DEF DataCommands, MSG, ANS, RPY, ERR, NUL
    <3>3. CommandOctets[1] = {"A", "E", "M", "N", "R", "S"}
          /\ CommandOctets[2] = {"N", "R", "S", "U", "P", "E"}
      BY DEF CommandOctets
    <3>4. \A k \in 1 .. 2 : k = 1 \/ k = 2
      OBVIOUS
    <3> QED BY <3>1, <3>2, <3>3, <3>4
  <2>4. c \in CommandOctets[Len(d)]
    BY <1>2, <2>1, <2>2, <2>3
  <2>5. OnCommand(q, c) = Under("CMD", <<>>, d, 0, NoVal, 0)
    <3>1. Len(d) < 3
      <4>1. \A k \in 1 .. 2 : k < 3
        OBVIOUS
      <4> QED BY <2>2, <4>1, Zenon
    <3>2. OnCommand(q, c) = [q EXCEPT !.buf = d]
      BY <1>6, <2>4, <3>1 DEF OnCommand, d
    <3> QED BY <3>2, <1>1 DEF Under
  <2>6. InCommand(OnCommand(q, c), f, Tail(p))
    BY <1>3, <1>4, <1>9, <2>5 DEF InCommand
  <2>7. OnCommand(q, c).st # "DONE"
    BY <2>5 DEF Under
  <2> QED BY <1>3, <1>6, <1>7, <2>6, <2>7 DEF Reads, Expects
<1> QED BY <1>8, <1>9

\* After the separator before field i.
LEMMA EntersField ==
  ASSUME NEW f, DataFram(f), NEW i \in 1 .. NF(f.cmd),
         NEW q, q = Under("IN", f.cmd, <<>>, i,
                          [Known(f, i) EXCEPT ![Fields(f.cmd)[i]] = 0], 0),
         NEW p, p = FieldText(f, Fields(f.cmd)[i]) \o Rest(f, i + 1)
  PROVE  Expects(q, f, p) /\ q.st # "DONE"
<1>0. f.cmd \in DataCommands /\ f.val \in [Names -> Nat]
  BY DEF DataFram
<1>1. Fields(f.cmd)[i] \in Names /\ (Fields(f.cmd)[i] = "more" <=> i = 3)
  BY <1>0, FieldNames
<1>2. q.st # "DONE"
  BY DEF Under
<1>3. CASE i = 3
  <2>1. Fields(f.cmd)[i] = "more" /\ i + 1 = 4
    BY <1>1, <1>3
  <2>2. FieldText(f, "more") = <<".">>
    BY DEF FieldText
  <2>3. InMore(q, f, p)
    BY <1>3, <2>1, <2>2 DEF InMore
  <2> QED BY <1>2, <2>3 DEF Expects
<1>4. CASE i # 3
  <2>. DEFINE name == Fields(f.cmd)[i]
  <2>1. name # "more" /\ f.val[name] \in Nat
    BY <1>0, <1>1, <1>4
  <2>2. FieldText(f, name) = Decimal[f.val[name]]
    BY <2>1 DEF FieldText
  <2>3. /\ Decimal[f.val[name]] \in Seq(Octet)
        /\ Tells(Decimal[f.val[name]], 0, f.val[name])
    BY <2>1, DecimalIs, DecimalTells
  <2>4. i \in (1 .. NF(f.cmd)) \ {3} /\ 0 \in Nat
    BY <1>4
  <2>5. p = Decimal[f.val[name]] \o Rest(f, i + 1)
    BY <2>2
  <2>6. InNumber(q, f, p)
    BY <2>3, <2>4, <2>5 DEF InNumber
  <2> QED BY <1>2, <2>6 DEF Expects
<1> QED BY <1>3, <1>4
LEMMA ReadsSeparator ==
  ASSUME NEW f, DataFram(f), NEW q, NEW p, BeforeField(q, f, p)
  PROVE  /\ p \in Seq(Octet) /\ p # <<>> /\ q.st # "NULL"
         /\ Reads(q, Head(p), f, Tail(p))
<1>1. PICK i \in 1 .. NF(f.cmd) :
        q = Under("SP", f.cmd, <<>>, i, Known(f, i), 0) /\ p = Rest(f, i)
  BY DEF BeforeField
<1>. DEFINE name == Fields(f.cmd)[i]
<1>2. f.cmd \in DataCommands /\ name \in Names /\ Known(f, i) \in [Names -> Nat]
  <2>1. f.cmd \in DataCommands
    BY DEF DataFram
  <2> QED BY <2>1, FieldNames, KnownIs
<1>3. p = Item(f, name) \o Rest(f, i + 1) /\ Rest(f, i + 1) \in Seq(Octet)
  <2>1. i + 1 \in 1 .. NF(f.cmd) + 1
    BY <1>2, FieldNames
  <2> QED BY <1>1, <2>1, RestIs
<1>4. /\ p \in Seq(Octet) /\ p # <<>> /\ Head(p) = " "
      /\ Tail(p) = FieldText(f, name) \o Rest(f, i + 1)
  BY <1>2, <1>3, ItemSplit
<1> HIDE DEF name
<1>5. q.st = "SP" /\ q.i = i /\ q.cmd = f.cmd /\ q.st # "NULL"
  BY <1>1 DEF Under
<1>6. BuildFrame(q, " ") = OnSeparator(q, " ")
  BY <1>5 DEF BuildFrame
<1>7. OnSeparator(q, " ") = [q EXCEPT !.st = "IN", !.val[name] = 0]
  BY <1>5 DEF OnSeparator, name
<1>8. OnSeparator(q, " ")
        = Under("IN", f.cmd, <<>>, i, [Known(f, i) EXCEPT ![name] = 0], 0)
  BY <1>1, <1>7 DEF Under
<1>9. Expects(OnSeparator(q, " "), f, Tail(p)) /\ OnSeparator(q, " ").st # "DONE"
  BY <1>4, <1>8, EntersField DEF name
<1> QED BY <1>4, <1>5, <1>6, <1>9 DEF Reads

LEMMA NextUnder ==
  ASSUME NEW k \in Nat, NEW c, NEW w, NEW q, q = Under("IN", c, <<>>, k, w, 0),
         NEW r, r = [q EXCEPT !.st = "SP", !.i = @ + 1]
  PROVE  r = Under("SP", c, <<>>, k + 1, w, 0)
BY DEF Under

LEMMA ReadsMore ==
  ASSUME NEW f, DataFram(f), NEW q, NEW p, InMore(q, f, p)
  PROVE  /\ p \in Seq(Octet) /\ p # <<>> /\ q.st # "NULL"
         /\ Reads(q, Head(p), f, Tail(p))
<1>1. /\ q = Under("IN", f.cmd, <<>>, 3, [Known(f, 3) EXCEPT !["more"] = 0], 0)
      /\ p = <<".">> \o Rest(f, 4)
  BY DEF InMore
<1>2. /\ f.cmd \in DataCommands /\ Fields(f.cmd)[3] = "more"
      /\ Len(Fields(f.cmd)) = NF(f.cmd) /\ NF(f.cmd) \in 5 .. 6
  <2>1. f.cmd \in DataCommands
    BY DEF DataFram
  <2> QED BY <2>1, FieldNames, FieldsIs
<1>3. /\ 3 \in 1 .. NF(f.cmd) /\ 4 \in 1 .. NF(f.cmd) /\ 3 < NF(f.cmd)
      /\ 4 \in 1 .. NF(f.cmd) + 1 /\ 3 + 1 = 4
  BY <1>2
<1>4. Rest(f, 4) \in Seq(Octet)
  BY <1>3, RestIs
<1>5. p \in Seq(Octet) /\ p # <<>> /\ Head(p) = "." /\ Tail(p) = Rest(f, 4)
  BY <1>1, <1>4, OneThenRest, Literally
<1>6. [Known(f, 3) EXCEPT !["more"] = 0] = Known(f, 4)
  <2>1. f.val["more"] = 0
    BY DEF DataFram
  <2>2. [Known(f, 3) EXCEPT ![Fields(f.cmd)[3]] = f.val[Fields(f.cmd)[3]]] = Known(f, 3 + 1)
    BY <1>3, KnownIs
  <2> QED BY <1>2, <1>3, <2>1, <2>2
<1>7. q.st = "IN" /\ q.i = 3 /\ q.cmd = f.cmd /\ q.st # "NULL"
  BY <1>1 DEF Under
<1>8. BuildFrame(q, ".") = OnField(q, ".")
  BY <1>7 DEF BuildFrame
<1>9. OnField(q, ".") = NextField(q)
  BY <1>2, <1>7 DEF OnField
<1>10. NextField(q) = [q EXCEPT !.st = "SP", !.i = @ + 1]
  BY <1>2, <1>3, <1>7 DEF NextField
<1>11. NextField(q) = Under("SP", f.cmd, <<>>, 4, Known(f, 4), 0)
  <2>1. [q EXCEPT !.st = "SP", !.i = @ + 1]
          = Under("SP", f.cmd, <<>>, 3 + 1, [Known(f, 3) EXCEPT !["more"] = 0], 0)
    <3>. DEFINE w == [Known(f, 3) EXCEPT !["more"] = 0]
    <3>1. q = Under("IN", f.cmd, <<>>, 3, w, 0)
      BY <1>1
    <3> HIDE DEF w
    <3>2. [q EXCEPT !.st = "SP", !.i = @ + 1] = Under("SP", f.cmd, <<>>, 3 + 1, w, 0)
      BY <3>1, NextUnder
    <3> QED BY <3>2 DEF w
  <2> QED BY <1>3, <1>6, <1>10, <2>1, Zenon
<1>12. NextField(q).st # "DONE"
  BY <1>11 DEF Under
<1>13. BeforeField(NextField(q), f, Tail(p))
  BY <1>3, <1>5, <1>11 DEF BeforeField
<1> QED BY <1>5, <1>7, <1>8, <1>9, <1>12, <1>13 DEF Reads, Expects
\* The separators are no digits.
LEMMA NoDigits ==
  ~IsDigit(" ") /\ ~IsDigit(CR)
<1>1. \A k \in 1 .. 10 : Digit[k] # " " /\ Digit[k] # CR
  <2>1. \A k \in 1 .. 10 :
          Digit[k] \in {"0", "1", "2", "3", "4", "5", "6", "7", "8", "9"}
    BY DEF Digit
  <2> QED BY <2>1 DEF CR
<1>2. ToSet(Digit) = {Digit[k] : k \in 1 .. 10}
  BY DigitType
<1> QED BY <1>1, <1>2 DEF IsDigit

LEMMA ReadsDigit ==
  ASSUME NEW f, DataFram(f), NEW i \in (1 .. NF(f.cmd)) \ {3},
         NEW s \in Seq(Octet), NEW v \in Nat, s # <<>>,
         NEW q, q = Under("IN", f.cmd, <<>>, i,
                          [Known(f, i) EXCEPT ![Fields(f.cmd)[i]] = v], 0),
         Tells(s, v, f.val[Fields(f.cmd)[i]]),
         NEW p, p = s \o Rest(f, i + 1)
  PROVE  /\ p \in Seq(Octet) /\ p # <<>> /\ q.st # "NULL"
         /\ Reads(q, Head(p), f, Tail(p))
<1>. DEFINE name == Fields(f.cmd)[i]
            c == Head(s)
            u == 10 * v + DigitVal[c]
<1>1. /\ name \in Names /\ name # "more" /\ i + 1 \in 1 .. NF(f.cmd) + 1
      /\ Known(f, i) \in [Names -> Nat] /\ i \in 1 .. NF(f.cmd)
  <2>1. f.cmd \in DataCommands /\ i \in 1 .. NF(f.cmd) /\ i # 3
    BY DEF DataFram
  <2>2. name \in Names /\ name # "more" /\ NF(f.cmd) \in 5 .. 6
    BY <2>1, FieldNames
  <2>3. Known(f, i) \in [Names -> Nat]
    BY <2>1, KnownIs
  <2>4. i + 1 \in 1 .. NF(f.cmd) + 1
    BY <2>2
  <2> QED BY <2>1, <2>2, <2>3, <2>4
<1>2. Rest(f, i + 1) \in Seq(Octet)
  BY <1>1, RestIs
<1>3. /\ p \in Seq(Octet) /\ p # <<>> /\ Head(p) = c
      /\ Tail(p) = Tail(s) \o Rest(f, i + 1) /\ Tail(s) \in Seq(Octet)
  BY <1>2, FirstOfConcat
<1>4. IsDigit(c) /\ u \in Nat /\ Tells(Tail(s), u, f.val[name])
  BY TellsDigit
<1> HIDE DEF name, c
<1>5. q.st = "IN" /\ q.i = i /\ q.cmd = f.cmd /\ q.st # "NULL"
  BY DEF Under
<1>6. q.val = [Known(f, i) EXCEPT ![name] = v]
  BY DEF Under, name
<1>7. q.val[name] = v
  BY <1>1, <1>6
<1>8. BuildFrame(q, c) = OnField(q, c)
  BY <1>5 DEF BuildFrame
<1>9. OnField(q, c) = [q EXCEPT !.val[name] = 10 * @ + DigitVal[c]]
  BY <1>1, <1>4, <1>5 DEF OnField, name
<1>10. [q EXCEPT !.val[name] = 10 * @ + DigitVal[c]]
         = [q EXCEPT !.val = [q.val EXCEPT ![name] = 10 * q.val[name] + DigitVal[c]]]
  OBVIOUS
<1>11. [q.val EXCEPT ![name] = 10 * q.val[name] + DigitVal[c]]
         = [Known(f, i) EXCEPT ![name] = u]
  BY <1>1, <1>6, <1>7
<1> HIDE DEF u
<1>12. OnField(q, c) = Under("IN", f.cmd, <<>>, i, [Known(f, i) EXCEPT ![name] = u], 0)
  <2>1. OnField(q, c) = [q EXCEPT !.val = [Known(f, i) EXCEPT ![name] = u]]
    BY <1>9, <1>10, <1>11
  <2> QED BY <2>1 DEF Under
<1>13. OnField(q, c).st # "DONE"
  BY <1>12 DEF Under
<1>14. InNumber(OnField(q, c), f, Tail(p))
  BY <1>3, <1>4, <1>12, Zenon DEF InNumber, name
<1> QED BY <1>3, <1>5, <1>8, <1>13, <1>14 DEF Reads, Expects

\* The octet after the last digit, the separator of the next field or the CR
\* that ends the header.
LEMMA ReadsPastNumber ==
  ASSUME NEW f, DataFram(f), f.val.size <= FrameMax,
         NEW i \in (1 .. NF(f.cmd)) \ {3},
         NEW q, q = Under("IN", f.cmd, <<>>, i, Known(f, i + 1), 0),
         NEW p, p = Rest(f, i + 1)
  PROVE  /\ p \in Seq(Octet) /\ p # <<>> /\ q.st # "NULL"
         /\ Reads(q, Head(p), f, Tail(p))
<1>. DEFINE name == Fields(f.cmd)[i]
            n == NF(f.cmd)
<1>1. /\ name \in Names /\ name # "more" /\ i \in 1 .. n /\ n \in 5 .. 6
      /\ (name = "size" => i = 5) /\ Len(Fields(f.cmd)) = n
      /\ f.val \in [Names -> Nat] /\ f.cmd \in DataCommands
  <2>1. f.cmd \in DataCommands /\ f.val \in [Names -> Nat]
    BY DEF DataFram
  <2> QED BY <2>1, FieldNames, FieldsIs
<1> HIDE DEF n
<1>2. q.st = "IN" /\ q.i = i /\ q.cmd = f.cmd /\ q.st # "NULL" /\ q.val = Known(f, i + 1)
  BY DEF Under
<1>3. name = "size" => q.val.size = f.val.size
  <2>1. [Known(f, i) EXCEPT ![name] = f.val[name]] = Known(f, i + 1)
        /\ Known(f, i) \in [Names -> Nat]
    BY <1>1, KnownIs DEF n
  <2>2. Known(f, i + 1)[name] = f.val[name]
    BY <1>1, <2>1
  <2> QED BY <1>2, <2>2
<1>4. ~(name = "size" /\ q.val.size > FrameMax)
  <2>1. f.val["size"] \in Nat /\ FrameMax \in Nat
    BY <1>1, StreamAssumption DEF Names
  <2> QED BY <1>3, <2>1
<1>5. ASSUME NEW c, ~IsDigit(c)
      PROVE  BuildFrame(q, c) = OnSeparator(NextField(q), c)
  <2>1. BuildFrame(q, c) = OnField(q, c)
    BY <1>2 DEF BuildFrame
  <2> QED BY <1>1, <1>2, <1>4, <1>5, <2>1 DEF OnField
<1>6. CASE i < n
  <2>. DEFINE next == Fields(f.cmd)[i + 1]
              r == OnSeparator(NextField(q), " ")
  <2>1. i + 1 \in 1 .. n /\ (i + 1) + 1 \in 1 .. n + 1
    BY <1>1, <1>6
  <2>2. next \in Names /\ Known(f, i + 1) \in [Names -> Nat]
    BY <1>1, <2>1, FieldNames, KnownIs DEF n
  <2>3. p = Item(f, next) \o Rest(f, (i + 1) + 1) /\ Rest(f, (i + 1) + 1) \in Seq(Octet)
    BY <2>1, RestIs DEF n
  <2>4. /\ p \in Seq(Octet) /\ p # <<>> /\ Head(p) = " "
        /\ Tail(p) = FieldText(f, next) \o Rest(f, (i + 1) + 1)
    <3>. DEFINE t == Rest(f, (i + 1) + 1)
    <3>1. next \in Names /\ t \in Seq(Octet) /\ p = Item(f, next) \o t
      BY <2>2, <2>3
    <3>. HIDE DEF next, t
    <3>2. /\ p \in Seq(Octet) /\ p # <<>> /\ Head(p) = " "
          /\ Tail(p) = FieldText(f, next) \o t
      BY <3>1, ItemSplit
    <3> QED BY <3>2 DEF t
  <2>5. NextField(q) = Under("SP", f.cmd, <<>>, i + 1, Known(f, i + 1), 0)
    <3>1. NextField(q) = [q EXCEPT !.st = "SP", !.i = @ + 1]
      BY <1>1, <1>2, <1>6 DEF NextField
    <3> QED BY <3>1 DEF Under
  <2> HIDE DEF next
  <2>6. r = Under("IN", f.cmd, <<>>, i + 1, [Known(f, i + 1) EXCEPT ![next] = 0], 0)
    <3>. DEFINE z == NextField(q)
    <3>1. z.st = "SP" /\ z.i = i + 1 /\ z.cmd = f.cmd
      BY <2>5 DEF Under
    <3>2. r = [z EXCEPT !.st = "IN", !.val[next] = 0]
      BY <3>1 DEF OnSeparator, next
    <3> HIDE DEF z, r
    <3>3. z = Under("SP", f.cmd, <<>>, i + 1, Known(f, i + 1), 0)
      BY <2>5 DEF z
    <3> QED BY <3>2, <3>3 DEF Under
  <2>7. Expects(r, f, Tail(p)) /\ r.st # "DONE"
    <3> HIDE DEF r
    <3> QED BY <2>1, <2>4, <2>6, EntersField DEF next, n
  <2>8. BuildFrame(q, " ") = r
    BY <1>5, NoDigits
  <2> QED BY <1>2, <2>4, <2>7, <2>8 DEF Reads
<1>7. CASE i = n
  <2>. DEFINE r == OnSeparator(NextField(q), CR)
  <2>1. p = Body(f)
    BY <1>7, RestIs DEF n
  <2>2. p = <<CR>> \o (<<LF>> \o (f.payload \o Trailer))
        /\ <<LF>> \o (f.payload \o Trailer) \in Seq(Octet)
    BY <2>1, BodySplit
  <2>3. /\ p \in Seq(Octet) /\ p # <<>> /\ Head(p) = CR
        /\ Tail(p) = <<LF>> \o (f.payload \o Trailer)
    <3>. DEFINE t == <<LF>> \o (f.payload \o Trailer)
    <3>1. t \in Seq(Octet) /\ CR \in Octet /\ p = <<CR>> \o t
      BY <2>2, Literally
    <3> HIDE DEF t
    <3>2. <<CR>> \o t \in Seq(Octet) /\ <<CR>> \o t # <<>>
          /\ Head(<<CR>> \o t) = CR /\ Tail(<<CR>> \o t) = t
      BY <3>1, OneThenRest
    <3> QED BY <3>1, <3>2 DEF t
  <2>4. Known(f, i + 1) = f.val
    BY <1>7, KnownIs DEF n
  <2>5. NextField(q) = Under("HDRCR", f.cmd, <<>>, n, f.val, 0)
    <3>1. NextField(q) = [q EXCEPT !.st = "HDRCR"]
      BY <1>1, <1>2, <1>7 DEF NextField
    <3> QED BY <3>1, <1>7, <2>4 DEF Under
  <2>6. r = Under("HDRLF", f.cmd, <<>>, n, f.val, 0)
    <3>. DEFINE z == NextField(q)
    <3>1. z.st = "HDRCR"
      BY <2>5 DEF Under
    <3>2. r = [z EXCEPT !.st = "HDRLF"]
      BY <3>1 DEF OnSeparator
    <3> HIDE DEF z, r
    <3>3. z = Under("HDRCR", f.cmd, <<>>, n, f.val, 0)
      BY <2>5 DEF z
    <3> QED BY <3>2, <3>3 DEF Under
  <2>7. BeforeLF(r, f, Tail(p)) /\ r.st # "DONE"
    <3> HIDE DEF r
    <3> QED BY <2>3, <2>6 DEF BeforeLF, n, Under
  <2>8. BuildFrame(q, CR) = r
    BY <1>5, NoDigits
  <2> QED BY <1>2, <2>3, <2>7, <2>8 DEF Reads, Expects
<1> QED BY <1>1, <1>6, <1>7
LEMMA ReadsNumber ==
  ASSUME NEW f, DataFram(f), f.val.size <= FrameMax, NEW q, NEW p, InNumber(q, f, p)
  PROVE  /\ p \in Seq(Octet) /\ p # <<>> /\ q.st # "NULL"
         /\ Reads(q, Head(p), f, Tail(p))
<1>1. PICK i \in (1 .. NF(f.cmd)) \ {3}, s \in Seq(Octet), v \in Nat :
        /\ q = Under("IN", f.cmd, <<>>, i, [Known(f, i) EXCEPT ![Fields(f.cmd)[i]] = v], 0)
        /\ Tells(s, v, f.val[Fields(f.cmd)[i]])
        /\ p = s \o Rest(f, i + 1)
  BY DEF InNumber
<1>2. CASE s # <<>>
  BY <1>1, <1>2, ReadsDigit
<1>3. CASE s = <<>>
  <2>1. i \in 1 .. NF(f.cmd) /\ i + 1 \in 1 .. NF(f.cmd) + 1
    <3>1. NF(f.cmd) \in 5 .. 6
      BY FieldNames DEF DataFram
    <3> QED BY <3>1
  <2>2. v = f.val[Fields(f.cmd)[i]]
    BY <1>1, <1>3, TellsNothing
  <2>3. q = Under("IN", f.cmd, <<>>, i, Known(f, i + 1), 0)
    BY <1>1, <2>1, <2>2, KnownIs
  <2>4. Rest(f, i + 1) \in Seq(Octet)
    BY <2>1, RestIs
  <2>5. p = Rest(f, i + 1)
    BY <1>1, <1>3, <2>4, ConcatEmptySeq
  <2> QED BY <2>3, <2>5, ReadsPastNumber
<1> QED BY <1>2, <1>3

LEMMA TrailerIs ==
  ASSUME NEW n \in 0 .. 4
  PROVE  /\ SubSeq(Trailer, n + 1, 5) \in Seq(Octet)
         /\ SubSeq(Trailer, n + 1, 5) # <<>>
         /\ Head(SubSeq(Trailer, n + 1, 5)) = Trailer[n + 1]
         /\ Tail(SubSeq(Trailer, n + 1, 5)) = SubSeq(Trailer, (n + 1) + 1, 5)
<1>1. Trailer \in Seq(Octet) /\ Len(Trailer) = 5
  BY Literally DEF Trailer
<1>2. n + 1 \in 1 .. Len(Trailer) /\ 5 \in n + 1 .. Len(Trailer)
  BY <1>1
<1>3. /\ Head(SubSeq(Trailer, n + 1, 5)) = Trailer[n + 1]
      /\ Tail(SubSeq(Trailer, n + 1, 5)) = SubSeq(Trailer, (n + 1) + 1, 5)
  BY <1>1, <1>2, HeadTailOfSubSeq
<1>4. \A i \in n + 1 .. 5 : Trailer[i] \in Octet
  <2>1. \A i \in n + 1 .. 5 : i \in 1 .. 5
    OBVIOUS
  <2>2. \A i \in 1 .. 5 : Trailer[i] \in Octet
    BY <1>1
  <2> QED BY <2>1, <2>2, Zenon
<1>5. SubSeq(Trailer, n + 1, 5) \in Seq(Octet) /\ Len(SubSeq(Trailer, n + 1, 5)) >= 1
  BY <1>4, SubSeqProperties
<1>6. SubSeq(Trailer, n + 1, 5) # <<>>
  <2>1. \A x \in Seq(Octet) : Len(x) >= 1 => x # <<>>
    OBVIOUS
  <2> QED BY <1>5, <2>1, Zenon
<1> QED BY <1>3, <1>5, <1>6

LEMMA WholeTrailer ==
  Trailer = SubSeq(Trailer, 0 + 1, 5) /\ SubSeq(Trailer, (4 + 1) + 1, 5) = <<>>
<1>1. Trailer \in Seq(Octet) /\ Len(Trailer) = 5
  BY Literally DEF Trailer
<1>2. SubSeq(Trailer, 1, Len(Trailer)) = Trailer
  BY <1>1, SubSeqFull
<1>3. SubSeq(Trailer, (4 + 1) + 1, 5) = <<>>
  BY SubSeqEmpty
<1> QED BY <1>1, <1>2, <1>3

LEMMA ZeroIn == 0 \in 0 .. 4
OBVIOUS

LEMMA ReadsLF ==
  ASSUME NEW f, DataFram(f), NEW q, NEW p, BeforeLF(q, f, p)
  PROVE  /\ p \in Seq(Octet) /\ p # <<>> /\ q.st # "NULL"
         /\ Reads(q, Head(p), f, Tail(p))
<1>1. /\ q = Under("HDRLF", f.cmd, <<>>, NF(f.cmd), f.val, 0)
      /\ p = <<LF>> \o (f.payload \o Trailer)
  BY DEF BeforeLF
<1>2. f.payload \o Trailer \in Seq(Octet) /\ LF \in Octet
  BY BodySplit, Literally
<1>3. p \in Seq(Octet) /\ p # <<>> /\ Head(p) = LF /\ Tail(p) = f.payload \o Trailer
  BY <1>1, <1>2, OneThenRest
<1>4. /\ f.cmd # SEQ /\ f.payload \in Seq(Octet) /\ f.val.size = Len(f.payload)
      /\ Len(f.payload) \in Nat
  <2>1. f.cmd \in DataCommands /\ f.payload \in Seq(Octet) /\ f.val.size = Len(f.payload)
    BY DEF DataFram
  <2> QED BY <2>1, NotSEQ
<1>5. q.st = "HDRLF" /\ q.cmd = f.cmd /\ q.val = f.val /\ q.st # "NULL"
  BY <1>1 DEF Under
<1>6. BuildFrame(q, LF) = OnHdrLF(q, LF)
  BY <1>5 DEF BuildFrame
<1>7. OnHdrLF(q, LF) = [q EXCEPT !.buf = <<>>, !.n = f.val.size,
                          !.st = IF f.val.size > 0 THEN "PAYLOAD" ELSE "TRAILER"]
  BY <1>4, <1>5 DEF OnHdrLF
<1>8. CASE f.payload # <<>>
  <2>1. Len(f.payload) > 0
    BY <1>4, <1>8
  <2>2. OnHdrLF(q, LF) = Under("PAYLOAD", f.cmd, <<>>, NF(f.cmd), f.val, Len(f.payload))
    BY <1>1, <1>4, <1>7, <2>1 DEF Under
  <2>3. <<>> \in Seq(Octet) /\ <<>> \o f.payload = f.payload
    BY <1>4, ConcatEmptySeq
  <2>4. InPayload(OnHdrLF(q, LF), f, Tail(p))
    BY <1>3, <1>4, <1>8, <2>2, <2>3 DEF InPayload
  <2>5. OnHdrLF(q, LF).st # "DONE"
    BY <2>2 DEF Under
  <2> QED BY <1>3, <1>5, <1>6, <2>4, <2>5 DEF Reads, Expects
<1>9. CASE f.payload = <<>>
  <2>1. Len(f.payload) = 0
    BY <1>9
  <2>2. OnHdrLF(q, LF) = Under("TRAILER", f.cmd, f.payload, NF(f.cmd), f.val, 0)
    <3>1. OnHdrLF(q, LF) = [q EXCEPT !.buf = <<>>, !.n = 0, !.st = "TRAILER"]
      BY <1>4, <1>7, <2>1
    <3>2. OnHdrLF(q, LF) = Under("TRAILER", f.cmd, <<>>, NF(f.cmd), f.val, 0)
      BY <1>1, <3>1 DEF Under
    <3> QED BY <1>9, <3>2, Zenon
  <2>3. Tail(p) = SubSeq(Trailer, 0 + 1, 5)
    BY <1>3, <1>9, Literally, ConcatEmptySeq, WholeTrailer
  <2>4. InTrailer(OnHdrLF(q, LF), f, Tail(p))
    BY <2>2, <2>3, ZeroIn, Zenon DEF InTrailer
  <2>5. OnHdrLF(q, LF).st # "DONE"
    BY <2>2 DEF Under
  <2> QED BY <1>3, <1>5, <1>6, <2>4, <2>5 DEF Reads, Expects
<1> QED BY <1>8, <1>9

LEMMA ReadsPayload ==
  ASSUME NEW f, DataFram(f), NEW q, NEW p, InPayload(q, f, p)
  PROVE  /\ p \in Seq(Octet) /\ p # <<>> /\ q.st # "NULL"
         /\ Reads(q, Head(p), f, Tail(p))
<1>1. PICK b \in Seq(Octet), s \in Seq(Octet) :
        /\ s # <<>> /\ b \o s = f.payload
        /\ q = Under("PAYLOAD", f.cmd, b, NF(f.cmd), f.val, Len(s))
        /\ p = s \o Trailer
  BY DEF InPayload
<1>. DEFINE c == Head(s)
            d == Append(b, c)
            t == Tail(s)
            r == OnPayload(q, c)
<1>2. /\ p \in Seq(Octet) /\ p # <<>> /\ Head(p) = c /\ Tail(p) = t \o Trailer
      /\ t \in Seq(Octet)
  <2>1. Trailer \in Seq(Octet)
    BY Literally
  <2> QED BY <1>1, <2>1, FirstOfConcat
<1>3. d \in Seq(Octet) /\ d \o t = f.payload
  BY <1>1, MoveFirst
<1>4. Len(s) \in Nat /\ Len(t) = Len(s) - 1 /\ (t = <<>> <=> Len(s) = 1)
  <2>1. Len(s) \in Nat /\ Len(t) = Len(s) - 1 /\ t \in Seq(Octet)
    BY <1>1
  <2>2. \A x \in Seq(Octet) : x = <<>> <=> Len(x) = 0
    OBVIOUS
  <2> HIDE DEF t
  <2>3. t = <<>> <=> Len(t) = 0
    BY <2>1, <2>2, Zenon
  <2> QED BY <2>1, <2>3
<1>5. q.st = "PAYLOAD" /\ q.buf = b /\ q.n = Len(s) /\ q.st # "NULL"
  BY <1>1 DEF Under
<1>6. BuildFrame(q, c) = r
  BY <1>5 DEF BuildFrame
<1>7. r = [q EXCEPT !.buf = d, !.n = Len(t), !.st = IF t = <<>> THEN "TRAILER" ELSE "PAYLOAD"]
  <2>1. r = [q EXCEPT !.buf = Append(q.buf, c), !.n = q.n - 1,
                      !.st = IF q.n = 1 THEN "TRAILER" ELSE q.st]
    BY DEF OnPayload
  <2> HIDE DEF r, t
  <2> QED BY <1>4, <1>5, <2>1
<1> HIDE DEF r, t, c, d
<1>8. r = Under(IF t = <<>> THEN "TRAILER" ELSE "PAYLOAD", f.cmd, d, NF(f.cmd), f.val, Len(t))
  BY <1>1, <1>7 DEF Under
<1>9. r.st # "DONE"
  BY <1>8 DEF Under
<1>10. CASE t # <<>>
  <2>1. r = Under("PAYLOAD", f.cmd, d, NF(f.cmd), f.val, Len(t))
    BY <1>8, <1>10
  <2>2. InPayload(r, f, Tail(p))
    BY <1>2, <1>3, <1>10, <2>1 DEF InPayload
  <2> QED BY <1>2, <1>5, <1>6, <1>9, <2>2 DEF Reads, Expects
<1>11. CASE t = <<>>
  <2>1. d = f.payload /\ Len(t) = 0
    BY <1>3, <1>11, ConcatEmptySeq
  <2>2. r = Under("TRAILER", f.cmd, f.payload, NF(f.cmd), f.val, 0)
    BY <1>8, <1>11, <2>1
  <2>3. Tail(p) = SubSeq(Trailer, 0 + 1, 5)
    BY <1>2, <1>11, Literally, ConcatEmptySeq, WholeTrailer
  <2>4. InTrailer(r, f, Tail(p))
    BY <2>2, <2>3, ZeroIn, Zenon DEF InTrailer
  <2> QED BY <1>2, <1>5, <1>6, <1>9, <2>4 DEF Reads, Expects
<1> QED BY <1>10, <1>11

LEMMA ReadsTrailer ==
  ASSUME NEW f, DataFram(f), NEW q, NEW p, InTrailer(q, f, p)
  PROVE  /\ p \in Seq(Octet) /\ p # <<>> /\ q.st # "NULL"
         /\ Reads(q, Head(p), f, Tail(p))
<1>1. PICK n \in 0 .. 4 :
        /\ q = Under("TRAILER", f.cmd, f.payload, NF(f.cmd), f.val, n)
        /\ p = SubSeq(Trailer, n + 1, 5)
  BY DEF InTrailer
<1>. DEFINE c == Trailer[n + 1]
<1>2. /\ p \in Seq(Octet) /\ p # <<>> /\ Head(p) = c
      /\ Tail(p) = SubSeq(Trailer, (n + 1) + 1, 5)
  BY <1>1, TrailerIs
<1>3. q.st = "TRAILER" /\ q.n = n /\ q.st # "NULL"
  BY <1>1 DEF Under
<1>4. BuildFrame(q, c) = OnTrailer(q, c)
  BY <1>3 DEF BuildFrame
<1>5. OnTrailer(q, c) = IF n = 4 THEN [q EXCEPT !.st = "DONE"] ELSE [q EXCEPT !.n = n + 1]
  BY <1>3 DEF OnTrailer
<1> HIDE DEF c
<1>6. CASE n = 4
  <2>1. OnTrailer(q, c) = Under("DONE", f.cmd, f.payload, NF(f.cmd), f.val, n)
    BY <1>1, <1>5, <1>6 DEF Under
  <2>2. Complete(OnTrailer(q, c), f)
    BY <2>1 DEF Complete, Under
  <2>3. Tail(p) = <<>>
    BY <1>2, <1>6, WholeTrailer
  <2> QED BY <1>2, <1>3, <1>4, <2>2, <2>3 DEF Reads
<1>7. CASE n # 4
  <2>1. OnTrailer(q, c) = Under("TRAILER", f.cmd, f.payload, NF(f.cmd), f.val, n + 1)
    BY <1>1, <1>5, <1>7 DEF Under
  <2>2. n + 1 \in 0 .. 4
    BY <1>7
  <2>3. InTrailer(OnTrailer(q, c), f, Tail(p))
    BY <1>2, <2>1, <2>2 DEF InTrailer
  <2>4. OnTrailer(q, c).st # "DONE"
    BY <2>1 DEF Under
  <2> QED BY <1>2, <1>3, <1>4, <2>3, <2>4 DEF Reads, Expects
<1> QED BY <1>6, <1>7

\* The machine reads a frame of any numbers and any payload from the first
\* octet to the last.
LEMMA MachineReads ==
  ASSUME NEW f, DataFram(f), Fits(f), NEW q, NEW p, Expects(q, f, p)
  PROVE  /\ p \in Seq(Octet) /\ p # <<>> /\ q.st # "NULL"
         /\ Reads(q, Head(p), f, Tail(p))
<1>1. f.val.size <= FrameMax
  <2>1. Len(Whole(f)) >= Len(f.payload) /\ Len(Whole(f)) \in Nat
    BY WholeIs
  <2>2. Len(Whole(f)) <= FrameMax /\ f.val.size = Len(f.payload) /\ Len(f.payload) \in Nat
    BY DEF Fits, DataFram
  <2> QED BY <2>1, <2>2, StreamAssumption
<1> QED BY <1>1, ReadsCommand, ReadsSeparator, ReadsMore, ReadsNumber, ReadsLF,
           ReadsPayload, ReadsTrailer DEF Expects

LEMMA MachineStarts ==
  ASSUME NEW f, DataFram(f), Fits(f)
  PROVE  Expects(NoFram, f, Octets(f)) /\ Octets(f) # <<>>
<1>1. Octets(f) = f.cmd \o Rest(f, 1)
  BY WholeIs DEF Octets
<1>2. f.cmd \in Seq(Octet) /\ Len(f.cmd) = 3 /\ f.cmd # <<>>
  <2>1. f.cmd \in DataCommands
    BY DEF DataFram
  <2>2. f.cmd \in Seq(Octet) /\ Len(f.cmd) = 3
    BY <2>1, Literally
  <2> QED BY <2>2
<1>3. <<>> \in Seq(Octet) /\ <<>> \o f.cmd = f.cmd
  BY <1>2, ConcatEmptySeq
<1>4. NoFram = Under("CMD", <<>>, <<>>, 0, NoVal, 0)
  BY DEF NoFram, Under
<1>5. InCommand(NoFram, f, Octets(f))
  BY <1>1, <1>2, <1>3, <1>4 DEF InCommand
<1> QED BY <1>5, ReadsCommand DEF Expects
-----------------------------------------------------------------------------
(***************************************************************************)
(* The listener and the stream: fs are the frames sent, bs those built, c  *)
(* the octets on their way, q the frame under construction, up whether the *)
(* listener lives.                                                         *)
(***************************************************************************)
Frames == [cmd : DataCommands, payload : Seq(Octet), val : [Names -> Nat]]
AllData(fs) == fs \in Seq(Frames) /\ \A i \in 1 .. Len(fs) : DataFram(fs[i])

\* In the middle of the first frame that is not built.
Midway(c, fs, bs, q) ==
  /\ Len(bs) < Len(fs) /\ Fits(fs[Len(bs) + 1])
  /\ \E p, w \in Seq(Octet) : /\ c = p \o w
                              /\ Expects(q, fs[Len(bs) + 1], p)
                              /\ Streams(w, fs, Len(bs) + 1)

\* The listener has built the first frames as they were sent, and the octets
\* are the rest of a frame and the frames after it.
Aligned(c, fs, bs, q, up) ==
  /\ Len(bs) <= Len(fs) /\ up = TRUE
  /\ \A i \in 1 .. Len(bs) : bs[i] = fs[i]
  /\ (q = NoFram /\ Streams(c, fs, Len(bs))) \/ Midway(c, fs, bs, q)

\* It has come to a frame that was cut, and built those before it.
Astray(fs, bs) ==
  \E k \in 1 .. Len(fs) :
    /\ ~Fits(fs[k]) /\ k <= Len(bs) + 1
    /\ \A i \in 1 .. k - 1 : bs[i] = fs[i]

Follows(c, fs, bs, q, up) == Aligned(c, fs, bs, q, up) \/ Astray(fs, bs)

LEMMA AstrayStays ==
  ASSUME NEW F, NEW fs \in Seq(F), NEW B, NEW bs \in Seq(B), Astray(fs, bs)
  PROVE  /\ \A f : Astray(Append(fs, f), bs)
         /\ \A b : Astray(fs, Append(bs, b))
<1>1. PICK k \in 1 .. Len(fs) :
        /\ ~Fits(fs[k]) /\ k <= Len(bs) + 1
        /\ \A i \in 1 .. k - 1 : bs[i] = fs[i]
  BY DEF Astray
<1>2. Len(fs) \in Nat /\ Len(bs) \in Nat
  OBVIOUS
<1>3. ASSUME NEW f PROVE Astray(Append(fs, f), bs)
  <2>. DEFINE gs == Append(fs, f)
  <2>1. Len(gs) = Len(fs) + 1 /\ \A i \in 1 .. Len(fs) : gs[i] = fs[i]
    OBVIOUS
  <2> HIDE DEF gs
  <2>2. k \in 1 .. Len(gs) /\ \A i \in 1 .. k - 1 : i \in 1 .. Len(fs)
    BY <1>2, <2>1
  <2>3. Astray(gs, bs)
    BY <1>1, <2>1, <2>2 DEF Astray
  <2> QED BY <2>3 DEF gs
<1>4. ASSUME NEW b PROVE Astray(fs, Append(bs, b))
  <2>. DEFINE cs == Append(bs, b)
  <2>1. Len(cs) = Len(bs) + 1 /\ \A i \in 1 .. Len(bs) : cs[i] = bs[i]
    OBVIOUS
  <2> HIDE DEF cs
  <2>2. k <= Len(cs) + 1 /\ \A i \in 1 .. k - 1 : i \in 1 .. Len(bs)
    BY <1>1, <1>2, <2>1
  <2>3. Astray(fs, cs)
    BY <1>1, <2>1, <2>2 DEF Astray
  <2> QED BY <2>3 DEF cs
<1> QED BY <1>3, <1>4

LEMMA AllDataType ==
  ASSUME NEW fs, AllData(fs)
  PROVE  /\ fs \in Seq(Frames) /\ Len(fs) \in Nat
         /\ \A i \in 1 .. Len(fs) : DataFram(fs[i]) /\ Octets(fs[i]) \in Seq(Octet)
BY OctetsType DEF AllData

\* The client sends one more frame.
LEMMA FollowsSend ==
  ASSUME NEW fs, AllData(fs), NEW f \in Frames, DataFram(f),
         NEW B, NEW bs \in Seq(B), NEW c, NEW q, NEW up, Follows(c, fs, bs, q, up)
  PROVE  AllData(Append(fs, f)) /\ Follows(c \o Octets(f), Append(fs, f), bs, q, up)
<1>. DEFINE gs == Append(fs, f)
            o == Octets(f)
            n == Len(bs)
<1>1. /\ fs \in Seq(Frames) /\ Len(fs) \in Nat /\ o \in Seq(Octet) /\ n \in Nat
      /\ \A i \in 1 .. Len(fs) : DataFram(fs[i]) /\ Octets(fs[i]) \in Seq(Octet)
  BY AllDataType, OctetsType
<1>2. /\ gs \in Seq(Frames) /\ Len(gs) = Len(fs) + 1 /\ gs[Len(fs) + 1] = f
      /\ \A i \in 1 .. Len(fs) : gs[i] = fs[i]
  BY <1>1
<1>3. \A w : \A k \in Nat : k <= Len(fs) /\ Streams(w, fs, k) => Streams(w \o o, gs, k)
  BY <1>1, StreamsAppend
<1> HIDE DEF gs, o, n
<1>4. AllData(gs)
  <2>1. \A i \in 1 .. Len(gs) : i \in 1 .. Len(fs) \/ i = Len(fs) + 1
    BY <1>1, <1>2
  <2> QED BY <1>1, <1>2, <2>1 DEF AllData
<1>5. CASE Astray(fs, bs)
  <2>1. Astray(gs, bs)
    BY <1>1, <1>5, AstrayStays DEF gs
  <2> QED BY <1>4, <2>1 DEF Follows, gs
<1>6. CASE Aligned(c, fs, bs, q, up)
  <2>1. /\ n <= Len(fs) /\ up = TRUE /\ \A i \in 1 .. n : bs[i] = fs[i]
        /\ (q = NoFram /\ Streams(c, fs, n)) \/ Midway(c, fs, bs, q)
    BY <1>6 DEF Aligned, n
  <2>2. n <= Len(gs) /\ \A i \in 1 .. n : bs[i] = gs[i]
    <3>1. \A i \in 1 .. n : i \in 1 .. Len(fs)
      BY <1>1, <2>1
    <3>2. n <= Len(gs)
      BY <1>1, <1>2, <2>1
    <3> QED BY <1>2, <2>1, <3>1, <3>2
  <2>3. CASE q = NoFram /\ Streams(c, fs, n)
    <3>1. Streams(c \o o, gs, n)
      BY <1>1, <1>3, <2>1, <2>3
    <3> QED BY <1>4, <2>1, <2>2, <2>3, <3>1 DEF Follows, Aligned, gs, o, n
  <2>4. CASE Midway(c, fs, bs, q)
    <3>1. n < Len(fs) /\ Fits(fs[n + 1])
      BY <2>4 DEF Midway, n
    <3>2. PICK p \in Seq(Octet), w \in Seq(Octet) :
            c = p \o w /\ Expects(q, fs[n + 1], p) /\ Streams(w, fs, n + 1)
      BY <2>4 DEF Midway, n
    <3>3. n + 1 \in 1 .. Len(fs) /\ n + 1 \in Nat /\ n + 1 <= Len(fs) /\ n < Len(gs)
      BY <1>1, <1>2, <3>1
    <3>4. Streams(w \o o, gs, n + 1)
      BY <1>3, <3>2, <3>3
    <3>5. gs[n + 1] = fs[n + 1]
      BY <1>2, <3>3
    <3>6. w \o o \in Seq(Octet)
      BY <1>1, <3>2, OctetsConcat, Zenon
    <3>7. c \o o = p \o (w \o o)
      <4>1. (p \o w) \o o = p \o (w \o o)
        BY <1>1, <3>2, OctetsAssoc, ZenonT(30)
      <4> QED BY <3>2, <4>1
    <3>8. Midway(c \o o, gs, bs, q)
      BY <3>1, <3>2, <3>3, <3>4, <3>5, <3>6, <3>7, Zenon DEF Midway, n
    <3> QED BY <1>4, <2>1, <2>2, <3>8 DEF Follows, Aligned, gs, o, n
  <2> QED BY <2>1, <2>3, <2>4
<1> QED BY <1>5, <1>6 DEF Follows
\* Between two frames, the next octet begins the next frame.
LEMMA FrameBegins ==
  ASSUME NEW fs, AllData(fs), NEW B, NEW bs \in Seq(B), NEW c, c # <<>>, NEW q, NEW up,
         Aligned(c, fs, bs, q, up)
  PROVE  Midway(c, fs, bs, q) \/ Astray(fs, bs)
<1>. DEFINE n == Len(bs)
<1>1. /\ n <= Len(fs) /\ \A i \in 1 .. n : bs[i] = fs[i]
      /\ (q = NoFram /\ Streams(c, fs, n)) \/ Midway(c, fs, bs, q)
  BY DEF Aligned
<1>2. /\ fs \in Seq(Frames) /\ Len(fs) \in Nat /\ n \in Nat
      /\ \A i \in 1 .. Len(fs) : DataFram(fs[i]) /\ Octets(fs[i]) \in Seq(Octet)
  BY AllDataType
<1> HIDE DEF n
<1>3. CASE q = NoFram /\ Streams(c, fs, n)
  <2>1. /\ n = Len(fs) => c = <<>>
        /\ n < Len(fs) => \E v \in Seq(Octet) : /\ c = Octets(fs[n + 1]) \o v
                                                /\ Streams(v, fs, n + 1)
    BY <1>1, <1>2, <1>3, StreamsFirst
  <2>2. n < Len(fs) /\ n + 1 \in 1 .. Len(fs)
    BY <1>1, <1>2, <2>1
  <2>3. PICK v \in Seq(Octet) : c = Octets(fs[n + 1]) \o v /\ Streams(v, fs, n + 1)
    BY <2>1, <2>2
  <2>4. CASE Fits(fs[n + 1])
    <3>1. Octets(fs[n + 1]) \in Seq(Octet) /\ DataFram(fs[n + 1])
      BY <1>2, <2>2
    <3>2. Expects(q, fs[n + 1], Octets(fs[n + 1]))
      BY <1>3, <2>4, <3>1, MachineStarts
    <3>3. Midway(c, fs, bs, q)
      BY <2>2, <2>3, <2>4, <3>1, <3>2, Zenon DEF Midway, n
    <3> QED BY <3>3
  <2>5. CASE ~Fits(fs[n + 1])
    <3>1. n + 1 <= Len(bs) + 1 /\ \A i \in 1 .. (n + 1) - 1 : i \in 1 .. n
      BY <1>2 DEF n
    <3>2. Astray(fs, bs)
      BY <1>1, <2>2, <2>5, <3>1 DEF Astray
    <3> QED BY <3>2
  <2> QED BY <2>4, <2>5
<1> QED BY <1>1, <1>3

\* The listener takes one octet.
LEMMA FollowsOctet ==
  ASSUME NEW fs, AllData(fs), NEW B, NEW bs \in Seq(B), NEW c, c # <<>>, NEW q, NEW up,
         Follows(c, fs, bs, q, up),
         NEW r, r = BuildFrame(q, Head(c))
  PROVE  /\ r.st # "DONE" => Follows(Tail(c), fs, bs, r, up)
         /\ r.st = "DONE" =>
              Follows(Tail(c), fs,
                      Append(bs, [cmd |-> r.cmd, val |-> r.val, payload |-> r.buf]),
                      NoFram, up)
<1>. DEFINE n == Len(bs)
            b == [cmd |-> r.cmd, val |-> r.val, payload |-> r.buf]
            cs == Append(bs, b)
<1>1. /\ fs \in Seq(Frames) /\ Len(fs) \in Nat /\ n \in Nat
      /\ \A i \in 1 .. Len(fs) : DataFram(fs[i]) /\ fs[i] \in Frames
  BY AllDataType
<1>2. CASE Astray(fs, bs)
  <2>1. Astray(fs, cs)
    BY <1>1, <1>2, AstrayStays
  <2> QED BY <1>2, <2>1 DEF Follows
<1>3. CASE Aligned(c, fs, bs, q, up) /\ Midway(c, fs, bs, q)
  <2>1. /\ n < Len(fs) /\ Fits(fs[n + 1]) /\ up = TRUE
        /\ \A i \in 1 .. n : bs[i] = fs[i]
    BY <1>3 DEF Aligned, Midway
  <2>2. PICK p \in Seq(Octet), w \in Seq(Octet) :
          c = p \o w /\ Expects(q, fs[n + 1], p) /\ Streams(w, fs, n + 1)
    BY <1>3 DEF Midway
  <2>3. n + 1 \in 1 .. Len(fs) /\ DataFram(fs[n + 1]) /\ fs[n + 1] \in Frames
    BY <1>1, <2>1
  <2>4. p # <<>> /\ Reads(q, Head(p), fs[n + 1], Tail(p))
    BY <2>1, <2>2, <2>3, MachineReads
  <2>5. Head(c) = Head(p) /\ Tail(c) = Tail(p) \o w /\ Tail(p) \in Seq(Octet)
    BY <2>2, <2>4, FirstOfConcat
  <2>6. (Complete(r, fs[n + 1]) /\ Tail(p) = <<>>)
          \/ (r.st # "DONE" /\ Expects(r, fs[n + 1], Tail(p)))
    BY <2>4, <2>5 DEF Reads
  <2>7. ASSUME r.st # "DONE" PROVE Follows(Tail(c), fs, bs, r, up)
    <3>1. Expects(r, fs[n + 1], Tail(p))
      BY <2>6, <2>7 DEF Complete
    <3>2. Midway(Tail(c), fs, bs, r)
      BY <2>1, <2>2, <2>5, <3>1 DEF Midway
    <3> QED BY <1>3, <3>2 DEF Follows, Aligned
  <2>8. ASSUME r.st = "DONE" PROVE Follows(Tail(c), fs, cs, NoFram, up)
    <3>1. Complete(r, fs[n + 1]) /\ Tail(p) = <<>>
      BY <2>6, <2>8
    <3>2. b = fs[n + 1]
      <4>1. r.cmd = fs[n + 1].cmd /\ r.val = fs[n + 1].val /\ r.buf = fs[n + 1].payload
        BY <3>1 DEF Complete
      <4>2. \A f \in Frames : f = [cmd |-> f.cmd, val |-> f.val, payload |-> f.payload]
        BY DEF Frames
      <4> QED BY <2>3, <4>1, <4>2
    <3> HIDE DEF b
    <3>3. /\ Len(cs) = n + 1 /\ cs[n + 1] = b
          /\ \A i \in 1 .. n : cs[i] = bs[i]
      BY <1>1
    <3> HIDE DEF cs, n
    <3>4. Tail(c) = w
      BY <2>2, <2>5, <3>1, ConcatEmptySeq
    <3>5. \A i \in 1 .. Len(cs) : cs[i] = fs[i]
      <4>1. \A i \in 1 .. Len(cs) : i \in 1 .. n \/ i = n + 1
        BY <1>1, <3>3
      <4> QED BY <2>1, <3>2, <3>3, <4>1
    <3>6. Len(cs) <= Len(fs)
      BY <1>1, <2>1, <3>3
    <3>7. Aligned(Tail(c), fs, cs, NoFram, up)
      BY <2>1, <2>2, <3>3, <3>4, <3>5, <3>6 DEF Aligned
    <3> QED BY <3>7 DEF Follows
  <2> QED BY <2>7, <2>8
<1> QED BY <1>2, <1>3, FrameBegins DEF Follows

\* A listener that follows the stream has lost its buffer only after a cut frame.
LEMMA FollowsAlive ==
  ASSUME NEW fs, AllData(fs), NEW B, NEW bs \in Seq(B), NEW c, NEW q, NEW up,
         Aligned(c, fs, bs, q, up)
  PROVE  q.st # "NULL"
<1>1. CASE q = NoFram
  BY <1>1 DEF NoFram
<1>2. CASE Midway(c, fs, bs, q)
  <2>1. /\ Len(bs) < Len(fs) /\ Fits(fs[Len(bs) + 1])
        /\ \E p \in Seq(Octet) : Expects(q, fs[Len(bs) + 1], p)
    BY <1>2 DEF Midway
  <2>2. Len(bs) + 1 \in 1 .. Len(fs) /\ Len(bs) \in Nat /\ Len(fs) \in Nat
    BY <2>1, AllDataType
  <2>3. DataFram(fs[Len(bs) + 1])
    BY <2>2, AllDataType
  <2> QED BY <2>1, <2>3, MachineReads
<1> QED BY <1>1, <1>2 DEF Aligned
-----------------------------------------------------------------------------
(***************************************************************************)
(* The invariant.                                                          *)
(***************************************************************************)
ChanFields == {"uMsgno", "uSeqno", "uTXWinLeft", "uAnsno"}
ChanOK(ch) ==
  /\ ch = [n \in ChanFields |-> ch[n]]
  /\ ch.uMsgno \in Nat /\ ch.uSeqno \in Nat /\ ch.uAnsno \in Nat

\* A frame of the profile, on the log channel.
LogFram(f) == f \in Frames /\ DataFram(f) /\ f.cmd = LogCmd /\ f.val.chan = 1

ClientOK ==
  /\ profile \in {"RAW", "COOKED"}
  /\ ChanOK(chan)
  /\ cpc = "send" => LogFram(pend)
  /\ AllData(sent)
  /\ \A i \in 1 .. Len(sent) : LogFram(sent[i])

ListenerOK ==
  /\ \E B : built \in Seq(B)
  /\ Follows(c2s, sent, built, recvFram, lstnUp)

IInv == ClientOK /\ ListenerOK

\* What the client builds for a text.
LEMMA LogFramIs ==
  ASSUME NEW t \in Texts, NEW ch, ChanOK(ch), profile \in {"RAW", "COOKED"}
  PROVE  LogFram(MesgFram(ch, LogCmd, Mesg(<<>>, t),
                          IF profile = "RAW" THEN ch.uAnsno ELSE 0))
<1>. DEFINE raw == Mesg(<<>>, t)
            ansno == IF profile = "RAW" THEN ch.uAnsno ELSE 0
            f == MesgFram(ch, LogCmd, raw, ansno)
<1>1. raw \in Seq(Octet) /\ Len(raw) \in Nat
  <2>1. t \in Seq(STRING) /\ STRING \subseteq Octet
    BY StreamAssumption DEF Octet
  <2>2. t \in Seq(Octet)
    BY <2>1, SeqMonotonic
  <2>3. CRLF \in Seq(Octet) /\ <<>> \o CRLF = CRLF
    BY Literally, ConcatEmptySeq
  <2> QED BY <2>2, <2>3, OctetsConcat, OctetsLen, Zenon DEF Mesg
<1>2. ansno \in Nat /\ (LogCmd # ANS => ansno = 0)
  BY DEF ChanOK, LogCmd
<1>3. LogCmd \in DataCommands
  BY DEF LogCmd, DataCommands
<1> HIDE DEF raw, ansno
<1>4. NoVal \in [Names -> Nat]
  BY DEF NoVal, Names
<1>5. f = [cmd |-> LogCmd, payload |-> raw,
           val |-> [NoVal EXCEPT !.chan = 1, !.msgno = ch.uMsgno, !.seqno = ch.uSeqno,
                                 !.size = Len(raw), !.ansno = ansno]]
  BY DEF MesgFram
<1>. DEFINE val == [NoVal EXCEPT !.chan = 1, !.msgno = ch.uMsgno, !.seqno = ch.uSeqno,
                                 !.size = Len(raw), !.ansno = ansno]
<1>6. val \in [Names -> Nat]
  BY <1>1, <1>2, <1>4 DEF ChanOK
<1>7. /\ val.chan = 1 /\ val.size = Len(raw) /\ val.ansno = ansno
      /\ val.more = 0 /\ val.ackno = 0 /\ val.window = 0
  BY <1>4 DEF NoVal, Names
<1>8. f.cmd = LogCmd /\ f.payload = raw /\ f.val = val
  BY <1>5
<1>9. f \in Frames
  BY <1>1, <1>3, <1>5, <1>6 DEF Frames
<1> HIDE DEF f, val
<1>10. DataFram(f)
  BY <1>2, <1>7, <1>8, <1>9 DEF DataFram, Frames
<1>11. LogFram(f)
  BY <1>7, <1>8, <1>9, <1>10 DEF LogFram
<1> QED BY <1>11 DEF f, raw, ansno

LEMMA ReceiveKeepsChan ==
  ASSUME NEW ch, ChanOK(ch), DoReceive(ch)
  PROVE  ChanOK(chan')
<1>1. chan' = ch \/ \E x : chan' = [ch EXCEPT !.uTXWinLeft = x]
  BY DEF DoReceive
<1>2. ASSUME NEW x PROVE ChanOK([ch EXCEPT !.uTXWinLeft = x])
  BY DEF ChanOK, ChanFields
<1> QED BY <1>1, <1>2

LEMMA InitIInv ==
  Init => IInv
<1>. SUFFICES ASSUME Init PROVE IInv
  OBVIOUS
<1>1. ChanOK(chan)
  BY StreamAssumption DEF Init, ChanOK, ChanFields
<1>2. sent = <<>> /\ built = <<>> /\ c2s = <<>> /\ recvFram = NoFram /\ lstnUp = TRUE
  BY DEF Init
<1>3. AllData(sent) /\ \A i \in 1 .. Len(sent) : LogFram(sent[i])
  BY <1>2 DEF AllData
<1>4. ClientOK
  BY <1>1, <1>3 DEF Init, ClientOK
<1>5. sent \in Seq(Frames) /\ built \in Seq(Frames) /\ Len(sent) = 0 /\ Len(built) = 0
  BY <1>2
<1>6. Streams(c2s, sent, Len(built))
  <2>1. Streams(<<>>, sent, Len(sent))
    BY <1>5, StreamsEmpty
  <2> QED BY <1>2, <1>5, <2>1
<1>7. Aligned(c2s, sent, built, recvFram, lstnUp)
  BY <1>2, <1>5, <1>6 DEF Aligned
<1> QED BY <1>4, <1>5, <1>7 DEF IInv, ListenerOK, Follows

\* A step that leaves the stream alone.
LEMMA StreamUntouched ==
  ASSUME ListenerOK, UNCHANGED <<c2s, sent, built, recvFram, lstnUp>>
  PROVE  ListenerOK'
BY DEF ListenerOK

LEMMA LogMesgIInv ==
  ASSUME IInv, NEW t \in Texts, LogMesg(t)
  PROVE  IInv'
<1>1. ClientOK /\ ListenerOK
  BY DEF IInv
<1>2. ListenerOK'
  BY <1>1, StreamUntouched DEF LogMesg, lstnVars, lstnHist
<1>. DEFINE f == MesgFram(chan, LogCmd, Mesg(<<>>, t),
                          IF profile = "RAW" THEN chan.uAnsno ELSE 0)
            ch == [Advance(chan, f) EXCEPT !.uAnsno = IF profile = "RAW" THEN @ + 1 ELSE @]
<1>3. /\ pend' = f /\ profile' = profile /\ sent' = sent
      /\ DoReceive(ch) \/ chan' = ch
  BY DEF LogMesg, clntHist
<1>4. LogFram(f)
  BY <1>1, LogFramIs DEF ClientOK
<1> HIDE DEF f
<1>5. f.val.size \in Nat
  BY <1>4 DEF LogFram, Frames, Names
<1>6. ChanOK(ch)
  <2>. DEFINE a == Advance(chan, f)
  <2>1. ChanOK(chan)
    BY <1>1 DEF ClientOK
  <2>2. ChanOK(a)
    <3>1. ASSUME NEW c, ChanOK(c), NEW m \in Nat, NEW n \in Nat
          PROVE  ChanOK([c EXCEPT !.uMsgno = m, !.uSeqno = n])
      BY <3>1 DEF ChanOK, ChanFields
    <3>2. a = [chan EXCEPT !.uMsgno = chan.uMsgno + 1, !.uSeqno = chan.uSeqno + f.val.size]
      BY DEF Advance
    <3>3. chan.uMsgno + 1 \in Nat /\ chan.uSeqno + f.val.size \in Nat
      BY <1>5, <2>1 DEF ChanOK
    <3> HIDE DEF a
    <3> QED BY <2>1, <3>1, <3>2, <3>3
  <2> HIDE DEF a
  <2>3. ChanOK([a EXCEPT !.uAnsno = IF profile = "RAW" THEN @ + 1 ELSE @])
    BY <2>2 DEF ChanOK, ChanFields
  <2> QED BY <2>3 DEF a
<1> HIDE DEF ch
<1>7. ChanOK(chan')
  BY <1>3, <1>6, ReceiveKeepsChan
<1>8. LogCmd' = LogCmd
  BY <1>3 DEF LogCmd
<1>9. ClientOK'
  BY <1>1, <1>3, <1>4, <1>7, <1>8 DEF ClientOK, LogFram
<1> QED BY <1>2, <1>9 DEF IInv
LEMMA SendFramIInv ==
  ASSUME IInv, SendFram
  PROVE  IInv'
<1>1. ClientOK /\ ListenerOK
  BY DEF IInv
<1>2. /\ cpc = "send" /\ c2s' = c2s \o Octets(pend) /\ sent' = Append(sent, pend)
      /\ chan' = [chan EXCEPT !.uTXWinLeft = @ - pend.val.size]
      /\ cpc' = IF profile = "RAW" THEN "idle" ELSE "recv"
      /\ profile' = profile /\ built' = built /\ recvFram' = recvFram /\ lstnUp' = lstnUp
  BY DEF SendFram, lstnVars, lstnHist
<1>3. AllData(sent) /\ LogFram(pend) /\ pend \in Frames /\ DataFram(pend)
  BY <1>1, <1>2 DEF ClientOK, LogFram
<1>4. PICK B : built \in Seq(B)
  BY <1>1 DEF ListenerOK
<1>5. AllData(sent') /\ Follows(c2s', sent', built, recvFram, lstnUp)
  BY <1>1, <1>2, <1>3, <1>4, FollowsSend DEF ListenerOK
<1>6. ListenerOK'
  BY <1>2, <1>4, <1>5 DEF ListenerOK
<1>7. ChanOK(chan')
  <2>1. ASSUME NEW c, ChanOK(c), NEW x PROVE ChanOK([c EXCEPT !.uTXWinLeft = x])
    BY <2>1 DEF ChanOK, ChanFields
  <2>2. chan' = [chan EXCEPT !.uTXWinLeft = chan.uTXWinLeft - pend.val.size]
    BY <1>2
  <2> QED BY <1>1, <2>1, <2>2 DEF ClientOK
<1>8. LogCmd' = LogCmd
  BY <1>2 DEF LogCmd
<1>9. \A i \in 1 .. Len(sent') : LogFram(sent'[i])
  <2>1. \A i \in 1 .. Len(sent') :
          (i \in 1 .. Len(sent) /\ sent'[i] = sent[i]) \/ sent'[i] = pend
    BY <1>2, <1>3, AllDataType
  <2> QED BY <1>1, <1>3, <2>1 DEF ClientOK
<1>10. cpc' # "send"
  BY <1>2
<1>11. ClientOK'
  <2>1. \A f : LogFram(f)' = LogFram(f)
    BY <1>8 DEF LogFram
  <2> QED BY <1>1, <1>2, <1>5, <1>7, <1>8, <1>9, <1>10 DEF ClientOK, LogFram
<1> QED BY <1>6, <1>11 DEF IInv

\* The other steps of the client, and those of the listener that sends.
LEMMA OthersIInv ==
  ASSUME IInv, AwaitFram \/ TakeReply \/ LstnSendFram \/ UNCHANGED vars
  PROVE  IInv'
<1>1. ClientOK /\ ListenerOK
  BY DEF IInv
<1>2. UNCHANGED <<c2s, sent, built, recvFram, lstnUp, pend, profile>>
  BY DEF AwaitFram, TakeReply, LstnSendFram, vars, lstnVars, clntVars, lstnHist, clntHist
<1>3. ListenerOK'
  BY <1>1, <1>2, StreamUntouched
<1>4. ChanOK(chan)
  BY <1>1 DEF ClientOK
<1>5. ChanOK(chan') /\ (cpc' = "send" => cpc = "send")
  <2>1. CASE AwaitFram
    <3>1. DoReceive(chan) /\ cpc' = IF got' # got THEN cpc ELSE "failed"
      BY <2>1 DEF AwaitFram
    <3> QED BY <1>4, <3>1, ReceiveKeepsChan
  <2>2. CASE TakeReply
    BY <1>4, <2>2 DEF TakeReply
  <2>3. CASE LstnSendFram \/ UNCHANGED vars
    BY <1>4, <2>3 DEF LstnSendFram, vars, clntVars
  <2> QED BY <2>1, <2>2, <2>3
<1>6. LogCmd' = LogCmd
  BY <1>2 DEF LogCmd
<1>7. ClientOK'
  BY <1>1, <1>2, <1>5, <1>6 DEF ClientOK, LogFram
<1> QED BY <1>3, <1>7 DEF IInv

\* The client does not see what the listener takes.
LEMMA ClientUntouched ==
  ASSUME ClientOK, UNCHANGED <<profile, clntVars, sent>>
  PROVE  ClientOK'
BY DEF ClientOK, LogFram, LogCmd, clntVars

LEMMA LstnBuildFrameIInv ==
  ASSUME IInv, LstnBuildFrame
  PROVE  IInv'
<1>1. ClientOK /\ ListenerOK /\ AllData(sent)
  BY DEF IInv, ClientOK
<1>2. ClientOK'
  BY <1>1, ClientUntouched DEF LstnBuildFrame, clntHist
<1>3. /\ c2s # <<>> /\ recvFram' = BuildFrame(recvFram, Head(c2s))
      /\ recvFram'.st # "DONE" /\ c2s' = Tail(c2s)
      /\ sent' = sent /\ built' = built /\ lstnUp' = lstnUp
  BY DEF LstnBuildFrame, clntHist, lstnHist
<1>4. PICK B : built \in Seq(B)
  BY <1>1 DEF ListenerOK
<1>5. Follows(c2s, sent, built, recvFram, lstnUp)
  BY <1>1 DEF ListenerOK
<1>6. Follows(c2s', sent, built, recvFram', lstnUp)
  BY <1>1, <1>3, <1>4, <1>5, FollowsOctet
<1>7. ListenerOK'
  BY <1>3, <1>4, <1>6 DEF ListenerOK
<1> QED BY <1>2, <1>7 DEF IInv

LEMMA LstnOnFramRcvdIInv ==
  ASSUME IInv, LstnOnFramRcvd
  PROVE  IInv'
<1>. DEFINE r == BuildFrame(recvFram, Head(c2s))
            f == [cmd |-> r.cmd, val |-> r.val, payload |-> r.buf]
<1>1. ClientOK /\ ListenerOK /\ AllData(sent)
  BY DEF IInv, ClientOK
<1>2. ClientOK'
  BY <1>1, ClientUntouched DEF LstnOnFramRcvd, clntHist
<1>3. /\ c2s # <<>> /\ r.st = "DONE" /\ built' = Append(built, f)
      /\ recvFram' = NoFram /\ c2s' = Tail(c2s) /\ sent' = sent /\ lstnUp' = lstnUp
  BY DEF LstnOnFramRcvd, clntHist
<1>4. PICK B : built \in Seq(B)
  BY <1>1 DEF ListenerOK
<1>5. Follows(c2s, sent, built, recvFram, lstnUp)
  BY <1>1 DEF ListenerOK
<1>6. Follows(c2s', sent, built', recvFram', lstnUp)
  BY <1>1, <1>3, <1>4, <1>5, FollowsOctet
<1> HIDE DEF f, r
<1>7. built' \in Seq(B \union {f})
  <2>1. built \in Seq(B \union {f})
    BY <1>4, SeqMonotonic
  <2> QED BY <1>3, <2>1
<1>8. ListenerOK'
  BY <1>3, <1>6, <1>7 DEF ListenerOK
<1> QED BY <1>2, <1>8 DEF IInv

\* A crash needs a machine without a buffer: some frame was cut.
LEMMA LstnCrashIInv ==
  ASSUME IInv, LstnCrash
  PROVE  IInv'
<1>1. ClientOK /\ ListenerOK /\ AllData(sent)
  BY DEF IInv, ClientOK
<1>2. ClientOK'
  BY <1>1, ClientUntouched DEF LstnCrash, clntHist
<1>3. recvFram.st = "NULL" /\ sent' = sent /\ built' = built
  BY DEF LstnCrash, clntHist, lstnHist
<1>4. PICK B : built \in Seq(B)
  BY <1>1 DEF ListenerOK
<1>5. Follows(c2s, sent, built, recvFram, lstnUp)
  BY <1>1 DEF ListenerOK
<1>6. Astray(sent, built)
  BY <1>1, <1>3, <1>4, <1>5, FollowsAlive DEF Follows
<1>7. ListenerOK'
  BY <1>3, <1>4, <1>6 DEF ListenerOK, Follows
<1> QED BY <1>2, <1>7 DEF IInv

LEMMA NextIInv ==
  ASSUME IInv, [Next]_vars
  PROVE  IInv'
BY LogMesgIInv, SendFramIInv, OthersIInv, LstnBuildFrameIInv, LstnOnFramRcvdIInv,
   LstnCrashIInv DEF Next

LEMMA IInvInStep ==
  IInv => BuiltAsSent /\ MachineInStep /\ (AllFit => FramesAsSent)
<1>. SUFFICES ASSUME IInv PROVE BuiltAsSent /\ MachineInStep /\ (AllFit => FramesAsSent)
  OBVIOUS
<1>1. /\ AllData(sent) /\ \A i \in 1 .. Len(sent) : LogFram(sent[i])
      /\ Follows(c2s, sent, built, recvFram, lstnUp)
  BY DEF IInv, ClientOK, ListenerOK
<1>2. PICK B : built \in Seq(B)
  BY DEF IInv, ListenerOK
<1>3. /\ DOMAIN sent = 1 .. Len(sent) /\ Len(sent) \in Nat
      /\ DOMAIN built = 1 .. Len(built) /\ Len(built) \in Nat
  BY <1>1, <1>2, AllDataType
<1>4. CASE Aligned(c2s, sent, built, recvFram, lstnUp)
  <2>1. /\ Len(built) <= Len(sent) /\ lstnUp = TRUE
        /\ \A i \in 1 .. Len(built) : built[i] = sent[i]
    BY <1>4 DEF Aligned
  <2>2. recvFram.st # "NULL"
    BY <1>1, <1>2, <1>4, FollowsAlive
  <2>3. BuiltAsSent
    BY <1>3, <2>1 DEF BuiltAsSent
  <2>4. MachineInStep
    BY <2>1, <2>2 DEF MachineInStep
  <2>5. \A i \in DOMAIN built : built[i].cmd = LogCmd /\ built[i].val.chan = 1
    <3>1. \A i \in 1 .. Len(built) : i \in 1 .. Len(sent)
      BY <1>3, <2>1
    <3> QED BY <1>1, <1>3, <2>1, <3>1 DEF LogFram
  <2> QED BY <2>3, <2>4, <2>5 DEF FramesAsSent
<1>5. CASE Astray(sent, built)
  <2>1. PICK k \in 1 .. Len(sent) :
          /\ ~Fits(sent[k]) /\ \A i \in 1 .. k - 1 : built[i] = sent[i]
    BY <1>5 DEF Astray
  <2>2. ~AllFit
    BY <1>3, <2>1 DEF AllFit
  <2>3. \A i \in InStep : i \in 1 .. k - 1
    <3>. SUFFICES ASSUME NEW i \in DOMAIN sent, \A j \in 1 .. i : Fits(sent[j])
                  PROVE  i \in 1 .. k - 1
      BY DEF InStep
    <3>1. ~(k \in 1 .. i)
      BY <2>1
    <3> QED BY <1>3, <3>1
  <2>4. BuiltAsSent
    BY <2>1, <2>3 DEF BuiltAsSent
  <2> QED BY <2>2, <2>4 DEF MachineInStep
<1> QED BY <1>1, <1>4, <1>5 DEF Follows

\* Whatever the texts, the numbers and the size of a frame, and wherever the
\* stream is cut into octets: sbLstnBuildFrame builds the frames the client
\* sent, in their order, each with its numbers and its payload, up to the first
\* that SNPRINTF cut; and before that one it never loses its buffer.
THEOREM FramesInStep == Spec => [](BuiltAsSent /\ MachineInStep)
<1>1. IInv /\ [Next]_vars => IInv'
  BY NextIInv
<1> QED BY InitIInv, <1>1, IInvInStep, PTL DEF Spec

\* While no frame is cut, every frame the listener builds is one the client
\* sent, of the profile's command and on the log channel.
THEOREM FramesArrive == Spec /\ []AllFit => []FramesAsSent
<1>1. IInv /\ [Next]_vars => IInv'
  BY NextIInv
<1> QED BY InitIInv, <1>1, IInvInStep, PTL DEF Spec
-----------------------------------------------------------------------------
(***************************************************************************)
(* Folds.                                                                  *)
(***************************************************************************)
\* A fold over n elements is a function on the subsets of 1 .. n.  step[<<a, i>>] is
\* what the i-th element makes of a.
FoldGraph(g, b, step, n) ==
  \A s \in SUBSET (1 .. n) :
    g[s] = IF s = {} THEN b ELSE step[<<g[s \ {Max(s)}], Max(s)>>]

LEMMA MaxIs ==
  ASSUME NEW s \in SUBSET Int, NEW m \in s, \A x \in s : x <= m
  PROVE  Max(s) = m
<1>1. m \in Int /\ \A x \in s : x \in Int
  OBVIOUS
<1>2. \A y \in s : m >= y
  BY <1>1
<1>3. ASSUME NEW x \in s, \A y \in s : x >= y PROVE x = m
  BY <1>1, <1>3
<1> QED BY <1>2, <1>3 DEF Max

LEMMA MaxExists ==
  ASSUME NEW N \in Nat, NEW s \in SUBSET (1 .. N), s # {}
  PROVE  Max(s) \in s /\ \A x \in s : x <= Max(s)
<1>. DEFINE T == {n \in Nat : (\E x \in s : x <= n) => \E m \in s : \A x \in s : x <= n => x <= m}
<1>1. 0 \in T
  OBVIOUS
<1>2. ASSUME NEW n \in T PROVE n + 1 \in T
  <2>1. CASE n + 1 \in s
    BY <2>1
  <2>2. CASE n + 1 \notin s
    <3>1. \A x \in s : x <= n + 1 => x <= n
      BY <2>2
    <3> QED BY <3>1
  <2> QED BY <2>1, <2>2
<1>3. T \subseteq Nat
  OBVIOUS
<1>. HIDE DEF T
<1>4. N \in T
  BY <1>1, <1>2, <1>3, SetInduction
<1>5. (\E x \in s : x <= N) => \E m \in s : \A x \in s : x <= N => x <= m
  BY <1>4 DEF T
<1>6. \A x \in s : x \in Int /\ x <= N
  OBVIOUS
<1>7. \E m \in s : \A x \in s : x <= m
  BY <1>5, <1>6
<1> QED BY <1>7, MaxIs

LEMMA FoldExists ==
  ASSUME NEW S, NEW b \in S, NEW N \in Nat, NEW step \in [S \X (1 .. N) -> S]
  PROVE  \E g \in [SUBSET (1 .. N) -> S] : FoldGraph(g, b, step, N)
<1>. DEFINE T == {n \in Nat : n <= N => \E g \in [SUBSET (1 .. n) -> S] : FoldGraph(g, b, step, n)}
<1>1. 0 \in T
  <2>1. 1 .. 0 = {}
    OBVIOUS
  <2>. DEFINE g == [s \in SUBSET (1 .. 0) |-> b]
  <2>2. g \in [SUBSET (1 .. 0) -> S] /\ FoldGraph(g, b, step, 0)
    BY <2>1 DEF FoldGraph
  <2> QED BY <2>2
<1>2. ASSUME NEW n \in Nat, n + 1 <= N, NEW g \in [SUBSET (1 .. n) -> S], FoldGraph(g, b, step, n)
      PROVE  \E h \in [SUBSET (1 .. n + 1) -> S] : FoldGraph(h, b, step, n + 1)
  <2>. DEFINE h == [s \in SUBSET (1 .. n + 1) |->
                      IF n + 1 \in s THEN step[<<g[s \ {n + 1}], n + 1>>] ELSE g[s]]
  <2>1. ASSUME NEW s \in SUBSET (1 .. n + 1)
        PROVE  /\ s \ {n + 1} \in SUBSET (1 .. n)
               /\ n + 1 \notin s => s \in SUBSET (1 .. n)
    OBVIOUS
  <2>2. n + 1 \in 1 .. N
    BY <1>2
  <2>3. h \in [SUBSET (1 .. n + 1) -> S]
    BY <2>1, <2>2
  <2>4. ASSUME NEW s \in SUBSET (1 .. n + 1)
        PROVE  h[s] = IF s = {} THEN b ELSE step[<<h[s \ {Max(s)}], Max(s)>>]
    <3>1. CASE n + 1 \in s
      <4>1. Max(s) = n + 1
        BY <3>1, MaxIs
      <4>2. h[s \ {n + 1}] = g[s \ {n + 1}]
        BY <2>1
      <4> QED BY <3>1, <4>1, <4>2
    <3>2. CASE n + 1 \notin s
      <4>1. s \in SUBSET (1 .. n) /\ s \ {Max(s)} \in SUBSET (1 .. n) /\ s \ {Max(s)} \in SUBSET (1 .. n + 1)
        BY <2>1, <3>2
      <4>2. h[s] = g[s] /\ h[s \ {Max(s)}] = g[s \ {Max(s)}]
        BY <3>2, <4>1
      <4> QED BY <1>2, <4>1, <4>2 DEF FoldGraph
    <3> QED BY <3>1, <3>2
  <2> QED BY <2>3, <2>4 DEF FoldGraph
<1>3. ASSUME NEW n \in T PROVE n + 1 \in T
  <2>1. n \in Nat /\ n + 1 \in Nat
    OBVIOUS
  <2>2. CASE n + 1 <= N
    <3>1. n <= N
      BY <2>1, <2>2
    <3>2. PICK g \in [SUBSET (1 .. n) -> S] : FoldGraph(g, b, step, n)
      BY <3>1
    <3>3. \E h \in [SUBSET (1 .. n + 1) -> S] : FoldGraph(h, b, step, n + 1)
      BY <1>2, <2>1, <2>2, <3>2
    <3> QED BY <2>1, <3>3
  <2>3. CASE ~(n + 1 <= N)
    BY <2>1, <2>3
  <2> QED BY <2>2, <2>3
<1>4. T \subseteq Nat
  OBVIOUS
<1>. HIDE DEF T
<1>5. N \in T
  BY <1>1, <1>3, <1>4, SetInduction
<1>6. N <= N => \E g \in [SUBSET (1 .. N) -> S] : FoldGraph(g, b, step, N)
  BY <1>5 DEF T
<1>7. N <= N
  OBVIOUS
<1> QED BY <1>6, <1>7, Zenon

\* iter folds, as long as it stays in S.
FoldsIn(S, iter, b, step, N) ==
  /\ iter[{}] = b
  /\ \A s \in SUBSET (1 .. N) :
       s # {} /\ iter[s \ {Max(s)}] \in S
         => iter[s] = step[<<iter[s \ {Max(s)}], Max(s)>>]

\* From b to e, one element after the other.
PathTo(S, b, e, step, N) ==
  \E h \in [0 .. N -> S] :
    /\ h[0] = b /\ h[N] = e
    /\ \A k \in 1 .. N : h[k] = step[<<h[k - 1], k>>]

LEMMA FoldPath ==
  ASSUME NEW S, NEW b \in S, NEW N \in Nat, NEW step \in [S \X (1 .. N) -> S], NEW iter,
         FoldsIn(S, iter, b, step, N)
  PROVE  PathTo(S, b, iter[1 .. N], step, N)
<1>. DEFINE h == [k \in 0 .. N |-> iter[1 .. k]]
            T == {k \in Nat : k <= N => iter[1 .. k] \in S}
<1>1. 1 .. 0 = {} /\ iter[{}] = b
  BY DEF FoldsIn
<1>2. ASSUME NEW k \in 1 .. N, iter[1 .. k - 1] \in S
      PROVE  iter[1 .. k] = step[<<iter[1 .. k - 1], k>>]
  <2>1. /\ 1 .. k \in SUBSET (1 .. N) /\ k \in 1 .. k /\ 1 .. k \in SUBSET Int
        /\ 1 .. k # {}
    OBVIOUS
  <2>2. (1 .. k) \ {k} = 1 .. k - 1
    OBVIOUS
  <2>3. Max(1 .. k) = k
    <3>. DEFINE s == 1 .. k
    <3>1. s \in SUBSET Int /\ k \in s /\ \A x \in s : x <= k
      BY <2>1
    <3>. HIDE DEF s
    <3>2. Max(s) = k
      BY <3>1, MaxIs
    <3> QED BY <3>2 DEF s
  <2> QED BY <1>2, <2>1, <2>2, <2>3 DEF FoldsIn
<1>3. ASSUME NEW k \in T PROVE k + 1 \in T
  <2>. SUFFICES ASSUME k + 1 <= N PROVE iter[1 .. k + 1] \in S
    OBVIOUS
  <2>1. k \in Nat /\ k + 1 \in 1 .. N /\ (k + 1) - 1 = k /\ iter[1 .. k] \in S
    OBVIOUS
  <2>2. iter[1 .. k + 1] = step[<<iter[1 .. k], k + 1>>]
    BY <1>2, <2>1
  <2> QED BY <2>1, <2>2
<1>4. T \subseteq Nat /\ 0 \in T
  BY <1>1
<1>5. T = Nat
  <2>. HIDE DEF T
  <2> QED BY <1>3, <1>4, SetInduction
<1>6. ASSUME NEW k \in 0 .. N PROVE iter[1 .. k] \in S
  <2>1. k \in T
    BY <1>5
  <2> QED BY <2>1
<1>7. h \in [0 .. N -> S] /\ h[0] = b /\ h[N] = iter[1 .. N]
  BY <1>1, <1>6
<1>8. ASSUME NEW k \in 1 .. N PROVE h[k] = step[<<h[k - 1], k>>]
  <2>1. k - 1 \in 0 .. N
    OBVIOUS
  <2> QED BY <1>2, <1>6, <2>1
<1> QED BY <1>7, <1>8 DEF PathTo

\* For every operator folded in this module, what FoldExists and FoldPath make of it.
SplitState == [mesgs : Seq(Seq(Octet)), text : Seq(Octet), cr : BOOLEAN, open : BOOLEAN]
SplitStart == [mesgs |-> <<>>, text |-> <<>>, cr |-> FALSE, open |-> FALSE]

LEMMA SplitOctetType ==
  ASSUME NEW a \in SplitState, NEW c \in Octet
  PROVE  SplitOctet(a, c) \in SplitState
<1>1. /\ a.mesgs \in Seq(Seq(Octet)) /\ a.text \in Seq(Octet)
      /\ a.cr \in BOOLEAN /\ a.open \in BOOLEAN
      /\ a = [mesgs |-> a.mesgs, text |-> a.text, cr |-> a.cr, open |-> a.open]
  BY DEF SplitState
<1>2. Append(a.mesgs, a.text) \in Seq(Seq(Octet)) /\ Append(a.text, c) \in Seq(Octet)
  BY <1>1
<1>3. CASE c = CR
  <2>1. SplitOctet(a, c) = [mesgs |-> a.mesgs, text |-> a.text, cr |-> TRUE, open |-> TRUE]
    BY <1>1, <1>3 DEF SplitOctet, CR, LF
  <2> QED BY <1>1, <2>1 DEF SplitState
<1>4. CASE c # CR /\ c = LF /\ a.cr
  BY <1>1, <1>2, <1>4 DEF SplitOctet, SplitState
<1>5. CASE c # CR /\ ~(c = LF /\ a.cr)
  BY <1>1, <1>2, <1>5 DEF SplitOctet, SplitState
<1> QED BY <1>3, <1>4, <1>5

LEMMA SplitRun ==
  ASSUME NEW t \in Seq(Octet)
  PROVE  \E h \in [0 .. Len(t) -> SplitState] :
           /\ h[0] = SplitStart
           /\ \A n \in 1 .. Len(t) : h[n] = SplitOctet(h[n - 1], t[n])
           /\ FoldLeft(SplitOctet, SplitStart, t) = h[Len(t)]
<1>. DEFINE N == Len(t)
            G(g) == g = [s \in SUBSET (1 .. N) |->
                          IF s = {} THEN SplitStart ELSE SplitOctet(g[s \ {Max(s)}], t[Max(s)])]
            iter == CHOOSE g : G(g)
            step == [x \in SplitState \X (1 .. N) |-> SplitOctet(x[1], t[x[2]])]
<1>0. N \in Nat /\ DOMAIN t = 1 .. N /\ \A i \in 1 .. N : t[i] \in Octet
  OBVIOUS
<1>1. FoldLeft(SplitOctet, SplitStart, t) = iter[1 .. N]
  BY <1>0 DEF FoldLeft, MapThenFoldSet
<1>2. step \in [SplitState \X (1 .. N) -> SplitState]
  <2>1. ASSUME NEW x \in SplitState \X (1 .. N)
        PROVE  SplitOctet(x[1], t[x[2]]) \in SplitState
    BY <1>0, SplitOctetType
  <2> QED BY <2>1
<1>3. SplitStart \in SplitState
  BY DEF SplitStart, SplitState
<1>4. PICK g \in [SUBSET (1 .. N) -> SplitState] : FoldGraph(g, SplitStart, step, N)
  <2>. HIDE DEF step
  <2> QED BY <1>0, <1>2, <1>3, FoldExists
<1>5. ASSUME NEW s \in SUBSET (1 .. N), s # {}
      PROVE  Max(s) \in s /\ \A x \in s : x <= Max(s)
  BY <1>0, <1>5, MaxExists
<1>6. G(g)
  <2>1. ASSUME NEW s \in SUBSET (1 .. N)
        PROVE  g[s] = IF s = {} THEN SplitStart ELSE SplitOctet(g[s \ {Max(s)}], t[Max(s)])
    <3>1. CASE s = {}
      BY <1>4, <3>1 DEF FoldGraph
    <3>2. CASE s # {}
      <4>1. Max(s) \in 1 .. N /\ s \ {Max(s)} \in SUBSET (1 .. N)
        BY <1>5, <3>2
      <4>2. g[s] = step[<<g[s \ {Max(s)}], Max(s)>>]
        BY <1>4, <3>2 DEF FoldGraph
      <4> QED BY <1>4, <3>2, <4>1, <4>2
    <3> QED BY <3>1, <3>2
  <2> QED BY <1>4, <2>1
<1>7. G(iter)
  BY <1>6
<1>8. iter[{}] = SplitStart
  BY <1>7
<1>9. ASSUME NEW s \in SUBSET (1 .. N), s # {}, iter[s \ {Max(s)}] \in SplitState
      PROVE  iter[s] = step[<<iter[s \ {Max(s)}], Max(s)>>]
  <2>1. iter[s] = SplitOctet(iter[s \ {Max(s)}], t[Max(s)])
    BY <1>7, <1>9
  <2>2. Max(s) \in 1 .. N
    BY <1>5, <1>9
  <2>. HIDE DEF iter
  <2> QED BY <1>9, <2>1, <2>2
<1>10. PathTo(SplitState, SplitStart, iter[1 .. N], step, N)
  <2>. HIDE DEF iter, step, N
  <2>1. \A s \in SUBSET (1 .. N) :
          s # {} /\ iter[s \ {Max(s)}] \in SplitState
            => iter[s] = step[<<iter[s \ {Max(s)}], Max(s)>>]
    BY <1>9
  <2>2. FoldsIn(SplitState, iter, SplitStart, step, N)
    BY <1>8, <2>1 DEF FoldsIn
  <2>3. N \in Nat
    BY <1>0
  <2> QED BY <2>3, <1>2, <1>3, <2>2, FoldPath
<1>12. PICK h \in [0 .. N -> SplitState] :
         /\ h[0] = SplitStart /\ h[N] = iter[1 .. N]
         /\ \A k \in 1 .. N : h[k] = step[<<h[k - 1], k>>]
  <2>. HIDE DEF iter, step, N
  <2> QED BY <1>10 DEF PathTo
<1>11. ASSUME NEW k \in 1 .. N PROVE h[k] = SplitOctet(h[k - 1], t[k])
  <2>1. k - 1 \in 0 .. N
    BY <1>0
  <2>. HIDE DEF iter
  <2> QED BY <1>12, <2>1
<1>. HIDE DEF iter, step
<1> QED BY <1>1, <1>12, <1>11
LoneStep(t, acc, i) == IF t[i] # CR \/ CRLFAt(t, i) THEN Append(acc, t[i]) ELSE acc

LEMMA LonelessRun ==
  ASSUME NEW t \in Seq(Octet)
  PROVE  \E h \in [0 .. Len(t) -> Seq(Octet)] :
           /\ h[0] = <<>>
           /\ \A n \in 1 .. Len(t) : h[n] = LoneStep(t, h[n - 1], n)
           /\ Loneless(t) = h[Len(t)]
<1>. DEFINE N == Len(t)
            kept == {i \in DOMAIN t : t[i] # CR \/ CRLFAt(t, i)}
            idx == [i \in DOMAIN t |-> i]
            op(acc, i) == IF i \in kept THEN Append(acc, t[i]) ELSE acc
            G(g) == g = [s \in SUBSET (1 .. N) |->
                          IF s = {} THEN <<>> ELSE op(g[s \ {Max(s)}], idx[Max(s)])]
            iter == CHOOSE g : G(g)
            step == [x \in Seq(Octet) \X (1 .. N) |-> op(x[1], idx[x[2]])]
<1>0. /\ N \in Nat /\ DOMAIN t = 1 .. N /\ \A i \in 1 .. N : t[i] \in Octet
      /\ DOMAIN idx = 1 .. N /\ \A i \in 1 .. N : idx[i] = i
  OBVIOUS
<1>1. Loneless(t) = iter[1 .. N]
  BY <1>0 DEF Loneless, FoldLeftDomain, FoldLeft, MapThenFoldSet
<1>2. step \in [Seq(Octet) \X (1 .. N) -> Seq(Octet)]
  <2>1. ASSUME NEW x \in Seq(Octet) \X (1 .. N)
        PROVE  op(x[1], idx[x[2]]) \in Seq(Octet)
    <3>1. x[1] \in Seq(Octet) /\ x[2] \in 1 .. N /\ idx[x[2]] = x[2] /\ t[x[2]] \in Octet
      BY <1>0
    <3>2. Append(x[1], t[x[2]]) \in Seq(Octet)
      BY <3>1
    <3> QED BY <3>1, <3>2
  <2> QED BY <2>1
<1>3. <<>> \in Seq(Octet)
  OBVIOUS
<1>4. PICK g \in [SUBSET (1 .. N) -> Seq(Octet)] : FoldGraph(g, <<>>, step, N)
  <2>. HIDE DEF step
  <2> QED BY <1>0, <1>2, <1>3, FoldExists
<1>5. ASSUME NEW s \in SUBSET (1 .. N), s # {}
      PROVE  Max(s) \in s /\ \A x \in s : x <= Max(s)
  BY <1>0, <1>5, MaxExists
<1>6. G(g)
  <2>1. ASSUME NEW s \in SUBSET (1 .. N)
        PROVE  g[s] = IF s = {} THEN <<>> ELSE op(g[s \ {Max(s)}], idx[Max(s)])
    <3>1. CASE s = {}
      BY <1>4, <3>1 DEF FoldGraph
    <3>2. CASE s # {}
      <4>1. Max(s) \in 1 .. N /\ s \ {Max(s)} \in SUBSET (1 .. N)
        BY <1>5, <3>2
      <4>2. g[s] = step[<<g[s \ {Max(s)}], Max(s)>>]
        BY <1>4, <3>2 DEF FoldGraph
      <4> QED BY <1>4, <3>2, <4>1, <4>2
    <3> QED BY <3>1, <3>2
  <2> QED BY <1>4, <2>1
<1>7. G(iter)
  BY <1>6
<1>8. iter[{}] = <<>>
  BY <1>7
<1>9. ASSUME NEW s \in SUBSET (1 .. N), s # {}, iter[s \ {Max(s)}] \in Seq(Octet)
      PROVE  iter[s] = step[<<iter[s \ {Max(s)}], Max(s)>>]
  <2>1. iter[s] = op(iter[s \ {Max(s)}], idx[Max(s)])
    BY <1>7, <1>9
  <2>2. Max(s) \in 1 .. N
    BY <1>5, <1>9
  <2>. HIDE DEF iter
  <2> QED BY <1>9, <2>1, <2>2
<1>10. PathTo(Seq(Octet), <<>>, iter[1 .. N], step, N)
  <2>. HIDE DEF iter, step, N
  <2>1. \A s \in SUBSET (1 .. N) :
          s # {} /\ iter[s \ {Max(s)}] \in Seq(Octet)
            => iter[s] = step[<<iter[s \ {Max(s)}], Max(s)>>]
    BY <1>9
  <2>2. FoldsIn(Seq(Octet), iter, <<>>, step, N)
    BY <1>8, <2>1 DEF FoldsIn
  <2>3. N \in Nat
    BY <1>0
  <2> QED BY <2>3, <1>2, <1>3, <2>2, FoldPath
<1>12. PICK h \in [0 .. N -> Seq(Octet)] :
         /\ h[0] = <<>> /\ h[N] = iter[1 .. N]
         /\ \A k \in 1 .. N : h[k] = step[<<h[k - 1], k>>]
  <2>. HIDE DEF iter, step, N
  <2> QED BY <1>10 DEF PathTo
<1>11. ASSUME NEW k \in 1 .. N PROVE h[k] = LoneStep(t, h[k - 1], k)
  <2>1. k - 1 \in 0 .. N
    BY <1>0
  <2>. HIDE DEF iter
  <2>2. h[k] = op(h[k - 1], k)
    BY <1>0, <1>12, <2>1
  <2> QED BY <1>0, <2>2 DEF LoneStep
<1>. HIDE DEF iter, step
<1> QED BY <1>1, <1>12, <1>11
NumStep(w, u, k) == 10 * u + DigitVal[w[k]]

LEMMA NumberRun ==
  ASSUME NEW t \in Seq(Octet), \A i \in 1 .. Len(t) : IsDigit(t[i])
  PROVE  \E h \in [0 .. Len(t) -> Nat] :
           /\ h[0] = 0
           /\ \A n \in 1 .. Len(t) : h[n] = NumStep(t, h[n - 1], n)
           /\ FoldLeft(LAMBDA u, c : 10 * u + DigitVal[c], 0, t) = h[Len(t)]
<1>. DEFINE N == Len(t)
            op(u, c) == 10 * u + DigitVal[c]
            G(g) == g = [s \in SUBSET (1 .. N) |->
                          IF s = {} THEN 0 ELSE op(g[s \ {Max(s)}], t[Max(s)])]
            iter == CHOOSE g : G(g)
            step == [x \in Nat \X (1 .. N) |-> op(x[1], t[x[2]])]
<1>0. /\ N \in Nat /\ DOMAIN t = 1 .. N /\ \A i \in 1 .. N : t[i] \in Octet
      /\ \A i \in 1 .. N : DigitVal[t[i]] \in Nat
  <2>1. ASSUME NEW i \in 1 .. N PROVE DigitVal[t[i]] \in Nat
    <3>1. t[i] \in ToSet(Digit)
      BY DEF IsDigit
    <3> QED BY <3>1, DigitType
  <2> QED BY <2>1
<1>1. FoldLeft(LAMBDA u, c : 10 * u + DigitVal[c], 0, t) = iter[1 .. N]
  BY <1>0 DEF FoldLeft, MapThenFoldSet
<1>2. step \in [Nat \X (1 .. N) -> Nat]
  <2>1. ASSUME NEW x \in Nat \X (1 .. N)
        PROVE  op(x[1], t[x[2]]) \in Nat
    BY <1>0
  <2> QED BY <2>1
<1>3. 0 \in Nat
  OBVIOUS
<1>4. PICK g \in [SUBSET (1 .. N) -> Nat] : FoldGraph(g, 0, step, N)
  <2>. HIDE DEF step
  <2> QED BY <1>0, <1>2, <1>3, FoldExists
<1>5. ASSUME NEW s \in SUBSET (1 .. N), s # {}
      PROVE  Max(s) \in s /\ \A x \in s : x <= Max(s)
  BY <1>0, <1>5, MaxExists
<1>6. G(g)
  <2>1. ASSUME NEW s \in SUBSET (1 .. N)
        PROVE  g[s] = IF s = {} THEN 0 ELSE op(g[s \ {Max(s)}], t[Max(s)])
    <3>1. CASE s = {}
      BY <1>4, <3>1 DEF FoldGraph
    <3>2. CASE s # {}
      <4>1. Max(s) \in 1 .. N /\ s \ {Max(s)} \in SUBSET (1 .. N)
        BY <1>5, <3>2
      <4>2. g[s] = step[<<g[s \ {Max(s)}], Max(s)>>]
        BY <1>4, <3>2 DEF FoldGraph
      <4> QED BY <1>4, <3>2, <4>1, <4>2
    <3> QED BY <3>1, <3>2
  <2> QED BY <1>4, <2>1
<1>7. G(iter)
  BY <1>6
<1>8. iter[{}] = 0
  BY <1>7
<1>9. ASSUME NEW s \in SUBSET (1 .. N), s # {}, iter[s \ {Max(s)}] \in Nat
      PROVE  iter[s] = step[<<iter[s \ {Max(s)}], Max(s)>>]
  <2>1. iter[s] = op(iter[s \ {Max(s)}], t[Max(s)])
    BY <1>7, <1>9
  <2>2. Max(s) \in 1 .. N
    BY <1>5, <1>9
  <2>. HIDE DEF iter
  <2> QED BY <1>9, <2>1, <2>2
<1>10. PathTo(Nat, 0, iter[1 .. N], step, N)
  <2>. HIDE DEF iter, step, N
  <2>1. \A s \in SUBSET (1 .. N) :
          s # {} /\ iter[s \ {Max(s)}] \in Nat
            => iter[s] = step[<<iter[s \ {Max(s)}], Max(s)>>]
    BY <1>9
  <2>2. FoldsIn(Nat, iter, 0, step, N)
    BY <1>8, <2>1 DEF FoldsIn
  <2>3. N \in Nat
    BY <1>0
  <2> QED BY <2>3, <1>2, <1>3, <2>2, FoldPath
<1>12. PICK h \in [0 .. N -> Nat] :
         /\ h[0] = 0 /\ h[N] = iter[1 .. N]
         /\ \A k \in 1 .. N : h[k] = step[<<h[k - 1], k>>]
  <2>. HIDE DEF iter, step, N
  <2> QED BY <1>10 DEF PathTo
<1>11. ASSUME NEW k \in 1 .. N PROVE h[k] = NumStep(t, h[k - 1], k)
  <2>1. k - 1 \in 0 .. N
    BY <1>0
  <2>. HIDE DEF iter
  <2>2. h[k] = op(h[k - 1], t[k])
    BY <1>0, <1>12, <2>1
  <2> QED BY <2>2 DEF NumStep
<1>. HIDE DEF iter, step
<1> QED BY <1>1, <1>12, <1>11
-----------------------------------------------------------------------------
(***************************************************************************)
(* A RAW text, split into messages and put together again.                 *)
(***************************************************************************)
\* p[k] is the first k of seqs, one after the other.
FlatPath(p, seqs, n) ==
  /\ p \in [0 .. n -> Seq(Octet)] /\ p[0] = <<>>
  /\ \A k \in 1 .. n : p[k] = p[k - 1] \o seqs[k]

LEMMA FlatPathExists ==
  ASSUME NEW seqs \in Seq(Seq(Octet))
  PROVE  \E p : FlatPath(p, seqs, Len(seqs))
<1>. DEFINE T == {n \in Nat : n <= Len(seqs) => \E p : FlatPath(p, seqs, n)}
<1>1. 0 \in T
  <2>1. FlatPath([k \in 0 .. 0 |-> <<>>], seqs, 0)
    BY DEF FlatPath
  <2> QED BY <2>1
<1>2. ASSUME NEW n \in T PROVE n + 1 \in T
  <2>. SUFFICES ASSUME n + 1 <= Len(seqs) PROVE \E p : FlatPath(p, seqs, n + 1)
    OBVIOUS
  <2>1. n \in Nat /\ n <= Len(seqs) /\ seqs[n + 1] \in Seq(Octet)
    OBVIOUS
  <2>2. PICK p : FlatPath(p, seqs, n)
    BY <2>1
  <2>. DEFINE last == p[n] \o seqs[n + 1]
              r == [k \in 0 .. n + 1 |-> IF k = n + 1 THEN last ELSE p[k]]
  <2>3. p[n] \in Seq(Octet) /\ last \in Seq(Octet)
    <3>1. p[n] \in Seq(Octet)
      BY <2>1, <2>2 DEF FlatPath
    <3> QED BY <2>1, <3>1, OctetsConcat
  <2>4. r \in [0 .. n + 1 -> Seq(Octet)] /\ r[0] = <<>>
    BY <2>1, <2>2, <2>3 DEF FlatPath
  <2>5. ASSUME NEW k \in 1 .. n + 1 PROVE r[k] = r[k - 1] \o seqs[k]
    <3>1. k - 1 \in 0 .. n /\ r[k - 1] = p[k - 1]
      BY <2>1
    <3>2. CASE k = n + 1
      <4>1. k - 1 = n /\ r[k] = p[n] \o seqs[n + 1]
        <5>1. k - 1 = n /\ n + 1 \in 0 .. n + 1
          BY <2>1, <3>2
        <5>. HIDE DEF last
        <5>2. r[n + 1] = last
          BY <5>1
        <5> QED BY <3>2, <5>1, <5>2 DEF last
      <4> QED BY <3>1, <3>2, <4>1
    <3>3. CASE k # n + 1
      <4>1. k \in 1 .. n /\ r[k] = p[k]
        BY <2>1, <3>3
      <4> QED BY <2>2, <3>1, <4>1 DEF FlatPath
    <3> QED BY <3>2, <3>3
  <2> QED BY <2>4, <2>5 DEF FlatPath
<1>3. T \subseteq Nat
  OBVIOUS
<1>4. Len(seqs) \in T
  <2>. HIDE DEF T
  <2>1. Len(seqs) \in Nat
    OBVIOUS
  <2> QED BY <1>1, <1>2, <1>3, <2>1, SetInduction
<1>5. Len(seqs) <= Len(seqs)
  OBVIOUS
<1> QED BY <1>4, <1>5

LEMMA FlattenIs ==
  ASSUME NEW seqs \in Seq(Seq(Octet)), NEW p, FlatPath(p, seqs, Len(seqs))
  PROVE  FlattenSeq(seqs) = p[Len(seqs)]
<1>. DEFINE n == Len(seqs)
            F(g) == g = [i \in 1 .. n |-> IF i = 1 THEN seqs[i] ELSE g[i - 1] \o seqs[i]]
            f == CHOOSE g : F(g)
<1>1. n \in Nat
  OBVIOUS
<1>2. CASE n = 0
  <2>1. seqs = <<>>
    BY <1>2
  <2> QED BY <1>2, <2>1 DEF FlattenSeq, FlatPath
<1>3. CASE n # 0
  <2>1. F([i \in 1 .. n |-> p[i]])
    <3>. DEFINE g == [i \in 1 .. n |-> p[i]]
    <3>1. ASSUME NEW i \in 1 .. n
          PROVE  g[i] = IF i = 1 THEN seqs[i] ELSE g[i - 1] \o seqs[i]
      <4>1. p[i] = p[i - 1] \o seqs[i]
        BY DEF FlatPath
      <4>2. CASE i = 1
        <5>1. p[i] = <<>> \o seqs[1] /\ seqs[1] \in Seq(Octet)
          BY <1>1, <4>1, <4>2 DEF FlatPath
        <5> QED BY <4>2, <5>1
      <4>3. CASE i # 1
        <5>1. i - 1 \in 1 .. n
          BY <1>1, <4>3
        <5> QED BY <4>1, <4>3, <5>1
      <4> QED BY <4>2, <4>3
    <3> QED BY <3>1
  <2>2. F(f)
    BY <2>1
  <2>. HIDE DEF f
  <2>. DEFINE T == {i \in Nat : i + 1 <= n => f[i + 1] = p[i + 1]}
  <2>3. 0 \in T
    <3>1. 1 \in 1 .. n /\ seqs[1] \in Seq(Octet)
      BY <1>1, <1>3
    <3>2. p[1] = p[1 - 1] \o seqs[1] /\ p[0] = <<>>
      BY <3>1 DEF FlatPath
    <3>3. p[1] = seqs[1]
    <4>1. p[1] = <<>> \o seqs[1]
      <5>1. 1 - 1 = 0
        OBVIOUS
      <5> QED BY <3>2, <5>1, Zenon
    <4> QED BY <3>1, <4>1
    <3> QED BY <2>2, <3>1, <3>3
  <2>4. ASSUME NEW i \in T PROVE i + 1 \in T
    <3>. SUFFICES ASSUME (i + 1) + 1 <= n PROVE f[(i + 1) + 1] = p[(i + 1) + 1]
      OBVIOUS
    <3>1. /\ i \in Nat /\ (i + 1) + 1 \in 1 .. n /\ (i + 1) + 1 # 1
          /\ ((i + 1) + 1) - 1 = i + 1 /\ f[i + 1] = p[i + 1]
      BY <1>1
    <3>2. f[(i + 1) + 1] = f[i + 1] \o seqs[(i + 1) + 1]
      BY <2>2, <3>1
    <3>3. p[(i + 1) + 1] = p[i + 1] \o seqs[(i + 1) + 1]
      BY <3>1 DEF FlatPath
    <3> QED BY <3>1, <3>2, <3>3
  <2>5. T \subseteq Nat
    OBVIOUS
  <2>6. T = Nat
    <3>. HIDE DEF T
    <3> QED BY <2>3, <2>4, <2>5, SetInduction
  <2>7. n - 1 \in T /\ (n - 1) + 1 = n
    <3>1. n - 1 \in Nat /\ (n - 1) + 1 = n
      BY <1>1, <1>3
    <3> QED BY <2>6, <3>1
  <2>8. f[n] = p[n]
    BY <1>1, <2>7
  <2>9. FlattenSeq(seqs) = f[n]
    BY <1>3 DEF FlattenSeq, f
  <2> QED BY <2>8, <2>9
<1> QED BY <1>2, <1>3

\* The messages with their line ends.
Lines(mesgs) == FlattenSeq([i \in DOMAIN mesgs |-> mesgs[i] \o CRLF])

LEMMA LinesAppend ==
  ASSUME NEW ms \in Seq(Seq(Octet)), NEW m \in Seq(Octet)
  PROVE  /\ Lines(ms) \in Seq(Octet)
         /\ Lines(Append(ms, m)) = Lines(ms) \o (m \o CRLF)
<1>. DEFINE n == Len(ms)
            a == [i \in DOMAIN ms |-> ms[i] \o CRLF]
            b == [i \in DOMAIN Append(ms, m) |-> Append(ms, m)[i] \o CRLF]
<1>1. n \in Nat /\ DOMAIN ms = 1 .. n /\ \A i \in 1 .. n : ms[i] \in Seq(Octet)
  OBVIOUS
<1>2. /\ DOMAIN Append(ms, m) = 1 .. n + 1 /\ Append(ms, m)[n + 1] = m
      /\ \A i \in 1 .. n : Append(ms, m)[i] = ms[i]
  OBVIOUS
<1>3. \A x \in Seq(Octet) : x \o CRLF \in Seq(Octet)
  BY OctetsConcat, Literally
<1>4. a \in Seq(Seq(Octet)) /\ Len(a) = n /\ \A i \in 1 .. n : a[i] = ms[i] \o CRLF
  BY <1>1, <1>3
<1>5. /\ b \in Seq(Seq(Octet)) /\ Len(b) = n + 1 /\ b[n + 1] = m \o CRLF
      /\ \A i \in 1 .. n : b[i] = a[i]
  <2>1. \A i \in 1 .. n + 1 : b[i] \in Seq(Octet)
    <3>1. ASSUME NEW i \in 1 .. n + 1 PROVE Append(ms, m)[i] \in Seq(Octet)
      BY <1>1, <1>2
    <3> QED BY <1>2, <1>3, <3>1
  <2>2. b = [i \in 1 .. n + 1 |-> Append(ms, m)[i] \o CRLF]
    BY <1>2
  <2>3. b \in Seq(Seq(Octet)) /\ Len(b) = n + 1
    BY <1>1, <2>1, <2>2
  <2>4. \A i \in 1 .. n : i \in 1 .. n + 1
    BY <1>1
  <2>5. n + 1 \in 1 .. n + 1
    BY <1>1
  <2>6. \A i \in 1 .. n : b[i] = a[i]
    BY <1>2, <1>4, <2>2, <2>4
  <2> QED BY <1>2, <2>2, <2>3, <2>5, <2>6
<1>. HIDE DEF a, b
<1>6. PICK p : FlatPath(p, a, n)
  BY <1>4, FlatPathExists
<1>7. FlattenSeq(a) = p[n] /\ p[n] \in Seq(Octet)
  <2>1. FlatPath(p, a, Len(a)) /\ p[n] \in Seq(Octet)
    BY <1>1, <1>4, <1>6 DEF FlatPath
  <2>2. FlattenSeq(a) = p[Len(a)]
    BY <1>4, <2>1, FlattenIs
  <2> QED BY <1>4, <2>1, <2>2
<1>. DEFINE last == p[n] \o b[n + 1]
            r == [k \in 0 .. n + 1 |-> IF k = n + 1 THEN last ELSE p[k]]
<1>8. FlatPath(r, b, n + 1)
  <2>1. last \in Seq(Octet)
    BY <1>3, <1>5, <1>7, OctetsConcat
  <2>2. r \in [0 .. n + 1 -> Seq(Octet)] /\ r[0] = <<>>
    BY <1>1, <1>6, <2>1 DEF FlatPath
  <2>3. ASSUME NEW k \in 1 .. n + 1 PROVE r[k] = r[k - 1] \o b[k]
    <3>1. k - 1 \in 0 .. n /\ r[k - 1] = p[k - 1]
      BY <1>1
    <3>2. CASE k = n + 1
      <4>1. k - 1 = n /\ r[k] = p[n] \o b[n + 1]
        BY <1>1, <3>2
      <4> QED BY <3>1, <3>2, <4>1
    <3>3. CASE k # n + 1
      <4>1. k \in 1 .. n /\ r[k] = p[k] /\ b[k] = a[k]
        BY <1>1, <1>5, <3>3
      <4> QED BY <1>6, <3>1, <4>1 DEF FlatPath
    <3> QED BY <3>2, <3>3
  <2> QED BY <2>2, <2>3 DEF FlatPath
<1>9. FlattenSeq(b) = p[n] \o (m \o CRLF)
  <2>1. FlattenSeq(b) = r[n + 1]
    <3>. HIDE DEF r
    <3> QED BY <1>5, <1>8, FlattenIs
  <2>2. r[n + 1] = p[n] \o b[n + 1]
    <3>1. n + 1 \in 0 .. n + 1
      BY <1>1
    <3>. HIDE DEF last
    <3>2. r[n + 1] = last
      BY <3>1
    <3> QED BY <3>2 DEF last
  <2> QED BY <1>5, <2>1, <2>2
<1> QED BY <1>7, <1>9 DEF Lines, a, b

LEMMA LinesNone == Lines(<<>>) = <<>>
<1>1. DOMAIN <<>> = {} /\ [i \in {} |-> <<>>[i] \o CRLF] = <<>>
  OBVIOUS
<1> QED BY <1>1 DEF Lines, FlattenSeq

LEMMA AppendIs ==
  ASSUME NEW s \in Seq(Octet), NEW c \in Octet
  PROVE  Append(s, c) = s \o <<c>> /\ Append(s, c) \in Seq(Octet)
OBVIOUS

\* a is what SplitOctet has made of the first k octets of t, kept what Loneless has.
SplitSoFar(t, k, a, kept) ==
  /\ a.cr <=> k > 0 /\ t[k] = CR
  /\ ~a.open => a.text = <<>>
  /\ CR \notin ToSet(a.text)
  /\ \A i \in DOMAIN a.mesgs : CR \notin ToSet(a.mesgs[i])
  /\ kept = (Lines(a.mesgs) \o a.text) \o (IF CRLFAt(t, k) THEN <<CR>> ELSE <<>>)

LEMMA SplitStateIs ==
  ASSUME NEW a \in SplitState
  PROVE  /\ a.mesgs \in Seq(Seq(Octet)) /\ a.text \in Seq(Octet)
         /\ a.cr \in BOOLEAN /\ a.open \in BOOLEAN
         /\ a = [mesgs |-> a.mesgs, text |-> a.text, cr |-> a.cr, open |-> a.open]
         /\ Lines(a.mesgs) \in Seq(Octet) /\ Lines(a.mesgs) \o a.text \in Seq(Octet)
<1>1. /\ a.mesgs \in Seq(Seq(Octet)) /\ a.text \in Seq(Octet)
      /\ a.cr \in BOOLEAN /\ a.open \in BOOLEAN
      /\ a = [mesgs |-> a.mesgs, text |-> a.text, cr |-> a.cr, open |-> a.open]
  BY DEF SplitState
<1>2. Lines(a.mesgs) \in Seq(Octet)
  BY <1>1, LinesAppend
<1> QED BY <1>1, <1>2, OctetsConcat

LEMMA SplitStepKeeps ==
  ASSUME NEW t \in Seq(Octet), NEW k \in Nat, k + 1 <= Len(t),
         NEW a \in SplitState, NEW kept, SplitSoFar(t, k, a, kept)
  PROVE  SplitSoFar(t, k + 1, SplitOctet(a, t[k + 1]), LoneStep(t, kept, k + 1))
<1>. DEFINE c == t[k + 1]
            X == Lines(a.mesgs)
            r == SplitOctet(a, c)
            new == LoneStep(t, kept, k + 1)
<1>1. /\ a.mesgs \in Seq(Seq(Octet)) /\ a.text \in Seq(Octet)
      /\ a.cr \in BOOLEAN /\ a.open \in BOOLEAN
      /\ a = [mesgs |-> a.mesgs, text |-> a.text, cr |-> a.cr, open |-> a.open]
      /\ X \in Seq(Octet) /\ X \o a.text \in Seq(Octet)
  BY SplitStateIs
<1>2. c \in Octet /\ k + 1 > 0 /\ Len(t) \in Nat
  OBVIOUS
<1>3. CR \in Octet /\ LF \in Octet /\ CR # LF /\ <<CR>> \in Seq(Octet) /\ <<LF>> \in Seq(Octet)
  BY Literally DEF CR, LF
<1>4. /\ a.cr <=> k > 0 /\ t[k] = CR
      /\ CR \notin ToSet(a.text)
      /\ \A i \in DOMAIN a.mesgs : CR \notin ToSet(a.mesgs[i])
      /\ kept = (X \o a.text) \o (IF CRLFAt(t, k) THEN <<CR>> ELSE <<>>)
  BY DEF SplitSoFar
<1>5. c # LF => kept = X \o a.text
  <2>1. c # LF => ~CRLFAt(t, k)
    BY DEF CRLFAt
  <2> QED BY <1>1, <1>4, <2>1
<1>6. c # CR => ~CRLFAt(t, k + 1) /\ new = Append(kept, c)
  BY DEF CRLFAt, LoneStep
<1>7. CASE c = CR
  <2>1. r = [mesgs |-> a.mesgs, text |-> a.text, cr |-> TRUE, open |-> TRUE]
    BY <1>1, <1>3, <1>7 DEF SplitOctet
  <2>2. kept = X \o a.text
    BY <1>3, <1>5, <1>7
  <2>3. new = (X \o a.text) \o (IF CRLFAt(t, k + 1) THEN <<CR>> ELSE <<>>)
    <3>1. CASE CRLFAt(t, k + 1)
      <4>1. new = Append(X \o a.text, CR)
        BY <1>7, <2>2, <3>1 DEF LoneStep
      <4> QED BY <1>1, <1>3, <3>1, <4>1, AppendIs
    <3>2. CASE ~CRLFAt(t, k + 1)
      BY <1>1, <1>7, <2>2, <3>2 DEF LoneStep
    <3> QED BY <3>1, <3>2
  <2>4. r.mesgs = a.mesgs /\ r.text = a.text /\ r.cr = TRUE /\ r.open = TRUE
    BY <2>1
  <2>. HIDE DEF r, new, X, c
  <2>5. new = (Lines(r.mesgs) \o r.text) \o (IF CRLFAt(t, k + 1) THEN <<CR>> ELSE <<>>)
    BY <2>3, <2>4 DEF X
  <2>6. SplitSoFar(t, k + 1, r, new)
    BY <1>2, <1>4, <1>7, <2>4, <2>5 DEF SplitSoFar, c
  <2> QED BY <2>6 DEF r, new, c
<1>8. CASE c = LF /\ a.cr
  <2>1. r = [mesgs |-> Append(a.mesgs, a.text), text |-> <<>>, cr |-> FALSE, open |-> FALSE]
    BY <1>1, <1>3, <1>8 DEF SplitOctet
  <2>2. CRLFAt(t, k)
    BY <1>4, <1>8 DEF CRLFAt
  <2>3. kept = (X \o a.text) \o <<CR>> /\ kept \in Seq(Octet)
    BY <1>1, <1>3, <1>4, <2>2, OctetsConcat
  <2>4. new = kept \o <<LF>> /\ ~CRLFAt(t, k + 1)
    <3>1. new = Append(kept, LF) /\ ~CRLFAt(t, k + 1)
      BY <1>3, <1>6, <1>8
    <3> QED BY <1>3, <2>3, <3>1, AppendIs
  <2>5. new = X \o (a.text \o CRLF)
    <3>1. CRLF = <<CR>> \o <<LF>>
      BY <1>3, PairIs DEF CRLF
    <3>2. CRLF \in Seq(Octet)
      BY Literally
    <3>3. new = (X \o a.text) \o CRLF
      <4>1. new = ((X \o a.text) \o <<CR>>) \o <<LF>>
        BY <2>3, <2>4
      <4>. HIDE DEF X, new
      <4>2. ((X \o a.text) \o <<CR>>) \o <<LF>> = (X \o a.text) \o (<<CR>> \o <<LF>>)
        BY <1>1, <1>3, OctetsAssoc
      <4> QED BY <3>1, <4>1, <4>2
    <3> QED BY <1>1, <3>2, <3>3, OctetsAssoc
  <2>6. /\ Lines(Append(a.mesgs, a.text)) = X \o (a.text \o CRLF)
        /\ Lines(Append(a.mesgs, a.text)) \in Seq(Octet)
    <3>1. Append(a.mesgs, a.text) \in Seq(Seq(Octet))
      BY <1>1
    <3> QED BY <1>1, <3>1, LinesAppend
  <2>7. new = (Lines(r.mesgs) \o r.text) \o <<>>
    <3>1. r.mesgs = Append(a.mesgs, a.text) /\ r.text = <<>>
      BY <2>1
    <3>. HIDE DEF r, new, X
    <3>2. new \in Seq(Octet) /\ Lines(r.mesgs) = new
      BY <2>5, <2>6, <3>1
    <3>3. (new \o <<>>) \o <<>> = new
      BY <3>2
    <3> QED BY <3>1, <3>2, <3>3
  <2>8. \A i \in DOMAIN r.mesgs : CR \notin ToSet(r.mesgs[i])
    <3>1. ASSUME NEW i \in DOMAIN Append(a.mesgs, a.text)
          PROVE  CR \notin ToSet(Append(a.mesgs, a.text)[i])
      <4>1. /\ i = Len(a.mesgs) + 1 => Append(a.mesgs, a.text)[i] = a.text
            /\ i # Len(a.mesgs) + 1 => i \in DOMAIN a.mesgs /\ Append(a.mesgs, a.text)[i] = a.mesgs[i]
        BY <1>1
      <4> QED BY <1>4, <4>1
    <3>2. r.mesgs = Append(a.mesgs, a.text)
      BY <2>1
    <3> QED BY <3>1, <3>2
  <2>9. r.cr = FALSE /\ r.text = <<>> /\ CR \notin ToSet(r.text)
    BY <2>1 DEF ToSet
  <2>. HIDE DEF r, new, X
  <2> QED BY <1>2, <1>3, <1>8, <2>4, <2>7, <2>8, <2>9 DEF SplitSoFar, X, r, new, c
<1>9. CASE c # CR /\ ~(c = LF /\ a.cr)
  <2>1. r = [mesgs |-> a.mesgs, text |-> Append(a.text, c), cr |-> FALSE, open |-> TRUE]
    BY <1>1, <1>9 DEF SplitOctet
  <2>2. ~CRLFAt(t, k)
    BY <1>4, <1>9 DEF CRLFAt
  <2>3. kept = X \o a.text
    BY <1>1, <1>4, <2>2
  <2>4. new = (X \o Append(a.text, c)) \o <<>> /\ ~CRLFAt(t, k + 1)
    <3>1. new = (X \o a.text) \o <<c>> /\ <<c>> \in Seq(Octet)
      <4>1. new = Append(X \o a.text, c)
        BY <1>6, <1>9, <2>3
      <4>2. X \o a.text \in Seq(Octet) /\ c \in Octet
        BY <1>1, <1>2
      <4>. HIDE DEF X, new, c
      <4>3. Append(X \o a.text, c) = (X \o a.text) \o <<c>>
        BY <4>2, AppendIs
      <4>4. <<c>> \in Seq(Octet)
        BY <4>2
      <4> QED BY <4>1, <4>3, <4>4
    <3>2. Append(a.text, c) = a.text \o <<c>> /\ Append(a.text, c) \in Seq(Octet)
      BY <1>1, <1>2, AppendIs
    <3>3. new = X \o Append(a.text, c)
      <4>. HIDE DEF X, new, c
      <4>1. (X \o a.text) \o <<c>> = X \o (a.text \o <<c>>)
        BY <1>1, <3>1, OctetsAssoc
      <4> QED BY <3>1, <3>2, <4>1
    <3>4. X \o Append(a.text, c) \in Seq(Octet)
      BY <1>1, <3>2, OctetsConcat
    <3>. HIDE DEF new, X
    <3> QED BY <1>6, <1>9, <3>3, <3>4
  <2>5. CR \notin ToSet(Append(a.text, c))
    <3>1. \A i \in DOMAIN Append(a.text, c) :
            /\ i = Len(a.text) + 1 => Append(a.text, c)[i] = c
            /\ i # Len(a.text) + 1 => i \in DOMAIN a.text /\ Append(a.text, c)[i] = a.text[i]
      BY <1>1
    <3> QED BY <1>4, <1>9, <3>1 DEF ToSet
  <2>6. r.mesgs = a.mesgs /\ r.text = Append(a.text, c) /\ r.cr = FALSE /\ r.open = TRUE
    BY <2>1
  <2>. HIDE DEF r, new, X, c
  <2>7. new = (Lines(r.mesgs) \o r.text) \o (IF CRLFAt(t, k + 1) THEN <<CR>> ELSE <<>>)
    BY <2>4, <2>6 DEF X
  <2>8. CR \notin ToSet(r.text) /\ \A i \in DOMAIN r.mesgs : CR \notin ToSet(r.mesgs[i])
    BY <1>4, <2>5, <2>6
  <2>9. t[k + 1] # CR
    BY <1>9 DEF c
  <2>10. SplitSoFar(t, k + 1, r, new)
    BY <1>2, <2>6, <2>7, <2>8, <2>9 DEF SplitSoFar
  <2> QED BY <2>10 DEF r, new, c
<1> QED BY <1>7, <1>8, <1>9

LEMMA SplitRejoins ==
  ASSUME NEW t \in Seq(Octet)
  PROVE  Rejoined(SplitMesgs(t), t)
<1>. DEFINE N == Len(t)
<1>1. PICK h \in [0 .. N -> SplitState] :
        /\ h[0] = SplitStart
        /\ \A n \in 1 .. N : h[n] = SplitOctet(h[n - 1], t[n])
        /\ FoldLeft(SplitOctet, SplitStart, t) = h[N]
  BY SplitRun
<1>2. PICK g \in [0 .. N -> Seq(Octet)] :
        /\ g[0] = <<>>
        /\ \A n \in 1 .. N : g[n] = LoneStep(t, g[n - 1], n)
        /\ Loneless(t) = g[N]
  BY LonelessRun
<1>3. N \in Nat
  OBVIOUS
<1>. DEFINE T == {k \in Nat : k <= N => SplitSoFar(t, k, h[k], g[k])}
<1>4. 0 \in T
  <2>1. SplitSoFar(t, 0, SplitStart, <<>>)
    <3>1. ~CRLFAt(t, 0)
      BY DEF CRLFAt
    <3>2. Lines(<<>>) = <<>> /\ (<<>> \o <<>>) \o <<>> = <<>>
      BY LinesNone
    <3>3. CR \notin ToSet(<<>>) /\ DOMAIN <<>> = {}
      BY DEF ToSet
    <3> QED BY <3>1, <3>2, <3>3 DEF SplitSoFar, SplitStart
  <2> QED BY <1>1, <1>2, <2>1
<1>5. ASSUME NEW k \in T PROVE k + 1 \in T
  <2>. SUFFICES ASSUME k + 1 <= N PROVE SplitSoFar(t, k + 1, h[k + 1], g[k + 1])
    OBVIOUS
  <2>1. k \in Nat /\ k + 1 \in 1 .. N /\ (k + 1) - 1 = k /\ k \in 0 .. N
    BY <1>3
  <2>2. SplitSoFar(t, k, h[k], g[k]) /\ h[k] \in SplitState
    BY <2>1
  <2>3. h[k + 1] = SplitOctet(h[k], t[k + 1]) /\ g[k + 1] = LoneStep(t, g[k], k + 1)
    BY <1>1, <1>2, <2>1
  <2> QED BY <2>1, <2>2, <2>3, SplitStepKeeps
<1>6. SplitSoFar(t, N, h[N], g[N])
  <2>1. T \subseteq Nat
    OBVIOUS
  <2>2. T = Nat
    <3>. HIDE DEF T
    <3> QED BY <1>4, <1>5, <2>1, SetInduction
  <2>3. N \in T
    BY <1>3, <2>2
  <2> QED BY <1>3, <2>3
<1>. DEFINE a == h[N]
<1>7. a \in SplitState /\ ~CRLFAt(t, N)
  BY <1>3 DEF CRLFAt
<1>8. /\ ~a.open => a.text = <<>>
      /\ CR \notin ToSet(a.text)
      /\ \A i \in DOMAIN a.mesgs : CR \notin ToSet(a.mesgs[i])
      /\ Loneless(t) = (Lines(a.mesgs) \o a.text) \o <<>>
  BY <1>2, <1>6, <1>7 DEF SplitSoFar
<1>9. SplitMesgs(t) = IF a.open THEN Append(a.mesgs, a.text) ELSE a.mesgs
  BY <1>1 DEF SplitMesgs, SplitStart
<1>. HIDE DEF a
<1>10. /\ a.mesgs \in Seq(Seq(Octet)) /\ a.text \in Seq(Octet)
       /\ Lines(a.mesgs) \in Seq(Octet) /\ Lines(a.mesgs) \o a.text \in Seq(Octet)
  BY <1>7, SplitStateIs
<1>11. Loneless(t) = Lines(a.mesgs) \o a.text
  BY <1>8, <1>10
<1>12. CASE a.open
  <2>1. SplitMesgs(t) = Append(a.mesgs, a.text)
    BY <1>9, <1>12
  <2>2. Lines(SplitMesgs(t)) = Loneless(t) \o CRLF
    <3>1. CRLF \in Seq(Octet)
      BY Literally
    <3>2. Lines(SplitMesgs(t)) = Lines(a.mesgs) \o (a.text \o CRLF)
      BY <1>10, <2>1, LinesAppend
    <3>3. (Lines(a.mesgs) \o a.text) \o CRLF = Lines(a.mesgs) \o (a.text \o CRLF)
      BY <1>10, <3>1, OctetsAssoc
    <3> QED BY <1>11, <3>2, <3>3
  <2>3. ASSUME NEW i \in DOMAIN Append(a.mesgs, a.text)
        PROVE  CR \notin ToSet(Append(a.mesgs, a.text)[i])
    <3>1. /\ i = Len(a.mesgs) + 1 => Append(a.mesgs, a.text)[i] = a.text
          /\ i # Len(a.mesgs) + 1 => i \in DOMAIN a.mesgs /\ Append(a.mesgs, a.text)[i] = a.mesgs[i]
      <4>. DEFINE ms == a.mesgs
                 m == a.text
      <4>1. ms \in Seq(Seq(Octet)) /\ m \in Seq(Octet)
        BY <1>10
      <4>. HIDE DEF ms, m
      <4>2. \A j \in DOMAIN Append(ms, m) :
              /\ j = Len(ms) + 1 => Append(ms, m)[j] = m
              /\ j # Len(ms) + 1 => j \in DOMAIN ms /\ Append(ms, m)[j] = ms[j]
        BY <4>1
      <4> QED BY <4>2 DEF ms, m
    <3> QED BY <1>8, <3>1
  <2> QED BY <2>1, <2>2, <2>3 DEF Rejoined, Lines
<1>13. CASE ~a.open
  <2>1. SplitMesgs(t) = a.mesgs /\ a.text = <<>>
    BY <1>8, <1>9, <1>13
  <2>2. Lines(a.mesgs) = Loneless(t)
    BY <1>10, <1>11, <2>1
  <2> QED BY <1>8, <2>1, <2>2 DEF Rejoined, Lines
<1> QED BY <1>12, <1>13

LEMMA MinIs ==
  ASSUME NEW S \in SUBSET Nat, NEW x \in S, \A y \in S : x <= y
  PROVE  Min(S) = x
<1>1. Min(S) \in S /\ \A y \in S : Min(S) <= y
  BY DEF Min
<1>2. Min(S) <= x /\ x <= Min(S) /\ Min(S) \in Nat /\ x \in Nat
  BY <1>1
<1> QED BY <1>2

\* sbMIMEExtract finds the text behind the empty header.
LEMMA MIMEExtractText ==
  ASSUME NEW t \in Seq(Octet)
  PROVE  MIMEExtract(Mesg(<<>>, t)) = t
<1>. DEFINE raw == Mesg(<<>>, t)
            blank == {i \in 1 .. Len(raw) : CRLFAt(raw, i) /\ (i = 1 \/ CRLFAt(raw, i - 2))}
<1>1. raw = CRLF \o t /\ CRLF = <<CR, LF>>
  <2>1. <<>> \o CRLF = CRLF
    BY Literally, ConcatEmptySeq
  <2> QED BY <2>1 DEF Mesg, CRLF
<1>2. CRLF \in Seq(Octet) /\ Len(CRLF) = 2 /\ CRLF[1] = CR /\ CRLF[2] = LF
  BY <1>1, Literally
<1>3. /\ raw \in Seq(Octet) /\ Len(raw) = Len(t) + 2 /\ Len(t) \in Nat
      /\ raw[1] = CR /\ raw[2] = LF /\ \A i \in 1 .. Len(t) : raw[i + 2] = t[i]
  <2>. HIDE DEF raw
  <2>1. \A i \in 1 .. Len(t) : (CRLF \o t)[i + 2] = t[i]
    <3>. SUFFICES ASSUME NEW i \in 1 .. Len(t) PROVE (CRLF \o t)[i + 2] = t[i]
      OBVIOUS
    <3>1. i + 2 \in 1 .. Len(CRLF) + Len(t) /\ ~(i + 2 <= Len(CRLF)) /\ (i + 2) - Len(CRLF) = i
      BY <1>2, OctetsLen
    <3>. DEFINE k == i + 2
    <3>2. k \in 1 .. Len(CRLF) + Len(t) /\ ~(k <= Len(CRLF)) /\ k - Len(CRLF) = i
      BY <3>1
    <3>. HIDE DEF k
    <3>3. (CRLF \o t)[k] = t[k - Len(CRLF)]
      BY <1>2, <3>2, ConcatProperties
    <3> QED BY <3>2, <3>3 DEF k
  <2>2. (CRLF \o t)[1] = CR /\ (CRLF \o t)[2] = LF
    BY <1>2, ConcatProperties
  <2> QED BY <1>1, <1>2, <2>1, <2>2, OctetsConcat
<1>. HIDE DEF raw
<1>4. 1 \in blank
  BY <1>3 DEF CRLFAt
<1>5. Min(blank) = 1
  <2>1. blank \in SUBSET Nat /\ \A y \in blank : 1 <= y
    BY <1>3
  <2>. HIDE DEF blank
  <2> QED BY <1>4, <2>1, MinIs
<1>6. MIMEExtract(raw) = SubSeq(raw, 1 + 2, Len(raw))
  <2>1. blank # {}
    BY <1>4
  <2> QED BY <1>5, <2>1 DEF MIMEExtract
<1>7. SubSeq(raw, 3, Len(raw)) = t
  <2>. DEFINE u == SubSeq(raw, 3, Len(raw))
  <2>1. u \in Seq(Octet) /\ Len(u) = Len(t) /\ \A i \in 1 .. Len(t) : u[i] = raw[i + 2]
    BY <1>3
  <2>. HIDE DEF u
  <2>2. u = t
    BY <1>3, <2>1, SeqEqual
  <2> QED BY <2>2 DEF u
<1>8. MIMEExtract(raw) = t
  BY <1>6, <1>7
<1> QED BY <1>8 DEF raw
-----------------------------------------------------------------------------
(***************************************************************************)
(* The texts.                                                              *)
(***************************************************************************)
\* Each frame carries the text it was made for; the last one may not be sent.
ClientTexts ==
  /\ logged \in Seq(Texts)
  /\ cpc \in {"idle", "send", "recv", "failed"}
  /\ cpc \in {"idle", "recv"} => Len(logged) = Len(sent)
  /\ cpc = "send" => /\ Len(logged) = Len(sent) + 1
                     /\ pend.payload = Mesg(<<>>, logged[Len(logged)])
  /\ Len(sent) <= Len(logged)
  /\ \A i \in 1 .. Len(sent) : sent[i].payload = Mesg(<<>>, logged[i])

\* What was handed over is what was in the frames.
ListenerTexts ==
  /\ \E B : handed \in Seq(B)
  /\ Len(handed) = Len(built)
  /\ \A i \in 1 .. Len(built) : handed[i] = HandOver(MIMEExtract(built[i].payload))

TInv == IInv /\ ClientTexts /\ ListenerTexts

LEMMA TextType ==
  ASSUME NEW t \in Texts
  PROVE  t \in Seq(Octet)
<1>1. t \in Seq(STRING) /\ STRING \subseteq Octet
  BY StreamAssumption DEF Octet
<1> QED BY <1>1, SeqMonotonic

LEMMA InitTInv ==
  Init => TInv
<1>. SUFFICES ASSUME Init PROVE ClientTexts /\ ListenerTexts
  BY InitIInv DEF TInv
<1>1. logged = <<>> /\ sent = <<>> /\ built = <<>> /\ handed = <<>> /\ cpc = "idle"
  BY DEF Init
<1>2. ClientTexts
  BY <1>1 DEF ClientTexts
<1>3. handed \in Seq({})
  BY <1>1
<1>4. ListenerTexts
  BY <1>1, <1>3 DEF ListenerTexts
<1> QED BY <1>2, <1>4

LEMMA SentType ==
  ASSUME IInv
  PROVE  /\ sent \in Seq(Frames) /\ Len(sent) \in Nat
         /\ \E B : built \in Seq(B)
BY AllDataType DEF IInv, ClientOK, ListenerOK

LEMMA LogMesgTexts ==
  ASSUME IInv, ClientTexts, NEW t \in Texts, LogMesg(t)
  PROVE  ClientTexts'
<1>1. /\ cpc = "idle" /\ cpc' = "send" /\ sent' = sent /\ logged' = Append(logged, t)
      /\ pend'.payload = Mesg(<<>>, t)
  BY DEF LogMesg, clntHist, MesgFram
<1>2. Len(logged) = Len(sent) /\ logged \in Seq(Texts) /\ Len(sent) \in Nat
  BY <1>1, SentType DEF ClientTexts
<1>3. /\ logged' \in Seq(Texts) /\ Len(logged') = Len(sent) + 1
      /\ logged'[Len(sent) + 1] = t /\ \A i \in 1 .. Len(sent) : logged'[i] = logged[i]
  BY <1>1, <1>2
<1> QED BY <1>1, <1>2, <1>3 DEF ClientTexts

LEMMA SendFramTexts ==
  ASSUME IInv, ClientTexts, SendFram
  PROVE  ClientTexts'
<1>1. /\ cpc = "send" /\ cpc' \in {"idle", "recv"} /\ sent' = Append(sent, pend)
      /\ logged' = logged
  BY DEF SendFram
<1>2. /\ Len(logged) = Len(sent) + 1 /\ logged \in Seq(Texts) /\ Len(sent) \in Nat
      /\ pend.payload = Mesg(<<>>, logged[Len(sent) + 1]) /\ sent \in Seq(Frames)
  BY <1>1, SentType DEF ClientTexts
<1>3. /\ Len(sent') = Len(sent) + 1 /\ sent'[Len(sent) + 1] = pend
      /\ \A i \in 1 .. Len(sent) : sent'[i] = sent[i]
  BY <1>1, <1>2
<1>4. \A i \in 1 .. Len(sent') : i \in 1 .. Len(sent) \/ i = Len(sent) + 1
  BY <1>2, <1>3
<1>5. \A i \in 1 .. Len(sent') : sent'[i].payload = Mesg(<<>>, logged[i])
  BY <1>2, <1>3, <1>4 DEF ClientTexts
<1> QED BY <1>1, <1>2, <1>3, <1>5 DEF ClientTexts

LEMMA OthersTexts ==
  ASSUME ClientTexts,
         \/ AwaitFram \/ TakeReply \/ LstnSendFram \/ LstnBuildFrame \/ LstnOnFramRcvd
         \/ LstnCrash \/ UNCHANGED vars
  PROVE  ClientTexts'
<1>1. sent' = sent /\ logged' = logged /\ pend' = pend
  BY DEF AwaitFram, TakeReply, LstnSendFram, LstnBuildFrame, LstnOnFramRcvd, LstnCrash,
         vars, clntVars, clntHist
<1>2. \/ cpc' = cpc \/ cpc' = "failed"
      \/ cpc = "recv" /\ cpc' = "idle"
  BY DEF AwaitFram, TakeReply, LstnSendFram, LstnBuildFrame, LstnOnFramRcvd, LstnCrash,
         vars, clntVars, clntHist
<1> QED BY <1>1, <1>2 DEF ClientTexts

LEMMA ReceivedTexts ==
  ASSUME IInv, ListenerTexts, LstnOnFramRcvd
  PROVE  ListenerTexts'
<1>. DEFINE r == BuildFrame(recvFram, Head(c2s))
            f == [cmd |-> r.cmd, val |-> r.val, payload |-> r.buf]
            h == HandOver(MIMEExtract(r.buf))
<1>1. /\ built' = Append(built, f) /\ handed' = Append(handed, h) /\ f.payload = r.buf
      /\ profile' = profile
  BY DEF LstnOnFramRcvd
<1>2. h = HandOver(MIMEExtract(f.payload))
  BY <1>1
<1>. HIDE DEF h, f, r
<1>3. PICK B : built \in Seq(B)
  BY SentType
<1>4. PICK H : handed \in Seq(H)
  BY DEF ListenerTexts
<1>5. Len(handed) = Len(built) /\ Len(built) \in Nat
  BY <1>3 DEF ListenerTexts
<1>6. /\ Len(built') = Len(built) + 1 /\ built'[Len(built) + 1] = f
      /\ \A i \in 1 .. Len(built) : built'[i] = built[i]
  BY <1>1, <1>3
<1>7. /\ Len(handed') = Len(built) + 1 /\ handed'[Len(built) + 1] = h
      /\ \A i \in 1 .. Len(built) : handed'[i] = handed[i]
  BY <1>1, <1>4, <1>5
<1>8. handed' \in Seq(H \union {h})
  <2>1. handed \in Seq(H \union {h})
    BY <1>4, SeqMonotonic
  <2> QED BY <1>1, <2>1
<1>9. \A i \in 1 .. Len(built') : i \in 1 .. Len(built) \/ i = Len(built) + 1
  BY <1>5, <1>6
<1>10. \A i \in 1 .. Len(built') : handed'[i] = HandOver(MIMEExtract(built'[i].payload))
  BY <1>2, <1>6, <1>7, <1>9 DEF ListenerTexts
<1>11. ASSUME NEW i \in 1 .. Len(built')
       PROVE  handed'[i] = LET x == MIMEExtract(built'[i].payload)
                           IN IF profile' = "RAW" THEN SplitMesgs(x)
                              ELSE IF x \in Unparsable THEN <<>> ELSE <<x>>
  <2>. DEFINE x == MIMEExtract(built'[i].payload)
  <2>1. handed'[i] = HandOver(x)
    BY <1>10, <1>11
  <2>. HIDE DEF x
  <2>2. handed'[i] = IF profile' = "RAW" THEN SplitMesgs(x)
                     ELSE IF x \in Unparsable THEN <<>> ELSE <<x>>
    BY <1>1, <2>1 DEF HandOver
  <2> QED BY <2>2 DEF x
<1> QED BY <1>6, <1>7, <1>8, <1>11 DEF ListenerTexts, HandOver

LEMMA NextTInv ==
  ASSUME TInv, [Next]_vars
  PROVE  TInv'
<1>1. IInv /\ IInv' /\ ClientTexts /\ ListenerTexts
  BY NextIInv DEF TInv
<1>2. CASE LstnOnFramRcvd
  BY <1>1, <1>2, ReceivedTexts, OthersTexts DEF TInv
<1>3. CASE ~LstnOnFramRcvd
  <2>1. UNCHANGED <<handed, built, profile>>
    BY <1>3 DEF Next, LogMesg, SendFram, AwaitFram, TakeReply, LstnBuildFrame, LstnCrash,
                LstnSendFram, lstnHist, vars
  <2>2. ListenerTexts'
    BY <1>1, <2>1 DEF ListenerTexts, HandOver
  <2>3. ClientTexts'
    BY <1>1, <1>3, LogMesgTexts, SendFramTexts, OthersTexts DEF Next
  <2> QED BY <1>1, <2>2, <2>3 DEF TInv
<1> QED BY <1>2, <1>3

LEMMA TInvTexts ==
  TInv => TextsHandedOver
<1>. SUFFICES ASSUME TInv, NEW i \in InStep \intersect DOMAIN handed
              PROVE  IF profile = "RAW" THEN Rejoined(handed[i], logged[i])
                     ELSE handed[i] = IF logged[i] \in Unparsable THEN <<>> ELSE <<logged[i]>>
  BY DEF TextsHandedOver
<1>1. IInv /\ ClientTexts /\ ListenerTexts /\ BuiltAsSent
  BY IInvInStep DEF TInv
<1>2. PICK B : built \in Seq(B)
  BY <1>1, SentType
<1>3. PICK H : handed \in Seq(H)
  BY <1>1 DEF ListenerTexts
<1>4. i \in 1 .. Len(built) /\ DOMAIN built = 1 .. Len(built)
  BY <1>1, <1>2, <1>3 DEF ListenerTexts
<1>5. i \in 1 .. Len(sent)
  BY <1>1, SentType DEF InStep
<1>6. built[i] = sent[i]
  BY <1>1, <1>4 DEF BuiltAsSent
<1>7. logged[i] \in Texts
  <2>1. logged \in Seq(Texts) /\ Len(sent) <= Len(logged) /\ Len(sent) \in Nat
    BY <1>1, SentType DEF ClientTexts
  <2>2. i \in 1 .. Len(logged)
    BY <1>5, <2>1
  <2> QED BY <2>1, <2>2
<1>8. logged[i] \in Seq(Octet)
  BY <1>7, TextType
<1>9. handed[i] = HandOver(logged[i])
  <2>1. handed[i] = HandOver(MIMEExtract(Mesg(<<>>, logged[i])))
    BY <1>1, <1>4, <1>5, <1>6 DEF ListenerTexts, ClientTexts
  <2> QED BY <1>8, <2>1, MIMEExtractText
<1> QED BY <1>8, <1>9, SplitRejoins DEF HandOver

\* Each text handed to the library comes out of the listener's API, up to the
\* first frame that was cut: psrrOnMesgRecvCallAPI hands on the lines of a RAW
\* text, every octet of it but a CR that ends no line, and a COOKED text comes
\* out as it is, unless the listener cannot parse it.
THEOREM TextsArrive == Spec => []TextsHandedOver
<1>1. TInv /\ [Next]_vars => TInv'
  BY NextTInv
<1> QED BY InitTInv, <1>1, TInvTexts, PTL DEF Spec
=============================================================================
