------------------------- MODULE FrameReader_proofs -------------------------
(***************************************************************************)
(* The client reads what the listener queued, and its calls are told the   *)
(* truth: for any texts, any FrameMax and any length of the session.       *)
(*                                                                         *)
(* In order: what RecvFram makes of octets that begin with the header of a *)
(* frame (Headed, RecvFramIs); that the text of a frame has such a header  *)
(* (Layout, Places) and the blocking reader takes exactly that text off    *)
(* the stream when its first line feed has arrived (ReadsFrame); how long  *)
(* a number is, so that everything the listener queues fits (AckOK,        *)
(* ReplyOK); the octets between the listener's queue and the client, some  *)
(* of them not sent yet (Pipe); the numbers of a session (NInv) and the    *)
(* answers (RcvdAnswers).  The invariants are DInv, about frames, RInv,    *)
(* which counts the replies among them, and SInv, about calls.             *)
(*                                                                         *)
(* DInv and RInv say nothing once SNPRINTF has cut a frame of the client:  *)
(* the state machine may take anything for a frame behind it, with any     *)
(* number in its header, so that what the listener then answers need not   *)
(* fit.  SInv keeps what the calls were told before that.                  *)
(***************************************************************************)
EXTENDS FrameStream_proofs
-----------------------------------------------------------------------------
(***************************************************************************)
(* The blocking reader, on octets that begin with the header of a frame.   *)
(***************************************************************************)
ServerCommands == {RPY, ERR, SEQ}
SrvFrames == [cmd : ServerCommands, payload : Seq(Octet), val : [Names -> Nat]]

\* A frame a listener writes: the numbers are those its command has room for.
SrvFram(f) ==
  /\ f \in SrvFrames
  /\ \A m \in Names : (m = "more" \/ \A k \in DOMAIN Fields(f.cmd) : Fields(f.cmd)[k] # m)
                      => f.val[m] = 0
  /\ f.val.size = Len(f.payload)
  /\ f.cmd = SEQ => f.payload = <<>>

Space == " "

\* s begins with the header of f: field k follows the space at q[k].
Headed(s, f, q) ==
  LET names == Fields(f.cmd)
      n == Len(names) IN
  /\ q \in [1 .. n + 1 -> Nat] /\ q[1] = 4
  /\ SubSeq(s, 1, 3) = f.cmd
  /\ \A k \in 1 .. n :
       /\ 1 <= q[k] /\ q[k] < q[k + 1] /\ q[k] <= Len(s) /\ s[q[k]] = Space
       /\ names[k] = "more" => q[k + 1] = q[k] + 2
       /\ names[k] # "more" =>
            /\ q[k] + 1 <= q[k + 1] /\ q[k + 1] <= Len(s) /\ ~IsDigit(s[q[k + 1]])
            /\ \A i \in q[k] + 1 .. q[k + 1] - 1 : IsDigit(s[i])
            /\ SubSeq(s, q[k] + 1, q[k + 1] - 1) = Decimal[f.val[names[k]]]
  /\ CRLFAt(s, q[n + 1])

LEMMA SrvFields ==
  ASSUME NEW cmd \in ServerCommands
  PROVE  /\ cmd \in Commands /\ Len(Fields(cmd)) \in {3, 5}
         /\ Fields(cmd) \in Seq(Names) /\ DOMAIN Fields(cmd) = 1 .. Len(Fields(cmd))
<1>1. CASE cmd = SEQ
  <2>1. Fields(cmd) = <<"chan", "ackno", "window">>
    BY <1>1 DEF Fields
  <2> QED BY <1>1, <2>1 DEF Names, Commands
<1>2. CASE cmd # SEQ
  <2>1. cmd # ANS /\ cmd \in Commands
    BY <1>2 DEF ServerCommands, Commands, RPY, ERR, ANS
  <2>2. Fields(cmd) = <<"chan", "msgno", "more", "seqno", "size">> \o <<>>
    BY <1>2, <2>1 DEF Fields
  <2>3. Fields(cmd) = <<"chan", "msgno", "more", "seqno", "size">>
    BY <2>2
  <2> QED BY <2>1, <2>3 DEF Names
<1> QED BY <1>1, <1>2

\* sbFramRecvUnsigned stops at the octet after the digits.
LEMMA AfterDigitsIs ==
  ASSUME NEW s \in Seq(Octet), NEW i \in Nat, NEW e \in Nat, 1 <= i, i <= e, e <= Len(s),
         ~IsDigit(s[e]), \A j \in i .. e - 1 : IsDigit(s[j])
  PROVE  AfterDigits(s, i) = e
<1>. DEFINE S == {j \in i .. Len(s) : ~IsDigit(s[j])} \union {Len(s) + 1}
<1>1. Len(s) \in Nat
  OBVIOUS
<1>2. S \in SUBSET Nat
  BY <1>1
<1>3. e \in S
  BY <1>1
<1>4. \A y \in S : e <= y
  <2>1. ASSUME NEW y \in i .. Len(s), ~IsDigit(s[y]) PROVE e <= y
    BY <1>1, <2>1
  <2> QED BY <1>1, <2>1
<1>. HIDE DEF S
<1>5. Min(S) = e
  BY <1>2, <1>3, <1>4, MinIs
<1> QED BY <1>5 DEF AfterDigits, S

\* It reads the number that %u wrote.
LEMMA NumberIs ==
  ASSUME NEW s \in Seq(Octet), NEW n \in Nat, NEW i, NEW j,
         SubSeq(s, i, j - 1) = Decimal[n]
  PROVE  Number(s, i, j) = n
<1>. DEFINE t == Decimal[n]
<1>1. t \in Seq(Octet) /\ Len(t) \in Nat
  BY DecimalIs
<1>2. PICK g \in [0 .. Len(t) -> Nat] :
        /\ g[0] = 0 /\ g[Len(t)] = n
        /\ \A k \in 1 .. Len(t) : IsDigit(t[k]) /\ g[k] = 10 * g[k - 1] + DigitVal[t[k]]
  BY DecimalTells DEF Tells
<1>. HIDE DEF t
<1>3. PICK h \in [0 .. Len(t) -> Nat] :
        /\ h[0] = 0
        /\ \A k \in 1 .. Len(t) : h[k] = NumStep(t, h[k - 1], k)
        /\ FoldLeft(LAMBDA u, c : 10 * u + DigitVal[c], 0, t) = h[Len(t)]
  BY <1>1, <1>2, NumberRun
<1>. DEFINE T == {k \in Nat : k <= Len(t) => h[k] = g[k]}
<1>4. 0 \in T
  BY <1>2, <1>3
<1>5. ASSUME NEW k \in T PROVE k + 1 \in T
  <2>. SUFFICES ASSUME k + 1 <= Len(t) PROVE h[k + 1] = g[k + 1]
    OBVIOUS
  <2>1. k \in Nat /\ k + 1 \in 1 .. Len(t) /\ (k + 1) - 1 = k /\ k <= Len(t)
    BY <1>1
  <2>2. h[k + 1] = 10 * h[k] + DigitVal[t[k + 1]] /\ g[k + 1] = 10 * g[k] + DigitVal[t[k + 1]]
    BY <1>2, <1>3, <2>1 DEF NumStep
  <2> QED BY <2>1, <2>2
<1>6. T \subseteq Nat
  OBVIOUS
<1>7. Len(t) \in T
  <2>. HIDE DEF T
  <2> QED BY <1>1, <1>4, <1>5, <1>6, SetInduction
<1>8. h[Len(t)] = n
  BY <1>1, <1>2, <1>7
<1> QED BY <1>3, <1>8 DEF Number, t


Seps(s, names) ==
  CHOOSE g : g = [k \in 1 .. Len(names) + 1 |->
                    IF k = 1 THEN 4
                    ELSE IF names[k - 1] = "more" THEN g[k - 1] + 2
                    ELSE AfterDigits(s, g[k - 1] + 1)]

LEMMA SepsAre ==
  ASSUME NEW s \in Seq(Octet), NEW f, SrvFram(f), NEW q, Headed(s, f, q)
  PROVE  Seps(s, Fields(f.cmd)) = q
<1>. DEFINE names == Fields(f.cmd)
            n == Len(names)
            G(g) == g = [k \in 1 .. n + 1 |->
                           IF k = 1 THEN 4
                           ELSE IF names[k - 1] = "more" THEN g[k - 1] + 2
                           ELSE AfterDigits(s, g[k - 1] + 1)]
<1>1. n \in Nat
  BY SrvFields DEF SrvFram, SrvFrames
<1>2. /\ q \in [1 .. n + 1 -> Nat] /\ q[1] = 4
      /\ \A k \in 1 .. n :
           /\ 1 <= q[k] /\ q[k] <= Len(s)
           /\ names[k] = "more" => q[k + 1] = q[k] + 2
           /\ names[k] # "more" =>
                /\ q[k] + 1 <= q[k + 1] /\ q[k + 1] <= Len(s) /\ ~IsDigit(s[q[k + 1]])
                /\ \A i \in q[k] + 1 .. q[k + 1] - 1 : IsDigit(s[i])
  BY DEF Headed
<1>. HIDE DEF names, n
<1>3. ASSUME NEW k \in 1 .. n + 1
      PROVE  q[k] = IF k = 1 THEN 4
                    ELSE IF names[k - 1] = "more" THEN q[k - 1] + 2
                    ELSE AfterDigits(s, q[k - 1] + 1)
  <2>1. CASE k = 1
    BY <1>2, <2>1
  <2>2. CASE k # 1
    <3>. DEFINE j == k - 1
    <3>1. j \in 1 .. n /\ j + 1 = k /\ j \in 1 .. n + 1 /\ q[j] \in Nat /\ q[k] \in Nat
      BY <1>1, <1>2, <2>2
    <3>. HIDE DEF j
    <3>2. names[j] = "more" => q[k] = q[j] + 2
      BY <1>2, <3>1
    <3>3. ASSUME names[j] # "more" PROVE q[k] = AfterDigits(s, q[j] + 1)
      <4>1. /\ q[j] + 1 <= q[k] /\ q[k] <= Len(s) /\ ~IsDigit(s[q[k]]) /\ 1 <= q[j] + 1
            /\ \A i \in q[j] + 1 .. q[k] - 1 : IsDigit(s[i])
        BY <1>2, <3>1, <3>3
      <4>2. q[j] + 1 \in Nat
        BY <3>1
      <4> QED BY <3>1, <4>1, <4>2, AfterDigitsIs
    <3> QED BY <2>2, <3>2, <3>3 DEF j
  <2> QED BY <2>1, <2>2
<1>4. G(q)
  BY <1>2, <1>3
<1>. DEFINE g == CHOOSE x : G(x)
<1>5. G(g)
  <2>. HIDE DEF G
  <2> QED BY <1>4
<1>6. ASSUME NEW k \in 1 .. n + 1
      PROVE  g[k] = IF k = 1 THEN 4
                    ELSE IF names[k - 1] = "more" THEN g[k - 1] + 2
                    ELSE AfterDigits(s, g[k - 1] + 1)
  <2>. HIDE DEF g
  <2> QED BY <1>5
<1>7. g = [k \in 1 .. n + 1 |-> g[k]]
  <2>. HIDE DEF g
  <2> QED BY <1>5
<1>8. g = Seps(s, names)
  BY DEF Seps, n
<1>. HIDE DEF g
<1>. DEFINE T == {k \in Nat : k + 1 <= n + 1 => g[k + 1] = q[k + 1]}
<1>9. 0 \in T
  <2>1. 1 \in 1 .. n + 1 /\ 0 + 1 = 1
    BY <1>1
  <2> QED BY <1>2, <1>6, <2>1
<1>10. ASSUME NEW k \in T PROVE k + 1 \in T
  <2>. SUFFICES ASSUME (k + 1) + 1 <= n + 1 PROVE g[(k + 1) + 1] = q[(k + 1) + 1]
    OBVIOUS
  <2>. DEFINE m == (k + 1) + 1
  <2>1. k \in Nat /\ m \in 1 .. n + 1 /\ m - 1 = k + 1 /\ m # 1 /\ k + 1 <= n + 1
    BY <1>1
  <2>2. g[m - 1] = q[m - 1]
    BY <2>1
  <2>. HIDE DEF m
  <2>3. g[m] = q[m]
    BY <1>3, <1>6, <2>1, <2>2
  <2> QED BY <2>3 DEF m
<1>11. T \subseteq Nat
  OBVIOUS
<1>12. T = Nat
  <2>. HIDE DEF T
  <2> QED BY <1>9, <1>10, <1>11, SetInduction
<1>13. ASSUME NEW k \in 1 .. n + 1 PROVE g[k] = q[k]
  <2>1. k - 1 \in Nat /\ (k - 1) + 1 = k
    BY <1>1
  <2>2. k - 1 \in T
    <3>. HIDE DEF T
    <3> QED BY <1>12, <2>1
  <2> QED BY <1>1, <2>1, <2>2
<1>14. q = [k \in 1 .. n + 1 |-> q[k]]
  BY <1>2
<1> QED BY <1>7, <1>8, <1>13, <1>14 DEF names

LEMMA LeastExists ==
  ASSUME NEW n \in Nat, NEW S \in SUBSET (1 .. n), S # {}
  PROVE  \E x \in S : \A y \in S : x <= y
<1>. DEFINE M == {(n + 1) - x : x \in S}
<1>1. M \in SUBSET (1 .. n) /\ M # {}
  <2>1. \A x \in S : x \in 1 .. n
    OBVIOUS
  <2>2. \A x \in 1 .. n : (n + 1) - x \in 1 .. n
    OBVIOUS
  <2>3. PICK x \in S : TRUE
    OBVIOUS
  <2>4. (n + 1) - x \in M
    OBVIOUS
  <2> QED BY <2>1, <2>2, <2>4
<1>2. Max(M) \in M /\ \A x \in M : x <= Max(M)
  <2>. HIDE DEF M
  <2> QED BY <1>1, MaxExists
<1>3. PICK x \in S : Max(M) = (n + 1) - x
  BY <1>2
<1>4. \A y \in S : (n + 1) - y <= (n + 1) - x
  BY <1>2, <1>3
<1> QED BY <1>4

\* sbFramActualRecvFram, its steps named.
ReadVal(s, names, sep) ==
  [m \in DOMAIN NoVal |->
     LET k == SelectInSeq(names, LAMBDA x : x = m)
     IN IF k = 0 \/ m = "more" THEN 0 ELSE Number(s, sep[k] + 1, sep[k + 1])]
BadSeps(s, names, sep) ==
  {k \in 1 .. (Len(names) + 1) - 1 : sep[k] > Len(s) \/ s[sep[k]] # " "}
    \union (IF CRLFAt(s, sep[Len(names) + 1]) THEN {} ELSE {Len(names) + 1})
ReadEnd(cmd, val, body) == IF cmd = SEQ THEN body ELSE body + val.size + 5

LEMMA RecvFramIs ==
  ASSUME NEW s
  PROVE  RecvFram(s) =
            LET c == SubSeq(s, 1, 3)
                ns == IF c \in Commands THEN Fields(c) ELSE <<>>
                sp == Seps(s, ns)
                vl == ReadVal(s, ns, sp)
                b == sp[Len(ns) + 1] + 1
                e == ReadEnd(c, vl, b)
            IN IF c \notin Commands THEN [ok |-> FALSE, len |-> 3]
               ELSE IF BadSeps(s, ns, sp) # {} THEN [ok |-> FALSE, len |-> sp[Min(BadSeps(s, ns, sp))]]
               ELSE IF vl.size > FrameMax THEN [ok |-> FALSE, len |-> b - 2]
               ELSE IF e > Len(s) THEN [ok |-> FALSE, len |-> e]
               ELSE [ok |-> c = SEQ \/ SubSeq(s, e - 4, e) = Trailer, len |-> e,
                     fram |-> [cmd |-> c, val |-> vl,
                               payload |-> IF c = SEQ THEN <<>>
                                           ELSE SubSeq(s, b + 1, e - 5)]]
BY Zenon DEF RecvFram, Seps, BadSeps, ReadVal, ReadEnd, SelectInSeq

LEMMA ReadValIs ==
  ASSUME NEW s \in Seq(Octet), NEW f, SrvFram(f), NEW q, Headed(s, f, q)
  PROVE  ReadVal(s, Fields(f.cmd), q) = f.val
<1>. DEFINE names == Fields(f.cmd)
            n == Len(names)
            I(m) == {i \in 1 .. n : names[i] = m}
            k(m) == IF I(m) # {} THEN Min(I(m)) ELSE 0
<1>1. n \in Nat /\ DOMAIN names = 1 .. n /\ f.val \in [Names -> Nat]
  BY SrvFields DEF SrvFram, SrvFrames
<1>2. DOMAIN NoVal = Names
  BY DEF NoVal, Names
<1>3. ReadVal(s, names, q) = [m \in Names |-> IF k(m) = 0 \/ m = "more" THEN 0
                                              ELSE Number(s, q[k(m)] + 1, q[k(m) + 1])]
  BY <1>2, Zenon DEF ReadVal, SelectInSeq
<1>4. \A i \in 1 .. n : names[i] # "more" =>
        SubSeq(s, q[i] + 1, q[i + 1] - 1) = Decimal[f.val[names[i]]]
  BY DEF Headed
<1>5. \A m \in Names : (m = "more" \/ \A i \in 1 .. n : names[i] # m) => f.val[m] = 0
  BY <1>1 DEF SrvFram
<1>. HIDE DEF names, n
<1>6. ASSUME NEW m \in Names
      PROVE  f.val[m] = IF k(m) = 0 \/ m = "more" THEN 0
                        ELSE Number(s, q[k(m)] + 1, q[k(m) + 1])
  <2>1. CASE I(m) = {}
    <3>1. k(m) = 0 /\ f.val[m] = 0
      BY <1>5, <2>1
    <3> QED BY <3>1
  <2>2. CASE I(m) # {} /\ m = "more"
    BY <1>5, <2>2
  <2>3. CASE I(m) # {} /\ m # "more"
    <3>1. PICK x \in I(m) : \A y \in I(m) : x <= y
      <4>1. I(m) \in SUBSET (1 .. n)
        OBVIOUS
      <4>. HIDE DEF I
      <4> QED BY <1>1, <2>3, <4>1, LeastExists
    <3>2. k(m) = x
      <4>1. I(m) \in SUBSET Nat
        BY <1>1
      <4>. HIDE DEF I
      <4>2. Min(I(m)) = x
        BY <3>1, <4>1, MinIs
      <4> QED BY <2>3, <4>2
    <3>3. x \in 1 .. n /\ names[x] = m /\ x # 0
      BY <1>1
    <3>. HIDE DEF k, I
    <3>4. SubSeq(s, q[x] + 1, q[x + 1] - 1) = Decimal[f.val[m]] /\ f.val[m] \in Nat
      BY <1>1, <1>4, <2>3, <3>3
    <3>5. Number(s, q[x] + 1, q[x + 1]) = f.val[m]
      BY <3>4, NumberIs
    <3> QED BY <2>3, <3>2, <3>3, <3>5
  <2> QED BY <2>1, <2>2, <2>3
<1>7. f.val = [m \in Names |-> f.val[m]]
  BY <1>1
<1>. HIDE DEF k, I
<1>8. ReadVal(s, names, q) = f.val
  BY <1>3, <1>6, <1>7, Zenon
<1> QED BY <1>8 DEF names

\* How many octets of f are behind the position after its header.
Behind(f) == IF f.cmd = SEQ THEN 0 ELSE f.val.size + 5

\* The reader takes the frame it finds the header of, all of it or nothing.
LEMMA FramRead ==
  ASSUME NEW s \in Seq(Octet), NEW f, SrvFram(f), NEW q, Headed(s, f, q),
         f.val.size <= FrameMax,
         NEW body, body = q[Len(Fields(f.cmd)) + 1] + 1,
         NEW end, end = body + Behind(f)
  PROVE  /\ RecvFram(s).len = end
         /\ end <= Len(s) /\ (f.cmd # SEQ => /\ SubSeq(s, end - 4, end) = Trailer
                                             /\ SubSeq(s, body + 1, end - 5) = f.payload)
            => RecvFram(s).ok /\ RecvFram(s).fram = f
<1>. DEFINE names == Fields(f.cmd)
            n == Len(names)
<1>1. /\ f.cmd \in Commands /\ n \in Nat /\ f.cmd \in ServerCommands
      /\ f.val \in [Names -> Nat] /\ f.val.size \in Nat /\ f.payload \in Seq(Octet)
      /\ f = [cmd |-> f.cmd, val |-> f.val, payload |-> f.payload]
      /\ f.val.size = Len(f.payload)
  BY SrvFields DEF SrvFram, SrvFrames, Names
<1>2. /\ SubSeq(s, 1, 3) = f.cmd /\ CRLFAt(s, q[n + 1])
      /\ \A k \in 1 .. n : q[k] <= Len(s) /\ s[q[k]] = Space /\ q[k] \in Nat
      /\ q[n + 1] \in Nat
  <2>1. q \in [1 .. n + 1 -> Nat] /\ n + 1 \in 1 .. n + 1 /\ \A k \in 1 .. n : k \in 1 .. n + 1
    <3>1. q \in [1 .. n + 1 -> Nat]
      BY DEF Headed
    <3>. HIDE DEF n
    <3> QED BY <1>1, <3>1
  <2>2. /\ SubSeq(s, 1, 3) = f.cmd /\ CRLFAt(s, q[n + 1])
        /\ \A k \in 1 .. n : q[k] <= Len(s) /\ s[q[k]] = Space
    BY DEF Headed
  <2>. HIDE DEF n
  <2> QED BY <2>1, <2>2
<1>3. Seps(s, names) = q
  BY SepsAre
<1>4. ReadVal(s, names, q) = f.val
  BY ReadValIs
<1>5. BadSeps(s, names, q) = {}
  <2>1. (n + 1) - 1 = n /\ Len(s) \in Nat
    BY <1>1
  <2>. HIDE DEF names, n
  <2>2. ASSUME NEW k \in 1 .. n PROVE ~(q[k] > Len(s) \/ s[q[k]] # " ")
    <3>1. q[k] <= Len(s) /\ s[q[k]] = Space /\ q[k] \in Nat
      BY <1>2
    <3>2. ~(q[k] > Len(s))
      <4>1. \A x, y \in Nat : x <= y => ~(x > y)
        OBVIOUS
      <4>2. Len(s) \in Nat
        OBVIOUS
      <4> QED BY <3>1, <4>1, <4>2, Zenon
    <3> QED BY <3>1, <3>2, Zenon DEF Space
  <2>3. {k \in 1 .. (n + 1) - 1 : q[k] > Len(s) \/ s[q[k]] # " "} = {}
    BY <2>1, <2>2
  <2> QED BY <1>2, <2>3 DEF BadSeps, n
<1>6. end = ReadEnd(f.cmd, f.val, body) /\ end \in Nat /\ Len(s) \in Nat
  <2>1. body = q[n + 1] + 1
    OBVIOUS
  <2>2. body \in Nat
    <3>1. q[n + 1] \in Nat
      BY <1>2
    <3> QED BY <2>1, <3>1
  <2>3. f.val.size \in Nat /\ Len(s) \in Nat
    BY <1>1
  <2>4. CASE f.cmd = SEQ
    BY <2>2, <2>4 DEF ReadEnd, Behind
  <2>5. CASE f.cmd # SEQ
    <3>1. Behind(f) = f.val.size + 5 /\ ReadEnd(f.cmd, f.val, body) = body + f.val.size + 5
      BY <2>5 DEF ReadEnd, Behind
    <3>. HIDE DEF n, names
    <3> QED BY <2>2, <2>3, <3>1
  <2> QED BY <2>3, <2>4, <2>5
<1>7. FrameMax \in Nat
  BY StreamAssumption
<1>8. RecvFram(s) =
           IF end > Len(s) THEN [ok |-> FALSE, len |-> end]
           ELSE [ok |-> f.cmd = SEQ \/ SubSeq(s, end - 4, end) = Trailer, len |-> end,
                 fram |-> [cmd |-> f.cmd, val |-> f.val,
                           payload |-> IF f.cmd = SEQ THEN <<>>
                                       ELSE SubSeq(s, body + 1, end - 5)]]
  <2>1. names = Fields(f.cmd) /\ body = q[Len(names) + 1] + 1
    OBVIOUS
  <2>2. q = Seps(s, names) /\ f.val = ReadVal(s, names, q)
    BY <1>3, <1>4
  <2>3. ~(f.val.size > FrameMax) /\ ~(f.cmd \notin Commands)
    BY <1>1, <1>7
  <2>. HIDE DEF names, n
  <2> QED BY <1>1, <1>2, <1>5, <1>6, <2>1, <2>2, <2>3, RecvFramIs, Zenon
<1>. HIDE DEF names, n
<1>9. CASE end > Len(s)
  BY <1>6, <1>8, <1>9
<1>10. CASE ~(end > Len(s))
  <2>. DEFINE pl == IF f.cmd = SEQ THEN <<>> ELSE SubSeq(s, body + 1, end - 5)
              ok == f.cmd = SEQ \/ SubSeq(s, end - 4, end) = Trailer
  <2>1. RecvFram(s) = [ok |-> ok, len |-> end,
                       fram |-> [cmd |-> f.cmd, val |-> f.val, payload |-> pl]]
    BY <1>8, <1>10
  <2>2. /\ RecvFram(s).ok = ok /\ RecvFram(s).len = end
        /\ RecvFram(s).fram = [cmd |-> f.cmd, val |-> f.val, payload |-> pl]
    <3>. HIDE DEF ok, pl
    <3> QED BY <2>1
  <2>3. ASSUME f.cmd # SEQ => /\ SubSeq(s, end - 4, end) = Trailer
                              /\ SubSeq(s, body + 1, end - 5) = f.payload
        PROVE  ok /\ pl = f.payload
    <3>1. f.cmd = SEQ => f.payload = <<>>
      BY <1>1 DEF SrvFram
    <3> QED BY <2>3, <3>1
  <2> QED BY <1>1, <2>2, <2>3
<1> QED BY <1>9, <1>10

-----------------------------------------------------------------------------
(***************************************************************************)
(* The text of a listener's frame, by positions.                           *)
(***************************************************************************)
Ending(f) == IF f.cmd = SEQ THEN <<>> ELSE f.payload \o Trailer

\* R[k] is the text from field k on.
Layout(f, R) ==
  LET names == Fields(f.cmd)
      n == Len(names) IN
  /\ R \in [1 .. n + 1 -> Seq(Octet)]
  /\ Whole(f) \in Seq(Octet) /\ Whole(f) = f.cmd \o R[1]
  /\ \A k \in 1 .. n : R[k] = Item(f, names[k]) \o R[k + 1]
  /\ R[n + 1] = CRLF \o Ending(f)

LEMMA SpaceIs ==
  /\ Space \in Octet /\ <<Space>> \in Seq(Octet) /\ Len(<<Space>>) = 1
  /\ <<Space>>[1] = Space /\ Space # LF /\ Space # CR /\ Space # "."
<1>1. Space \in Octet
  BY Literally, Zenon DEF Space
<1>2. Space # LF /\ Space # CR /\ Space # "."
  BY Zenon DEF Space, LF, CR
<1> QED BY <1>1, <1>2

LEMMA SEQLiterally == SEQ \in Seq(Octet) /\ Len(SEQ) = 3
<1>1. "S" \in Literals /\ "E" \in Literals /\ "Q" \in Literals
  BY DEF Literals
<1>2. "S" \in Octet /\ "E" \in Octet /\ "Q" \in Octet
  BY <1>1 DEF Octet
<1>3. \A a, b, c \in Octet : <<a, b, c>> \in Seq(Octet) /\ Len(<<a, b, c>>) = 3
  OBVIOUS
<1> QED BY <1>2, <1>3 DEF SEQ

LEMMA SrvTypes ==
  ASSUME NEW f, SrvFram(f)
  PROVE  /\ f.cmd \in ServerCommands /\ f.cmd \in Seq(Octet) /\ Len(f.cmd) = 3
         /\ f.val \in [Names -> Nat] /\ f.payload \in Seq(Octet)
         /\ f.val.size = Len(f.payload) /\ f.val.size \in Nat
         /\ (f.cmd = SEQ => f.payload = <<>>)
         /\ Ending(f) \in Seq(Octet) /\ Len(Ending(f)) = Behind(f)
         /\ \A m \in Names : /\ FieldText(f, m) \in Seq(Octet)
                             /\ Item(f, m) \in Seq(Octet)
                             /\ Item(f, m) = <<Space>> \o FieldText(f, m)
<1>1. /\ f.cmd \in ServerCommands /\ f.val \in [Names -> Nat] /\ f.payload \in Seq(Octet)
      /\ f.val.size = Len(f.payload) /\ f.val.size \in Nat /\ (f.cmd = SEQ => f.payload = <<>>)
  BY DEF SrvFram, SrvFrames, Names
<1>2. f.cmd \in Seq(Octet) /\ Len(f.cmd) = 3
  <2>1. f.cmd \in DataCommands \/ f.cmd = SEQ
    BY <1>1 DEF ServerCommands, DataCommands
  <2> QED BY <2>1, Literally, SEQLiterally
<1>3. Ending(f) \in Seq(Octet) /\ Len(Ending(f)) = Behind(f)
  <2>1. Trailer \in Seq(Octet) /\ Len(Trailer) = 5
    BY Literally DEF Trailer
  <2>2. CASE f.cmd = SEQ
    BY <2>2 DEF Ending, Behind
  <2>3. CASE f.cmd # SEQ
    <3>1. f.payload \o Trailer \in Seq(Octet) /\ Len(f.payload \o Trailer) = f.val.size + 5
      BY <1>1, <2>1, OctetsConcat
    <3> QED BY <2>3, <3>1 DEF Ending, Behind
  <2> QED BY <2>2, <2>3
<1>4. ASSUME NEW m \in Names
      PROVE  /\ FieldText(f, m) \in Seq(Octet) /\ Item(f, m) \in Seq(Octet)
             /\ Item(f, m) = <<Space>> \o FieldText(f, m)
  <2>1. f.val[m] \in Nat
    BY <1>1
  <2>2. FieldText(f, m) \in Seq(Octet)
    BY <2>1, DecimalIs, Literally DEF FieldText
  <2>3. Item(f, m) = <<Space>> \o FieldText(f, m)
    BY Zenon DEF Item, Space
  <2>4. <<Space>> \in Seq(Octet)
    BY SpaceIs
  <2> QED BY <2>2, <2>3, <2>4, OctetsConcat
<1> QED BY <1>1, <1>2, <1>3, <1>4

LEMMA SrvIsData ==
  ASSUME NEW f, SrvFram(f), f.cmd # SEQ
  PROVE  DataFram(f) /\ NF(f.cmd) = 5 /\ Len(Fields(f.cmd)) = 5
<1>1. f.cmd \in {RPY, ERR} /\ f.cmd # ANS
  <2>1. f.cmd \in {RPY, ERR}
    BY SrvTypes DEF ServerCommands
  <2>2. RPY # ANS /\ ERR # ANS
    BY DEF RPY, ERR, ANS
  <2> QED BY <2>1, <2>2
<1>2. f.cmd \in DataCommands
  BY <1>1 DEF DataCommands
<1>3. Fields(f.cmd) = <<"chan", "msgno", "more", "seqno", "size">>
  <2>1. Fields(f.cmd) = <<"chan", "msgno", "more", "seqno", "size">> \o <<>>
    BY <1>1 DEF Fields
  <2> QED BY <2>1
<1>4. f \in [cmd : DataCommands, payload : Seq(Octet), val : [Names -> Nat]]
  BY <1>2 DEF SrvFram, SrvFrames
<1>5. \A m \in {"more", "ackno", "window", "ansno"} : f.val[m] = 0
  <2>1. \A m \in {"ackno", "window", "ansno"} : \A k \in DOMAIN Fields(f.cmd) : Fields(f.cmd)[k] # m
    BY <1>3
  <2>2. {"more", "ackno", "window", "ansno"} \subseteq Names
    BY DEF Names
  <2> QED BY <2>1, <2>2 DEF SrvFram
<1>6. DataFram(f)
  BY <1>4, <1>5 DEF DataFram, SrvFram
<1> QED BY <1>1, <1>3, <1>6 DEF NF

LEMMA LayoutExists ==
  ASSUME NEW f, SrvFram(f)
  PROVE  \E R : Layout(f, R)
<1>1. CASE f.cmd # SEQ
  <2>. DEFINE R == [k \in 1 .. 6 |-> Rest(f, k)]
  <2>1. DataFram(f) /\ NF(f.cmd) = 5 /\ Len(Fields(f.cmd)) = 5
    BY <1>1, SrvIsData
  <2>2. /\ Whole(f) \in Seq(Octet) /\ Whole(f) = f.cmd \o Rest(f, 1)
        /\ \A k \in 1 .. 6 : Rest(f, k) \in Seq(Octet)
        /\ \A k \in 1 .. 5 : Rest(f, k) = Item(f, Fields(f.cmd)[k]) \o Rest(f, k + 1)
        /\ Rest(f, 6) = Body(f)
    <3>1. NF(f.cmd) + 1 = 6
      BY <2>1
    <3>2. Whole(f) \in Seq(Octet) /\ Whole(f) = f.cmd \o Rest(f, 1)
      BY <2>1, WholeIs
    <3>3. /\ \A i \in 1 .. NF(f.cmd) + 1 : Rest(f, i) \in Seq(Octet)
          /\ \A i \in 1 .. NF(f.cmd) :
               Rest(f, i) = Item(f, Fields(f.cmd)[i]) \o Rest(f, i + 1)
          /\ Rest(f, NF(f.cmd) + 1) = Body(f)
      BY <2>1, RestIs
    <3> QED BY <2>1, <3>1, <3>2, <3>3
  <2>3. Body(f) = CRLF \o Ending(f)
    <3>1. (CRLF \o f.payload) \o Trailer = CRLF \o (f.payload \o Trailer)
      <4>1. CRLF \in Seq(Octet) /\ f.payload \in Seq(Octet) /\ Trailer \in Seq(Octet)
        BY Literally, SrvTypes
      <4> QED BY <4>1, OctetsAssoc
    <3> QED BY <1>1, <3>1 DEF Body, Ending
  <2>4. R \in [1 .. 6 -> Seq(Octet)] /\ R[1] = Rest(f, 1) /\ R[6] = Rest(f, 6)
    BY <2>2
  <2>5. \A k \in 1 .. 5 : R[k] = Rest(f, k) /\ R[k + 1] = Rest(f, k + 1)
    OBVIOUS
  <2>. HIDE DEF R
  <2>6. Layout(f, R)
    <3>1. Len(Fields(f.cmd)) + 1 = 6
      BY <2>1
    <3>2. \A k \in 1 .. 5 : R[k] = Item(f, Fields(f.cmd)[k]) \o R[k + 1]
      BY <2>2, <2>5
    <3>3. Whole(f) = f.cmd \o R[1] /\ R[6] = CRLF \o Ending(f)
      BY <2>2, <2>3, <2>4
    <3> QED BY <2>1, <2>2, <2>4, <3>1, <3>2, <3>3, Zenon DEF Layout
  <2> QED BY <2>6
<1>2. CASE f.cmd = SEQ
  <2>. DEFINE i1 == Item(f, "chan")
              i2 == Item(f, "ackno")
              i3 == Item(f, "window")
              c == f.cmd
  <2>1. /\ i1 \in Seq(Octet) /\ i2 \in Seq(Octet) /\ i3 \in Seq(Octet)
        /\ c \in Seq(Octet) /\ CRLF \in Seq(Octet)
    BY SrvTypes, Literally DEF Names
  <2>2. Fields(f.cmd) = <<"chan", "ackno", "window">>
    BY <1>2 DEF Fields
  <2>3. Whole(f) = (((c \o i1) \o i2) \o i3) \o CRLF
    BY <1>2 DEF Whole
  <2>. HIDE DEF i1, i2, i3, c
  <2>. DEFINE r3 == i3 \o CRLF
              r2 == i2 \o r3
              r1 == i1 \o r2
  <2>4. r3 \in Seq(Octet) /\ r2 \in Seq(Octet) /\ r1 \in Seq(Octet)
    BY <2>1, OctetsConcat
  <2>. DEFINE c1 == c \o i1
              c2 == c1 \o i2
  <2>5. /\ c1 \in Seq(Octet) /\ c2 \in Seq(Octet) /\ c1 = c \o i1 /\ c2 = c1 \o i2
        /\ r3 = i3 \o CRLF /\ r2 = i2 \o r3 /\ r1 = i1 \o r2
    BY <2>1, OctetsConcat
  <2>6. Whole(f) = c \o r1
    <3>1. Whole(f) = (c2 \o i3) \o CRLF
      BY <2>3
    <3>. HIDE DEF c1, c2, r1, r2, r3
    <3>2. (c2 \o i3) \o CRLF = c2 \o r3
      <4>1. c2 \in Seq(Octet) /\ i3 \in Seq(Octet) /\ CRLF \in Seq(Octet)
        BY <2>1, <2>4, <2>5, Zenon
      <4>2. (c2 \o i3) \o CRLF = c2 \o (i3 \o CRLF)
        BY <4>1, OctetsAssoc, ZenonT(30)
      <4> QED BY <2>5, <4>2, Zenon
    <3>3. c2 \o r3 = c1 \o r2
      <4>1. c1 \in Seq(Octet) /\ i2 \in Seq(Octet) /\ r3 \in Seq(Octet)
        BY <2>1, <2>4, <2>5, Zenon
      <4>2. (c1 \o i2) \o r3 = c1 \o (i2 \o r3)
        BY <4>1, OctetsAssoc, ZenonT(30)
      <4> QED BY <2>5, <4>2, Zenon
    <3>4. c1 \o r2 = c \o r1
      <4>1. c \in Seq(Octet) /\ i1 \in Seq(Octet) /\ r2 \in Seq(Octet)
        BY <2>1, <2>4, <2>5, Zenon
      <4>2. (c \o i1) \o r2 = c \o (i1 \o r2)
        BY <4>1, OctetsAssoc, ZenonT(30)
      <4> QED BY <2>5, <4>2, Zenon
    <3> QED BY <3>1, <3>2, <3>3, <3>4
  <2>7. Whole(f) \in Seq(Octet)
    BY <2>1, <2>4, <2>6, OctetsConcat
  <2>8. CRLF \o Ending(f) = CRLF
    BY <1>2, <2>1 DEF Ending
  <2>. HIDE DEF r1, r2, r3
  <2>. DEFINE R == <<r1, r2, r3, CRLF>>
  <2>9. /\ R \in [1 .. 4 -> Seq(Octet)]
        /\ R[1] = r1 /\ R[2] = r2 /\ R[3] = r3 /\ R[4] = CRLF
    BY <2>1, <2>4
  <2>10. r1 = i1 \o r2 /\ r2 = i2 \o r3 /\ r3 = i3 \o CRLF
    BY DEF r1, r2, r3
  <2>. HIDE DEF R
  <2>11. Len(Fields(f.cmd)) = 3
    BY <2>2
  <2>12. \A k \in 1 .. 3 : R[k] = Item(f, Fields(f.cmd)[k]) \o R[k + 1]
    <3>1. Item(f, "chan") = i1 /\ Item(f, "ackno") = i2 /\ Item(f, "window") = i3
      BY DEF i1, i2, i3
    <3>2. Fields(f.cmd)[1] = "chan" /\ Fields(f.cmd)[2] = "ackno" /\ Fields(f.cmd)[3] = "window"
      BY <2>2
    <3>3. ASSUME NEW k \in 1 .. 3 PROVE R[k] = Item(f, Fields(f.cmd)[k]) \o R[k + 1]
      <4>1. k = 1 \/ k = 2 \/ k = 3
        OBVIOUS
      <4>2. CASE k = 1
        <5>1. k + 1 = 2
          BY <4>2
        <5> QED BY <2>9, <2>10, <3>1, <3>2, <4>2, <5>1, Zenon
      <4>3. CASE k = 2
        <5>1. k + 1 = 3
          BY <4>3
        <5> QED BY <2>9, <2>10, <3>1, <3>2, <4>3, <5>1, Zenon
      <4>4. CASE k = 3
        <5>1. k + 1 = 4
          BY <4>4
        <5> QED BY <2>9, <2>10, <3>1, <3>2, <4>4, <5>1, Zenon
      <4> QED BY <4>1, <4>2, <4>3, <4>4
    <3> QED BY <3>3
  <2>13. Whole(f) = f.cmd \o R[1]
    BY <2>6, <2>9 DEF c
  <2>14. Layout(f, R)
    <3>1. Len(Fields(f.cmd)) + 1 = 4
      BY <2>11
    <3> QED BY <2>7, <2>8, <2>9, <2>11, <2>12, <2>13, <3>1, Zenon DEF Layout
  <2> QED BY <2>14
<1> QED BY <1>1, <1>2

\* w is t from position p to its end.
From(w, p, t) ==
  /\ p \in Nat /\ 1 <= p /\ (p - 1) + Len(t) = Len(w)
  /\ \A j \in 1 .. Len(t) : w[(p - 1) + j] = t[j]

LEMMA FromConcat ==
  ASSUME NEW w \in Seq(Octet), NEW a \in Seq(Octet), NEW b \in Seq(Octet), NEW p, From(w, p, a \o b)
  PROVE  /\ From(w, p + Len(a), b)
         /\ \A j \in 1 .. Len(a) : w[(p - 1) + j] = a[j]
         /\ (p + Len(a)) - 1 <= Len(w)
<1>. DEFINE t == a \o b
            x == Len(a)
            y == Len(b)
<1>1. /\ t \in Seq(Octet) /\ Len(t) = x + y /\ x \in Nat /\ y \in Nat /\ Len(w) \in Nat
      /\ \A i \in 1 .. x + y : t[i] = IF i <= x THEN a[i] ELSE b[i - x]
  BY ConcatProperties
<1>. HIDE DEF t, x, y
<1>2. /\ p \in Nat /\ 1 <= p /\ (p - 1) + (x + y) = Len(w)
      /\ \A j \in 1 .. x + y : w[(p - 1) + j] = t[j]
  BY <1>1 DEF From, t
<1>3. ASSUME NEW j \in 1 .. x PROVE w[(p - 1) + j] = a[j]
  <2>1. j \in 1 .. x + y /\ j <= x
    BY <1>1
  <2> QED BY <1>1, <1>2, <2>1
<1>4. ASSUME NEW j \in 1 .. y PROVE w[((p + x) - 1) + j] = b[j]
  <2>1. x + j \in 1 .. x + y /\ ~(x + j <= x) /\ (x + j) - x = j
        /\ (p - 1) + (x + j) = ((p + x) - 1) + j
    BY <1>1, <1>2
  <2>2. t[x + j] = b[j] /\ w[(p - 1) + (x + j)] = t[x + j]
    BY <1>1, <1>2, <2>1
  <2> QED BY <2>1, <2>2
<1>5. p + x \in Nat /\ 1 <= p + x /\ ((p + x) - 1) + y = Len(w) /\ (p + x) - 1 <= Len(w)
  BY <1>1, <1>2
<1> QED BY <1>3, <1>4, <1>5 DEF From, x, y

\* No line feed before position p.
LFFree(w, p) == \A i \in Nat : 1 <= i /\ i < p => w[i] # LF

LEMMA DigitsOnly ==
  ASSUME NEW n \in Nat
  PROVE  /\ Len(Decimal[n]) \in Nat
         /\ \A j \in 1 .. Len(Decimal[n]) : IsDigit(Decimal[n][j])
<1>1. Decimal[n] \in Seq(Octet)
  BY DecimalIs
<1>2. Tells(Decimal[n], 0, n)
  BY DecimalTells
<1> QED BY <1>1, <1>2 DEF Tells

LEMMA NotDigits == ~IsDigit(" ") /\ ~IsDigit(CR) /\ ~IsDigit(LF) /\ ~IsDigit(".")
<1>1. \A k \in 1 .. 10 : Digit[k] # " " /\ Digit[k] # "CR" /\ Digit[k] # "LF" /\ Digit[k] # "."
  <2>1. \A k \in 1 .. 10 :
          Digit[k] \in {"0", "1", "2", "3", "4", "5", "6", "7", "8", "9"}
    BY DEF Digit
  <2> QED BY <2>1
<1>2. ToSet(Digit) = {Digit[k] : k \in 1 .. 10}
  BY DigitType
<1> QED BY <1>1, <1>2 DEF IsDigit, CR, LF

\* Where the fields of f are in its text.
Places(f, R) == [k \in 1 .. Len(Fields(f.cmd)) + 1 |-> (Len(Whole(f)) + 1) - Len(R[k])]

\* The field m of f is in w between the positions p and p2.
Placed(w, f, m, p, p2) ==
  /\ p \in Nat /\ p2 \in Nat /\ 1 <= p /\ p < p2 /\ p2 - 1 <= Len(w)
  /\ w[p] = Space /\ (m = "more" => p2 = p + 2)
  /\ m # "more" =>
       /\ \A i \in p + 1 .. p2 - 1 : IsDigit(w[i])
       /\ Len(Decimal[f.val[m]]) = p2 - (p + 1)
       /\ \A j \in 1 .. p2 - (p + 1) : w[p + j] = Decimal[f.val[m]][j]

LEMMA FieldPlace ==
  ASSUME NEW w \in Seq(Octet), NEW f, SrvFram(f), NEW m \in Names, NEW r \in Seq(Octet),
         NEW p, From(w, p, Item(f, m) \o r), LFFree(w, p),
         NEW p2, p2 = (p + 1) + Len(FieldText(f, m))
  PROVE  From(w, p2, r) /\ LFFree(w, p2) /\ Placed(w, f, m, p, p2)
<1>. DEFINE t == FieldText(f, m)
            len == Len(t)
<1>1. /\ t \in Seq(Octet) /\ Item(f, m) = <<Space>> \o t /\ Item(f, m) \in Seq(Octet)
      /\ len \in Nat /\ <<Space>> \in Seq(Octet) /\ f.val[m] \in Nat /\ Len(w) \in Nat
      /\ Len(<<Space>>) = 1 /\ <<Space>>[1] = Space
  <2>1. /\ t \in Seq(Octet) /\ Item(f, m) = <<Space>> \o t /\ Item(f, m) \in Seq(Octet)
        /\ f.val \in [Names -> Nat]
    BY SrvTypes
  <2>2. len \in Nat
    <3>. HIDE DEF t
    <3> QED BY <2>1
  <2>3. f.val[m] \in Nat
    BY <2>1
  <2> QED BY <2>1, <2>2, <2>3, SpaceIs
<1>2. t = IF m = "more" THEN <<".">> ELSE Decimal[f.val[m]]
  BY DEF FieldText
<1>. HIDE DEF t
<1>3. Item(f, m) \o r = <<Space>> \o (t \o r) /\ t \o r \in Seq(Octet)
  <2>1. (<<Space>> \o t) \o r = <<Space>> \o (t \o r)
    BY <1>1, OctetsAssoc
  <2> QED BY <1>1, <2>1, OctetsConcat
<1>4. /\ From(w, p + 1, t \o r)
      /\ \A j \in 1 .. 1 : w[(p - 1) + j] = <<Space>>[j]
  <2>. DEFINE a == <<Space>>
              b == t \o r
  <2>1. From(w, p, a \o b) /\ a \in Seq(Octet) /\ b \in Seq(Octet)
    BY <1>1, <1>3
  <2>2. Len(a) = 1
    BY <1>1
  <2>. HIDE DEF a, b
  <2>3. From(w, p + Len(a), b) /\ \A j \in 1 .. Len(a) : w[(p - 1) + j] = a[j]
    BY <2>1, FromConcat
  <2>4. From(w, p + 1, b) /\ \A j \in 1 .. 1 : w[(p - 1) + j] = a[j]
    BY <2>2, <2>3
  <2> QED BY <2>4 DEF a, b
<1>5. p \in Nat /\ 1 <= p /\ w[p] = Space
  <2>1. p \in Nat /\ 1 <= p
    BY DEF From
  <2>2. (p - 1) + 1 = p /\ 1 \in 1 .. 1
    BY <2>1
  <2>3. w[(p - 1) + 1] = <<Space>>[1]
    BY <1>4, <2>2
  <2> QED BY <1>1, <2>1, <2>2, <2>3
<1>6. /\ From(w, p2, r) /\ p2 - 1 <= Len(w)
      /\ \A j \in 1 .. len : w[((p + 1) - 1) + j] = t[j]
  BY <1>1, <1>4, FromConcat DEF t
<1>. HIDE DEF len
<1>7. p2 \in Nat /\ p2 = (p + 1) + len /\ p < p2 /\ p2 - (p + 1) = len
  BY <1>1, <1>5 DEF len, t
<1>8. \A j \in 1 .. len : w[p + j] = t[j]
  <2>1. (p + 1) - 1 = p
    BY <1>5
  <2> QED BY <1>6, <2>1
<1>9. CASE m = "more"
  <2>1. t = <<".">> /\ len = 1 /\ t[1] = "."
    BY <1>2, <1>9 DEF len
  <2>2. w[p + 1] = "." /\ p2 = p + 2
    BY <1>5, <1>7, <1>8, <2>1
  <2>3. LFFree(w, p2)
    <3>1. "." # LF /\ Space # LF
      BY SpaceIs, Zenon DEF LF
    <3>2. ASSUME NEW i \in Nat, 1 <= i, i < p2 PROVE w[i] # LF
      <4>1. i < p \/ i = p \/ i = p + 1
        BY <1>5, <2>2, <3>2
      <4> QED BY <1>5, <2>2, <3>1, <3>2, <4>1 DEF LFFree
    <3> QED BY <3>2 DEF LFFree
  <2> QED BY <1>5, <1>6, <1>7, <1>9, <2>2, <2>3 DEF Placed
<1>10. CASE m # "more"
  <2>1. t = Decimal[f.val[m]] /\ \A j \in 1 .. len : IsDigit(t[j])
    BY <1>1, <1>2, <1>10, DigitsOnly DEF len
  <2>2. ASSUME NEW i \in p + 1 .. p2 - 1 PROVE IsDigit(w[i])
    <3>1. i - p \in 1 .. len /\ p + (i - p) = i
      BY <1>1, <1>5, <1>7
    <3>2. w[p + (i - p)] = t[i - p]
      BY <1>8, <3>1
    <3> QED BY <2>1, <3>1, <3>2
  <2>3. LFFree(w, p2)
    <3>1. Space # LF
      BY SpaceIs
    <3>2. ASSUME NEW i \in Nat, 1 <= i, i < p2 PROVE w[i] # LF
      <4>1. i < p \/ i = p \/ i \in p + 1 .. p2 - 1
        BY <1>5, <1>7, <3>2
      <4>2. i \in p + 1 .. p2 - 1 => w[i] # LF
        BY <2>2, NotDigits
      <4> QED BY <1>5, <3>1, <3>2, <4>1, <4>2 DEF LFFree
    <3> QED BY <3>2 DEF LFFree
  <2>4. len = Len(Decimal[f.val[m]])
    BY <2>1 DEF len
  <2>5. \A j \in 1 .. len : w[p + j] = Decimal[f.val[m]][j]
    BY <1>8, <2>1
  <2> QED BY <1>5, <1>6, <1>7, <1>10, <2>2, <2>3, <2>4, <2>5 DEF Placed
<1> QED BY <1>9, <1>10

LEMMA CommandNoLF ==
  ASSUME NEW cmd \in ServerCommands
  PROVE  \A j \in 1 .. 3 : cmd[j] # LF
<1>1. \A j \in 1 .. 3 : RPY[j] # LF /\ ERR[j] # LF /\ SEQ[j] # LF
  BY DEF RPY, ERR, SEQ, LF
<1> QED BY <1>1 DEF ServerCommands

LEMMA PlacesAre ==
  ASSUME NEW f, SrvFram(f), NEW R, Layout(f, R),
         NEW w, w = Whole(f), NEW q, q = Places(f, R),
         NEW names, names = Fields(f.cmd), NEW n, n = Len(names)
  PROVE  /\ q \in [1 .. n + 1 -> Nat] /\ q[1] = 4
         /\ \A j \in 1 .. 3 : w[j] = f.cmd[j]
         /\ \A k \in 1 .. n : Placed(w, f, names[k], q[k], q[k + 1])
         /\ From(w, q[n + 1], CRLF \o Ending(f)) /\ LFFree(w, q[n + 1])
<1>1. /\ n \in {3, 5} /\ n \in Nat /\ \A k \in 1 .. n : names[k] \in Names
  BY SrvFields, SrvTypes
<1>2. /\ R \in [1 .. n + 1 -> Seq(Octet)] /\ w \in Seq(Octet) /\ w = f.cmd \o R[1]
      /\ \A k \in 1 .. n : R[k] = Item(f, names[k]) \o R[k + 1]
      /\ R[n + 1] = CRLF \o Ending(f)
  BY DEF Layout
<1>3. \A k \in 1 .. n + 1 : q[k] = (Len(w) + 1) - Len(R[k])
  BY DEF Places
<1>4. /\ f.cmd \in Seq(Octet) /\ Len(f.cmd) = 3 /\ f.cmd \in ServerCommands
      /\ Len(w) \in Nat /\ 1 \in 1 .. n + 1 /\ R[1] \in Seq(Octet) /\ Len(R[1]) \in Nat
  <2>1. 1 \in 1 .. n + 1
    BY <1>1
  <2>2. R[1] \in Seq(Octet)
    BY <1>2, <2>1
  <2>3. Len(R[1]) \in Nat /\ Len(w) \in Nat
    BY <1>2, <2>2, OctetsLen
  <2> QED BY <2>1, <2>2, <2>3, SrvTypes
<1>5. /\ From(w, 4, R[1]) /\ Len(w) = 3 + Len(R[1])
      /\ \A j \in 1 .. 3 : w[j] = f.cmd[j]
  <2>1. From(w, 1, f.cmd \o R[1])
    <3>1. (1 - 1) + Len(w) = Len(w) /\ \A j \in 1 .. Len(w) : (1 - 1) + j = j
      BY <1>4
    <3>2. From(w, 1, w)
      BY <1>4, <3>1 DEF From
    <3> QED BY <1>2, <3>2
  <2>2. /\ From(w, 1 + Len(f.cmd), R[1])
        /\ \A j \in 1 .. Len(f.cmd) : w[(1 - 1) + j] = f.cmd[j]
    <3>. DEFINE a == f.cmd
                b == R[1]
    <3>1. a \in Seq(Octet) /\ b \in Seq(Octet) /\ From(w, 1, a \o b)
      BY <1>4, <2>1
    <3>. HIDE DEF a, b
    <3>2. /\ From(w, 1 + Len(a), b)
          /\ \A j \in 1 .. Len(a) : w[(1 - 1) + j] = a[j]
      <4>1. w \in Seq(Octet)
        BY <1>2
      <4>. DEFINE p == 1
      <4>2. From(w, p, a \o b)
        BY <3>1
      <4>. HIDE DEF p
      <4>3. /\ From(w, p + Len(a), b)
            /\ \A j \in 1 .. Len(a) : w[(p - 1) + j] = a[j]
        BY <3>1, <4>1, <4>2, FromConcat
      <4> QED BY <4>3 DEF p
    <3> QED BY <3>2 DEF a, b
  <2>3. 1 + Len(f.cmd) = 4 /\ \A j \in 1 .. 3 : (1 - 1) + j = j
    BY <1>4
  <2>4. From(w, 4, R[1])
    BY <2>2, <2>3
  <2>5. Len(w) = 3 + Len(R[1])
    BY <1>4, <2>4 DEF From
  <2> QED BY <1>4, <2>2, <2>3, <2>4, <2>5
<1>6. q[1] = 4
  <2>1. q[1] = (Len(w) + 1) - Len(R[1])
    BY <1>3, <1>4
  <2>. DEFINE x == Len(R[1])
              y == Len(w)
  <2>2. x \in Nat /\ y = 3 + x /\ q[1] = (y + 1) - x
    BY <1>4, <1>5, <2>1
  <2>. HIDE DEF x, y
  <2> QED BY <2>2
<1>7. LFFree(w, 4)
  <2>1. \A i \in Nat : 1 <= i /\ i < 4 => i \in 1 .. 3
    OBVIOUS
  <2> QED BY <1>4, <1>5, <2>1, CommandNoLF DEF LFFree
<1>8. ASSUME NEW k \in 1 .. n, From(w, q[k], R[k]), LFFree(w, q[k])
      PROVE  /\ Placed(w, f, names[k], q[k], q[k + 1])
             /\ From(w, q[k + 1], R[k + 1]) /\ LFFree(w, q[k + 1])
  <2>. DEFINE m == names[k]
              r == R[k + 1]
              it == Item(f, m)
              t == FieldText(f, m)
  <2>1. m \in Names /\ k \in 1 .. n + 1 /\ k + 1 \in 1 .. n + 1
    BY <1>1
  <2>2. r \in Seq(Octet) /\ R[k] = it \o r
    BY <1>2, <2>1
  <2>3. it \in Seq(Octet) /\ t \in Seq(Octet) /\ it = <<Space>> \o t
    BY <2>1, SrvTypes
  <2>4. Len(it) = 1 + Len(t) /\ Len(t) \in Nat /\ Len(r) \in Nat
    <3>. HIDE DEF t, it, r
    <3> QED BY <2>2, <2>3, SpaceIs, OctetsConcat, OctetsLen
  <2>5. Len(R[k]) = Len(it) + Len(r)
    <3>. HIDE DEF it, r
    <3> QED BY <2>2, <2>3, OctetsConcat
  <2>6. q[k + 1] = (q[k] + 1) + Len(t)
    <3>1. q[k] = (Len(w) + 1) - Len(R[k]) /\ q[k + 1] = (Len(w) + 1) - Len(r)
      BY <1>3, <2>1
    <3>. HIDE DEF it, r, t
    <3> QED BY <1>4, <2>4, <2>5, <3>1
  <2>7. From(w, q[k], it \o r)
    BY <1>8, <2>2
  <2>. HIDE DEF m
  <2>8. From(w, q[k + 1], r) /\ LFFree(w, q[k + 1]) /\ Placed(w, f, m, q[k], q[k + 1])
    BY <1>2, <1>8, <2>1, <2>2, <2>6, <2>7, FieldPlace
  <2> QED BY <2>8 DEF m
<1>. DEFINE T == {k \in Nat : k + 1 <= n + 1 => From(w, q[k + 1], R[k + 1]) /\ LFFree(w, q[k + 1])}
<1>9. 0 \in T
  <2>1. 0 + 1 = 1
    OBVIOUS
  <2> QED BY <1>5, <1>6, <1>7, <2>1
<1>10. ASSUME NEW k \in T PROVE k + 1 \in T
  <2>. SUFFICES ASSUME (k + 1) + 1 <= n + 1
                PROVE  From(w, q[(k + 1) + 1], R[(k + 1) + 1]) /\ LFFree(w, q[(k + 1) + 1])
    OBVIOUS
  <2>1. k \in Nat /\ k + 1 \in 1 .. n /\ k + 1 <= n + 1
    BY <1>1
  <2>2. From(w, q[k + 1], R[k + 1]) /\ LFFree(w, q[k + 1])
    BY <2>1
  <2> QED BY <1>8, <2>1, <2>2
<1>11. T \subseteq Nat
  OBVIOUS
<1>12. T = Nat
  <2>. HIDE DEF T
  <2> QED BY <1>9, <1>10, <1>11, SetInduction
<1>13. ASSUME NEW k \in 1 .. n + 1 PROVE From(w, q[k], R[k]) /\ LFFree(w, q[k])
  <2>1. k - 1 \in Nat /\ (k - 1) + 1 = k /\ k <= n + 1
    BY <1>1
  <2>2. k - 1 \in T
    <3>. HIDE DEF T
    <3> QED BY <1>12, <2>1
  <2> QED BY <2>1, <2>2
<1>14. q \in [1 .. n + 1 -> Nat]
  <2>1. \A k \in 1 .. n + 1 : q[k] \in Nat
    BY <1>13 DEF From
  <2>2. q = [k \in 1 .. n + 1 |-> (Len(Whole(f)) + 1) - Len(R[k])]
    BY DEF Places
  <2> QED BY <2>1, <2>2
<1>15. \A k \in 1 .. n : k \in 1 .. n + 1 /\ n + 1 \in 1 .. n + 1
  BY <1>1
<1>16. From(w, q[n + 1], CRLF \o Ending(f)) /\ LFFree(w, q[n + 1])
  <2>1. n + 1 \in 1 .. n + 1
    BY <1>1
  <2> QED BY <1>2, <1>13, <2>1
<1> QED BY <1>5, <1>6, <1>8, <1>13, <1>14, <1>15, <1>16

\* Behind the fields: the line end, then what is left of the frame.
LEMMA EndingIs ==
  ASSUME NEW w \in Seq(Octet), NEW f, SrvFram(f), NEW p, From(w, p, CRLF \o Ending(f))
  PROVE  /\ p \in Nat /\ 1 <= p /\ p + 1 <= Len(w) /\ w[p] = CR /\ w[p + 1] = LF
         /\ Len(w) = (p + 1) + Behind(f)
         /\ From(w, p + 2, Ending(f))
<1>1. /\ CRLF \in Seq(Octet) /\ Len(CRLF) = 2 /\ CRLF[1] = CR /\ CRLF[2] = LF
      /\ Ending(f) \in Seq(Octet) /\ Len(Ending(f)) = Behind(f) /\ Len(w) \in Nat
  <2>1. Len(CRLF) = 2 /\ CRLF[1] = CR /\ CRLF[2] = LF
    BY DEF CRLF
  <2>2. CRLF \in Seq(Octet) /\ Len(w) \in Nat
    BY Literally, OctetsLen
  <2>3. Ending(f) \in Seq(Octet) /\ Len(Ending(f)) = Behind(f)
    BY SrvTypes
  <2> QED BY <2>1, <2>2, <2>3
<1>2. /\ From(w, p + Len(CRLF), Ending(f))
      /\ \A j \in 1 .. Len(CRLF) : w[(p - 1) + j] = CRLF[j]
      /\ (p + Len(CRLF)) - 1 <= Len(w)
  BY <1>1, FromConcat
<1>3. p \in Nat /\ 1 <= p
  BY DEF From
<1>4. (p - 1) + 1 = p /\ (p - 1) + 2 = p + 1 /\ 1 \in 1 .. 2 /\ 2 \in 1 .. 2
      /\ (p + 2) - 1 = p + 1
  BY <1>3
<1>5. w[p] = CR /\ w[p + 1] = LF /\ From(w, p + 2, Ending(f)) /\ p + 1 <= Len(w)
  BY <1>1, <1>2, <1>4
<1>6. Len(w) = (p + 1) + Behind(f)
  <2>1. ((p + 2) - 1) + Len(Ending(f)) = Len(w)
    BY <1>5 DEF From
  <2> QED BY <1>1, <1>4, <2>1
<1> QED BY <1>3, <1>5, <1>6

LEMMA SubSeqIs ==
  ASSUME NEW s \in Seq(Octet), NEW d \in Seq(Octet), NEW a \in Nat, NEW b \in Nat,
         1 <= a, b <= Len(s), Len(d) = (b + 1) - a,
         \A j \in 1 .. Len(d) : s[(a - 1) + j] = d[j]
  PROVE  SubSeq(s, a, b) = d
<1>. DEFINE u == SubSeq(s, a, b)
<1>1. Len(d) \in Nat /\ Len(s) \in Nat
  BY OctetsLen
<1>2. u \in Seq(Octet) /\ Len(u) = (b + 1) - a
  <2>1. \A i \in a .. b : s[i] \in Octet
    BY <1>1
  <2> QED BY <1>1, <2>1
<1>3. \A j \in 1 .. Len(d) : u[j] = s[(a - 1) + j]
  BY <1>1
<1>. HIDE DEF u
<1>4. u = d
  BY <1>2, <1>3, SeqEqual
<1> QED BY <1>4 DEF u

LEMMA CutFront ==
  ASSUME NEW s \in Seq(Octet), NEW v \in Seq(Octet), NEW w \in Seq(Octet), NEW x \in Seq(Octet),
         s \o v = w \o x, Len(w) <= Len(s)
  PROVE  /\ SubSeq(s, Len(w) + 1, Len(s)) \in Seq(Octet)
         /\ SubSeq(s, Len(w) + 1, Len(s)) \o v = x
<1>. DEFINE u == SubSeq(s, Len(w) + 1, Len(s))
            L == Len(w)
            S == Len(s)
<1>1. L \in Nat /\ S \in Nat /\ Len(v) \in Nat /\ Len(x) \in Nat /\ L <= S
  BY OctetsLen
<1>2. /\ Len(s \o v) = S + Len(v) /\ Len(w \o x) = L + Len(x)
      /\ \A i \in 1 .. S + Len(v) : (s \o v)[i] = IF i <= S THEN s[i] ELSE v[i - S]
      /\ \A i \in 1 .. L + Len(x) : (w \o x)[i] = IF i <= L THEN w[i] ELSE x[i - L]
  BY ConcatProperties
<1>3. S + Len(v) = L + Len(x)
  BY <1>2
<1>4. u \in Seq(Octet) /\ Len(u) = S - L /\ \A j \in 1 .. S - L : u[j] = s[L + j]
  <2>1. \A i \in L + 1 .. S : s[i] \in Octet
    BY <1>1
  <2> QED BY <1>1, <2>1
<1>. HIDE DEF u, L, S
<1>5. /\ u \o v \in Seq(Octet) /\ Len(u \o v) = (S - L) + Len(v)
      /\ \A i \in 1 .. (S - L) + Len(v) : (u \o v)[i] = IF i <= S - L THEN u[i] ELSE v[i - (S - L)]
  <2>1. /\ u \o v \in Seq(Octet) /\ Len(u \o v) = Len(u) + Len(v)
        /\ \A i \in 1 .. Len(u) + Len(v) : (u \o v)[i] = IF i <= Len(u) THEN u[i] ELSE v[i - Len(u)]
    BY <1>4, ConcatProperties
  <2>2. Len(u) = S - L
    BY <1>4
  <2> QED BY <2>1, <2>2
<1>6. ASSUME NEW i \in 1 .. Len(x) PROVE (u \o v)[i] = x[i]
  <2>1. /\ L + i \in 1 .. S + Len(v) /\ L + i \in 1 .. L + Len(x) /\ ~(L + i <= L)
        /\ (L + i) - L = i /\ i \in 1 .. (S - L) + Len(v)
        /\ (i <= S - L <=> L + i <= S) /\ (L + i) - S = i - (S - L)
        /\ (i <= S - L => i \in 1 .. S - L)
    BY <1>1, <1>3
  <2>2. (w \o x)[L + i] = x[i]
    BY <1>2, <2>1
  <2>3. (s \o v)[L + i] = IF L + i <= S THEN s[L + i] ELSE v[(L + i) - S]
    BY <1>2, <2>1
  <2>4. (u \o v)[i] = IF i <= S - L THEN u[i] ELSE v[i - (S - L)]
    BY <1>5, <2>1
  <2>5. CASE i <= S - L
    BY <1>4, <2>1, <2>2, <2>3, <2>4, <2>5
  <2>6. CASE ~(i <= S - L)
    BY <2>1, <2>2, <2>3, <2>4, <2>6
  <2> QED BY <2>5, <2>6
<1>7. Len(u \o v) = Len(x)
  BY <1>1, <1>3, <1>5
<1>8. u \o v = x
  BY <1>5, <1>6, <1>7, SeqEqual
<1> QED BY <1>4, <1>8 DEF u, L, S

LEMMA PlacesRise ==
  ASSUME NEW n \in Nat, NEW q \in [1 .. n + 1 -> Nat], \A k \in 1 .. n : q[k] < q[k + 1]
  PROVE  \A k \in 1 .. n + 1 : q[k] <= q[n + 1]
<1>. DEFINE T == {j \in Nat : j <= n => q[(n + 1) - j] <= q[n + 1]}
<1>1. 0 \in T
  <2>1. (n + 1) - 0 = n + 1 /\ n + 1 \in 1 .. n + 1 /\ q[n + 1] \in Nat
    OBVIOUS
  <2> QED BY <2>1
<1>2. ASSUME NEW j \in T PROVE j + 1 \in T
  <2>. SUFFICES ASSUME j + 1 <= n PROVE q[(n + 1) - (j + 1)] <= q[n + 1]
    OBVIOUS
  <2>. DEFINE k == (n + 1) - (j + 1)
  <2>1. /\ j \in Nat /\ k \in 1 .. n /\ k \in 1 .. n + 1 /\ k + 1 \in 1 .. n + 1
        /\ k + 1 = (n + 1) - j /\ n + 1 \in 1 .. n + 1 /\ j <= n
    OBVIOUS
  <2>2. q[(n + 1) - j] <= q[n + 1]
    BY <2>1
  <2>. HIDE DEF k
  <2>3. q[k] < q[k + 1] /\ q[k + 1] <= q[n + 1] /\ q[k] \in Nat /\ q[k + 1] \in Nat /\ q[n + 1] \in Nat
    BY <2>1, <2>2
  <2>4. q[k] <= q[n + 1]
    BY <2>3
  <2> QED BY <2>4 DEF k
<1>3. T \subseteq Nat
  OBVIOUS
<1>4. T = Nat
  <2>. HIDE DEF T
  <2> QED BY <1>1, <1>2, <1>3, SetInduction
<1>5. ASSUME NEW k \in 1 .. n + 1 PROVE q[k] <= q[n + 1]
  <2>1. (n + 1) - k \in Nat /\ (n + 1) - k <= n /\ (n + 1) - ((n + 1) - k) = k
    OBVIOUS
  <2>2. (n + 1) - k \in T
    <3>. HIDE DEF T
    <3> QED BY <1>4, <2>1
  <2> QED BY <2>1, <2>2
<1> QED BY <1>5

LEMMA HeadedBy ==
  ASSUME NEW f, SrvFram(f), NEW R, Layout(f, R),
         NEW w, w = Whole(f), NEW q, q = Places(f, R),
         NEW names, names = Fields(f.cmd), NEW n, n = Len(names),
         NEW s \in Seq(Octet), q[n + 1] + 1 <= Len(s),
         \A i \in Nat : 1 <= i /\ i <= q[n + 1] + 1 => s[i] = w[i]
  PROVE  Headed(s, f, q)
<1>1. /\ q \in [1 .. n + 1 -> Nat] /\ q[1] = 4
      /\ \A j \in 1 .. 3 : w[j] = f.cmd[j]
      /\ \A k \in 1 .. n : Placed(w, f, names[k], q[k], q[k + 1])
      /\ From(w, q[n + 1], CRLF \o Ending(f))
  BY PlacesAre
<1>2. /\ n \in Nat /\ \A k \in 1 .. n : names[k] \in Names
      /\ n + 1 \in 1 .. n + 1 /\ q[n + 1] \in Nat /\ Len(s) \in Nat /\ w \in Seq(Octet)
  <2>1. n \in Nat /\ \A k \in 1 .. n : names[k] \in Names
    BY SrvFields, SrvTypes
  <2>2. n + 1 \in 1 .. n + 1
    BY <2>1
  <2> QED BY <1>1, <2>1, <2>2, OctetsLen DEF Layout
<1>3. /\ q[n + 1] + 1 <= Len(w) /\ w[q[n + 1]] = CR /\ w[q[n + 1] + 1] = LF /\ 1 <= q[n + 1]
  BY <1>1, <1>2, EndingIs
<1>4. \A k \in 1 .. n + 1 : q[k] <= q[n + 1] /\ q[k] \in Nat
  <2>1. \A k \in 1 .. n : q[k] < q[k + 1]
    BY <1>1 DEF Placed
  <2> QED BY <1>1, <1>2, <2>1, PlacesRise
<1>. DEFINE h == q[n + 1]
<1>5. \A i \in Nat : 1 <= i /\ i <= h => s[i] = w[i] /\ i <= Len(s)
  BY <1>2
<1>6. SubSeq(s, 1, 3) = f.cmd
  <2>1. 4 <= h
    <3>1. 1 \in 1 .. n + 1
      BY <1>2
    <3> QED BY <1>1, <1>4, <3>1
  <2>2. \A j \in 1 .. 3 : s[(1 - 1) + j] = f.cmd[j]
    <3>1. ASSUME NEW j \in 1 .. 3 PROVE s[(1 - 1) + j] = f.cmd[j]
      <4>1. j \in Nat /\ 1 <= j /\ j <= h /\ (1 - 1) + j = j
        BY <1>2, <2>1
      <4> QED BY <1>1, <1>5, <4>1
    <3> QED BY <3>1
  <2>3. f.cmd \in Seq(Octet) /\ Len(f.cmd) = 3
    BY SrvTypes
  <2>4. 3 <= Len(s) /\ Len(f.cmd) = (3 + 1) - 1
    BY <1>2, <2>1, <2>3
  <2> QED BY <2>2, <2>3, <2>4, SubSeqIs
<1>7. CRLFAt(s, h)
  <2>1. s[h] = CR /\ s[h + 1] = LF /\ h < Len(s) /\ h >= 1
    <3>1. h \in Nat /\ h + 1 \in Nat /\ 1 <= h /\ h + 1 <= Len(s)
      BY <1>2, <1>3
    <3>2. s[h + 1] = w[h + 1] /\ s[h] = w[h]
      <4>1. 1 <= h + 1 /\ h + 1 <= q[n + 1] + 1 /\ h <= q[n + 1] + 1
        BY <3>1
      <4> QED BY <3>1, <4>1
    <3> QED BY <1>2, <1>3, <3>1, <3>2
  <2> QED BY <2>1 DEF CRLFAt
<1>8. \A k \in 1 .. n + 1 : w[q[k]] = Space \/ w[q[k]] = CR
  <2>1. ASSUME NEW k \in 1 .. n + 1 PROVE w[q[k]] = Space \/ w[q[k]] = CR
    <3>1. k \in 1 .. n \/ k = n + 1
      BY <1>2
    <3>2. k \in 1 .. n => w[q[k]] = Space
      BY <1>1 DEF Placed
    <3> QED BY <1>3, <3>1, <3>2
  <2> QED BY <2>1
<1>9. ASSUME NEW k \in 1 .. n
      PROVE  /\ 1 <= q[k] /\ q[k] < q[k + 1] /\ q[k] <= Len(s) /\ s[q[k]] = Space
             /\ names[k] = "more" => q[k + 1] = q[k] + 2
             /\ names[k] # "more" =>
                  /\ q[k] + 1 <= q[k + 1] /\ q[k + 1] <= Len(s) /\ ~IsDigit(s[q[k + 1]])
                  /\ \A i \in q[k] + 1 .. q[k + 1] - 1 : IsDigit(s[i])
                  /\ SubSeq(s, q[k] + 1, q[k + 1] - 1) = Decimal[f.val[names[k]]]
  <2>. DEFINE p == q[k]
              p2 == q[k + 1]
              m == names[k]
              d == Decimal[f.val[m]]
  <2>1. k \in 1 .. n + 1 /\ k + 1 \in 1 .. n + 1
    BY <1>2
  <2>2. p \in Nat /\ p2 \in Nat /\ p <= h /\ p2 <= h /\ m \in Names
    BY <1>2, <1>4, <2>1
  <2>3. Placed(w, f, m, p, p2)
    BY <1>1
  <2>4. w[p2] = Space \/ w[p2] = CR
    BY <1>8, <2>1
  <2>5. f.val[m] \in Nat
    BY <2>2, SrvTypes
  <2>6. d \in Seq(Octet)
    BY <2>5, DecimalIs
  <2>. HIDE DEF h, p, p2, m
  <2>7. /\ 1 <= p /\ p < p2 /\ w[p] = Space /\ (m = "more" => p2 = p + 2)
        /\ m # "more" =>
             /\ \A i \in p + 1 .. p2 - 1 : IsDigit(w[i])
             /\ Len(d) = p2 - (p + 1)
             /\ \A j \in 1 .. p2 - (p + 1) : w[p + j] = d[j]
    BY <2>3 DEF Placed
  <2>8. p <= Len(s) /\ s[p] = Space /\ p2 <= Len(s) /\ s[p2] = w[p2] /\ p + 1 <= p2
    BY <1>5, <2>2, <2>7
  <2>9. ~IsDigit(s[p2])
    BY <2>4, <2>8, NotDigits, Zenon DEF Space
  <2>10. ASSUME m # "more"
         PROVE  /\ \A i \in p + 1 .. p2 - 1 : IsDigit(s[i])
                /\ SubSeq(s, p + 1, p2 - 1) = d
    <3>1. \A i \in p + 1 .. p2 - 1 : s[i] = w[i]
      <4>1. ASSUME NEW i \in p + 1 .. p2 - 1 PROVE s[i] = w[i]
        <5>1. i \in Nat /\ 1 <= i /\ i <= h
          <6>1. h \in Nat
            BY <1>2 DEF h
          <6> QED BY <2>2, <6>1
        <5> QED BY <1>5, <5>1
      <4> QED BY <4>1
    <3>2. \A i \in p + 1 .. p2 - 1 : IsDigit(s[i])
      BY <2>7, <2>10, <3>1
    <3>. HIDE DEF d
    <3>3. \A j \in 1 .. Len(d) : s[((p + 1) - 1) + j] = d[j]
      <4>1. ASSUME NEW j \in 1 .. Len(d) PROVE s[((p + 1) - 1) + j] = d[j]
        <5>1. j \in 1 .. p2 - (p + 1)
          BY <2>7, <2>10
        <5>2. ((p + 1) - 1) + j = p + j /\ p + j \in p + 1 .. p2 - 1
          <6>1. \A x, y \in Nat : \A z \in 1 .. y - (x + 1) :
                  ((x + 1) - 1) + z = x + z /\ x + z \in x + 1 .. y - 1
            OBVIOUS
          <6> QED BY <2>2, <5>1, <6>1
        <5> QED BY <2>7, <2>10, <3>1, <5>1, <5>2
      <4> QED BY <4>1
    <3>4. /\ p + 1 \in Nat /\ p2 - 1 \in Nat /\ 1 <= p + 1 /\ p2 - 1 <= Len(s)
          /\ Len(d) = ((p2 - 1) + 1) - (p + 1)
      BY <1>2, <2>2, <2>7, <2>8, <2>10
    <3>5. SubSeq(s, p + 1, p2 - 1) = d
      BY <2>6, <3>3, <3>4, SubSeqIs
    <3> QED BY <3>2, <3>5
  <2> QED BY <2>7, <2>8, <2>9, <2>10, Zenon DEF p, p2, m
<1> QED BY <1>1, <1>6, <1>7, <1>9, Zenon DEF Headed

Agree(s, w, l) == \A i \in Nat : 1 <= i /\ i <= l => s[i] = w[i]

\* The first line feed is the one behind the header.
LEMMA HeaderArrived ==
  ASSUME NEW s \in Seq(Octet), NEW v \in Seq(Octet), NEW w \in Seq(Octet), NEW x \in Seq(Octet),
         s \o v = w \o x, LF \in ToSet(s),
         NEW p \in Nat, 1 <= p, p + 1 <= Len(w), w[p] = CR, LFFree(w, p)
  PROVE  p + 1 <= Len(s) /\ Agree(s, w, p + 1)
<1>1. Len(s) \in Nat /\ Len(w) \in Nat /\ Len(v) \in Nat /\ Len(x) \in Nat
  BY OctetsLen
<1>2. /\ \A i \in 1 .. Len(s) + Len(v) : (s \o v)[i] = IF i <= Len(s) THEN s[i] ELSE v[i - Len(s)]
      /\ \A i \in 1 .. Len(w) + Len(x) : (w \o x)[i] = IF i <= Len(w) THEN w[i] ELSE x[i - Len(w)]
  BY ConcatProperties
<1>3. ASSUME NEW i \in Nat, 1 <= i, i <= Len(s), i <= Len(w) PROVE s[i] = w[i]
  <2>1. i \in 1 .. Len(s) + Len(v) /\ i \in 1 .. Len(w) + Len(x)
    BY <1>1, <1>3
  <2>2. (s \o v)[i] = s[i] /\ (w \o x)[i] = w[i]
    BY <1>2, <1>3, <2>1
  <2> QED BY <2>2
<1>4. PICK i \in 1 .. Len(s) : s[i] = LF
  <2>1. DOMAIN s = 1 .. Len(s)
    OBVIOUS
  <2> QED BY <2>1 DEF ToSet
<1>5. p + 1 <= Len(s)
  <2>. SUFFICES ASSUME ~(p + 1 <= Len(s)) PROVE FALSE
    OBVIOUS
  <2>1. i \in Nat /\ 1 <= i /\ i <= p /\ i <= Len(w)
    BY <1>1, <1>4
  <2>2. w[i] = LF
    BY <1>3, <1>4, <2>1
  <2>3. i = p
    BY <2>1, <2>2 DEF LFFree
  <2>4. CR # LF
    BY DEF CR, LF
  <2> QED BY <2>2, <2>3, <2>4
<1> QED BY <1>1, <1>3, <1>5 DEF Agree

\* All of f and nothing else is taken off s, which leaves the stream x.
Takes(r, s, f, v, x) ==
  /\ r.ok /\ r.fram = f
  /\ SubSeq(s, r.len + 1, Len(s)) \in Seq(Octet)
  /\ SubSeq(s, r.len + 1, Len(s)) \o v = x

\* Of a stream that begins with f, the blocking reader takes f, as soon as all of it
\* is there: when the line feed of its header is, it knows how much to wait for.
LEMMA ReadsFrame ==
  ASSUME NEW f, SrvFram(f), Fits(f),
         NEW s \in Seq(Octet), NEW v \in Seq(Octet), NEW x \in Seq(Octet),
         s \o v = Octets(f) \o x, LF \in ToSet(s)
  PROVE  /\ RecvFram(s).len = Len(Octets(f)) /\ Octets(f) \in Seq(Octet)
         /\ RecvFram(s).len <= Len(s) => Takes(RecvFram(s), s, f, v, x)
<1>1. PICK R : Layout(f, R)
  BY LayoutExists
<1>. DEFINE w == Whole(f)
            q == Places(f, R)
            names == Fields(f.cmd)
            n == Len(names)
            h == q[n + 1]
<1>2. w \in Seq(Octet) /\ Octets(f) = w /\ Len(w) \in Nat /\ Len(s) \in Nat
  BY <1>1, OctetsLen DEF Layout, Octets
<1>3. /\ From(w, h, CRLF \o Ending(f)) /\ LFFree(w, h)
  BY <1>1, PlacesAre
<1>. HIDE DEF h
<1>4. /\ h \in Nat /\ 1 <= h /\ h + 1 <= Len(w) /\ w[h] = CR
      /\ Len(w) = (h + 1) + Behind(f) /\ From(w, h + 2, Ending(f))
  BY <1>2, <1>3, EndingIs
<1>. HIDE DEF w
<1>5. h + 1 <= Len(s) /\ \A i \in Nat : 1 <= i /\ i <= h + 1 => s[i] = w[i]
  <2>1. s \o v = w \o x
    BY <1>2
  <2>2. w[h] = CR /\ 1 <= h /\ h + 1 <= Len(w) /\ h \in Nat /\ LFFree(w, h) /\ w \in Seq(Octet)
    BY <1>2, <1>3, <1>4
  <2>3. h + 1 <= Len(s) /\ Agree(s, w, h + 1)
    BY <2>1, <2>2, HeaderArrived, Zenon
  <2> QED BY <2>3, Zenon DEF Agree
<1>6. Headed(s, f, q)
  BY <1>1, <1>5, HeadedBy DEF w, h
<1>7. /\ f.val.size \in Nat /\ f.val.size = Len(f.payload) /\ f.payload \in Seq(Octet)
      /\ (f.cmd = SEQ => f.payload = <<>>)
  BY SrvTypes
<1>8. f.val.size <= FrameMax /\ Behind(f) \in Nat
  <2>1. FrameMax \in Nat /\ Len(w) <= FrameMax
    BY StreamAssumption DEF Fits, w
  <2>2. CASE f.cmd = SEQ
    <3>1. f.val.size = 0 /\ Behind(f) = 0
      BY <1>7, <2>2 DEF Behind
    <3> QED BY <2>1, <3>1
  <2>3. CASE f.cmd # SEQ
    <3>1. Behind(f) = f.val.size + 5
      BY <2>3 DEF Behind
    <3>2. Len(w) = (h + 1) + (f.val.size + 5) /\ f.val.size \in Nat /\ h \in Nat
      BY <1>4, <1>7, <3>1
    <3>3. \A a, b, l, m \in Nat : l = (a + 1) + (b + 5) /\ l <= m => b <= m /\ b + 5 \in Nat
      OBVIOUS
    <3> QED BY <1>2, <2>1, <3>1, <3>2, <3>3, Zenon
  <2> QED BY <2>2, <2>3
<1>. DEFINE body == h + 1
            end == Len(w)
            r == RecvFram(s)
<1>9. /\ r.len = end
      /\ end <= Len(s) /\ (f.cmd # SEQ => /\ SubSeq(s, end - 4, end) = Trailer
                                          /\ SubSeq(s, body + 1, end - 5) = f.payload)
           => r.ok /\ r.fram = f
  <2>1. body = q[Len(Fields(f.cmd)) + 1] + 1
    BY DEF h
  <2>2. end = body + Behind(f)
    BY <1>4
  <2>. HIDE DEF q, body, end, r
  <2> QED BY <1>6, <1>8, <2>1, <2>2, FramRead DEF r
<1>10. ASSUME end <= Len(s)
       PROVE  f.cmd # SEQ => /\ SubSeq(s, end - 4, end) = Trailer
                             /\ SubSeq(s, body + 1, end - 5) = f.payload
  <2>. SUFFICES ASSUME f.cmd # SEQ
                PROVE  /\ SubSeq(s, end - 4, end) = Trailer
                       /\ SubSeq(s, body + 1, end - 5) = f.payload
    OBVIOUS
  <2>. DEFINE pl == f.payload
              a == h + 2
              b == a + Len(pl)
  <2>1. pl \in Seq(Octet) /\ Len(pl) \in Nat /\ Trailer \in Seq(Octet) /\ Len(Trailer) = 5
    <3>1. Len(Trailer) = 5
      BY DEF Trailer
    <3> QED BY <1>7, <3>1, Literally, OctetsLen
  <2>2. From(w, a, pl \o Trailer)
    BY <1>4 DEF Ending
  <2>3. end = (h + 1) + (Len(pl) + 5)
    BY <1>4, <1>7 DEF Behind
  <2>. HIDE DEF a, pl
  <2>4. /\ From(w, b, Trailer) /\ \A j \in 1 .. Len(pl) : w[(a - 1) + j] = pl[j]
    BY <1>2, <2>1, <2>2, FromConcat
  <2>5. \A j \in 1 .. Len(Trailer) : w[(b - 1) + j] = Trailer[j]
    BY <2>4 DEF From
  <2>6. a \in Nat /\ 2 <= a /\ b \in Nat /\ b = a + Len(pl) /\ end = b + 4 /\ a = h + 2
    <3>1. \A i, l \in Nat : /\ i + 2 \in Nat /\ 2 <= i + 2 /\ (i + 2) + l \in Nat
                            /\ (i + 1) + (l + 5) = ((i + 2) + l) + 4
      OBVIOUS
    <3> QED BY <1>4, <2>1, <2>3, <3>1, Zenon DEF a
  <2>. HIDE DEF b, end
  <2>7. \A i \in Nat : 1 <= i /\ i <= end => s[i] = w[i]
    <3>1. ASSUME NEW i \in Nat, 1 <= i, i <= end PROVE s[i] = w[i]
      <4>1. i <= Len(s) /\ i <= Len(w)
        BY <1>2, <1>10, <2>6, <3>1 DEF end
      <4>2. i \in 1 .. Len(s) + Len(v) /\ i \in 1 .. Len(w) + Len(x)
        BY <1>2, <3>1, <4>1, OctetsLen
      <4>3. (s \o v)[i] = s[i] /\ (w \o x)[i] = w[i]
        BY <1>2, <4>1, <4>2, ConcatProperties
      <4> QED BY <1>2, <4>3
    <3> QED BY <3>1
  <2>8. \A j \in 1 .. Len(Trailer) : s[((end - 4) - 1) + j] = Trailer[j]
    <3>1. ASSUME NEW j \in 1 .. Len(Trailer) PROVE s[((end - 4) - 1) + j] = Trailer[j]
      <4>1. \A y \in Nat : \A z \in 1 .. 5 : 2 <= y =>
              /\ (((y + 4) - 4) - 1) + z = (y - 1) + z /\ (y - 1) + z \in Nat
              /\ 1 <= (y - 1) + z /\ (y - 1) + z <= y + 4
        OBVIOUS
      <4>2. 2 <= b /\ b \in Nat /\ j \in 1 .. 5 /\ end = b + 4
        BY <2>1, <2>6
      <4>3. /\ ((end - 4) - 1) + j = (b - 1) + j /\ (b - 1) + j \in Nat
            /\ 1 <= (b - 1) + j /\ (b - 1) + j <= end
        BY <4>1, <4>2, Zenon
      <4> QED BY <2>5, <2>7, <4>3, Zenon
    <3> QED BY <3>1
  <2>9. \A j \in 1 .. Len(pl) : s[((body + 1) - 1) + j] = pl[j]
    <3>1. ASSUME NEW j \in 1 .. Len(pl) PROVE s[((body + 1) - 1) + j] = pl[j]
      <4>1. /\ ((body + 1) - 1) + j = (a - 1) + j /\ (a - 1) + j \in Nat
            /\ 1 <= (a - 1) + j /\ (a - 1) + j <= end
        BY <1>4, <2>1, <2>6
      <4> QED BY <2>4, <2>7, <4>1
    <3> QED BY <3>1
  <2>10. /\ end - 4 \in Nat /\ end \in Nat /\ 1 <= end - 4 /\ end <= Len(s)
         /\ Len(Trailer) = (end + 1) - (end - 4)
         /\ body + 1 \in Nat /\ end - 5 \in Nat /\ 1 <= body + 1 /\ end - 5 <= Len(s)
         /\ Len(pl) = ((end - 5) + 1) - (body + 1)
    <3>1. \A i, l, e, m \in Nat :
            e = ((i + 2) + l) + 4 /\ e <= m =>
              /\ e - 4 \in Nat /\ 1 <= e - 4 /\ 5 = (e + 1) - (e - 4)
              /\ (i + 1) + 1 \in Nat /\ e - 5 \in Nat /\ 1 <= (i + 1) + 1 /\ e - 5 <= m
              /\ l = ((e - 5) + 1) - ((i + 1) + 1)
      OBVIOUS
    <3>2. end = ((h + 2) + Len(pl)) + 4 /\ end <= Len(s) /\ end \in Nat
      <4>1. end \in Nat
        <5>1. \A i \in Nat : i + 4 \in Nat
          OBVIOUS
        <5> QED BY <2>6, <5>1, Zenon
      <4>2. end = ((h + 2) + Len(pl)) + 4
        BY <2>6
      <4> QED BY <1>10, <4>1, <4>2
    <3>3. h \in Nat /\ Len(pl) \in Nat /\ end \in Nat /\ Len(s) \in Nat
      BY <1>2, <1>4, <2>1, <3>2
    <3>4. /\ end - 4 \in Nat /\ 1 <= end - 4 /\ 5 = (end + 1) - (end - 4)
          /\ (h + 1) + 1 \in Nat /\ end - 5 \in Nat /\ 1 <= (h + 1) + 1 /\ end - 5 <= Len(s)
          /\ Len(pl) = ((end - 5) + 1) - ((h + 1) + 1)
      <4>. HIDE DEF pl, h
      <4> QED BY <3>1, <3>2, <3>3
    <3>5. Len(Trailer) = 5 /\ body = h + 1
      BY <2>1 DEF body
    <3>6. Len(Trailer) = (end + 1) - (end - 4)
      BY <3>4, <3>5, Zenon
    <3>7. /\ body + 1 \in Nat /\ 1 <= body + 1 /\ Len(pl) = ((end - 5) + 1) - (body + 1)
      BY <3>4, <3>5, Zenon
    <3> QED BY <3>2, <3>3, <3>4, <3>6, <3>7, Zenon
  <2>. HIDE DEF body
  <2>11. SubSeq(s, end - 4, end) = Trailer
    BY <2>1, <2>8, <2>10, SubSeqIs
  <2>12. SubSeq(s, body + 1, end - 5) = pl
    BY <2>1, <2>9, <2>10, SubSeqIs
  <2> QED BY <2>11, <2>12 DEF pl
<1>. HIDE DEF r, body
<1>11. r.len = Len(Octets(f))
  BY <1>2, <1>9
<1>12. ASSUME r.len <= Len(s)
       PROVE  Takes(r, s, f, v, x)
  <2>1. end <= Len(s)
    BY <1>9, <1>12
  <2>2. r.ok /\ r.fram = f
    BY <1>9, <1>10, <2>1
  <2>3. /\ SubSeq(s, Len(w) + 1, Len(s)) \in Seq(Octet)
        /\ SubSeq(s, Len(w) + 1, Len(s)) \o v = x
    BY <1>2, <2>1, CutFront
  <2> QED BY <1>9, <2>2, <2>3 DEF Takes
<1> QED BY <1>2, <1>11, <1>12 DEF r

-----------------------------------------------------------------------------
(***************************************************************************)
(* How long a number is, and that what the listener answers fits.          *)
(***************************************************************************)
Width(n) == Len(Decimal[n])

LEMMA WidthIs ==
  \A n \in Nat : /\ Width(n) \in Nat /\ Width(n) >= 1
                 /\ n < 10 => Width(n) = 1
                 /\ n >= 10 => Width(n) = Width(n \div 10) + 1
<1>. SUFFICES ASSUME NEW n \in Nat
              PROVE  /\ Width(n) \in Nat /\ Width(n) >= 1
                     /\ n < 10 => Width(n) = 1
                     /\ n >= 10 => Width(n) = Width(n \div 10) + 1
  OBVIOUS
<1>1. Decimal[n] \in Seq(Octet) /\ Decimal[n] = DecimalStep(Decimal, n)
  BY DecimalIs
<1>2. CASE n < 10
  <2>1. Decimal[n] = <<Digit[n + 1]>>
    BY <1>1, <1>2 DEF DecimalStep
  <2> QED BY <1>2, <2>1 DEF Width
<1>3. CASE n >= 10
  <2>1. n \div 10 \in Nat
    BY DivMod
  <2>. DEFINE t == Decimal[n \div 10]
              c == Digit[(n % 10) + 1]
  <2>2. t \in Seq(Octet)
    BY <2>1, DecimalIs
  <2>3. ~(n < 10)
    BY <1>3
  <2>4. Decimal[n] = Append(t, c)
    BY <1>1, <2>3 DEF DecimalStep
  <2>5. Width(n \div 10) = Len(t) /\ Len(t) \in Nat
    BY <2>2 DEF Width
  <2>. HIDE DEF t, c
  <2>6. Len(Append(t, c)) = Len(t) + 1
    BY <2>2
  <2>7. Width(n) = Len(t) + 1
    BY <2>4, <2>6 DEF Width
  <2> QED BY <2>3, <2>5, <2>7
<1> QED BY <1>2, <1>3

\* A wider number is not smaller.
LEMMA WidthGrows ==
  \A n \in Nat : \A k \in Nat : k <= n => Width(k) <= Width(n)
<1>. DEFINE P(n) == \A k \in Nat : k <= n => Width(k) <= Width(n)
            T == {m \in Nat : \A n \in 0 .. m : P(n)}
<1>1. ASSUME NEW n \in Nat, \A i \in Nat : i < n => P(i) PROVE P(n)
  <2>. SUFFICES ASSUME NEW k \in Nat, k <= n PROVE Width(k) <= Width(n)
    OBVIOUS
  <2>1. /\ n \div 10 \in Nat /\ (n >= 10 => n \div 10 < n)
        /\ k \div 10 \in Nat /\ k \div 10 <= n \div 10
    OBVIOUS
  <2>2. /\ Width(n) \in Nat /\ Width(n) >= 1 /\ (n >= 10 => Width(n) = Width(n \div 10) + 1)
        /\ (k < 10 => Width(k) = 1) /\ (k >= 10 => Width(k) = Width(k \div 10) + 1)
        /\ Width(n \div 10) \in Nat /\ Width(k \div 10) \in Nat
    BY <2>1, WidthIs
  <2>3. CASE k < 10
    BY <2>2, <2>3
  <2>4. CASE ~(k < 10)
    <3>1. k >= 10 /\ n >= 10
      BY <2>4
    <3>2. Width(k \div 10) <= Width(n \div 10)
      BY <1>1, <2>1, <3>1
    <3> QED BY <2>2, <3>1, <3>2
  <2> QED BY <2>3, <2>4
<1>. HIDE DEF P
<1>2. 0 \in T
  <2>1. P(0)
    BY <1>1
  <2> QED BY <2>1
<1>3. ASSUME NEW m \in T PROVE m + 1 \in T
  <2>1. m \in Nat /\ \A i \in Nat : i < m + 1 => P(i)
    OBVIOUS
  <2>2. P(m + 1)
    BY <1>1, <2>1
  <2> QED BY <2>1, <2>2
<1>4. T = Nat
  <2>1. T \subseteq Nat
    OBVIOUS
  <2>. HIDE DEF T
  <2> QED BY <1>2, <1>3, <2>1, SetInduction
<1>5. \A n \in Nat : P(n)
  BY <1>4
<1> QED BY <1>5 DEF P

LEMMA WidthTenth ==
  \A n \in Nat : Width(n) <= 1 + n \div 10
<1>. DEFINE P(n) == Width(n) <= 1 + n \div 10
            T == {m \in Nat : \A n \in 0 .. m : P(n)}
<1>1. ASSUME NEW n \in Nat, \A i \in Nat : i < n => P(i) PROVE P(n)
  <2>. DEFINE k == n \div 10
  <2>1. k \in Nat /\ (n >= 10 => k < n) /\ k \div 10 \in Nat /\ (k >= 1 => k \div 10 < k)
        /\ (n >= 10 => k >= 1)
    OBVIOUS
  <2>2. /\ (n < 10 => Width(n) = 1) /\ (n >= 10 => Width(n) = Width(k) + 1)
        /\ Width(n) \in Nat /\ Width(k) \in Nat
    BY <2>1, WidthIs
  <2>3. n >= 10 => Width(k) <= 1 + k \div 10
    BY <1>1, <2>1
  <2>. HIDE DEF k
  <2>4. Width(n) <= 1 + k
    BY <2>1, <2>2, <2>3
  <2> QED BY <2>4 DEF k
<1>. HIDE DEF P
<1>2. 0 \in T
  <2>1. P(0)
    BY <1>1
  <2> QED BY <2>1
<1>3. ASSUME NEW m \in T PROVE m + 1 \in T
  <2>1. m \in Nat /\ \A i \in Nat : i < m + 1 => P(i)
    OBVIOUS
  <2>2. P(m + 1)
    BY <1>1, <2>1
  <2> QED BY <2>1, <2>2
<1>4. T = Nat
  <2>1. T \subseteq Nat
    OBVIOUS
  <2>. HIDE DEF T
  <2> QED BY <1>2, <1>3, <2>1, SetInduction
<1>5. \A n \in Nat : P(n)
  BY <1>4
<1> QED BY <1>5 DEF P

LEMMA TimesGrows ==
  \A a, b, c \in Nat : a <= b => a * c <= b * c
<1>. SUFFICES ASSUME NEW a \in Nat, NEW b \in Nat, NEW c \in Nat, a <= b
              PROVE  a * c <= b * c
  OBVIOUS
<1>1. PICK d \in Nat : b = a + d
  <2>1. b - a \in Nat /\ b = a + (b - a)
    OBVIOUS
  <2> QED BY <2>1
<1>2. (a + d) * c = a * c + d * c /\ d * c \in Nat /\ a * c \in Nat
  OBVIOUS
<1>3. \A x, y \in Nat : x <= x + y
  OBVIOUS
<1>4. a * c <= a * c + d * c
  BY <1>2, <1>3, Zenon
<1> QED BY <1>1, <1>2, <1>4, Zenon

\* A product is no wider than its factors together.
LEMMA WidthOfProduct ==
  \A n \in Nat : \A m \in Nat : \A k \in Nat :
    k < (n + 1) * (m + 1) => Width(k) <= Width(n) + Width(m)
<1>. DEFINE P(n) == \A m \in Nat : \A k \in Nat :
                      k < (n + 1) * (m + 1) => Width(k) <= Width(n) + Width(m)
            T == {m \in Nat : \A n \in 0 .. m : P(n)}
<1>1. ASSUME NEW n \in Nat, \A i \in Nat : i < n => P(i) PROVE P(n)
  <2>. SUFFICES ASSUME NEW m \in Nat, NEW k \in Nat, k < (n + 1) * (m + 1)
                PROVE  Width(k) <= Width(n) + Width(m)
    OBVIOUS
  <2>. DEFINE i == n \div 10
              j == k \div 10
  <2>1. /\ i \in Nat /\ (n >= 10 => i < n) /\ n + 1 <= 10 * (i + 1)
        /\ j \in Nat /\ 10 * j <= k
    OBVIOUS
  <2>2. /\ Width(n) \in Nat /\ Width(n) >= 1 /\ (n >= 10 => Width(n) = Width(i) + 1)
        /\ (n < 10 => Width(n) = 1)
        /\ (k < 10 => Width(k) = 1) /\ (k >= 10 => Width(k) = Width(j) + 1)
        /\ Width(i) \in Nat /\ Width(j) \in Nat /\ Width(m) \in Nat /\ Width(m) >= 1
    BY <2>1, WidthIs
  <2>. HIDE DEF i, j
  <2>3. CASE k < 10
    BY <2>2, <2>3
  <2>4. CASE k >= 10 /\ n < 10
    <3>1. n + 1 \in Nat /\ m + 1 \in Nat /\ n + 1 <= 10
      BY <2>4
    <3>2. (n + 1) * (m + 1) <= 10 * (m + 1)
      BY <3>1, TimesGrows, Zenon
    <3>3. (n + 1) * (m + 1) \in Nat
      BY <3>1
    <3>4. \A p \in Nat : k < p /\ p <= 10 * (m + 1) => j <= m
      BY <2>1
    <3>5. j <= m
      BY <3>2, <3>3, <3>4, Zenon
    <3>6. Width(j) <= Width(m)
      BY <2>1, <3>5, WidthGrows
    <3> QED BY <2>2, <2>4, <3>6
  <2>5. CASE k >= 10 /\ ~(n < 10)
    <3>1. n >= 10
      BY <2>5
    <3>2. n + 1 \in Nat /\ m + 1 \in Nat /\ i + 1 \in Nat /\ 10 * (i + 1) \in Nat
      BY <2>1
    <3>3. (n + 1) * (m + 1) <= (10 * (i + 1)) * (m + 1)
      BY <2>1, <3>2, TimesGrows, Zenon
    <3>. DEFINE p == (i + 1) * (m + 1)
    <3>4. (10 * (i + 1)) * (m + 1) = 10 * p /\ p \in Nat /\ (n + 1) * (m + 1) \in Nat
      BY <3>2
    <3>5. \A x, y \in Nat : k < x /\ x <= 10 * y => j < y
      BY <2>1
    <3>6. j < p
      BY <3>3, <3>4, <3>5, Zenon
    <3>7. P(i)
      BY <1>1, <2>1, <3>1
    <3>8. Width(j) <= Width(i) + Width(m)
      BY <2>1, <3>6, <3>7
    <3> QED BY <2>2, <2>5, <3>1, <3>8
  <2> QED BY <2>3, <2>4, <2>5
<1>. HIDE DEF P
<1>2. 0 \in T
  <2>1. P(0)
    BY <1>1
  <2> QED BY <2>1
<1>3. ASSUME NEW m \in T PROVE m + 1 \in T
  <2>1. m \in Nat /\ \A i \in Nat : i < m + 1 => P(i)
    OBVIOUS
  <2>2. P(m + 1)
    BY <1>1, <2>1
  <2> QED BY <2>1, <2>2
<1>4. T = Nat
  <2>1. T \subseteq Nat
    OBVIOUS
  <2>. HIDE DEF T
  <2> QED BY <1>2, <1>3, <2>1, SetInduction
<1>5. \A n \in Nat : P(n)
  BY <1>4
<1> QED BY <1>5 DEF P

LEMMA ItemLen ==
  ASSUME NEW f, SrvFram(f), NEW m \in Names
  PROVE  /\ Item(f, m) \in Seq(Octet)
         /\ Len(Item(f, m)) = 1 + (IF m = "more" THEN 1 ELSE Width(f.val[m]))
<1>1. /\ FieldText(f, m) \in Seq(Octet) /\ Item(f, m) \in Seq(Octet)
      /\ Item(f, m) = <<Space>> \o FieldText(f, m)
  BY SrvTypes
<1>2. Len(FieldText(f, m)) = IF m = "more" THEN 1 ELSE Width(f.val[m])
  BY DEF FieldText, Width
<1>3. <<Space>> \in Seq(Octet) /\ Len(<<Space>>) = 1
  BY SpaceIs
<1>4. Len(Item(f, m)) = Len(<<Space>>) + Len(FieldText(f, m))
  BY <1>1, <1>3, OctetsConcat, Zenon
<1> QED BY <1>1, <1>2, <1>3, <1>4, Zenon

LEMMA CRLFLen == CRLF \in Seq(Octet) /\ Len(CRLF) = 2 /\ Trailer \in Seq(Octet) /\ Len(Trailer) = 5
<1>1. Len(CRLF) = 2
  BY DEF CRLF
<1>2. Len(Trailer) = 5
  BY DEF Trailer
<1> QED BY <1>1, <1>2, Literally

LEMMA AckLen ==
  ASSUME NEW f, SrvFram(f), f.cmd = SEQ
  PROVE  Len(Whole(f)) = 8 + Width(f.val.chan) + Width(f.val.ackno) + Width(f.val.window)
<1>1. /\ f.cmd \in Seq(Octet) /\ Len(f.cmd) = 3 /\ f.val \in [Names -> Nat]
  BY SrvTypes
<1>. DEFINE i1 == Item(f, "chan")
            i2 == Item(f, "ackno")
            i3 == Item(f, "window")
            a == Width(f.val.chan)
            b == Width(f.val.ackno)
            c == Width(f.val.window)
<1>2. a \in Nat /\ b \in Nat /\ c \in Nat
  BY <1>1, WidthIs DEF Names
<1>3. /\ i1 \in Seq(Octet) /\ Len(i1) = 1 + a /\ i2 \in Seq(Octet) /\ Len(i2) = 1 + b
      /\ i3 \in Seq(Octet) /\ Len(i3) = 1 + c
  BY ItemLen DEF Names
<1>4. Whole(f) = (((f.cmd \o i1) \o i2) \o i3) \o CRLF
  BY Zenon DEF Whole
<1>. HIDE DEF i1, i2, i3, a, b, c
<1>. DEFINE w1 == f.cmd \o i1
            w2 == w1 \o i2
            w3 == w2 \o i3
            w4 == w3 \o CRLF
<1>5. w1 \in Seq(Octet) /\ Len(w1) = Len(f.cmd) + Len(i1)
  BY <1>1, <1>3, OctetsConcat, Zenon
<1>6. Whole(f) = w4
  BY <1>4, Zenon
<1>. HIDE DEF w1
<1>7. w2 \in Seq(Octet) /\ Len(w2) = Len(w1) + Len(i2)
  BY <1>3, <1>5, OctetsConcat, Zenon
<1>. HIDE DEF w2
<1>8. w3 \in Seq(Octet) /\ Len(w3) = Len(w2) + Len(i3)
  BY <1>3, <1>7, OctetsConcat, Zenon
<1>. HIDE DEF w3
<1>9. Len(w4) = Len(w3) + 2
  BY <1>8, CRLFLen, OctetsConcat, Zenon
<1>. HIDE DEF w4
<1>10. Len(w4) = 8 + a + b + c
  BY <1>1, <1>2, <1>3, <1>5, <1>7, <1>8, <1>9
<1> QED BY <1>6, <1>10, Zenon DEF a, b, c

LEMMA ReplyLen ==
  ASSUME NEW f, SrvFram(f), f.cmd # SEQ
  PROVE  Len(Whole(f)) = 16 + Width(f.val.chan) + Width(f.val.msgno) + Width(f.val.seqno)
                            + Width(f.val.size) + Len(f.payload)
<1>1. /\ f.cmd \in Seq(Octet) /\ Len(f.cmd) = 3 /\ f.val \in [Names -> Nat]
      /\ f.payload \in Seq(Octet) /\ Len(f.payload) \in Nat /\ f.cmd # ANS
  <2>1. f.cmd \in ServerCommands
    BY SrvTypes
  <2>2. f.cmd # ANS
    BY <2>1 DEF ServerCommands, RPY, ERR, SEQ, ANS
  <2> QED BY <2>2, SrvTypes, OctetsLen
<1>. DEFINE i1 == Item(f, "chan")
            i2 == Item(f, "msgno")
            i3 == Item(f, "more")
            i4 == Item(f, "seqno")
            i5 == Item(f, "size")
            a == Width(f.val.chan)
            b == Width(f.val.msgno)
            c == Width(f.val.seqno)
            d == Width(f.val.size)
            e == Len(f.payload)
            pl == f.payload
<1>2. a \in Nat /\ b \in Nat /\ c \in Nat /\ d \in Nat /\ e \in Nat /\ pl \in Seq(Octet) /\ Len(pl) = e
  BY <1>1, WidthIs DEF Names
<1>3. /\ i1 \in Seq(Octet) /\ Len(i1) = 1 + a /\ i2 \in Seq(Octet) /\ Len(i2) = 1 + b
      /\ i3 \in Seq(Octet) /\ Len(i3) = 2 /\ i4 \in Seq(Octet) /\ Len(i4) = 1 + c
      /\ i5 \in Seq(Octet) /\ Len(i5) = 1 + d
  BY ItemLen DEF Names
<1>4. Whole(f) = ((((((f.cmd \o i1) \o i2) \o i3) \o i4) \o i5) \o <<>>) \o ((CRLF \o pl) \o Trailer)
  BY <1>1, Zenon DEF Whole, Body
<1>. HIDE DEF i1, i2, i3, i4, i5, a, b, c, d, e, pl
<1>. DEFINE w1 == f.cmd \o i1
            w2 == w1 \o i2
            w3 == w2 \o i3
            w4 == w3 \o i4
            w5 == w4 \o i5
            w6 == w5 \o <<>>
            v1 == CRLF \o pl
            v2 == v1 \o Trailer
<1>5. Whole(f) = w6 \o v2
  BY <1>4, Zenon
<1>6. w1 \in Seq(Octet) /\ Len(w1) = Len(f.cmd) + Len(i1)
  BY <1>1, <1>3, OctetsConcat, Zenon
<1>. HIDE DEF w1
<1>7. w2 \in Seq(Octet) /\ Len(w2) = Len(w1) + Len(i2)
  BY <1>3, <1>6, OctetsConcat, Zenon
<1>. HIDE DEF w2
<1>8. w3 \in Seq(Octet) /\ Len(w3) = Len(w2) + Len(i3)
  BY <1>3, <1>7, OctetsConcat, Zenon
<1>. HIDE DEF w3
<1>9. w4 \in Seq(Octet) /\ Len(w4) = Len(w3) + Len(i4)
  BY <1>3, <1>8, OctetsConcat, Zenon
<1>. HIDE DEF w4
<1>10. w5 \in Seq(Octet) /\ Len(w5) = Len(w4) + Len(i5)
  BY <1>3, <1>9, OctetsConcat, Zenon
<1>. HIDE DEF w5
<1>11. w6 \in Seq(Octet) /\ Len(w6) = Len(w5)
  BY <1>10
<1>. HIDE DEF w6
<1>12. v1 \in Seq(Octet) /\ Len(v1) = 2 + Len(pl)
  BY <1>2, CRLFLen, OctetsConcat, Zenon
<1>. HIDE DEF v1
<1>13. v2 \in Seq(Octet) /\ Len(v2) = Len(v1) + 5
  BY <1>12, CRLFLen, OctetsConcat, Zenon
<1>. HIDE DEF v2
<1>14. Len(w6 \o v2) = Len(w6) + Len(v2)
  BY <1>11, <1>13, OctetsConcat, Zenon
<1>. DEFINE w == w6 \o v2
<1>15. Len(w) = Len(w6) + Len(v2)
  BY <1>14
<1>. HIDE DEF w
<1>16. Len(w) = 16 + a + b + c + d + e
  BY <1>1, <1>2, <1>3, <1>6, <1>7, <1>8, <1>9, <1>10, <1>11, <1>12, <1>13, <1>15
<1> QED BY <1>5, <1>16, Zenon DEF w, a, b, c, d, e, pl

SrvOK(f) == f \in SrvFrames /\ SrvFram(f) /\ Fits(f)

LEMMA AckOK ==
  ASSUME NEW n \in Nat, n <= MaxLogs * FrameMax, MaxLogs >= 1
  PROVE  SrvOK(SEQFram(n)) /\ SEQFram(n).cmd = SEQ
<1>. DEFINE f == SEQFram(n)
<1>1. FrameMax \in Nat /\ MaxLogs \in Nat /\ 26 * MaxLogs <= FrameMax
  BY StreamAssumption
<1>2. /\ f.cmd = SEQ /\ f.payload = <<>> /\ f \in SrvFrames
      /\ f.val.chan = 1 /\ f.val.ackno = n /\ f.val.window = FrameMax /\ f.val.size = 0
      /\ \A m \in Names : m \notin {"chan", "ackno", "window"} => f.val[m] = 0
  <2>1. NoVal \in [Names -> Nat]
    BY DEF NoVal, Names
  <2>. DEFINE v == [NoVal EXCEPT !.chan = 1, !.ackno = n, !.window = FrameMax]
  <2>2. /\ v \in [Names -> Nat] /\ v.chan = 1 /\ v.ackno = n /\ v.window = FrameMax
        /\ \A m \in Names : m \notin {"chan", "ackno", "window"} => v[m] = NoVal[m]
    <3>1. "chan" \in Names /\ "ackno" \in Names /\ "window" \in Names
      BY DEF Names
    <3>2. "chan" # "ackno" /\ "chan" # "window" /\ "ackno" # "window"
      OBVIOUS
    <3> QED BY <1>1, <2>1, <3>1, <3>2
  <2>3. f = [cmd |-> SEQ, payload |-> <<>>, val |-> v]
    BY DEF SEQFram
  <2>4. \A m \in Names : NoVal[m] = 0
    BY DEF NoVal, Names
  <2>5. "size" \in Names /\ "size" \notin {"chan", "ackno", "window"}
    BY DEF Names
  <2>. HIDE DEF v, f
  <2>6. f.cmd = SEQ /\ f.payload = <<>> /\ f.val = v
    BY <2>3
  <2>7. f \in SrvFrames
    <3>1. <<>> \in Seq(Octet) /\ SEQ \in ServerCommands
      BY DEF ServerCommands
    <3> QED BY <2>2, <2>3, <3>1 DEF SrvFrames
  <2> QED BY <2>2, <2>4, <2>5, <2>6, <2>7
<1>3. SrvFram(f)
  <2>1. ASSUME NEW m \in Names, m = "more" \/ \A k \in DOMAIN Fields(f.cmd) : Fields(f.cmd)[k] # m
        PROVE  f.val[m] = 0
    <3>1. Fields(f.cmd) = <<"chan", "ackno", "window">>
      BY <1>2 DEF Fields
    <3>2. m \notin {"chan", "ackno", "window"}
      <4>1. 1 \in DOMAIN Fields(f.cmd) /\ 2 \in DOMAIN Fields(f.cmd) /\ 3 \in DOMAIN Fields(f.cmd)
        BY <3>1
      <4>2. /\ Fields(f.cmd)[1] = "chan" /\ Fields(f.cmd)[2] = "ackno" /\ Fields(f.cmd)[3] = "window"
        BY <3>1
      <4> QED BY <2>1, <4>1, <4>2
    <3> QED BY <1>2, <3>2
  <2>2. f.val.size = Len(f.payload)
    BY <1>2
  <2>. HIDE DEF f
  <2> QED BY <1>2, <2>1, <2>2 DEF SrvFram
<1>4. Len(Whole(f)) = 8 + Width(1) + Width(n) + Width(FrameMax)
  <2>. HIDE DEF f
  <2> QED BY <1>2, <1>3, AckLen
<1>5. Width(1) = 1
  BY WidthIs
<1>6. Width(n) <= Width(MaxLogs) + Width(FrameMax)
  <2>1. n < (MaxLogs + 1) * (FrameMax + 1)
    <3>1. /\ (MaxLogs + 1) * (FrameMax + 1) = MaxLogs * FrameMax + MaxLogs + FrameMax + 1
          /\ MaxLogs * FrameMax \in Nat
      BY <1>1
    <3>. DEFINE p == MaxLogs * FrameMax
                q == (MaxLogs + 1) * (FrameMax + 1)
    <3>2. p \in Nat /\ q = p + MaxLogs + FrameMax + 1 /\ n <= p
      BY <3>1
    <3>. HIDE DEF p, q
    <3>3. n < q
      BY <1>1, <3>2
    <3> QED BY <3>3 DEF q
  <2> QED BY <1>1, <2>1, WidthOfProduct
<1>7. /\ Width(MaxLogs) <= 1 + MaxLogs \div 10 /\ Width(FrameMax) <= 1 + FrameMax \div 10
      /\ Width(MaxLogs) \in Nat /\ Width(FrameMax) \in Nat /\ Width(n) \in Nat
  BY <1>1, WidthTenth, WidthIs
<1>8. 10 * (MaxLogs \div 10) <= MaxLogs /\ 10 * (FrameMax \div 10) <= FrameMax
      /\ MaxLogs \div 10 \in Nat /\ FrameMax \div 10 \in Nat
  BY <1>1
<1>9. Len(Whole(f)) <= FrameMax
  <2>. DEFINE l == Len(Whole(f))
              a == Width(n)
              b == Width(MaxLogs)
              c == Width(FrameMax)
              d == MaxLogs \div 10
              e == FrameMax \div 10
  <2>1. /\ l = 9 + a + c /\ a <= b + c /\ b <= 1 + d /\ c <= 1 + e
        /\ a \in Nat /\ b \in Nat /\ c \in Nat /\ d \in Nat /\ e \in Nat
        /\ 10 * d <= MaxLogs /\ 10 * e <= FrameMax
    BY <1>4, <1>5, <1>6, <1>7, <1>8
  <2>. HIDE DEF l, a, b, c, d, e
  <2>2. l <= FrameMax
    BY <1>1, <2>1
  <2> QED BY <2>2 DEF l
<1> QED BY <1>2, <1>3, <1>9 DEF SrvOK, Fits

\* The numbers of a reply when n messages have been answered.
LEMMA ReplyOK ==
  ASSUME NEW ch, ch.uMsgno \in Nat, ch.uSeqno \in Nat, NEW n \in Nat,
         ch.uMsgno <= n, ch.uSeqno <= 6 * n, n + 1 <= MaxLogs,
         NEW cmd \in {RPY, ERR}, NEW raw \in Seq(Octet), Len(raw) <= 6, raw # <<>>,
         NEW f, f = MesgFram(ch, cmd, raw, 0)
  PROVE  SrvOK(f) /\ f.cmd = cmd /\ f.cmd # SEQ /\ f.payload = raw /\ f.val.size = Len(raw)
<1>1. FrameMax \in Nat /\ MaxLogs \in Nat /\ 26 * MaxLogs <= FrameMax /\ Len(raw) \in Nat
  BY StreamAssumption, OctetsLen
<1>2. cmd \in ServerCommands /\ cmd # SEQ /\ cmd # ANS
  BY DEF ServerCommands, RPY, ERR, SEQ, ANS
<1>3. /\ f.cmd = cmd /\ f.payload = raw /\ f \in SrvFrames
      /\ f.val.chan = 1 /\ f.val.msgno = ch.uMsgno /\ f.val.seqno = ch.uSeqno
      /\ f.val.size = Len(raw)
      /\ \A m \in Names : m \notin {"chan", "msgno", "seqno", "size"} => f.val[m] = 0
  <2>1. NoVal \in [Names -> Nat]
    BY DEF NoVal, Names
  <2>. DEFINE v == [NoVal EXCEPT !.chan = 1, !.msgno = ch.uMsgno,
                      !.seqno = ch.uSeqno, !.size = Len(raw), !.ansno = 0]
  <2>2. \A m \in Names : NoVal[m] = 0
    BY DEF NoVal, Names
  <2>3. /\ v \in [Names -> Nat] /\ v.chan = 1 /\ v.msgno = ch.uMsgno /\ v.seqno = ch.uSeqno
        /\ v.size = Len(raw)
        /\ \A m \in Names : m \notin {"chan", "msgno", "seqno", "size"} => v[m] = 0
    <3>1. /\ "chan" \in Names /\ "msgno" \in Names /\ "seqno" \in Names /\ "size" \in Names
          /\ "ansno" \in Names
      BY DEF Names
    <3>. HIDE DEF Names
    <3> QED BY <1>1, <2>1, <2>2, <3>1
  <2>4. f = [cmd |-> cmd, payload |-> raw, val |-> v]
    BY DEF MesgFram
  <2>. HIDE DEF v
  <2>5. f.cmd = cmd /\ f.payload = raw /\ f.val = v
    BY <2>4
  <2>6. f \in SrvFrames
    BY <1>2, <2>3, <2>4 DEF SrvFrames
  <2> QED BY <2>3, <2>5, <2>6
<1>4. SrvFram(f)
  <2>1. ASSUME NEW m \in Names, m = "more" \/ \A k \in DOMAIN Fields(f.cmd) : Fields(f.cmd)[k] # m
        PROVE  f.val[m] = 0
    <3>1. Fields(f.cmd) = <<"chan", "msgno", "more", "seqno", "size">>
      <4>1. Fields(f.cmd) = <<"chan", "msgno", "more", "seqno", "size">> \o <<>>
        BY <1>2, <1>3 DEF Fields
      <4> QED BY <4>1
    <3>2. m \notin {"chan", "msgno", "seqno", "size"}
      <4>1. /\ 1 \in DOMAIN Fields(f.cmd) /\ 2 \in DOMAIN Fields(f.cmd)
            /\ 4 \in DOMAIN Fields(f.cmd) /\ 5 \in DOMAIN Fields(f.cmd)
        BY <3>1
      <4>2. /\ Fields(f.cmd)[1] = "chan" /\ Fields(f.cmd)[2] = "msgno"
            /\ Fields(f.cmd)[4] = "seqno" /\ Fields(f.cmd)[5] = "size"
        BY <3>1
      <4> QED BY <2>1, <4>1, <4>2
    <3> QED BY <1>3, <3>2
  <2> QED BY <1>2, <1>3, <2>1 DEF SrvFram
<1>5. Len(Whole(f)) = 16 + Width(1) + Width(ch.uMsgno) + Width(ch.uSeqno) + Width(Len(raw)) + Len(raw)
  BY <1>2, <1>3, <1>4, ReplyLen
<1>6. Width(1) = 1 /\ Width(Len(raw)) = 1
  BY <1>1, WidthIs
<1>7. /\ Width(ch.uMsgno) <= 1 + ch.uMsgno \div 10 /\ Width(ch.uSeqno) <= 1 + ch.uSeqno \div 10
      /\ Width(ch.uMsgno) \in Nat /\ Width(ch.uSeqno) \in Nat
  BY WidthTenth, WidthIs
<1>8. /\ 10 * (ch.uMsgno \div 10) <= ch.uMsgno /\ 10 * (ch.uSeqno \div 10) <= ch.uSeqno
      /\ ch.uMsgno \div 10 \in Nat /\ ch.uSeqno \div 10 \in Nat
  <2>1. \A k \in Nat : 10 * (k \div 10) <= k /\ k \div 10 \in Nat
    OBVIOUS
  <2> QED BY <2>1
<1>9. Len(Whole(f)) <= FrameMax
  <2>. DEFINE l == Len(Whole(f))
              a == Width(ch.uMsgno)
              b == Width(ch.uSeqno)
              c == Len(raw)
              d == ch.uMsgno \div 10
              e == ch.uSeqno \div 10
              m == ch.uMsgno
              q == ch.uSeqno
  <2>1. /\ l = 18 + a + b + c /\ a <= 1 + d /\ b <= 1 + e /\ c <= 6
        /\ a \in Nat /\ b \in Nat /\ c \in Nat /\ d \in Nat /\ e \in Nat /\ m \in Nat /\ q \in Nat
        /\ 10 * d <= m /\ 10 * e <= q /\ m <= n /\ q <= 6 * n
    <3>1. l = 16 + 1 + a + b + 1 + c
      BY <1>5, <1>6, Zenon
    <3>2. a \in Nat /\ b \in Nat /\ a <= 1 + d /\ b <= 1 + e
      BY <1>7, Zenon
    <3>3. d \in Nat /\ e \in Nat /\ 10 * d <= m /\ 10 * e <= q
      BY <1>8, Zenon
    <3>4. c \in Nat /\ c <= 6 /\ m \in Nat /\ q \in Nat /\ m <= n /\ q <= 6 * n
      BY <1>1, Zenon
    <3>. HIDE DEF l, a, b, c, d, e, m, q
    <3>5. l = 18 + a + b + c
      BY <3>1, <3>2, <3>4
    <3> QED BY <3>2, <3>3, <3>4, <3>5, Zenon
  <2>. HIDE DEF l, a, b, c, d, e, m, q
  <2>2. l <= FrameMax
    BY <1>1, <2>1
  <2> QED BY <2>2 DEF l
<1> QED BY <1>2, <1>3, <1>4, <1>9 DEF SrvOK, Fits

-----------------------------------------------------------------------------
(***************************************************************************)
(* From the listener's queue to the client: qd is all that was queued, sq  *)
(* what of it is still there, ub how much of its first frame was sent, s   *)
(* the octets on their way and g the frames read.                          *)
(***************************************************************************)
AllSrv(fs) == fs \in Seq(SrvFrames) /\ \A i \in 1 .. Len(fs) : SrvOK(fs[i])

\* v is what has not been sent.
Waiting(v, qd, sq, ub) ==
  IF sq = <<>> THEN v = <<>>
  ELSE \E u \in Seq(Octet) :
         /\ v = SubSeq(Octets(sq[1]), ub + 1, Len(Octets(sq[1]))) \o u
         /\ Streams(u, qd, (Len(qd) - Len(sq)) + 1)

Pipe(qd, sq, ub, s, g) ==
  /\ AllSrv(qd)
  /\ sq \in Seq(SrvFrames) /\ Len(sq) <= Len(qd)
  /\ \A j \in 1 .. Len(sq) : sq[j] = qd[(Len(qd) - Len(sq)) + j]
  /\ ub \in Nat
  /\ sq = <<>> => ub = 0
  /\ sq # <<>> => ub < Len(Octets(sq[1]))
  /\ s \in Seq(Octet)
  /\ g \in Seq(SrvFrames) /\ Len(g) <= Len(qd)
  /\ \A i \in 1 .. Len(g) : g[i] = qd[i]
  /\ \E v \in Seq(Octet) : Streams(s \o v, qd, Len(g)) /\ Waiting(v, qd, sq, ub)

LEMMA SrvOctets ==
  ASSUME NEW f, SrvOK(f)
  PROVE  f \in SrvFrames /\ Octets(f) \in Seq(Octet) /\ Len(Octets(f)) \in Nat /\ Len(Octets(f)) >= 3
<1>1. SrvFram(f) /\ Fits(f) /\ f \in SrvFrames
  BY DEF SrvOK
<1>2. PICK R : Layout(f, R)
  BY <1>1, LayoutExists
<1>. DEFINE n == Len(Fields(f.cmd))
<1>3. Whole(f) \in Seq(Octet) /\ Whole(f) = f.cmd \o R[1] /\ R \in [1 .. n + 1 -> Seq(Octet)]
  BY <1>2 DEF Layout
<1>4. f.cmd \in Seq(Octet) /\ Len(f.cmd) = 3 /\ f.cmd \in ServerCommands
  BY <1>1, SrvTypes
<1>5. n \in Nat
  BY <1>4, SrvFields
<1>. HIDE DEF n
<1>6. 1 \in 1 .. n + 1
  BY <1>5
<1>7. R[1] \in Seq(Octet) /\ Len(R[1]) \in Nat
  BY <1>3, <1>6, OctetsLen
<1>8. Len(Whole(f)) = Len(f.cmd) + Len(R[1])
  BY <1>3, <1>4, <1>7, OctetsConcat, Zenon
<1>9. Octets(f) = Whole(f)
  BY <1>1 DEF Octets
<1>10. \A l \in Nat : 3 + l \in Nat /\ 3 + l >= 3
  OBVIOUS
<1>11. Len(Whole(f)) \in Nat /\ Len(Whole(f)) >= 3
  BY <1>4, <1>7, <1>8, <1>10, Zenon
<1> QED BY <1>1, <1>3, <1>9, <1>11, Zenon

LEMMA OctetCut ==
  ASSUME NEW b \in Seq(Octet), NEW k \in Nat, NEW n \in Nat, k + n <= Len(b)
  PROVE  /\ SubSeq(b, k + 1, k + n) \in Seq(Octet)
         /\ SubSeq(b, (k + n) + 1, Len(b)) \in Seq(Octet)
         /\ SubSeq(b, k + 1, Len(b)) = SubSeq(b, k + 1, k + n) \o SubSeq(b, (k + n) + 1, Len(b))
<1>. DEFINE L == Len(b)
            x == SubSeq(b, k + 1, k + n)
            y == SubSeq(b, (k + n) + 1, L)
            z == SubSeq(b, k + 1, L)
            m == L - (k + n)
<1>1. L \in Nat /\ m \in Nat /\ k + n <= L /\ L = (k + n) + m
  BY OctetsLen
<1>2. \A i \in 1 .. L : b[i] \in Octet
  OBVIOUS
<1>3. x \in Seq(Octet) /\ Len(x) = n /\ \A i \in 1 .. n : x[i] = b[k + i]
  <2>1. \A i \in k + 1 .. k + n : b[i] \in Octet
    BY <1>1, <1>2
  <2> QED BY <1>1, <2>1
<1>4. y \in Seq(Octet) /\ Len(y) = m /\ \A i \in 1 .. m : y[i] = b[(k + n) + i]
  <2>1. \A i \in (k + n) + 1 .. L : b[i] \in Octet
    BY <1>1, <1>2
  <2> QED BY <1>1, <2>1
<1>5. z \in Seq(Octet) /\ Len(z) = n + m /\ \A i \in 1 .. n + m : z[i] = b[k + i]
  <2>1. \A i \in k + 1 .. L : b[i] \in Octet
    BY <1>1, <1>2
  <2> QED BY <1>1, <2>1
<1>. HIDE DEF x, y, z, L, m
<1>6. /\ x \o y \in Seq(Octet) /\ Len(x \o y) = Len(x) + Len(y)
      /\ \A i \in 1 .. Len(x) + Len(y) : (x \o y)[i] = IF i <= Len(x) THEN x[i] ELSE y[i - Len(x)]
  <2>1. x \in Seq(Octet) /\ y \in Seq(Octet)
    BY <1>3, <1>4
  <2> QED BY <2>1, ConcatProperties
<1>7. ASSUME NEW i \in 1 .. n + m PROVE (x \o y)[i] = z[i]
  <2>1. (x \o y)[i] = IF i <= n THEN x[i] ELSE y[i - n]
    BY <1>3, <1>4, <1>6
  <2>2. CASE i <= n
    <3>1. i \in 1 .. n
      BY <2>2
    <3> QED BY <1>3, <1>5, <2>1, <2>2, <3>1
  <2>3. CASE ~(i <= n)
    <3>1. i - n \in 1 .. m /\ (k + n) + (i - n) = k + i
      BY <1>1, <2>3
    <3> QED BY <1>4, <1>5, <2>1, <2>3, <3>1
  <2> QED BY <2>2, <2>3
<1>8. Len(x \o y) = n + m
  BY <1>3, <1>4, <1>6
<1>9. x \o y = z
  BY <1>5, <1>6, <1>7, <1>8, SeqEqual
<1> QED BY <1>3, <1>4, <1>9 DEF x, y, z, L

LEMMA CutEnds ==
  ASSUME NEW b \in Seq(Octet)
  PROVE  SubSeq(b, 0 + 1, Len(b)) = b /\ SubSeq(b, Len(b) + 1, Len(b)) = <<>>
<1>1. Len(b) \in Nat /\ \A i \in 1 .. Len(b) : b[i] \in Octet
  OBVIOUS
<1>2. SubSeq(b, Len(b) + 1, Len(b)) = <<>>
  BY <1>1
<1>. DEFINE z == SubSeq(b, 0 + 1, Len(b))
<1>3. z \in Seq(Octet) /\ Len(z) = Len(b) /\ \A i \in 1 .. Len(b) : z[i] = b[i]
  <2>1. \A i \in 0 + 1 .. Len(b) : b[i] \in Octet
    BY <1>1
  <2> QED BY <1>1, <2>1
<1>. HIDE DEF z
<1>4. z = b
  BY <1>3, SeqEqual
<1> QED BY <1>2, <1>4 DEF z

LEMMA AllSrvType ==
  ASSUME NEW fs, AllSrv(fs)
  PROVE  /\ fs \in Seq(SrvFrames) /\ Len(fs) \in Nat
         /\ \A i \in 1 .. Len(fs) : SrvOK(fs[i]) /\ Octets(fs[i]) \in Seq(Octet)
BY SrvOctets DEF AllSrv

LEMMA AppendFram ==
  ASSUME NEW F, NEW fs \in Seq(F), NEW f \in F
  PROVE  /\ Append(fs, f) \in Seq(F) /\ Len(Append(fs, f)) = Len(fs) + 1
         /\ Append(fs, f) # <<>>
         /\ Append(fs, f)[Len(fs) + 1] = f
         /\ \A i \in 1 .. Len(fs) : Append(fs, f)[i] = fs[i]
OBVIOUS

\* The listener queues a frame.
LEMMA PipeAppend ==
  ASSUME NEW qd, NEW sq, NEW ub, NEW s, NEW g, Pipe(qd, sq, ub, s, g), NEW f, SrvOK(f)
  PROVE  Pipe(Append(qd, f), Append(sq, f), ub, s, g)
<1>. DEFINE qe == Append(qd, f)
            se == Append(sq, f)
            o == Octets(f)
<1>1. /\ AllSrv(qd) /\ qd \in Seq(SrvFrames) /\ Len(qd) \in Nat
      /\ \A i \in 1 .. Len(qd) : SrvOK(qd[i]) /\ Octets(qd[i]) \in Seq(Octet)
  BY AllSrvType DEF Pipe
<1>2. /\ sq \in Seq(SrvFrames) /\ Len(sq) <= Len(qd) /\ Len(sq) \in Nat
      /\ \A j \in 1 .. Len(sq) : sq[j] = qd[(Len(qd) - Len(sq)) + j]
      /\ ub \in Nat /\ (sq = <<>> => ub = 0) /\ (sq # <<>> => ub < Len(Octets(sq[1])))
      /\ s \in Seq(Octet)
      /\ g \in Seq(SrvFrames) /\ Len(g) <= Len(qd) /\ Len(g) \in Nat
      /\ \A i \in 1 .. Len(g) : g[i] = qd[i]
  BY DEF Pipe
<1>3. PICK v \in Seq(Octet) : Streams(s \o v, qd, Len(g)) /\ Waiting(v, qd, sq, ub)
  BY DEF Pipe
<1>4. f \in SrvFrames /\ o \in Seq(Octet) /\ Len(o) \in Nat /\ Len(o) >= 3
  BY SrvOctets
<1>5. /\ qe \in Seq(SrvFrames) /\ Len(qe) = Len(qd) + 1
      /\ qe[Len(qd) + 1] = f /\ \A i \in 1 .. Len(qd) : qe[i] = qd[i]
      /\ se \in Seq(SrvFrames) /\ Len(se) = Len(sq) + 1
      /\ se[Len(sq) + 1] = f /\ (\A i \in 1 .. Len(sq) : se[i] = sq[i]) /\ se # <<>>
  <2>1. /\ qe \in Seq(SrvFrames) /\ Len(qe) = Len(qd) + 1
        /\ qe[Len(qd) + 1] = f /\ \A i \in 1 .. Len(qd) : qe[i] = qd[i]
    <3>1. qd \in Seq(SrvFrames) /\ f \in SrvFrames
      BY <1>1, <1>4
    <3> QED BY <3>1, AppendFram
  <2>2. /\ se \in Seq(SrvFrames) /\ Len(se) = Len(sq) + 1
        /\ se[Len(sq) + 1] = f /\ (\A i \in 1 .. Len(sq) : se[i] = sq[i]) /\ se # <<>>
    <3>1. sq \in Seq(SrvFrames) /\ f \in SrvFrames
      BY <1>2, <1>4
    <3> QED BY <3>1, AppendFram
  <2> QED BY <2>1, <2>2, Zenon
<1>. HIDE DEF qe, se
<1>6. AllSrv(qe)
  <2>1. ASSUME NEW i \in 1 .. Len(qe) PROVE SrvOK(qe[i])
    <3>1. i \in 1 .. Len(qd) \/ i = Len(qd) + 1
      BY <1>1, <1>5
    <3> QED BY <1>1, <1>5, <3>1
  <2> QED BY <1>5, <2>1 DEF AllSrv
<1>7. ASSUME NEW j \in 1 .. Len(se) PROVE se[j] = qe[(Len(qe) - Len(se)) + j]
  <2>1. (Len(qe) - Len(se)) + j = (Len(qd) - Len(sq)) + j
    BY <1>1, <1>2, <1>5
  <2>2. CASE j \in 1 .. Len(sq)
    <3>1. (Len(qd) - Len(sq)) + j \in 1 .. Len(qd)
      BY <1>1, <1>2, <2>2
    <3> QED BY <1>2, <1>5, <2>1, <2>2, <3>1
  <2>3. CASE j = Len(sq) + 1
    <3>1. (Len(qd) - Len(sq)) + j = Len(qd) + 1
      BY <1>1, <1>2, <2>3
    <3> QED BY <1>5, <2>1, <2>3, <3>1
  <2>4. j \in 1 .. Len(sq) \/ j = Len(sq) + 1
    BY <1>2, <1>5
  <2> QED BY <2>2, <2>3, <2>4
<1>8. ub < Len(Octets(se[1]))
  <2>1. CASE sq = <<>>
    <3>1. Len(sq) = 0
      BY <2>1
    <3>2. se[1] = f
      BY <1>5, <3>1
    <3> QED BY <1>2, <1>4, <2>1, <3>2
  <2>2. CASE sq # <<>>
    <3>1. 1 \in 1 .. Len(sq)
      BY <1>2, <2>2
    <3> QED BY <1>2, <1>5, <2>2, <3>1
  <2> QED BY <2>1, <2>2
<1>9. Streams((s \o v) \o o, qe, Len(g))
  BY <1>1, <1>2, <1>3, <1>4, StreamsAppend, Zenon DEF qe
<1>10. (s \o v) \o o = s \o (v \o o) /\ v \o o \in Seq(Octet)
  <2>. HIDE DEF o
  <2>1. s \in Seq(Octet) /\ v \in Seq(Octet) /\ o \in Seq(Octet)
    BY <1>2, <1>4
  <2>2. (s \o v) \o o = s \o (v \o o)
    BY <2>1, OctetsAssoc, ZenonT(30)
  <2>3. v \o o \in Seq(Octet)
    BY <2>1, OctetsConcat, Zenon
  <2> QED BY <2>2, <2>3
<1>11. Waiting(v \o o, qe, se, ub)
  <2>1. CASE sq = <<>>
    <3>1. v = <<>> /\ ub = 0 /\ Len(sq) = 0
      BY <1>2, <1>3, <2>1 DEF Waiting
    <3>2. se[1] = f
      BY <1>5, <3>1
    <3>3. SubSeq(o, 0 + 1, Len(o)) = o
      BY <1>4, CutEnds
    <3>4. Streams(<<>>, qe, Len(qe))
      BY <1>5, StreamsEmpty
    <3>5. (Len(qe) - Len(se)) + 1 = Len(qe)
      BY <1>1, <1>5, <3>1
    <3>6. v \o o = o \o <<>> /\ <<>> \in Seq(Octet)
      BY <1>4, <3>1
    <3>. HIDE DEF o
    <3> QED BY <1>5, <3>1, <3>2, <3>3, <3>4, <3>5, <3>6 DEF Waiting, o
  <2>2. CASE sq # <<>>
    <3>. DEFINE x == SubSeq(Octets(sq[1]), ub + 1, Len(Octets(sq[1])))
                k == (Len(qd) - Len(sq)) + 1
    <3>1. PICK u \in Seq(Octet) : v = x \o u /\ Streams(u, qd, k)
      BY <1>3, <2>2 DEF Waiting
    <3>2. se[1] = sq[1] /\ SrvOK(sq[1])
      <4>1. 1 \in 1 .. Len(sq)
        BY <1>2, <2>2
      <4>2. k \in 1 .. Len(qd)
        BY <1>1, <1>2, <4>1
      <4>3. sq[1] = qd[k]
        BY <1>2, <4>1
      <4> QED BY <1>1, <1>5, <4>1, <4>2, <4>3
    <3>3. x \in Seq(Octet)
      <4>1. Octets(sq[1]) \in Seq(Octet) /\ Len(Octets(sq[1])) \in Nat
        BY <3>2, SrvOctets
      <4>. DEFINE b == Octets(sq[1])
                  n == Len(b) - ub
      <4>2. n \in Nat /\ ub + n <= Len(b) /\ ub + n = Len(b)
        BY <1>2, <2>2, <4>1
      <4>. HIDE DEF n
      <4>3. SubSeq(b, ub + 1, ub + n) \in Seq(Octet)
        BY <1>2, <4>1, <4>2, OctetCut
      <4> QED BY <4>2, <4>3
    <3>4. (x \o u) \o o = x \o (u \o o) /\ u \o o \in Seq(Octet)
      <4>. HIDE DEF x, o
      <4>1. x \in Seq(Octet) /\ u \in Seq(Octet) /\ o \in Seq(Octet)
        BY <1>4, <3>3
      <4>2. (x \o u) \o o = x \o (u \o o)
        BY <4>1, OctetsAssoc, ZenonT(30)
      <4>3. u \o o \in Seq(Octet)
        BY <4>1, OctetsConcat, Zenon
      <4> QED BY <4>2, <4>3
    <3>5. k \in Nat /\ k <= Len(qd) /\ (Len(qe) - Len(se)) + 1 = k
      <4>1. Len(sq) >= 1
        BY <1>2, <2>2
      <4> QED BY <1>1, <1>2, <1>5, <4>1
    <3>6. Streams(u \o o, qe, k)
      <4>. HIDE DEF k
      <4> QED BY <1>1, <1>4, <3>1, <3>5, StreamsAppend, Zenon DEF qe
    <3>7. v \o o = x \o (u \o o)
      BY <3>1, <3>4
    <3>. HIDE DEF o, k
    <3>8. v \o o = SubSeq(Octets(se[1]), ub + 1, Len(Octets(se[1]))) \o (u \o o)
      BY <3>2, <3>7
    <3> QED BY <1>5, <3>4, <3>5, <3>6, <3>8, Zenon DEF Waiting
  <2> QED BY <2>1, <2>2
<1>12. Len(g) <= Len(qe) /\ \A i \in 1 .. Len(g) : g[i] = qe[i]
  <2>1. \A i \in 1 .. Len(g) : i \in 1 .. Len(qd)
    BY <1>1, <1>2
  <2> QED BY <1>1, <1>2, <1>5, <2>1
<1>13. Len(se) <= Len(qe)
  BY <1>1, <1>2, <1>5
<1>14. Streams(s \o (v \o o), qe, Len(g))
  BY <1>9, <1>10
<1>. HIDE DEF o
<1>15. Pipe(qe, se, ub, s, g)
  BY <1>2, <1>5, <1>6, <1>7, <1>8, <1>10, <1>11, <1>12, <1>13, <1>14, Zenon DEF Pipe
<1> QED BY <1>15 DEF qe, se

\* sbLstnSendFram: n octets more, of the first frame.
LEMMA PipeSend ==
  ASSUME NEW qd, NEW sq, NEW ub, NEW s, NEW g, Pipe(qd, sq, ub, s, g), sq # <<>>,
         NEW b, b = Octets(sq[1]), NEW n \in 1 .. Len(b) - ub
  PROVE  /\ ub + n = Len(b) => Pipe(qd, Tail(sq), 0, s \o SubSeq(b, ub + 1, ub + n), g)
         /\ ub + n # Len(b) => Pipe(qd, sq, ub + n, s \o SubSeq(b, ub + 1, ub + n), g)
<1>1. /\ AllSrv(qd) /\ qd \in Seq(SrvFrames) /\ Len(qd) \in Nat
      /\ \A i \in 1 .. Len(qd) : SrvOK(qd[i]) /\ Octets(qd[i]) \in Seq(Octet)
  BY AllSrvType DEF Pipe
<1>2. /\ sq \in Seq(SrvFrames) /\ Len(sq) <= Len(qd) /\ Len(sq) \in Nat
      /\ \A j \in 1 .. Len(sq) : sq[j] = qd[(Len(qd) - Len(sq)) + j]
      /\ ub \in Nat /\ ub < Len(b)
      /\ s \in Seq(Octet)
      /\ g \in Seq(SrvFrames) /\ Len(g) <= Len(qd) /\ Len(g) \in Nat
      /\ \A i \in 1 .. Len(g) : g[i] = qd[i]
  BY DEF Pipe
<1>3. PICK v \in Seq(Octet) : Streams(s \o v, qd, Len(g)) /\ Waiting(v, qd, sq, ub)
  BY DEF Pipe
<1>. DEFINE k == (Len(qd) - Len(sq)) + 1
<1>4. k \in 1 .. Len(qd) /\ sq[1] = qd[k] /\ SrvOK(sq[1]) /\ Len(sq) >= 1
  <2>1. 1 \in 1 .. Len(sq)
    BY <1>2
  <2>2. k \in 1 .. Len(qd)
    BY <1>1, <1>2, <2>1
  <2>3. sq[1] = qd[k]
    BY <1>2, <2>1
  <2> QED BY <1>1, <2>1, <2>2, <2>3
<1>5. b \in Seq(Octet) /\ Len(b) \in Nat
  BY <1>4, SrvOctets
<1>6. n \in Nat /\ n >= 1 /\ ub + n <= Len(b) /\ ub + n \in Nat
  BY <1>2, <1>5
<1>. DEFINE x == SubSeq(b, ub + 1, ub + n)
            y == SubSeq(b, (ub + n) + 1, Len(b))
            t == s \o x
<1>7. x \in Seq(Octet) /\ y \in Seq(Octet) /\ SubSeq(b, ub + 1, Len(b)) = x \o y
  BY <1>2, <1>5, <1>6, OctetCut
<1>8. PICK u \in Seq(Octet) : v = (x \o y) \o u /\ Streams(u, qd, k)
  BY <1>3, <1>7 DEF Waiting
<1>9. y = SubSeq(b, (ub + n) + 1, Len(b)) /\ x = SubSeq(b, ub + 1, ub + n)
  OBVIOUS
<1>. HIDE DEF x, y, k
<1>10. /\ t \in Seq(Octet) /\ y \o u \in Seq(Octet)
       /\ s \o v = t \o (y \o u)
  <2>1. (x \o y) \o u = x \o (y \o u) /\ y \o u \in Seq(Octet)
    <3>1. x \in Seq(Octet) /\ y \in Seq(Octet) /\ u \in Seq(Octet)
      BY <1>7, <1>8
    <3>2. (x \o y) \o u = x \o (y \o u)
      BY <3>1, OctetsAssoc, ZenonT(30)
    <3>3. y \o u \in Seq(Octet)
      BY <3>1, OctetsConcat, Zenon
    <3> QED BY <3>2, <3>3
  <2>. DEFINE z == y \o u
  <2>2. z \in Seq(Octet)
    BY <2>1
  <2>. HIDE DEF z
  <2>3. s \o x \in Seq(Octet) /\ (s \o x) \o z = s \o (x \o z)
    <3>1. s \in Seq(Octet) /\ x \in Seq(Octet) /\ z \in Seq(Octet)
      BY <1>2, <1>7, <2>2
    <3>2. (s \o x) \o z = s \o (x \o z)
      BY <3>1, OctetsAssoc, ZenonT(30)
    <3>3. s \o x \in Seq(Octet)
      BY <3>1, OctetsConcat, Zenon
    <3> QED BY <3>2, <3>3
  <2> QED BY <1>8, <2>1, <2>3, Zenon DEF z
<1>. HIDE DEF t
<1>11. Streams(t \o (y \o u), qd, Len(g))
  BY <1>3, <1>10
<1>12. ASSUME ub + n # Len(b) PROVE Pipe(qd, sq, ub + n, t, g)
  <2>1. ub + n < Len(b)
    BY <1>5, <1>6, <1>12
  <2>2. Waiting(y \o u, qd, sq, ub + n)
    BY <1>8, <1>9, Zenon DEF Waiting, k
  <2> QED BY <1>1, <1>2, <1>6, <1>10, <1>11, <2>1, <2>2, Zenon DEF Pipe
<1>13. ASSUME ub + n = Len(b) PROVE Pipe(qd, Tail(sq), 0, t, g)
  <2>. DEFINE r == Tail(sq)
  <2>1. /\ r \in Seq(SrvFrames) /\ Len(r) = Len(sq) - 1
        /\ \A j \in 1 .. Len(sq) - 1 : r[j] = sq[j + 1]
    BY <1>2, <1>4
  <2>. HIDE DEF r
  <2>2. y = <<>>
    <3>1. SubSeq(b, Len(b) + 1, Len(b)) = <<>>
      BY <1>5, CutEnds
    <3> QED BY <1>9, <1>13, <3>1
  <2>3. y \o u = u
    BY <1>8, <2>2
  <2>4. ASSUME NEW j \in 1 .. Len(r) PROVE r[j] = qd[(Len(qd) - Len(r)) + j]
    <3>1. /\ j \in 1 .. Len(sq) - 1 /\ j + 1 \in 1 .. Len(sq)
          /\ (Len(qd) - Len(r)) + j = (Len(qd) - Len(sq)) + (j + 1)
      BY <1>1, <1>2, <2>1
    <3> QED BY <1>2, <2>1, <3>1
  <2>5. Len(r) <= Len(qd) /\ Len(r) \in Nat /\ k \in Nat /\ k <= Len(qd) /\ k = Len(qd) - Len(r)
    BY <1>1, <1>2, <1>4, <2>1 DEF k
  <2>6. Waiting(u, qd, r, 0) /\ (r # <<>> => 0 < Len(Octets(r[1])))
    <3>1. CASE r = <<>>
      <4>1. k = Len(qd)
        BY <1>1, <2>5, <3>1
      <4>2. u = <<>>
        BY <1>1, <1>8, <2>5, <4>1, StreamsFirst
      <4> QED BY <3>1, <4>2 DEF Waiting
    <3>2. CASE r # <<>>
      <4>1. Len(r) >= 1 /\ 1 \in 1 .. Len(r)
        BY <2>1, <2>5, <3>2
      <4>2. k < Len(qd) /\ (Len(qd) - Len(r)) + 1 = k + 1 /\ k + 1 \in 1 .. Len(qd)
        BY <1>1, <2>5, <4>1
      <4>3. PICK w \in Seq(Octet) : u = Octets(qd[k + 1]) \o w /\ Streams(w, qd, k + 1)
        BY <1>1, <1>8, <2>5, <4>2, StreamsFirst
      <4>4. r[1] = qd[k + 1] /\ SrvOK(r[1])
        BY <1>1, <2>4, <4>1, <4>2
      <4>5. Octets(r[1]) \in Seq(Octet) /\ Len(Octets(r[1])) \in Nat /\ Len(Octets(r[1])) >= 3
        BY <4>4, SrvOctets
      <4>6. SubSeq(Octets(r[1]), 0 + 1, Len(Octets(r[1]))) = Octets(r[1])
        BY <4>5, CutEnds
      <4>7. 0 < Len(Octets(r[1]))
        BY <4>5
      <4> QED BY <3>2, <4>2, <4>3, <4>4, <4>6, <4>7, Zenon DEF Waiting
    <3> QED BY <3>1, <3>2
  <2>7. 0 \in Nat /\ (r = <<>> => 0 = 0) /\ u \in Seq(Octet) /\ Streams(t \o u, qd, Len(g))
    BY <1>8, <1>11, <2>3
  <2>8. Pipe(qd, r, 0, t, g)
    BY <1>1, <1>2, <1>10, <2>1, <2>4, <2>5, <2>6, <2>7, Zenon DEF Pipe
  <2> QED BY <2>8 DEF r
<1> QED BY <1>12, <1>13, Zenon DEF t, x

\* The blocking reader takes a frame.
LEMMA PipeReceive ==
  ASSUME NEW qd, NEW sq, NEW ub, NEW s, NEW g, Pipe(qd, sq, ub, s, g),
         LF \in ToSet(s), NEW r, r = RecvFram(s), r.len <= Len(s)
  PROVE  /\ Len(g) < Len(qd) /\ r.ok /\ r.fram = qd[Len(g) + 1]
         /\ Pipe(qd, sq, ub, SubSeq(s, r.len + 1, Len(s)), Append(g, r.fram))
<1>1. /\ AllSrv(qd) /\ qd \in Seq(SrvFrames) /\ Len(qd) \in Nat
      /\ \A i \in 1 .. Len(qd) : SrvOK(qd[i]) /\ Octets(qd[i]) \in Seq(Octet)
  BY AllSrvType DEF Pipe
<1>2. /\ sq \in Seq(SrvFrames) /\ Len(sq) <= Len(qd)
      /\ \A j \in 1 .. Len(sq) : sq[j] = qd[(Len(qd) - Len(sq)) + j]
      /\ ub \in Nat /\ (sq = <<>> => ub = 0) /\ (sq # <<>> => ub < Len(Octets(sq[1])))
      /\ s \in Seq(Octet)
      /\ g \in Seq(SrvFrames) /\ Len(g) <= Len(qd) /\ Len(g) \in Nat
      /\ \A i \in 1 .. Len(g) : g[i] = qd[i]
  BY DEF Pipe
<1>3. PICK v \in Seq(Octet) : Streams(s \o v, qd, Len(g)) /\ Waiting(v, qd, sq, ub)
  BY DEF Pipe
<1>. DEFINE k == Len(g)
            f == qd[k + 1]
            t == SubSeq(s, r.len + 1, Len(s))
            h == Append(g, f)
<1>4. k < Len(qd)
  <2>. SUFFICES ASSUME ~(k < Len(qd)) PROVE FALSE
    OBVIOUS
  <2>1. k = Len(qd)
    BY <1>1, <1>2
  <2>2. s \o v = <<>>
    BY <1>1, <1>2, <1>3, <2>1, StreamsFirst
  <2>3. Len(s) = 0
    <3>1. Len(s \o v) = Len(s) + Len(v) /\ Len(s) \in Nat /\ Len(v) \in Nat
      BY <1>2, <1>3, OctetsConcat, OctetsLen
    <3>2. Len(s \o v) = 0
      BY <2>2
    <3> QED BY <3>1, <3>2
  <2>4. \E i \in 1 .. Len(s) : s[i] = LF
    <3>1. DOMAIN s = 1 .. Len(s)
      BY <1>2
    <3> QED BY <3>1 DEF ToSet
  <2> QED BY <2>3, <2>4
<1>5. k + 1 \in 1 .. Len(qd) /\ SrvOK(f)
  BY <1>1, <1>2, <1>4
<1>6. PICK x \in Seq(Octet) : s \o v = Octets(f) \o x /\ Streams(x, qd, k + 1)
  BY <1>1, <1>2, <1>3, <1>4, StreamsFirst
<1>7. SrvFram(f) /\ Fits(f) /\ f \in SrvFrames
  BY <1>5 DEF SrvOK
<1>. HIDE DEF f, t
<1>8. /\ r.ok /\ r.fram = f /\ t \in Seq(Octet) /\ t \o v = x
  <2>1. RecvFram(s).len <= Len(s) => Takes(RecvFram(s), s, f, v, x)
    <3>1. s \in Seq(Octet) /\ v \in Seq(Octet) /\ x \in Seq(Octet) /\ s \o v = Octets(f) \o x
      BY <1>2, <1>3, <1>6
    <3>2. SrvFram(f) /\ Fits(f) /\ LF \in ToSet(s)
      BY <1>7
    <3> QED BY <3>1, <3>2, ReadsFrame, Zenon
  <2>2. Takes(r, s, f, v, x)
    BY <2>1
  <2> QED BY <2>2, Zenon DEF t, Takes
<1>9. /\ h \in Seq(SrvFrames) /\ Len(h) = k + 1 /\ h[k + 1] = f
      /\ \A i \in 1 .. k : h[i] = g[i]
  BY <1>2, <1>7, AppendFram
<1>. HIDE DEF h
<1>10. ASSUME NEW i \in 1 .. Len(h) PROVE h[i] = qd[i]
  <2>1. i \in 1 .. k \/ i = k + 1
    BY <1>2, <1>9
  <2> QED BY <1>2, <1>9, <2>1 DEF f
<1>11. Len(h) <= Len(qd) /\ Streams(t \o v, qd, Len(h))
  BY <1>1, <1>2, <1>4, <1>6, <1>8, <1>9
<1>12. Pipe(qd, sq, ub, t, h)
  BY <1>1, <1>2, <1>3, <1>8, <1>9, <1>10, <1>11, Zenon DEF Pipe
<1>13. h = Append(g, r.fram) /\ r.fram = qd[Len(g) + 1]
  BY <1>8, Zenon DEF h, f
<1> QED BY <1>4, <1>8, <1>12, <1>13, Zenon DEF t

-----------------------------------------------------------------------------
(***************************************************************************)
(* The numbers in the frames, and what keeps them small.                   *)
(***************************************************************************)
Room(n) == n * FrameMax

ClientNums ==
  /\ Len(logged) <= MaxLogs
  /\ chan.uSeqno <= Room(Len(logged))
  /\ cpc = "send" => pend.val.seqno + pend.val.size <= Room(Len(logged))
  /\ \A i \in 1 .. Len(sent) : sent[i].val.seqno + sent[i].val.size <= Room(Len(logged))

\* A reply carries 3 or 6 octets.
ListenerNums ==
  /\ lchan = [uMsgno |-> lchan.uMsgno, uSeqno |-> lchan.uSeqno]
  /\ lchan.uMsgno \in Nat /\ lchan.uMsgno <= Len(built)
  /\ lchan.uSeqno \in Nat /\ lchan.uSeqno <= 6 * Len(built)

NInv == TInv /\ ClientNums /\ ListenerNums

LEMMA RoomIs ==
  \A n \in Nat : /\ Room(n) \in Nat /\ Room(n + 1) = Room(n) + FrameMax
                 /\ n <= MaxLogs => Room(n) <= MaxLogs * FrameMax
<1>. SUFFICES ASSUME NEW n \in Nat
              PROVE  /\ Room(n) \in Nat /\ Room(n + 1) = Room(n) + FrameMax
                     /\ n <= MaxLogs => Room(n) <= MaxLogs * FrameMax
  OBVIOUS
<1>1. FrameMax \in Nat /\ MaxLogs \in Nat
  BY StreamAssumption
<1>2. n <= MaxLogs => n * FrameMax <= MaxLogs * FrameMax
  BY <1>1, TimesGrows
<1>3. n * FrameMax \in Nat /\ (n + 1) * FrameMax = n * FrameMax + FrameMax
  BY <1>1
<1> QED BY <1>2, <1>3, Zenon DEF Room

LEMMA InitNums ==
  Init => ClientNums /\ ListenerNums
<1>. SUFFICES ASSUME Init PROVE ClientNums /\ ListenerNums
  OBVIOUS
<1>1. /\ logged = <<>> /\ sent = <<>> /\ built = <<>> /\ cpc = "idle"
      /\ chan.uSeqno = 0 /\ lchan = [uMsgno |-> 0, uSeqno |-> 0]
  BY DEF Init
<1>2. Len(logged) = 0 /\ Len(sent) = 0 /\ Len(built) = 0
  BY <1>1
<1>3. MaxLogs \in Nat /\ FrameMax \in Nat /\ Room(0) = 0
  BY StreamAssumption DEF Room
<1>4. ClientNums
  BY <1>1, <1>2, <1>3 DEF ClientNums
<1>5. ListenerNums
  BY <1>1, <1>2 DEF ListenerNums
<1> QED BY <1>4, <1>5

LEMMA LogMesgNums ==
  ASSUME TInv, ClientNums, NEW t \in Texts, LogMesg(t)
  PROVE  ClientNums'
<1>. DEFINE raw == Mesg(<<>>, t)
            f == MesgFram(chan, LogCmd, raw, IF profile = "RAW" THEN chan.uAnsno ELSE 0)
            ch == [Advance(chan, f) EXCEPT !.uAnsno = IF profile = "RAW" THEN @ + 1 ELSE @]
            n == Len(logged)
            sz == Len(raw)
<1>1. /\ cpc' = "send" /\ sent' = sent /\ logged' = Append(logged, t) /\ n < MaxLogs
      /\ pend' = f
      /\ DoReceive(ch) \/ chan' = ch
  BY DEF LogMesg, clntHist
<1>2. logged \in Seq(Texts) /\ n \in Nat /\ Len(logged') = n + 1
  BY <1>1 DEF TInv, ClientTexts
<1>3. ChanOK(chan) /\ sent \in Seq(Frames) /\ Len(sent) \in Nat
      /\ \A i \in 1 .. Len(sent) : DataFram(sent[i])
  BY SentType, AllDataType DEF TInv, IInv, ClientOK
<1>4. sz \in Nat /\ sz <= FrameMax
  <2>1. t \in Seq(Octet) /\ Len(t) + 2 < FrameMax /\ Len(t) \in Nat
    BY TextType, StreamAssumption, OctetsLen
  <2>2. <<>> \o CRLF = CRLF
    BY CRLFLen, ConcatEmptySeq
  <2>3. Len(CRLF \o t) = 2 + Len(t)
    BY <2>1, CRLFLen, OctetsConcat
  <2>4. sz = 2 + Len(t)
    BY <2>2, <2>3 DEF Mesg
  <2>. HIDE DEF sz
  <2> QED BY <2>1, <2>4, StreamAssumption
<1>. HIDE DEF raw, sz
<1>5. f.val.seqno = chan.uSeqno /\ f.val.size = sz
  <2>1. NoVal \in [Names -> Nat] /\ "seqno" \in Names /\ "size" \in Names
    BY DEF NoVal, Names
  <2> QED BY <2>1 DEF MesgFram, sz
<1>6. ch.uSeqno = chan.uSeqno + sz
  <2>. DEFINE a == Advance(chan, f)
  <2>1. a = [chan EXCEPT !.uMsgno = chan.uMsgno + 1, !.uSeqno = chan.uSeqno + f.val.size]
    BY DEF Advance
  <2>. HIDE DEF f, a
  <2>2. a = [m \in ChanFields |-> a[m]] /\ a.uSeqno = chan.uSeqno + sz
    <3>. DEFINE i == chan.uMsgno + 1
                j == chan.uSeqno + f.val.size
    <3>1. a = [chan EXCEPT !.uMsgno = i, !.uSeqno = j]
      BY <2>1
    <3>2. j = chan.uSeqno + sz
      BY <1>5
    <3>. HIDE DEF i, j
    <3>3. a = [m \in ChanFields |-> a[m]] /\ a.uSeqno = j
      BY <1>3, <3>1 DEF ChanOK, ChanFields
    <3> QED BY <3>2, <3>3
  <2>3. [a EXCEPT !.uAnsno = IF profile = "RAW" THEN @ + 1 ELSE @].uSeqno = a.uSeqno
    BY <2>2 DEF ChanFields
  <2> QED BY <2>2, <2>3 DEF a
<1>. HIDE DEF f, ch
<1>7. chan'.uSeqno = chan.uSeqno + sz
  <2>1. chan' = ch \/ \E x : chan' = [ch EXCEPT !.uTXWinLeft = x]
    BY <1>1 DEF DoReceive
  <2>2. \A x : [ch EXCEPT !.uTXWinLeft = x].uSeqno = ch.uSeqno
    <3>1. \A c, k, x, y : "uSeqno" \in DOMAIN c => [c EXCEPT !.uTXWinLeft = x].uSeqno = c.uSeqno
      OBVIOUS
    <3>2. "uSeqno" \in DOMAIN ch
      <4>1. DOMAIN chan = ChanFields
        BY <1>3 DEF ChanOK
      <4> QED BY <4>1 DEF ch, Advance, ChanFields
    <3> QED BY <3>1, <3>2
  <2> QED BY <1>6, <2>1, <2>2
<1>8. chan.uSeqno \in Nat /\ chan.uSeqno <= Room(n)
  BY <1>3 DEF ChanOK, ClientNums
<1>9. Room(n) \in Nat /\ Room(n + 1) = Room(n) + FrameMax /\ FrameMax \in Nat
  BY <1>2, RoomIs, StreamAssumption
<1>10. chan'.uSeqno <= Room(n + 1) /\ pend'.val.seqno + pend'.val.size <= Room(n + 1)
  <2>1. \A a, b, c, d \in Nat : a <= b /\ c <= d => a + c <= b + d
    OBVIOUS
  <2>2. chan.uSeqno + sz <= Room(n) + FrameMax
    BY <1>4, <1>8, <1>9, <2>1, Zenon
  <2> QED BY <1>1, <1>5, <1>7, <1>9, <2>2, Zenon
<1>11. ASSUME NEW i \in 1 .. Len(sent)
       PROVE  sent[i].val.seqno + sent[i].val.size <= Room(n + 1)
  <2>1. sent[i].val.seqno + sent[i].val.size <= Room(n)
    BY DEF ClientNums
  <2>2. sent[i].val.seqno + sent[i].val.size \in Nat
    <3>1. DataFram(sent[i])
      BY <1>3
    <3> QED BY <3>1 DEF DataFram, Names
  <2> QED BY <1>9, <2>1, <2>2
<1>12. n + 1 <= MaxLogs
  BY <1>1, <1>2, StreamAssumption
<1> QED BY <1>1, <1>2, <1>10, <1>11, <1>12 DEF ClientNums

LEMMA ReceiveKeepsSeqno ==
  ASSUME ChanOK(chan), DoReceive(chan)
  PROVE  chan'.uSeqno = chan.uSeqno
<1>1. chan' = chan \/ \E x : chan' = [chan EXCEPT !.uTXWinLeft = x]
  BY DEF DoReceive
<1>2. \A x : [chan EXCEPT !.uTXWinLeft = x].uSeqno = chan.uSeqno
  BY DEF ChanOK, ChanFields
<1> QED BY <1>1, <1>2

LEMMA OthersNums ==
  ASSUME TInv, ClientNums, [Next]_vars, ~\E t \in Texts : LogMesg(t)
  PROVE  ClientNums'
<1>1. ChanOK(chan) /\ sent \in Seq(Frames) /\ Len(sent) \in Nat
  BY SentType DEF TInv, IInv, ClientOK
<1>2. CASE SendFram
  <2>1. /\ cpc = "send" /\ cpc' # "send" /\ sent' = Append(sent, pend) /\ logged' = logged
        /\ chan' = [chan EXCEPT !.uTXWinLeft = @ - pend.val.size]
    BY <1>2 DEF SendFram
  <2>2. chan'.uSeqno = chan.uSeqno
    BY <1>1, <2>1 DEF ChanOK, ChanFields
  <2>3. ASSUME NEW i \in 1 .. Len(sent')
        PROVE  sent'[i].val.seqno + sent'[i].val.size <= Room(Len(logged))
    <3>1. (i \in 1 .. Len(sent) /\ sent'[i] = sent[i]) \/ sent'[i] = pend
      BY <1>1, <2>1
    <3> QED BY <2>1, <3>1 DEF ClientNums
  <2> QED BY <2>1, <2>2, <2>3 DEF ClientNums
<1>3. CASE AwaitFram
  <2>1. sent' = sent /\ logged' = logged /\ pend' = pend /\ DoReceive(chan)
    BY <1>3 DEF AwaitFram
  <2>2. cpc' = "send" => cpc = "send"
    BY <1>3 DEF AwaitFram
  <2>3. chan'.uSeqno = chan.uSeqno
    BY <1>1, <2>1, ReceiveKeepsSeqno
  <2> QED BY <2>1, <2>2, <2>3 DEF ClientNums
<1>4. CASE ~SendFram /\ ~AwaitFram
  <2>1. sent' = sent /\ logged' = logged /\ pend' = pend /\ chan' = chan
        /\ (cpc' = "send" => cpc = "send")
    BY <1>4 DEF Next, TakeReply, LstnBuildFrame, LstnOnFramRcvd, LstnCrash, LstnSendFram,
                vars, clntVars, clntHist
  <2> QED BY <2>1 DEF ClientNums
<1> QED BY <1>2, <1>3, <1>4

-----------------------------------------------------------------------------
(***************************************************************************)
(* What the listener answers.                                              *)
(***************************************************************************)
Outcome(t) == IF t \in Unparsable THEN [cmd |-> ERR, text |-> ErrReply]
              ELSE [cmd |-> RPY, text |-> OkReply]

\* r tells the client what became of its text t.
Reports(r, t) ==
  r.cmd # SEQ /\ [cmd |-> r.cmd, text |-> MIMEExtract(r.payload)] = Outcome(t)

OkRaw == Mesg(<<>>, OkReply)
ErrRaw == Mesg(MIMEHdr, ErrReply)

LEMMA OkRawIs ==
  /\ OkRaw \in Seq(Octet) /\ Len(OkRaw) = 3 /\ OkRaw # <<>>
  /\ MIMEExtract(OkRaw) = OkReply
<1>1. "k" \in Octet
  BY DEF Octet, Literals
<1>2. OkReply \in Seq(Octet) /\ Len(OkReply) = 1
  BY <1>1 DEF OkReply
<1>3. <<>> \o CRLF = CRLF
  BY CRLFLen, ConcatEmptySeq
<1>4. OkRaw = CRLF \o OkReply
  BY <1>3 DEF OkRaw, Mesg
<1>5. OkRaw \in Seq(Octet) /\ Len(OkRaw) = 2 + 1
  BY <1>2, <1>4, CRLFLen, OctetsConcat
<1>6. OkRaw # <<>>
  BY <1>5
<1>7. MIMEExtract(OkRaw) = OkReply
  BY <1>2, MIMEExtractText DEF OkRaw
<1> QED BY <1>5, <1>6, <1>7

LEMMA SixOctets ==
  ASSUME NEW a \in Octet, NEW b \in Octet, NEW c \in Octet, NEW d \in Octet,
         NEW e \in Octet, NEW f \in Octet
  PROVE  (<<a, b, c>> \o <<d, e>>) \o <<f>> = <<a, b, c, d, e, f>>
<1>. DEFINE x == <<a, b, c>>
            y == <<d, e>>
            z == <<f>>
            w == <<a, b, c, d, e, f>>
<1>1. /\ x \in Seq(Octet) /\ Len(x) = 3 /\ x[1] = a /\ x[2] = b /\ x[3] = c
      /\ y \in Seq(Octet) /\ Len(y) = 2 /\ y[1] = d /\ y[2] = e
      /\ z \in Seq(Octet) /\ Len(z) = 1 /\ z[1] = f
  OBVIOUS
<1>2. /\ w \in Seq(Octet) /\ Len(w) = 6
      /\ w[1] = a /\ w[2] = b /\ w[3] = c /\ w[4] = d /\ w[5] = e /\ w[6] = f
  OBVIOUS
<1>. HIDE DEF x, y, z, w
<1>3. /\ x \o y \in Seq(Octet) /\ Len(x \o y) = 5
      /\ (x \o y)[1] = a /\ (x \o y)[2] = b /\ (x \o y)[3] = c
      /\ (x \o y)[4] = d /\ (x \o y)[5] = e
  <2>1. /\ x \o y \in Seq(Octet) /\ Len(x \o y) = Len(x) + Len(y)
        /\ \A i \in 1 .. Len(x) + Len(y) : (x \o y)[i] = IF i <= Len(x) THEN x[i] ELSE y[i - Len(x)]
    BY <1>1, ConcatProperties
  <2> QED BY <1>1, <2>1
<1>. DEFINE v == x \o y
<1>4. /\ v \in Seq(Octet) /\ Len(v) = 5
      /\ v[1] = a /\ v[2] = b /\ v[3] = c /\ v[4] = d /\ v[5] = e
  BY <1>3
<1>. HIDE DEF v
<1>5. /\ v \o z \in Seq(Octet) /\ Len(v \o z) = 6
      /\ (v \o z)[1] = a /\ (v \o z)[2] = b /\ (v \o z)[3] = c
      /\ (v \o z)[4] = d /\ (v \o z)[5] = e /\ (v \o z)[6] = f
  <2>1. /\ v \o z \in Seq(Octet) /\ Len(v \o z) = Len(v) + Len(z)
        /\ \A i \in 1 .. Len(v) + Len(z) : (v \o z)[i] = IF i <= Len(v) THEN v[i] ELSE z[i - Len(v)]
    BY <1>1, <1>4, ConcatProperties
  <2> QED BY <1>1, <1>4, <2>1
<1>6. \A i \in 1 .. 6 : (v \o z)[i] = w[i]
  <2>1. \A i \in 1 .. 6 : i = 1 \/ i = 2 \/ i = 3 \/ i = 4 \/ i = 5 \/ i = 6
    OBVIOUS
  <2> QED BY <1>2, <1>5, <2>1, Zenon
<1>7. v \o z = w
  BY <1>2, <1>5, <1>6, SeqEqual
<1> QED BY <1>7 DEF v, w, x, y, z

LEMMA ErrRawIs ==
  /\ ErrRaw \in Seq(Octet) /\ Len(ErrRaw) = 6 /\ ErrRaw # <<>>
  /\ MIMEExtract(ErrRaw) = ErrReply
<1>1. "H" \in Octet /\ CR \in Octet /\ LF \in Octet /\ "e" \in Octet
  BY DEF Octet, Literals
<1>2. ErrRaw = <<"H", CR, LF, CR, LF, "e">>
  <2>1. ErrRaw = (<<"H", CR, LF>> \o <<CR, LF>>) \o <<"e">>
    BY Zenon DEF ErrRaw, Mesg, MIMEHdr, CRLF, ErrReply
  <2> QED BY <1>1, <2>1, SixOctets
<1>3. \A a, b, c, d, e, f \in Octet :
        <<a, b, c, d, e, f>> \in Seq(Octet) /\ Len(<<a, b, c, d, e, f>>) = 6
  OBVIOUS
<1>4. ErrRaw \in Seq(Octet) /\ Len(ErrRaw) = 6
  BY <1>1, <1>2, <1>3
<1>5. /\ ErrRaw[1] = "H" /\ ErrRaw[2] = CR /\ ErrRaw[3] = LF /\ ErrRaw[4] = CR
      /\ ErrRaw[5] = LF /\ ErrRaw[6] = "e"
  BY <1>2
<1>6. "H" # CR /\ CR # LF
  BY DEF CR, LF
<1>. DEFINE blank == {i \in 1 .. Len(ErrRaw) : CRLFAt(ErrRaw, i) /\ (i = 1 \/ CRLFAt(ErrRaw, i - 2))}
<1>7. blank = {4}
  <2>1. ~CRLFAt(ErrRaw, 1) /\ ~CRLFAt(ErrRaw, 2 - 2) /\ ~CRLFAt(ErrRaw, 3)
        /\ ~CRLFAt(ErrRaw, 5) /\ ~CRLFAt(ErrRaw, 6)
    BY <1>4, <1>5, <1>6 DEF CRLFAt
  <2>2. CRLFAt(ErrRaw, 4) /\ CRLFAt(ErrRaw, 4 - 2)
    BY <1>4, <1>5 DEF CRLFAt
  <2>3. \A i \in 1 .. Len(ErrRaw) : i = 1 \/ i = 2 \/ i = 3 \/ i = 4 \/ i = 5 \/ i = 6
    BY <1>4
  <2>4. 4 \in 1 .. Len(ErrRaw)
    BY <1>4
  <2> QED BY <2>1, <2>2, <2>3, <2>4
<1>8. Min({4}) = 4
  BY MinIs
<1>9. SubSeq(ErrRaw, 4 + 2, Len(ErrRaw)) = ErrReply
  <2>1. ErrReply \in Seq(Octet) /\ Len(ErrReply) = 1 /\ ErrReply[1] = "e"
    BY <1>1 DEF ErrReply
  <2>2. \A j \in 1 .. Len(ErrReply) : ErrRaw[((4 + 2) - 1) + j] = ErrReply[j]
    <3>1. \A j \in 1 .. 1 : j = 1 /\ ((4 + 2) - 1) + 1 = 6
      OBVIOUS
    <3> QED BY <1>5, <2>1, <3>1
  <2>. DEFINE a == 4 + 2
              b == Len(ErrRaw)
  <2>3. a \in Nat /\ b \in Nat /\ 1 <= a /\ b <= Len(ErrRaw) /\ Len(ErrReply) = (b + 1) - a
    BY <1>4, <2>1
  <2>4. \A j \in 1 .. Len(ErrReply) : ErrRaw[(a - 1) + j] = ErrReply[j]
    BY <2>2
  <2>. HIDE DEF a, b
  <2>5. SubSeq(ErrRaw, a, b) = ErrReply
    BY <1>4, <2>1, <2>3, <2>4, SubSeqIs
  <2> QED BY <2>5 DEF a, b
<1>10. MIMEExtract(ErrRaw) = ErrReply
  <2>1. MIMEExtract(ErrRaw) = IF blank = {} THEN ErrRaw
                              ELSE SubSeq(ErrRaw, Min(blank) + 2, Len(ErrRaw))
    BY DEF MIMEExtract
  <2>. HIDE DEF blank
  <2> QED BY <1>7, <1>8, <1>9, <2>1
<1>11. ErrRaw # <<>>
  BY <1>4
<1> QED BY <1>4, <1>10, <1>11

Ack(f) == SEQFram(f.val.seqno + f.val.size)
Rpy == MesgFram(lchan, RPY, OkRaw, 0)
Err == MesgFram(lchan, ERR, ErrRaw, 0)

LEMMA AnswersAre ==
  ASSUME NEW f, NEW text
  PROVE  Answers(f, text) = IF profile = "RAW" THEN <<Ack(f)>>
                            ELSE IF text \in Unparsable THEN <<Err>> ELSE <<Rpy, Ack(f)>>
BY Zenon DEF Answers, Ack, Rpy, Err, OkRaw, ErrRaw

\* sbLstnOnFramRcvd, for the frame f.
Rcvd(f, ans) ==
  /\ ans = Answers(f, MIMEExtract(f.payload))
  /\ built' = Append(built, f)
  /\ sendQue' = sendQue \o ans /\ queued' = queued \o ans
  /\ lchan' = IF profile = "RAW" THEN lchan ELSE Advance(lchan, ans[1])
  /\ UNCHANGED <<profile, clntVars, s2c, uBytesSend, clntHist>>

LEMMA RcvdIs ==
  ASSUME LstnOnFramRcvd
  PROVE  \E f, ans : Rcvd(f, ans)
<1>. DEFINE r == BuildFrame(recvFram, Head(c2s))
            f == [cmd |-> r.cmd, val |-> r.val, payload |-> r.buf]
            ans == Answers(f, MIMEExtract(r.buf))
<1>1. /\ built' = Append(built, f)
      /\ sendQue' = sendQue \o ans /\ queued' = queued \o ans
      /\ lchan' = IF profile = "RAW" THEN lchan ELSE Advance(lchan, ans[1])
      /\ UNCHANGED <<profile, clntVars, s2c, uBytesSend, clntHist>>
  BY DEF LstnOnFramRcvd
<1>2. f.payload = r.buf
  OBVIOUS
<1>3. ans = Answers(f, MIMEExtract(f.payload))
  BY <1>2
<1>. HIDE DEF f, ans
<1> QED BY <1>1, <1>3, Zenon DEF Rcvd

LEMMA MesgSize ==
  ASSUME NEW ch, NEW cmd, NEW raw, NEW n
  PROVE  MesgFram(ch, cmd, raw, n).val.size = Len(raw)
<1>1. NoVal \in [Names -> Nat] /\ "size" \in Names
  BY DEF NoVal, Names
<1> QED BY <1>1 DEF MesgFram

LEMMA RcvdNums ==
  ASSUME IInv, ListenerNums, LstnOnFramRcvd
  PROVE  ListenerNums'
<1>1. PICK f, ans : Rcvd(f, ans)
  BY RcvdIs
<1>2. PICK B : built \in Seq(B)
  BY SentType
<1>3. Len(built) \in Nat /\ Len(built') = Len(built) + 1
  BY <1>1, <1>2 DEF Rcvd
<1>. DEFINE m == lchan.uMsgno
            q == lchan.uSeqno
            n == Len(built)
<1>4. /\ lchan = [uMsgno |-> m, uSeqno |-> q] /\ m \in Nat /\ m <= n
      /\ q \in Nat /\ q <= 6 * n
  BY DEF ListenerNums
<1>. HIDE DEF m, q, n
<1>5. CASE profile = "RAW"
  <2>1. lchan' = lchan
    BY <1>1, <1>5 DEF Rcvd
  <2>2. m <= n + 1 /\ q <= 6 * (n + 1)
    BY <1>3, <1>4 DEF n
  <2> QED BY <1>3, <1>4, <2>1, <2>2 DEF ListenerNums, m, q, n
<1>6. CASE profile # "RAW"
  <2>1. lchan' = Advance(lchan, ans[1])
    BY <1>1, <1>6 DEF Rcvd
  <2>2. ans[1] = Err \/ ans[1] = Rpy
    <3>1. ans = <<Err>> \/ ans = <<Rpy, Ack(f)>>
      BY <1>1, <1>6, AnswersAre DEF Rcvd
    <3>. HIDE DEF Err, Rpy, Ack
    <3> QED BY <3>1
  <2>. DEFINE s == ans[1].val.size
  <2>3. s \in Nat /\ s <= 6
    <3>1. Err.val.size = 6 /\ Rpy.val.size = 3
      BY MesgSize, OkRawIs, ErrRawIs DEF Err, Rpy
    <3> QED BY <2>2, <3>1
  <2>4. lchan' = [lchan EXCEPT !.uMsgno = m + 1, !.uSeqno = q + s]
    BY <2>1 DEF Advance, m, q
  <2>. HIDE DEF s
  <2>5. lchan' = [uMsgno |-> m + 1, uSeqno |-> q + s]
    BY <1>4, <2>4
  <2>6. lchan'.uMsgno = m + 1 /\ lchan'.uSeqno = q + s
    BY <2>5
  <2>7. m + 1 \in Nat /\ m + 1 <= n + 1 /\ q + s \in Nat /\ q + s <= 6 * (n + 1)
    BY <1>3, <1>4, <2>3 DEF n
  <2> QED BY <1>3, <2>5, <2>6, <2>7 DEF ListenerNums, n
<1> QED BY <1>5, <1>6

\* A frame that is built is the next of those sent, while all of them fit.
LEMMA RcvdAsSent ==
  ASSUME NInv, IInv', AllFit, NEW f, NEW ans, Rcvd(f, ans), NEW n, n = Len(built) + 1
  PROVE  /\ n \in Nat /\ n - 1 = Len(built) /\ n <= Len(sent) /\ n <= Len(logged)
         /\ n <= MaxLogs /\ f = sent[n] /\ DataFram(f)
         /\ MIMEExtract(f.payload) = logged[n]
         /\ Len(built') = n
<1>1. IInv /\ ClientTexts /\ ClientNums
  BY DEF NInv, TInv
<1>2. PICK B : built \in Seq(B)
  BY <1>1, SentType
<1>3. /\ Len(built) \in Nat /\ Len(built') = n /\ built'[n] = f /\ DOMAIN built' = 1 .. n
      /\ n \in Nat /\ n - 1 = Len(built) /\ n >= 1
  BY <1>2 DEF Rcvd
<1>4. sent' = sent
  BY DEF Rcvd, clntHist
<1>5. AllFit'
  BY <1>4 DEF AllFit
<1>6. BuiltAsSent' /\ MachineInStep'
  <2>1. (IInv => BuiltAsSent /\ MachineInStep)'
    BY IInvInStep, PTL
  <2> QED BY <2>1
<1>7. Len(built') <= Len(sent')
  BY <1>5, <1>6 DEF MachineInStep
<1>8. /\ sent \in Seq(Frames) /\ Len(sent) \in Nat
      /\ \A i \in 1 .. Len(sent) : DataFram(sent[i])
  BY <1>1, AllDataType DEF IInv, ClientOK
<1>9. n <= Len(sent) /\ n \in 1 .. Len(sent)
  BY <1>3, <1>4, <1>7, <1>8
<1>10. f = sent[n]
  <2>1. n \in InStep'
    <3>1. \A j \in 1 .. Len(sent) : Fits(sent[j])
      BY <1>8 DEF AllFit
    <3>2. \A j \in 1 .. n : j \in 1 .. Len(sent)
      BY <1>3, <1>8, <1>9
    <3>3. n \in DOMAIN sent
      BY <1>8, <1>9
    <3> QED BY <1>4, <3>1, <3>2, <3>3 DEF InStep
  <2>2. n \in DOMAIN built'
    BY <1>3
  <2> QED BY <1>3, <1>4, <1>6, <2>1, <2>2 DEF BuiltAsSent
<1>11. logged \in Seq(Texts) /\ Len(logged) \in Nat /\ Len(sent) <= Len(logged) /\ Len(logged) <= MaxLogs
  BY <1>1 DEF ClientTexts, ClientNums
<1>12. n <= Len(logged) /\ n <= MaxLogs /\ n \in 1 .. Len(logged) /\ MaxLogs \in Nat
  BY <1>3, <1>8, <1>9, <1>11, StreamAssumption
<1>13. MIMEExtract(f.payload) = logged[n]
  <2>1. logged[n] \in Seq(Octet)
    BY <1>11, <1>12, TextType
  <2>2. f.payload = Mesg(<<>>, logged[n])
    BY <1>1, <1>9, <1>10 DEF ClientTexts
  <2> QED BY <2>1, <2>2, MIMEExtractText
<1> QED BY <1>3, <1>8, <1>9, <1>10, <1>12, <1>13

LEMMA ConcatOne ==
  ASSUME NEW F, NEW fs \in Seq(F), NEW a \in F
  PROVE  fs \o <<a>> = Append(fs, a)
<1>1. <<a>> \in Seq(F) /\ Len(<<a>>) = 1 /\ <<a>>[1] = a
  OBVIOUS
<1>2. /\ Append(fs, a) \in Seq(F) /\ Len(Append(fs, a)) = Len(fs) + 1 /\ Len(fs) \in Nat
      /\ Append(fs, a)[Len(fs) + 1] = a
      /\ \A i \in 1 .. Len(fs) : Append(fs, a)[i] = fs[i]
  OBVIOUS
<1>. DEFINE x == <<a>>
            y == Append(fs, a)
<1>. HIDE DEF x, y
<1>3. x \in Seq(F) /\ Len(x) = 1 /\ x[1] = a
  BY <1>1 DEF x
<1>4. /\ fs \o x \in Seq(F) /\ Len(fs \o x) = Len(fs) + Len(x)
      /\ \A i \in 1 .. Len(fs) + Len(x) :
           (fs \o x)[i] = IF i <= Len(fs) THEN fs[i] ELSE x[i - Len(fs)]
  BY <1>3, ConcatProperties
<1>5. ASSUME NEW i \in 1 .. Len(fs) + 1 PROVE (fs \o x)[i] = y[i]
  <2>1. i \in 1 .. Len(fs) \/ i = Len(fs) + 1
    BY <1>2
  <2> QED BY <1>2, <1>3, <1>4, <2>1 DEF y
<1>6. y \in Seq(F) /\ Len(y) = Len(fs) + 1
  BY <1>2 DEF y
<1>7. fs \o x = y
  BY <1>3, <1>4, <1>5, <1>6, SeqEqual
<1> QED BY <1>7 DEF x, y

LEMMA ConcatTwo ==
  ASSUME NEW F, NEW fs \in Seq(F), NEW a \in F, NEW b \in F
  PROVE  fs \o <<a, b>> = Append(Append(fs, a), b)
<1>1. <<a>> \in Seq(F) /\ <<b>> \in Seq(F) /\ Append(fs, a) \in Seq(F)
  OBVIOUS
<1>2. <<a>> \o <<b>> = Append(<<a>>, b)
  BY <1>1, ConcatOne
<1>3. Append(<<a>>, b) = <<a, b>>
  <2>. DEFINE x == <<a>>
              y == <<a, b>>
              z == Append(x, b)
  <2>1. x \in Seq(F) /\ Len(x) = 1 /\ x[1] = a
    OBVIOUS
  <2>2. y \in Seq(F) /\ Len(y) = 2 /\ y[1] = a /\ y[2] = b
    OBVIOUS
  <2>. HIDE DEF x, y
  <2>3. z \in Seq(F) /\ Len(z) = 2 /\ z[1] = a /\ z[2] = b
    <3>1. \A u \in Seq(F) : /\ Append(u, b) \in Seq(F) /\ Len(Append(u, b)) = Len(u) + 1
                            /\ Append(u, b)[Len(u) + 1] = b
                            /\ \A i \in 1 .. Len(u) : Append(u, b)[i] = u[i]
      OBVIOUS
    <3>2. /\ z \in Seq(F) /\ Len(z) = 1 + 1 /\ z[1 + 1] = b
          /\ \A i \in 1 .. 1 : z[i] = x[i]
      BY <2>1, <3>1
    <3>. HIDE DEF z
    <3> QED BY <2>1, <3>2
  <2>. HIDE DEF z
  <2>4. \A i \in 1 .. Len(y) : z[i] = y[i]
    BY <2>2, <2>3
  <2>5. z = y
    BY <2>2, <2>3, <2>4, SeqEqual
  <2> QED BY <2>5 DEF x, y, z
<1>4. (fs \o <<a>>) \o <<b>> = fs \o (<<a>> \o <<b>>)
  BY <1>1, ConcatAssociative
<1>5. fs \o <<a>> = Append(fs, a)
  BY ConcatOne
<1>6. Append(fs, a) \o <<b>> = Append(Append(fs, a), b)
  BY <1>1, ConcatOne
<1> QED BY <1>2, <1>3, <1>4, <1>5, <1>6

\* What the n-th frame adds to the queue: an acknowledgement, and for a COOKED
\* channel the reply before it, or an error alone.
RawAnswer(a) ==
  profile = "RAW" /\ queued' = Append(queued, a) /\ sendQue' = Append(sendQue, a)
OkAnswer(r, a, n) ==
  /\ profile = "COOKED" /\ SrvOK(r) /\ Reports(r, logged[n])
  /\ queued' = Append(Append(queued, r), a) /\ sendQue' = Append(Append(sendQue, r), a)
ErrAnswer(r, n) ==
  /\ profile = "COOKED" /\ SrvOK(r) /\ Reports(r, logged[n])
  /\ queued' = Append(queued, r) /\ sendQue' = Append(sendQue, r)

LEMMA RcvdAnswers ==
  ASSUME NInv, IInv', AllFit, NEW f, NEW ans, Rcvd(f, ans), NEW n, n = Len(built) + 1,
         queued \in Seq(SrvFrames), sendQue \in Seq(SrvFrames)
  PROVE  \E a, r : /\ SrvOK(a) /\ a.cmd = SEQ
                   /\ RawAnswer(a) \/ OkAnswer(r, a, n) \/ ErrAnswer(r, n)
<1>1. /\ n \in Nat /\ n - 1 = Len(built) /\ n <= Len(sent) /\ n <= Len(logged)
      /\ n <= MaxLogs /\ f = sent[n] /\ DataFram(f)
      /\ MIMEExtract(f.payload) = logged[n] /\ n >= 1
  <2>1. n >= 1
    <3>1. \E B : built \in Seq(B)
      BY SentType DEF NInv, TInv
    <3> QED BY <3>1
  <2> QED BY <2>1, RcvdAsSent
<1>2. profile \in {"RAW", "COOKED"} /\ ClientNums /\ ListenerNums
      /\ sent \in Seq(Frames) /\ Len(sent) \in Nat /\ logged \in Seq(Texts)
  BY SentType DEF NInv, TInv, IInv, ClientOK, ClientTexts
<1>. DEFINE s == f.val.seqno + f.val.size
            a == Ack(f)
            r == IF logged[n] \in Unparsable THEN Err ELSE Rpy
<1>3. s \in Nat /\ s <= MaxLogs * FrameMax /\ MaxLogs >= 1
  <2>1. s \in Nat
    BY <1>1 DEF DataFram, Names
  <2>2. n \in 1 .. Len(sent)
    BY <1>1, <1>2
  <2>3. s <= Room(Len(logged)) /\ Len(logged) <= MaxLogs /\ Len(logged) \in Nat
    BY <1>1, <1>2, <2>2 DEF ClientNums
  <2>4. Room(Len(logged)) <= MaxLogs * FrameMax /\ Room(Len(logged)) \in Nat
    BY <2>3, RoomIs
  <2>5. MaxLogs * FrameMax \in Nat /\ MaxLogs \in Nat
    BY StreamAssumption
  <2>. DEFINE p == MaxLogs * FrameMax
              w == Room(Len(logged))
  <2>6. p \in Nat /\ w \in Nat /\ w <= p /\ s <= w
    BY <2>3, <2>4, <2>5
  <2>. HIDE DEF p, w, s
  <2>7. s <= p
    BY <2>1, <2>6
  <2>8. MaxLogs >= 1
    BY <1>1, <2>5
  <2> QED BY <2>1, <2>7, <2>8 DEF p
<1>4. SrvOK(a) /\ a.cmd = SEQ /\ a \in SrvFrames
  <2>. HIDE DEF s
  <2>1. SrvOK(SEQFram(s)) /\ SEQFram(s).cmd = SEQ
    BY <1>3, AckOK
  <2>2. a = SEQFram(s)
    BY Zenon DEF Ack, s
  <2> QED BY <2>1, <2>2 DEF SrvOK
<1>. HIDE DEF a
<1>5. /\ lchan.uMsgno \in Nat /\ lchan.uSeqno \in Nat
      /\ lchan.uMsgno <= n - 1 /\ lchan.uSeqno <= 6 * (n - 1) /\ n - 1 \in Nat
      /\ (n - 1) + 1 <= MaxLogs
  <2>1. lchan.uMsgno <= Len(built) /\ lchan.uSeqno <= 6 * Len(built)
        /\ lchan.uMsgno \in Nat /\ lchan.uSeqno \in Nat
    BY <1>2 DEF ListenerNums
  <2>2. n - 1 \in Nat /\ (n - 1) + 1 = n
    BY <1>1
  <2> QED BY <1>1, <2>1, <2>2
<1>6. SrvOK(Err) /\ Err.cmd = ERR /\ Err.cmd # SEQ /\ Err.payload = ErrRaw
  <2>1. ERR \in {RPY, ERR}
    OBVIOUS
  <2>. DEFINE m == n - 1
  <2>2. /\ m \in Nat /\ lchan.uMsgno \in Nat /\ lchan.uSeqno \in Nat
        /\ lchan.uMsgno <= m /\ lchan.uSeqno <= 6 * m /\ m + 1 <= MaxLogs
    BY <1>5
  <2>3. ErrRaw \in Seq(Octet) /\ Len(ErrRaw) <= 6 /\ ErrRaw # <<>>
    BY ErrRawIs
  <2>. HIDE DEF m
  <2> QED BY <2>1, <2>2, <2>3, ReplyOK DEF Err
<1>7. SrvOK(Rpy) /\ Rpy.cmd = RPY /\ Rpy.cmd # SEQ /\ Rpy.payload = OkRaw
  <2>1. RPY \in {RPY, ERR}
    OBVIOUS
  <2>. DEFINE m == n - 1
  <2>2. /\ m \in Nat /\ lchan.uMsgno \in Nat /\ lchan.uSeqno \in Nat
        /\ lchan.uMsgno <= m /\ lchan.uSeqno <= 6 * m /\ m + 1 <= MaxLogs
    BY <1>5
  <2>3. OkRaw \in Seq(Octet) /\ Len(OkRaw) <= 6 /\ OkRaw # <<>>
    BY OkRawIs
  <2>. HIDE DEF m
  <2> QED BY <2>1, <2>2, <2>3, ReplyOK DEF Rpy
<1>8. SrvOK(r) /\ Reports(r, logged[n]) /\ r \in SrvFrames
  <2>1. CASE logged[n] \in Unparsable
    BY <1>6, <2>1, ErrRawIs DEF Reports, Outcome, SrvOK
  <2>2. CASE logged[n] \notin Unparsable
    BY <1>7, <2>2, OkRawIs DEF Reports, Outcome, SrvOK
  <2> QED BY <2>1, <2>2
<1>9. /\ queued' = queued \o ans /\ sendQue' = sendQue \o ans
      /\ ans = IF profile = "RAW" THEN <<Ack(f)>>
               ELSE IF logged[n] \in Unparsable THEN <<Err>> ELSE <<Rpy, Ack(f)>>
  BY <1>1, AnswersAre DEF Rcvd
<1>10. CASE profile = "RAW"
  <2>1. ans = <<a>>
    BY <1>9, <1>10 DEF a
  <2>2. RawAnswer(a)
    BY <1>4, <1>9, <1>10, <2>1, ConcatOne DEF RawAnswer
  <2> QED BY <1>4, <2>2
<1>11. CASE profile = "COOKED" /\ logged[n] \in Unparsable
  <2>1. ans = <<r>>
    BY <1>9, <1>11
  <2>. HIDE DEF r
  <2>2. ErrAnswer(r, n)
    BY <1>8, <1>9, <1>11, <2>1, ConcatOne DEF ErrAnswer
  <2> QED BY <1>4, <2>2
<1>12. CASE profile = "COOKED" /\ logged[n] \notin Unparsable
  <2>1. ans = <<r, a>>
    BY <1>9, <1>12 DEF a
  <2>. HIDE DEF r
  <2>2. OkAnswer(r, a, n)
    BY <1>4, <1>8, <1>9, <1>12, <2>1, ConcatTwo DEF OkAnswer
  <2> QED BY <1>4, <2>2
<1> QED BY <1>2, <1>10, <1>11, <1>12

-----------------------------------------------------------------------------
(***************************************************************************)
(* Every frame that was queued arrives.                                    *)
(***************************************************************************)
Delivery == Pipe(queued, sendQue, uBytesSend, s2c, got) /\ cpc # "failed"

DInv == NInv /\ (AllFit => Delivery)

LEMMA InitDelivery ==
  Init => Delivery
<1>. SUFFICES ASSUME Init PROVE Delivery
  OBVIOUS
<1>1. /\ queued = <<>> /\ sendQue = <<>> /\ uBytesSend = 0 /\ s2c = <<>> /\ got = <<>>
      /\ cpc = "idle"
  BY DEF Init
<1>2. /\ queued \in Seq(SrvFrames) /\ sendQue \in Seq(SrvFrames) /\ got \in Seq(SrvFrames)
      /\ s2c \in Seq(Octet) /\ <<>> \in Seq(Octet) /\ s2c \o <<>> = <<>>
      /\ Len(queued) = 0 /\ Len(sendQue) = 0 /\ Len(got) = 0
  BY <1>1
<1>3. AllSrv(queued)
  BY <1>2 DEF AllSrv
<1>4. Streams(<<>>, queued, Len(queued))
  BY <1>2, StreamsEmpty
<1>5. Waiting(<<>>, queued, sendQue, uBytesSend)
  BY <1>1 DEF Waiting
<1>6. \E v \in Seq(Octet) : Streams(s2c \o v, queued, Len(got)) /\ Waiting(v, queued, sendQue, uBytesSend)
  BY <1>2, <1>4, <1>5
<1>7. Pipe(queued, sendQue, uBytesSend, s2c, got)
  <2>1. /\ Len(sendQue) <= Len(queued) /\ Len(got) <= Len(queued)
        /\ \A j \in 1 .. Len(sendQue) : sendQue[j] = queued[(Len(queued) - Len(sendQue)) + j]
        /\ \A i \in 1 .. Len(got) : got[i] = queued[i]
    BY <1>2
  <2>2. uBytesSend \in Nat /\ (sendQue = <<>> => uBytesSend = 0)
        /\ (sendQue # <<>> => uBytesSend < Len(Octets(sendQue[1])))
    BY <1>1
  <2> QED BY <1>2, <1>3, <1>6, <2>1, <2>2, Zenon DEF Pipe
<1> QED BY <1>1, <1>7 DEF Delivery

\* No frame was cut before if none is cut now.
LEMMA AllFitBefore ==
  ASSUME IInv, [Next]_vars, AllFit'
  PROVE  AllFit
<1>1. sent \in Seq(Frames)
  BY SentType
<1>2. sent' = sent \/ sent' = Append(sent, pend)
  BY DEF Next, LogMesg, SendFram, AwaitFram, TakeReply, LstnBuildFrame, LstnOnFramRcvd,
         LstnCrash, LstnSendFram, vars, clntHist
<1>3. \A i \in DOMAIN sent : i \in DOMAIN sent' /\ sent'[i] = sent[i]
  BY <1>1, <1>2
<1> QED BY <1>3 DEF AllFit

LEMMA NextNInv ==
  ASSUME NInv, [Next]_vars
  PROVE  NInv'
<1>1. TInv' /\ IInv
  BY NextTInv DEF NInv, TInv
<1>2. ClientNums'
  BY LogMesgNums, OthersNums DEF NInv
<1>3. ListenerNums'
  <2>1. CASE LstnOnFramRcvd
    BY <1>1, <2>1, RcvdNums DEF NInv
  <2>2. CASE ~LstnOnFramRcvd
    <3>1. lchan' = lchan /\ built' = built
      BY <2>2 DEF Next, LogMesg, SendFram, AwaitFram, TakeReply, LstnBuildFrame, LstnCrash,
                  LstnSendFram, lstnVars, lstnHist, vars
    <3> QED BY <3>1 DEF NInv, ListenerNums
  <2> QED BY <2>1, <2>2
<1> QED BY <1>1, <1>2, <1>3 DEF NInv

\* A poll or a blocking read.
LEMMA Receives ==
  ASSUME Pipe(queued, sendQue, uBytesSend, s2c, got), NEW ch, DoReceive(ch),
         UNCHANGED <<queued, sendQue, uBytesSend>>,
         NEW f, f = queued[Len(got) + 1]
  PROVE  /\ Pipe(queued, sendQue, uBytesSend, s2c, got)'
         /\ Len(got) < Len(queued) /\ got' = Append(got, f) /\ got' # got
         /\ rxq' = IF f.cmd # SEQ THEN Append(rxq, f) ELSE rxq
<1>. DEFINE r == RecvFram(s2c)
<1>1. /\ LF \in ToSet(s2c) /\ r.len <= Len(s2c)
      /\ s2c' = SubSeq(s2c, r.len + 1, Len(s2c))
      /\ got' = IF r.ok THEN Append(got, r.fram) ELSE got
      /\ rxq' = IF r.ok /\ r.fram.cmd # SEQ THEN Append(rxq, r.fram) ELSE rxq
  BY DEF DoReceive
<1>. HIDE DEF r
<1>2. /\ Len(got) < Len(queued) /\ r.ok /\ r.fram = f
      /\ Pipe(queued, sendQue, uBytesSend, SubSeq(s2c, r.len + 1, Len(s2c)), Append(got, r.fram))
  BY <1>1, PipeReceive DEF r
<1>3. got' = Append(got, f)
  BY <1>1, <1>2
<1>4. Pipe(queued, sendQue, uBytesSend, s2c', got')
  BY <1>1, <1>2, <1>3
<1>5. Pipe(queued, sendQue, uBytesSend, s2c, got)'
  <2>1. queued' = queued /\ sendQue' = sendQue /\ uBytesSend' = uBytesSend
    OBVIOUS
  <2>2. Pipe(queued', sendQue', uBytesSend', s2c', got')
    BY <1>4, <2>1
  <2> QED BY <2>2
<1>6. got' # got
  <2>1. got \in Seq(SrvFrames)
    BY DEF Pipe
  <2>2. Len(Append(got, f)) = Len(got) + 1 /\ Len(got) \in Nat
    BY <2>1
  <2> QED BY <1>3, <2>2
<1>7. rxq' = IF f.cmd # SEQ THEN Append(rxq, f) ELSE rxq
  BY <1>1, <1>2
<1> QED BY <1>2, <1>3, <1>5, <1>6, <1>7

LEMMA NextDInv ==
  ASSUME DInv, [Next]_vars
  PROVE  DInv'
<1>1. NInv /\ NInv' /\ IInv /\ IInv'
  BY NextNInv DEF DInv, NInv, TInv
<1>. SUFFICES ASSUME AllFit' PROVE Delivery'
  BY <1>1 DEF DInv
<1>2. AllFit /\ Delivery
  BY <1>1, AllFitBefore DEF DInv
<1>3. Pipe(queued, sendQue, uBytesSend, s2c, got) /\ cpc # "failed"
  BY <1>2 DEF Delivery
<1>4. ASSUME NEW ch, DoReceive(ch), UNCHANGED <<lstnVars, lstnHist>>
      PROVE  Pipe(queued, sendQue, uBytesSend, s2c, got)' /\ got' # got
  <2>1. UNCHANGED <<queued, sendQue, uBytesSend>>
    BY <1>4 DEF lstnVars, lstnHist
  <2> QED BY <1>3, <1>4, <2>1, Receives
<1>5. ASSUME UNCHANGED <<queued, sendQue, uBytesSend, s2c, got>>
      PROVE  Pipe(queued, sendQue, uBytesSend, s2c, got)'
  BY <1>3, <1>5
<1>6. ASSUME NEW t \in Texts, LogMesg(t) PROVE Delivery'
  <2>1. cpc' = "send"
    BY <1>6 DEF LogMesg
  <2>2. \/ \E ch : DoReceive(ch) /\ UNCHANGED <<lstnVars, lstnHist>>
        \/ UNCHANGED <<queued, sendQue, uBytesSend, s2c, got>>
    BY <1>6 DEF LogMesg, lstnVars, lstnHist
  <2> QED BY <1>4, <1>5, <2>1, <2>2 DEF Delivery
<1>7. CASE AwaitFram
  <2>1. DoReceive(chan) /\ UNCHANGED <<lstnVars, lstnHist>>
        /\ cpc' = IF got' # got THEN cpc ELSE "failed"
    BY <1>7 DEF AwaitFram
  <2> QED BY <1>3, <1>4, <2>1 DEF Delivery
<1>8. CASE SendFram \/ TakeReply \/ LstnBuildFrame \/ LstnCrash \/ UNCHANGED vars
  <2>1. UNCHANGED <<queued, sendQue, uBytesSend, s2c, got>> /\ cpc' # "failed"
    BY <1>3, <1>8 DEF SendFram, TakeReply, LstnBuildFrame, LstnCrash, vars, lstnVars, lstnHist,
              clntVars, clntHist
  <2> QED BY <1>5, <2>1 DEF Delivery
<1>9. CASE LstnSendFram
  <2>. DEFINE b == Octets(Head(sendQue))
  <2>1. PICK n \in 1 .. Len(b) - uBytesSend :
          /\ s2c' = s2c \o SubSeq(b, uBytesSend + 1, uBytesSend + n)
          /\ IF uBytesSend + n = Len(b)
             THEN sendQue' = Tail(sendQue) /\ uBytesSend' = 0
             ELSE uBytesSend' = uBytesSend + n /\ UNCHANGED sendQue
    BY <1>9 DEF LstnSendFram
  <2>2. sendQue # <<>> /\ queued' = queued /\ got' = got /\ cpc' = cpc
    BY <1>9 DEF LstnSendFram, lstnHist, clntVars, clntHist
  <2>3. b = Octets(sendQue[1])
    BY <2>2
  <2>. HIDE DEF b
  <2>4. /\ uBytesSend + n = Len(b) =>
             Pipe(queued, Tail(sendQue), 0, s2c \o SubSeq(b, uBytesSend + 1, uBytesSend + n), got)
        /\ uBytesSend + n # Len(b) =>
             Pipe(queued, sendQue, uBytesSend + n, s2c \o SubSeq(b, uBytesSend + 1, uBytesSend + n), got)
    BY <1>3, <2>2, <2>3, PipeSend
  <2>5. Pipe(queued', sendQue', uBytesSend', s2c', got')
    <3>1. CASE uBytesSend + n = Len(b)
      BY <2>1, <2>2, <2>4, <3>1
    <3>2. CASE uBytesSend + n # Len(b)
      BY <2>1, <2>2, <2>4, <3>2
    <3> QED BY <3>1, <3>2
  <2> QED BY <1>3, <2>2, <2>5 DEF Delivery
<1>10. CASE LstnOnFramRcvd
  <2>1. PICK f, ans : Rcvd(f, ans)
    BY <1>10, RcvdIs
  <2>2. UNCHANGED <<uBytesSend, s2c, got, cpc>>
    BY <2>1 DEF Rcvd, clntVars, clntHist
  <2>3. queued \in Seq(SrvFrames) /\ sendQue \in Seq(SrvFrames)
    BY <1>3, AllSrvType DEF Pipe
  <2>4. PICK a, r : /\ SrvOK(a)
                    /\ \/ RawAnswer(a) \/ OkAnswer(r, a, Len(built) + 1)
                       \/ ErrAnswer(r, Len(built) + 1)
    BY <1>1, <1>2, <2>1, <2>3, RcvdAnswers
  <2>5. Pipe(queued', sendQue', uBytesSend, s2c, got)
    <3>1. CASE RawAnswer(a)
      BY <1>3, <2>4, <3>1, PipeAppend DEF RawAnswer
    <3>2. CASE ErrAnswer(r, Len(built) + 1)
      BY <1>3, <3>2, PipeAppend DEF ErrAnswer
    <3>3. CASE OkAnswer(r, a, Len(built) + 1)
      <4>1. Pipe(Append(queued, r), Append(sendQue, r), uBytesSend, s2c, got)
        BY <1>3, <3>3, PipeAppend DEF OkAnswer
      <4> QED BY <2>4, <3>3, <4>1, PipeAppend DEF OkAnswer
    <3> QED BY <2>4, <3>1, <3>2, <3>3
  <2>6. Pipe(queued', sendQue', uBytesSend', s2c', got')
    BY <2>2, <2>5
  <2> QED BY <1>3, <2>2, <2>6 DEF Delivery
<1> QED BY <1>6, <1>7, <1>8, <1>9, <1>10 DEF Next

LEMMA DeliveryFrames ==
  Delivery => FramesAsQueued
<1>. SUFFICES ASSUME Delivery PROVE IsPrefix(got, queued)
  BY DEF FramesAsQueued, Delivery
<1>1. /\ queued \in Seq(SrvFrames) /\ got \in Seq(SrvFrames) /\ Len(got) <= Len(queued)
      /\ \A i \in 1 .. Len(got) : got[i] = queued[i]
  BY AllSrvType DEF Delivery, Pipe
<1>. DEFINE u == SubSeq(queued, 1, Len(got))
<1>2. Len(got) \in Nat /\ Len(queued) \in Nat
  BY <1>1
<1>3. u \in Seq(SrvFrames) /\ Len(u) = Len(got) /\ \A i \in 1 .. Len(got) : u[i] = queued[i]
  <2>1. \A i \in 1 .. Len(got) : queued[i] \in SrvFrames
    BY <1>1, <1>2
  <2> QED BY <1>1, <1>2, <2>1
<1>. HIDE DEF u
<1>4. u = got
  BY <1>1, <1>3, SeqEqual
<1> QED BY <1>1, <1>4 DEF IsPrefix, u

\* Whatever the sends cut the stream into, and whatever the numbers: the
\* blocking reader, sbFramActualRecvFram, gives the client every frame the
\* listener queued, each as it was made and in their order, and no read of a
\* call fails, as long as the client's own frames fit into its buffer.
THEOREM ClientReadsFrames == Spec => [](AllFit => FramesAsQueued)
<1>1. Init => DInv
  BY InitTInv, InitNums, InitDelivery DEF DInv, NInv
<1>2. DInv /\ [Next]_vars => DInv'
  BY NextDInv
<1>3. DInv => (AllFit => FramesAsQueued)
  BY DeliveryFrames DEF DInv
<1> QED BY <1>1, <1>2, <1>3, PTL DEF Spec

-----------------------------------------------------------------------------
(***************************************************************************)
(* The replies.  Frame i of the queue brings the number of replies from    *)
(* g[i-1] to g[i], and a reply reports on the message of its own number.   *)
(***************************************************************************)
Counts(f, m, n, lg) ==
  IF f.cmd = SEQ THEN n = m ELSE n = m + 1 /\ n <= Len(lg) /\ Reports(f, lg[n])

\* c of the first k frames of qd are replies, and n of all.
Numbered(qd, k, c, n, lg) ==
  \E g \in [0 .. Len(qd) -> Nat] :
    /\ g[0] = 0 /\ g[k] = c /\ g[Len(qd)] = n
    /\ \A i \in 1 .. Len(qd) : Counts(qd[i], g[i - 1], g[i], lg)

\* tl is what the calls were told, rq the replies nobody has looked at.
Owed(tl, rq, lg) ==
  /\ \E B : tl \in Seq(B)
  /\ rq \in Seq(SrvFrames)
  /\ Len(tl) + Len(rq) <= Len(lg)
  /\ \A i \in 1 .. Len(tl) : tl[i] = Outcome(lg[i])
  /\ \A j \in 1 .. Len(rq) : Reports(rq[j], lg[Len(tl) + j])

Replies == IF profile = "COOKED" THEN Len(built) ELSE 0

ReplyOrder ==
  /\ Owed(told, rxq, logged)
  /\ Numbered(queued, Len(got), Len(told) + Len(rxq), Replies, logged)

RInv == DInv /\ (AllFit => ReplyOrder)

LEMMA CountsLog ==
  ASSUME NEW F, NEW lg \in Seq(F), NEW t \in F, NEW f, NEW m \in Nat, NEW n \in Nat,
         Counts(f, m, n, lg)
  PROVE  Counts(f, m, n, Append(lg, t))
<1>1. /\ Len(Append(lg, t)) = Len(lg) + 1 /\ Len(lg) \in Nat
      /\ \A i \in 1 .. Len(lg) : Append(lg, t)[i] = lg[i]
  OBVIOUS
<1>2. CASE f.cmd = SEQ
  BY <1>2, Zenon DEF Counts
<1>3. CASE f.cmd # SEQ
  <2>1. n = m + 1 /\ n <= Len(lg) /\ Reports(f, lg[n])
    BY <1>3, Zenon DEF Counts
  <2>2. n \in 1 .. Len(lg) /\ n <= Len(lg) + 1
    BY <1>1, <2>1
  <2>3. n <= Len(Append(lg, t)) /\ Append(lg, t)[n] = lg[n]
    BY <1>1, <2>2
  <2> QED BY <1>3, <2>1, <2>3, Zenon DEF Counts
<1> QED BY <1>2, <1>3

LEMMA NumberedLog ==
  ASSUME NEW F, NEW lg \in Seq(F), NEW t \in F, NEW qd, NEW k, NEW c, NEW n,
         Len(qd) \in Nat, Numbered(qd, k, c, n, lg)
  PROVE  Numbered(qd, k, c, n, Append(lg, t))
<1>1. PICK g \in [0 .. Len(qd) -> Nat] :
        /\ g[0] = 0 /\ g[k] = c /\ g[Len(qd)] = n
        /\ \A i \in 1 .. Len(qd) : Counts(qd[i], g[i - 1], g[i], lg)
  BY DEF Numbered
<1>2. ASSUME NEW i \in 1 .. Len(qd) PROVE Counts(qd[i], g[i - 1], g[i], Append(lg, t))
  <2>1. g[i - 1] \in Nat /\ g[i] \in Nat
    OBVIOUS
  <2> QED BY <1>1, <2>1, CountsLog
<1> QED BY <1>1, <1>2, Zenon DEF Numbered

LEMMA NumberedRead ==
  ASSUME NEW qd, NEW k \in Nat, NEW c, NEW n, NEW lg, Len(qd) \in Nat, k < Len(qd),
         Numbered(qd, k, c, n, lg)
  PROVE  \E d \in Nat : Counts(qd[k + 1], c, d, lg) /\ Numbered(qd, k + 1, d, n, lg)
<1>1. PICK g \in [0 .. Len(qd) -> Nat] :
        /\ g[0] = 0 /\ g[k] = c /\ g[Len(qd)] = n
        /\ \A i \in 1 .. Len(qd) : Counts(qd[i], g[i - 1], g[i], lg)
  BY DEF Numbered
<1>2. k + 1 \in 1 .. Len(qd) /\ (k + 1) - 1 = k
  OBVIOUS
<1>3. g[k + 1] \in Nat
  BY <1>2
<1>4. Counts(qd[k + 1], c, g[k + 1], lg)
  <2>1. Counts(qd[k + 1], g[(k + 1) - 1], g[k + 1], lg)
    BY <1>1, <1>2, Zenon
  <2> QED BY <1>1, <1>2, <2>1, Zenon
<1>5. Numbered(qd, k + 1, g[k + 1], n, lg)
  BY <1>1, Zenon DEF Numbered
<1> QED BY <1>3, <1>4, <1>5, Zenon

LEMMA NumberedAppend ==
  ASSUME NEW F, NEW qd \in Seq(F), NEW k \in 0 .. Len(qd), NEW c, NEW n, NEW lg,
         NEW f \in F, NEW m \in Nat,
         Numbered(qd, k, c, n, lg), Counts(f, n, m, lg)
  PROVE  Numbered(Append(qd, f), k, c, m, lg)
<1>1. PICK g \in [0 .. Len(qd) -> Nat] :
        /\ g[0] = 0 /\ g[k] = c /\ g[Len(qd)] = n
        /\ \A i \in 1 .. Len(qd) : Counts(qd[i], g[i - 1], g[i], lg)
  BY DEF Numbered
<1>. DEFINE qe == Append(qd, f)
            h == [i \in 0 .. Len(qd) + 1 |-> IF i <= Len(qd) THEN g[i] ELSE m]
<1>2. /\ Len(qd) \in Nat /\ Len(qe) = Len(qd) + 1 /\ qe[Len(qd) + 1] = f
      /\ \A i \in 1 .. Len(qd) : qe[i] = qd[i]
  OBVIOUS
<1>3. h \in [0 .. Len(qe) -> Nat] /\ h[Len(qe)] = m /\ \A i \in 0 .. Len(qd) : h[i] = g[i]
  BY <1>2
<1>. HIDE DEF qe, h
<1>4. h[0] = 0 /\ h[k] = c
  <2>1. 0 \in 0 .. Len(qd)
    BY <1>2
  <2> QED BY <1>1, <1>3, <2>1
<1>5. ASSUME NEW i \in 1 .. Len(qe) PROVE Counts(qe[i], h[i - 1], h[i], lg)
  <2>1. CASE i \in 1 .. Len(qd)
    <3>1. i \in 0 .. Len(qd) /\ i - 1 \in 0 .. Len(qd)
      BY <1>2, <2>1
    <3>2. qe[i] = qd[i] /\ h[i] = g[i] /\ h[i - 1] = g[i - 1]
      BY <1>2, <1>3, <2>1, <3>1
    <3>3. Counts(qd[i], g[i - 1], g[i], lg)
      BY <1>1, <2>1
    <3> QED BY <3>2, <3>3
  <2>2. CASE i = Len(qd) + 1
    <3>1. i - 1 = Len(qd) /\ Len(qd) \in 0 .. Len(qd)
      BY <1>2, <2>2
    <3>2. h[i - 1] = n
      BY <1>1, <1>3, <3>1
    <3>3. qe[i] = f /\ h[i] = m
      BY <1>2, <1>3, <2>2
    <3> QED BY <3>2, <3>3
  <2> QED BY <1>2, <2>1, <2>2
<1>6. Numbered(qe, k, c, m, lg)
  BY <1>3, <1>4, <1>5, Zenon DEF Numbered
<1> QED BY <1>6 DEF qe

LEMMA OwedLog ==
  ASSUME NEW F, NEW lg \in Seq(F), NEW t \in F, NEW tl, NEW rq, Owed(tl, rq, lg)
  PROVE  Owed(tl, rq, Append(lg, t))
<1>1. /\ Len(Append(lg, t)) = Len(lg) + 1 /\ Len(lg) \in Nat
      /\ \A i \in 1 .. Len(lg) : Append(lg, t)[i] = lg[i]
  OBVIOUS
<1>2. PICK B : tl \in Seq(B)
  BY DEF Owed
<1>3. /\ rq \in Seq(SrvFrames) /\ Len(tl) + Len(rq) <= Len(lg)
      /\ Len(tl) \in Nat /\ Len(rq) \in Nat
      /\ \A i \in 1 .. Len(tl) : tl[i] = Outcome(lg[i])
      /\ \A j \in 1 .. Len(rq) : Reports(rq[j], lg[Len(tl) + j])
  BY <1>2 DEF Owed
<1>4. Len(tl) + Len(rq) <= Len(Append(lg, t))
  BY <1>1, <1>3
<1>5. ASSUME NEW i \in 1 .. Len(tl) PROVE tl[i] = Outcome(Append(lg, t)[i])
  <2>1. i \in 1 .. Len(lg)
    BY <1>1, <1>3
  <2> QED BY <1>1, <1>3, <2>1
<1>6. ASSUME NEW j \in 1 .. Len(rq) PROVE Reports(rq[j], Append(lg, t)[Len(tl) + j])
  <2>1. Len(tl) + j \in 1 .. Len(lg)
    BY <1>1, <1>3
  <2>2. Append(lg, t)[Len(tl) + j] = lg[Len(tl) + j]
    BY <1>1, <2>1
  <2>3. Reports(rq[j], lg[Len(tl) + j])
    BY <1>3
  <2> QED BY <2>2, <2>3
<1> QED BY <1>2, <1>3, <1>4, <1>5, <1>6, Zenon DEF Owed

LEMMA OwedRead ==
  ASSUME NEW tl, NEW rq, NEW lg, Owed(tl, rq, lg), NEW f \in SrvFrames, NEW d,
         f.cmd # SEQ, Counts(f, Len(tl) + Len(rq), d, lg)
  PROVE  Owed(tl, Append(rq, f), lg) /\ d = Len(tl) + Len(Append(rq, f))
<1>1. PICK B : tl \in Seq(B)
  BY DEF Owed
<1>2. /\ rq \in Seq(SrvFrames) /\ Len(tl) + Len(rq) <= Len(lg)
      /\ Len(tl) \in Nat /\ Len(rq) \in Nat
      /\ \A i \in 1 .. Len(tl) : tl[i] = Outcome(lg[i])
      /\ \A j \in 1 .. Len(rq) : Reports(rq[j], lg[Len(tl) + j])
  BY <1>1 DEF Owed
<1>3. d = (Len(tl) + Len(rq)) + 1 /\ d <= Len(lg) /\ Reports(f, lg[d])
  BY Zenon DEF Counts
<1>. DEFINE re == Append(rq, f)
<1>4. /\ re \in Seq(SrvFrames) /\ Len(re) = Len(rq) + 1 /\ re[Len(rq) + 1] = f
      /\ \A i \in 1 .. Len(rq) : re[i] = rq[i]
  BY <1>2, AppendFram
<1>. HIDE DEF re
<1>5. d = Len(tl) + Len(re) /\ Len(tl) + Len(re) <= Len(lg)
  BY <1>2, <1>3, <1>4
<1>6. ASSUME NEW j \in 1 .. Len(re) PROVE Reports(re[j], lg[Len(tl) + j])
  <2>1. CASE j \in 1 .. Len(rq)
    BY <1>2, <1>4, <2>1
  <2>2. CASE j = Len(rq) + 1
    <3>1. Len(tl) + j = d
      BY <1>2, <1>3, <2>2
    <3> QED BY <1>3, <1>4, <2>2, <3>1
  <2> QED BY <1>2, <1>4, <2>1, <2>2
<1>7. Owed(tl, re, lg)
  BY <1>1, <1>2, <1>4, <1>5, <1>6, Zenon DEF Owed
<1> QED BY <1>5, <1>7 DEF re

LEMMA OwedTake ==
  ASSUME NEW tl, NEW rq, NEW lg, Owed(tl, rq, lg), rq # <<>>,
         NEW o, o = [cmd |-> Head(rq).cmd, text |-> MIMEExtract(Head(rq).payload)]
  PROVE  /\ Owed(Append(tl, o), Tail(rq), lg)
         /\ Len(Append(tl, o)) + Len(Tail(rq)) = Len(tl) + Len(rq)
<1>1. PICK B : tl \in Seq(B)
  BY DEF Owed
<1>2. /\ rq \in Seq(SrvFrames) /\ Len(tl) + Len(rq) <= Len(lg)
      /\ Len(tl) \in Nat /\ Len(rq) \in Nat /\ Len(rq) >= 1
      /\ \A i \in 1 .. Len(tl) : tl[i] = Outcome(lg[i])
      /\ \A j \in 1 .. Len(rq) : Reports(rq[j], lg[Len(tl) + j])
  <2>1. /\ rq \in Seq(SrvFrames) /\ Len(tl) + Len(rq) <= Len(lg)
        /\ \A i \in 1 .. Len(tl) : tl[i] = Outcome(lg[i])
        /\ \A j \in 1 .. Len(rq) : Reports(rq[j], lg[Len(tl) + j])
    BY DEF Owed
  <2>2. Len(rq) \in Nat /\ Len(rq) >= 1 /\ Len(tl) \in Nat
    BY <1>1, <2>1
  <2> QED BY <2>1, <2>2
<1>. DEFINE te == Append(tl, o)
            re == Tail(rq)
<1>3. /\ re \in Seq(SrvFrames) /\ Len(re) = Len(rq) - 1
      /\ \A i \in 1 .. Len(re) : re[i] = rq[i + 1]
      /\ Head(rq) = rq[1]
  BY <1>2
<1>4. te \in Seq(B \union {o})
  <2>1. tl \in Seq(B \union {o})
    BY <1>1, SeqMonotonic
  <2> QED BY <2>1
<1>5. /\ Len(te) = Len(tl) + 1 /\ te[Len(tl) + 1] = o
      /\ \A i \in 1 .. Len(tl) : te[i] = tl[i]
  BY <1>1
<1>. HIDE DEF te, re
<1>6. Len(te) + Len(re) = Len(tl) + Len(rq)
  BY <1>2, <1>3, <1>5
<1>7. o = Outcome(lg[Len(tl) + 1])
  <2>1. 1 \in 1 .. Len(rq)
    BY <1>2
  <2>2. Reports(Head(rq), lg[Len(tl) + 1])
    BY <1>2, <1>3, <2>1
  <2> QED BY <2>2 DEF Reports
<1>8. ASSUME NEW i \in 1 .. Len(te) PROVE te[i] = Outcome(lg[i])
  <2>1. i \in 1 .. Len(tl) \/ i = Len(tl) + 1
    BY <1>2, <1>5
  <2> QED BY <1>2, <1>5, <1>7, <2>1
<1>9. ASSUME NEW j \in 1 .. Len(re) PROVE Reports(re[j], lg[Len(te) + j])
  <2>1. j + 1 \in 1 .. Len(rq) /\ Len(tl) + (j + 1) = Len(te) + j
    BY <1>2, <1>3, <1>5
  <2>2. Reports(rq[j + 1], lg[Len(tl) + (j + 1)])
    BY <1>2, <2>1
  <2> QED BY <1>3, <2>1, <2>2
<1>10. Owed(te, re, lg)
  <2>1. Len(te) + Len(re) <= Len(lg)
    BY <1>2, <1>6
  <2> QED BY <1>3, <1>4, <1>8, <1>9, <2>1, Zenon DEF Owed
<1> QED BY <1>6, <1>10 DEF te, re

LEMMA InitReplyOrder ==
  Init => ReplyOrder
<1>. SUFFICES ASSUME Init PROVE ReplyOrder
  OBVIOUS
<1>1. /\ queued = <<>> /\ got = <<>> /\ told = <<>> /\ rxq = <<>> /\ logged = <<>> /\ built = <<>>
  BY DEF Init
<1>2. /\ Len(queued) = 0 /\ Len(got) = 0 /\ Len(told) = 0 /\ Len(rxq) = 0 /\ Len(logged) = 0
      /\ Len(built) = 0 /\ told \in Seq({}) /\ rxq \in Seq(SrvFrames)
  BY <1>1
<1>3. Replies = 0
  BY <1>2 DEF Replies
<1>4. Owed(told, rxq, logged)
  <2>1. Len(told) + Len(rxq) <= Len(logged)
    BY <1>2
  <2>2. (1 .. Len(told)) = {} /\ (1 .. Len(rxq)) = {}
    BY <1>2
  <2> QED BY <1>2, <2>1, <2>2, Zenon DEF Owed
<1>5. Numbered(queued, Len(got), Len(told) + Len(rxq), Replies, logged)
  <2>. DEFINE g == [i \in 0 .. 0 |-> 0]
  <2>1. g \in [0 .. Len(queued) -> Nat] /\ g[0] = 0
    BY <1>2
  <2>2. (1 .. Len(queued)) = {} /\ Len(told) + Len(rxq) = 0
    BY <1>2
  <2>. HIDE DEF g
  <2> QED BY <1>2, <1>3, <2>1, <2>2, Zenon DEF Numbered
<1> QED BY <1>4, <1>5 DEF ReplyOrder

\* A poll or a blocking read, when lg has been logged.
LEMMA ReceiveReply ==
  ASSUME Pipe(queued, sendQue, uBytesSend, s2c, got), NEW ch, DoReceive(ch),
         UNCHANGED <<queued, sendQue, uBytesSend>>,
         NEW lg, NEW n, Owed(told, rxq, lg),
         Numbered(queued, Len(got), Len(told) + Len(rxq), n, lg)
  PROVE  /\ Owed(told, rxq', lg)
         /\ Numbered(queued, Len(got'), Len(told) + Len(rxq'), n, lg)
<1>. DEFINE f == queued[Len(got) + 1]
<1>1. /\ Len(got) < Len(queued) /\ got' = Append(got, f)
      /\ rxq' = IF f.cmd # SEQ THEN Append(rxq, f) ELSE rxq
  BY Receives
<1>2. /\ queued \in Seq(SrvFrames) /\ Len(queued) \in Nat
      /\ got \in Seq(SrvFrames) /\ Len(got) \in Nat /\ Len(got) + 1 \in 1 .. Len(queued)
  BY <1>1, AllSrvType DEF Pipe
<1>3. f \in SrvFrames
  BY <1>2
<1>4. Len(got') = Len(got) + 1
  BY <1>1, <1>2
<1>. HIDE DEF f
<1>5. PICK d \in Nat : /\ Counts(f, Len(told) + Len(rxq), d, lg)
                       /\ Numbered(queued, Len(got) + 1, d, n, lg)
  BY <1>1, <1>2, NumberedRead DEF f
<1>6. CASE f.cmd = SEQ
  <2>1. d = Len(told) + Len(rxq) /\ rxq' = rxq
    BY <1>1, <1>5, <1>6, Zenon DEF Counts
  <2> QED BY <1>4, <1>5, <2>1, Zenon
<1>7. CASE f.cmd # SEQ
  <2>1. rxq' = Append(rxq, f)
    BY <1>1, <1>7
  <2>2. Owed(told, Append(rxq, f), lg) /\ d = Len(told) + Len(Append(rxq, f))
    BY <1>3, <1>5, <1>7, OwedRead
  <2> QED BY <1>4, <1>5, <2>1, <2>2
<1> QED BY <1>6, <1>7

LEMMA BuiltReplies ==
  ASSUME NInv, IInv', AllFit, ReplyOrder, Delivery, LstnOnFramRcvd
  PROVE  ReplyOrder'
<1>1. PICK f, ans : Rcvd(f, ans)
  BY RcvdIs
<1>. DEFINE n == Len(built) + 1
<1>2. /\ n \in Nat /\ n - 1 = Len(built) /\ n <= Len(logged) /\ Len(built') = n
  BY <1>1, RcvdAsSent
<1>3. UNCHANGED <<profile, told, rxq, logged, got>>
  BY <1>1 DEF Rcvd, clntVars, clntHist
<1>4. /\ queued \in Seq(SrvFrames) /\ sendQue \in Seq(SrvFrames)
      /\ Len(got) \in 0 .. Len(queued)
  <2>1. /\ queued \in Seq(SrvFrames) /\ sendQue \in Seq(SrvFrames)
        /\ got \in Seq(SrvFrames) /\ Len(got) <= Len(queued)
    BY AllSrvType DEF Delivery, Pipe
  <2> QED BY <2>1
<1>5. PICK a, r : /\ SrvOK(a) /\ a.cmd = SEQ
                  /\ RawAnswer(a) \/ OkAnswer(r, a, n) \/ ErrAnswer(r, n)
  BY <1>1, <1>4, RcvdAnswers
<1>. DEFINE c == Len(told) + Len(rxq)
<1>6. Numbered(queued, Len(got), c, Replies, logged)
  BY DEF ReplyOrder
<1>7. a \in SrvFrames /\ \A m : Counts(a, m, m, logged)
  BY <1>5 DEF SrvOK, Counts
<1>. HIDE DEF c, n
<1>8. CASE RawAnswer(a)
  <2>1. profile # "COOKED" /\ queued' = Append(queued, a)
    BY <1>8 DEF RawAnswer
  <2>2. Replies = 0 /\ Replies' = 0
    BY <1>3, <2>1 DEF Replies
  <2>3. Numbered(Append(queued, a), Len(got), c, 0, logged)
    BY <1>4, <1>6, <1>7, <2>2, NumberedAppend
  <2>4. Numbered(queued', Len(got'), Len(told') + Len(rxq'), Replies', logged')
    BY <1>3, <2>1, <2>2, <2>3 DEF c
  <2> QED BY <1>3, <2>4 DEF ReplyOrder
<1>9. CASE OkAnswer(r, a, n) \/ ErrAnswer(r, n)
  <2>1. profile = "COOKED" /\ SrvOK(r) /\ Reports(r, logged[n])
    BY <1>9 DEF OkAnswer, ErrAnswer
  <2>2. Replies = Len(built) /\ Replies' = n
    BY <1>2, <1>3, <2>1 DEF Replies
  <2>3. Counts(r, Len(built), n, logged) /\ r \in SrvFrames
    <3>1. n = Len(built) + 1
      BY DEF n
    <3> QED BY <1>2, <2>1, <3>1 DEF Counts, Reports, SrvOK
  <2>4. Numbered(Append(queued, r), Len(got), c, n, logged)
    BY <1>2, <1>4, <1>6, <2>2, <2>3, NumberedAppend
  <2>5. Numbered(queued', Len(got), c, n, logged)
    <3>1. CASE ErrAnswer(r, n)
      BY <2>4, <3>1 DEF ErrAnswer
    <3>2. CASE OkAnswer(r, a, n)
      <4>1. queued' = Append(Append(queued, r), a)
        BY <3>2 DEF OkAnswer
      <4>. DEFINE qe == Append(queued, r)
      <4>2. qe \in Seq(SrvFrames) /\ Len(qe) = Len(queued) + 1 /\ Len(queued) \in Nat
        BY <1>4, <2>3, AppendFram
      <4>3. Len(got) \in 0 .. Len(qe)
        BY <1>4, <4>2
      <4>4. Numbered(qe, Len(got), c, n, logged)
        BY <2>4
      <4>. HIDE DEF qe
      <4>5. Numbered(Append(qe, a), Len(got), c, n, logged)
        BY <1>2, <1>7, <4>2, <4>3, <4>4, NumberedAppend
      <4> QED BY <4>1, <4>5 DEF qe
    <3> QED BY <1>9, <3>1, <3>2
  <2>6. Numbered(queued', Len(got'), Len(told') + Len(rxq'), Replies', logged')
    BY <1>3, <2>2, <2>5 DEF c
  <2> QED BY <1>3, <2>6 DEF ReplyOrder
<1> QED BY <1>5, <1>8, <1>9

LEMMA NextRInv ==
  ASSUME RInv, [Next]_vars
  PROVE  RInv'
<1>1. DInv /\ DInv' /\ NInv /\ NInv' /\ IInv /\ IInv'
  BY NextDInv DEF RInv, DInv, NInv, TInv
<1>. SUFFICES ASSUME AllFit' PROVE ReplyOrder'
  BY <1>1 DEF RInv
<1>2. AllFit /\ ReplyOrder /\ Delivery
  BY <1>1, AllFitBefore DEF RInv, DInv
<1>3. Pipe(queued, sendQue, uBytesSend, s2c, got)
      /\ queued \in Seq(SrvFrames) /\ Len(queued) \in Nat
  BY <1>2, AllSrvType DEF Delivery, Pipe
<1>4. logged \in Seq(Texts)
  BY <1>1 DEF NInv, TInv, ClientTexts
<1>5. /\ Owed(told, rxq, logged)
      /\ Numbered(queued, Len(got), Len(told) + Len(rxq), Replies, logged)
  BY <1>2 DEF ReplyOrder
<1>6. ASSUME UNCHANGED <<profile, built>> PROVE Replies' = Replies
  BY <1>6 DEF Replies
<1>7. ASSUME NEW t \in Texts, LogMesg(t) PROVE ReplyOrder'
  <2>. DEFINE lg == Append(logged, t)
  <2>1. /\ logged' = lg /\ UNCHANGED <<profile, built, queued, sendQue, uBytesSend, told>>
        /\ (\E ch : DoReceive(ch)) \/ UNCHANGED <<got, rxq>>
    BY <1>7 DEF LogMesg, lstnVars, lstnHist
  <2>2. /\ Owed(told, rxq, lg)
        /\ Numbered(queued, Len(got), Len(told) + Len(rxq), Replies, lg)
    BY <1>3, <1>4, <1>5, OwedLog, NumberedLog
  <2>. HIDE DEF lg
  <2>3. Replies' = Replies
    BY <1>6, <2>1
  <2>4. /\ Owed(told, rxq', lg)
        /\ Numbered(queued, Len(got'), Len(told) + Len(rxq'), Replies, lg)
    <3>1. CASE \E ch : DoReceive(ch)
      <4>1. PICK ch : DoReceive(ch)
        BY <3>1
      <4>2. UNCHANGED <<queued, sendQue, uBytesSend>>
        BY <2>1
      <4> QED BY <1>3, <2>2, <4>1, <4>2, ReceiveReply
    <3>2. CASE UNCHANGED <<got, rxq>>
      BY <2>2, <3>2
    <3> QED BY <2>1, <3>1, <3>2
  <2> QED BY <2>1, <2>3, <2>4 DEF ReplyOrder
<1>8. CASE AwaitFram
  <2>1. /\ DoReceive(chan) /\ UNCHANGED <<profile, built, queued, sendQue, uBytesSend, told, logged>>
    BY <1>8 DEF AwaitFram, lstnVars, lstnHist
  <2>2. Replies' = Replies /\ UNCHANGED <<queued, sendQue, uBytesSend>>
    BY <1>6, <2>1
  <2>3. /\ Owed(told, rxq', logged)
        /\ Numbered(queued, Len(got'), Len(told) + Len(rxq'), Replies, logged)
    BY <1>3, <1>5, <2>1, <2>2, ReceiveReply
  <2> QED BY <2>1, <2>2, <2>3 DEF ReplyOrder
<1>9. CASE TakeReply
  <2>. DEFINE o == [cmd |-> Head(rxq).cmd, text |-> MIMEExtract(Head(rxq).payload)]
  <2>1. /\ rxq # <<>> /\ told' = Append(told, o) /\ rxq' = Tail(rxq)
        /\ UNCHANGED <<profile, built, queued, got, logged>>
    BY <1>9 DEF TakeReply, lstnVars, lstnHist
  <2>2. Replies' = Replies
    BY <1>6, <2>1
  <2>3. /\ Owed(Append(told, o), Tail(rxq), logged)
        /\ Len(Append(told, o)) + Len(Tail(rxq)) = Len(told) + Len(rxq)
    BY <1>5, <2>1, OwedTake
  <2>. HIDE DEF o
  <2> QED BY <1>5, <2>1, <2>2, <2>3 DEF ReplyOrder
<1>10. CASE SendFram \/ LstnBuildFrame \/ LstnCrash \/ LstnSendFram \/ UNCHANGED vars
  <2>1. UNCHANGED <<profile, built, queued, got, rxq, told, logged>>
    BY <1>10 DEF SendFram, LstnBuildFrame, LstnCrash, LstnSendFram, vars, lstnVars, lstnHist,
              clntVars, clntHist
  <2>2. Replies' = Replies
    BY <1>6, <2>1
  <2> QED BY <1>5, <2>1, <2>2 DEF ReplyOrder
<1>11. CASE LstnOnFramRcvd
  BY <1>1, <1>2, <1>11, BuiltReplies
<1> QED BY <1>7, <1>8, <1>9, <1>10, <1>11 DEF Next

LEMMA OrderTells ==
  ReplyOrder => RepliesTold
<1>. SUFFICES ASSUME ReplyOrder PROVE RepliesTold
  OBVIOUS
<1>1. Owed(told, rxq, logged)
  BY DEF ReplyOrder
<1>2. PICK B : told \in Seq(B)
  BY <1>1 DEF Owed
<1>3. \A i \in 1 .. Len(told) : told[i] = Outcome(logged[i])
  BY <1>1 DEF Owed
<1>4. DOMAIN told = 1 .. Len(told)
  BY <1>2
<1> QED BY <1>3, <1>4 DEF RepliesTold, Outcome

\* What the i-th call of a COOKED client was told is what the listener made of
\* the i-th text, however many frames were read early by a poll and whatever
\* acknowledgements lie between, as long as the client's frames fit.
THEOREM CallsToldTheTruth == Spec => [](AllFit => RepliesTold)
<1>1. Init => RInv
  BY InitTInv, InitNums, InitDelivery, InitReplyOrder DEF RInv, DInv, NInv
<1>2. RInv /\ [Next]_vars => RInv'
  BY NextRInv
<1>3. RInv => (AllFit => RepliesTold)
  BY OrderTells DEF RInv
<1> QED BY <1>1, <1>2, <1>3, PTL DEF Spec

-----------------------------------------------------------------------------
(***************************************************************************)
(* The replies after a frame was cut.                                      *)
(***************************************************************************)
\* A COOKED call ends with its reply, a RAW one has none.
Turns ==
  /\ \E B : told \in Seq(B)
  /\ profile = "RAW" => cpc # "recv" /\ Len(told) = 0
  /\ profile = "COOKED" =>
       /\ cpc \in {"idle", "send"} => Len(told) = Len(sent)
       /\ cpc = "recv" => Len(told) + 1 = Len(sent)
       /\ Len(told) <= Len(sent)

ToldInStep == \A i \in InStep \intersect DOMAIN told : told[i] = Outcome(logged[i])

SInv == RInv /\ Turns /\ ToldInStep

LEMMA InitTurns ==
  Init => Turns /\ ToldInStep
<1>. SUFFICES ASSUME Init PROVE Turns /\ ToldInStep
  OBVIOUS
<1>1. told = <<>> /\ sent = <<>> /\ cpc = "idle"
  BY DEF Init
<1>2. told \in Seq({}) /\ Len(told) = 0 /\ Len(sent) = 0 /\ DOMAIN told = {}
  BY <1>1
<1> QED BY <1>1, <1>2 DEF Turns, ToldInStep

LEMMA NextTurns ==
  ASSUME SInv, [Next]_vars
  PROVE  Turns'
<1>1. /\ profile \in {"RAW", "COOKED"} /\ sent \in Seq(Frames) /\ Len(sent) \in Nat
      /\ cpc \in {"idle", "send", "recv", "failed"}
  BY SentType DEF SInv, RInv, DInv, NInv, TInv, IInv, ClientOK, ClientTexts
<1>2. PICK B : told \in Seq(B)
  BY DEF SInv, Turns
<1>3. Len(told) \in Nat
  BY <1>2
<1>4. CASE SendFram
  <2>1. /\ cpc = "send" /\ sent' = Append(sent, pend) /\ told' = told /\ profile' = profile
        /\ cpc' = IF profile = "RAW" THEN "idle" ELSE "recv"
    BY <1>4 DEF SendFram
  <2>2. Len(sent') = Len(sent) + 1
    BY <1>1, <2>1
  <2> QED BY <1>1, <1>2, <1>3, <2>1, <2>2 DEF SInv, Turns
<1>5. CASE TakeReply
  <2>1. /\ cpc = "recv" /\ sent' = sent /\ profile' = profile /\ cpc' = "idle"
        /\ \E o : told' = Append(told, o)
    BY <1>5 DEF TakeReply
  <2>2. PICK o : told' = Append(told, o)
    BY <2>1
  <2>3. told \in Seq(B \union {o})
    BY <1>2, SeqMonotonic
  <2>4. told' \in Seq(B \union {o}) /\ Len(told') = Len(told) + 1
    BY <2>2, <2>3
  <2>5. profile = "COOKED" /\ Len(told') = Len(sent')
    BY <1>1, <2>1, <2>4 DEF SInv, Turns
  <2>6. Len(sent') \in Nat
    BY <1>1, <2>1
  <2> QED BY <2>1, <2>4, <2>5, <2>6 DEF Turns
<1>6. ASSUME sent' = sent, told' = told, profile' = profile,
             cpc' = cpc \/ (cpc = "idle" /\ cpc' = "send") \/ cpc' = "failed"
      PROVE  Turns'
  BY <1>2, <1>6 DEF SInv, Turns
<1>7. CASE ~SendFram /\ ~TakeReply
  BY <1>6, <1>7 DEF Next, LogMesg, AwaitFram, LstnBuildFrame, LstnOnFramRcvd, LstnCrash,
         LstnSendFram, vars, clntVars, clntHist
<1> QED BY <1>4, <1>5, <1>7

LEMMA NextToldInStep ==
  ASSUME SInv, [Next]_vars
  PROVE  ToldInStep'
<1>1. /\ profile \in {"RAW", "COOKED"} /\ sent \in Seq(Frames) /\ Len(sent) \in Nat
      /\ logged \in Seq(Texts) /\ Len(sent) <= Len(logged) /\ Turns /\ ToldInStep
  BY SentType DEF SInv, RInv, DInv, NInv, TInv, IInv, ClientOK, ClientTexts
<1>2. PICK B : told \in Seq(B)
  BY <1>1 DEF Turns
<1>3. DOMAIN told = 1 .. Len(told) /\ Len(told) \in Nat /\ Len(told) <= Len(sent)
      /\ DOMAIN sent = 1 .. Len(sent)
  BY <1>1, <1>2 DEF Turns
<1>4. CASE TakeReply
  <2>1. /\ cpc = "recv" /\ sent' = sent /\ logged' = logged
        /\ \E o : told' = Append(told, o)
    BY <1>4 DEF TakeReply
  <2>2. InStep' = InStep
    BY <2>1 DEF InStep
  <2>3. CASE AllFit
    <3>1. AllFit'
      BY <2>1, <2>3 DEF AllFit
    <3>2. RInv'
      BY NextRInv DEF SInv
    <3>3. RepliesTold'
      <4>1. (ReplyOrder => RepliesTold)'
        BY OrderTells, PTL
      <4> QED BY <3>1, <3>2, <4>1 DEF RInv
    <3> QED BY <3>3 DEF RepliesTold, ToldInStep, Outcome
  <2>4. CASE ~AllFit
    <3>1. PICK o : told' = Append(told, o)
      BY <2>1
    <3>2. told \in Seq(B \union {o})
      BY <1>2, SeqMonotonic
    <3>3. /\ DOMAIN told' = 1 .. Len(told) + 1
          /\ \A i \in 1 .. Len(told) : told'[i] = told[i]
      BY <3>1, <3>2
    <3>4. Len(told) + 1 = Len(sent)
      BY <1>1, <2>1 DEF Turns
    <3>5. Len(sent) \notin InStep
      BY <1>3, <2>4 DEF AllFit, InStep
    <3>6. ASSUME NEW i \in InStep' \intersect DOMAIN told' PROVE told'[i] = Outcome(logged'[i])
      <4>1. i \in 1 .. Len(told)
        BY <1>3, <2>2, <3>3, <3>4, <3>5
      <4>2. i \in InStep \intersect DOMAIN told
        BY <1>3, <2>2, <4>1
      <4> QED BY <1>1, <2>1, <3>3, <4>1, <4>2 DEF ToldInStep
    <3> QED BY <3>6 DEF ToldInStep
  <2> QED BY <2>3, <2>4
<1>5. CASE ~TakeReply
  <2>1. /\ told' = told
        /\ sent' = sent \/ sent' = Append(sent, pend)
        /\ logged' = logged \/ \E t \in Texts : logged' = Append(logged, t)
    BY <1>5 DEF Next, LogMesg, SendFram, AwaitFram, LstnBuildFrame, LstnOnFramRcvd,
           LstnCrash, LstnSendFram, vars, clntHist
  <2>2. \A i \in 1 .. Len(sent) : i \in DOMAIN sent' /\ sent'[i] = sent[i]
    BY <1>1, <2>1
  <2>3. \A i \in 1 .. Len(sent) : logged'[i] = logged[i]
    BY <1>1, <2>1
  <2>4. ASSUME NEW i \in InStep' \intersect DOMAIN told' PROVE told'[i] = Outcome(logged'[i])
    <3>1. i \in 1 .. Len(told) /\ i \in 1 .. Len(sent)
      BY <1>3, <2>1
    <3>2. \A j \in 1 .. i : Fits(sent'[j])
      BY DEF InStep
    <3>3. \A j \in 1 .. i : j \in 1 .. Len(sent)
      BY <1>1, <3>1
    <3>4. \A j \in 1 .. i : Fits(sent[j])
      BY <2>2, <3>2, <3>3
    <3>5. i \in InStep
      BY <1>3, <3>1, <3>4 DEF InStep
    <3> QED BY <1>1, <1>3, <2>1, <2>3, <3>1, <3>5 DEF ToldInStep
  <2> QED BY <2>4 DEF ToldInStep
<1> QED BY <1>4, <1>5

\* What the i-th call of a COOKED client was told is what the listener made of
\* the i-th text, if no frame up to that one was cut, and whatever became of the
\* later ones.
THEOREM EarlyRepliesTrue ==
  Spec => [](\A i \in InStep \intersect DOMAIN told : told[i] = Outcome(logged[i]))
<1>1. Init => SInv
  BY InitTInv, InitNums, InitDelivery, InitReplyOrder, InitTurns DEF SInv, RInv, DInv, NInv
<1>2. SInv /\ [Next]_vars => SInv'
  BY NextRInv, NextTurns, NextToldInStep DEF SInv
<1>3. SInv => \A i \in InStep \intersect DOMAIN told : told[i] = Outcome(logged[i])
  BY DEF SInv, ToldInStep
<1> QED BY <1>1, <1>2, <1>3, PTL DEF Spec
=============================================================================
