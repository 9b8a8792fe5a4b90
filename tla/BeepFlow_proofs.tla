-------------------------- MODULE BeepFlow_proofs --------------------------
(***************************************************************************)
(* For every choice of window, sizes, profile and number of messages:      *)
(* the data phase of a log channel neither loses nor doubles a message,    *)
(* reports to the caller only what is true, and implements LogDelivery.    *)
(* The argument: between two API calls no reply is anywhere in the system  *)
(* (CallOK, RepliesOK), so the reply a COOKED call takes can only be the   *)
(* one to its own message; the frames on the wire are exactly the messages *)
(* not yet taken, in order (NothingLostOrDoubled).                         *)
(***************************************************************************)
EXTENDS BeepFlow, TLAPS

IsReply(f) == f.hdr \in {"RPY", "ERR"}
Got(m) == \E i \in 1 .. Len(delivered) : delivered[i] = m

\* What a reply says of the call in progress is true.
SaysTrue(f) == /\ handled = logged
               /\ f.hdr = "RPY" => Got(logged)
               /\ f.hdr = "ERR" => logged \in rejected

NoReply(q) == \A i \in 1 .. Len(q) : ~IsReply(q[i])
OneReply(q) ==
  \A i, j \in 1 .. Len(q) : IsReply(q[i]) /\ IsReply(q[j]) => i = j
FromLstn(q) == \A i \in 1 .. Len(q) : q[i].hdr \in {"SEQ", "RPY", "ERR"}
TrueReplies(q) ==
  \A i \in 1 .. Len(q) :
     IsReply(q[i]) => SaysTrue(q[i]) /\ cpc \in {"recv", "failed"}

\* Where an API call stands.
CallOK ==
  /\ cpc = "idle" => /\ pend = NoFram /\ reply = NoFram
                     /\ Profile = "COOKED" => handled = logged
  /\ cpc = "send" =>
       \/ /\ pend.hdr = LogHdr /\ pend.id = logged /\ reply = NoFram
          /\ Profile = "COOKED" => handled = logged - 1
       \/ /\ pend.hdr = "SEQ" /\ Profile = "COOKED"
          /\ IsReply(reply) /\ SaysTrue(reply)
  /\ cpc = "recv" => /\ pend = NoFram /\ reply = NoFram
                     /\ Profile = "COOKED" /\ logged - 1 <= handled
  /\ cpc = "failed" => ~lstnUp

\* At most one reply exists, and it answers the call in progress.
RepliesOK ==
  /\ rxq # <<>> => cpc \in {"recv", "failed"} /\ NoReply(s2c) /\ NoReply(sendQue)
  /\ \A i \in 1 .. Len(rxq) : IsReply(rxq[i])
  /\ FromLstn(s2c) /\ FromLstn(sendQue)
  /\ ~NoReply(s2c) => NoReply(sendQue)
  /\ OneReply(rxq) /\ OneReply(s2c) /\ OneReply(sendQue)
  /\ TrueReplies(rxq) /\ TrueReplies(s2c) /\ TrueReplies(sendQue)

\* No SEQ frame acknowledges octets the client has not produced.
AcksUpTo(q, n) ==
  \A i \in 1 .. Len(q) : q[i].hdr = "SEQ" => q[i].no <= n
AcksOK ==
  /\ AcksUpTo(s2c, uSeqno) /\ AcksUpTo(sendQue, uSeqno)
  /\ \A i \in 1 .. Len(c2s) :
        IsLog(c2s[i]) => c2s[i].no + c2s[i].size <= uSeqno
  /\ IsLog(pend) => pend.no + pend.size <= uSeqno

\* The frames of either direction and the room left for the listener's.
FramesOK ==
  /\ \A i \in 1 .. Len(rxq) : rxq[i].size <= Window
  /\ \A i \in 1 .. Len(s2c) : s2c[i].size <= Window
  /\ \A i \in 1 .. Len(sendQue) : sendQue[i].size <= Window
  /\ Profile = "COOKED" /\ handled < logged
        => lSeqno + OkSize + ErrSize < WordMod

HistOK ==
  /\ rejected \subseteq 1 .. handled
  /\ \A i \in 1 .. Len(delivered) :
        delivered[i] \in 1 .. handled /\ delivered[i] \notin rejected
  /\ handled <= logged

IInv == /\ TypeOK /\ NothingLostOrDoubled /\ ReportIsTrue
        /\ CallOK /\ RepliesOK /\ AcksOK /\ FramesOK /\ HistOK
-----------------------------------------------------------------------------
\* What is in the tail of a queue was behind its head.
LEMMA TailIdx ==
  ASSUME NEW S, NEW q \in Seq(S), q # <<>>
  PROVE  /\ Tail(q) \in Seq(S) /\ Len(Tail(q)) = Len(q) - 1
         /\ Head(q) = q[1] /\ q[1] \in S /\ 1 \in 1 .. Len(q)
         /\ \A i \in 1 .. Len(Tail(q)) : i + 1 \in 1 .. Len(q) /\ Tail(q)[i] = q[i + 1]
  OBVIOUS

\* A queue without elements is the empty one.
LEMMA EmptySeq == ASSUME NEW S, NEW q \in Seq(S), Len(q) = 0 PROVE q = <<>>
  OBVIOUS

\* Where the elements of a queue are after one has joined it.
LEMMA AppendIdx ==
  ASSUME NEW S, NEW q \in Seq(S), NEW e \in S
  PROVE  /\ Append(q, e) \in Seq(S) /\ Len(Append(q, e)) = Len(q) + 1
         /\ Append(q, e)[Len(q) + 1] = e
         /\ \A i \in 1 .. Len(q) : Append(q, e)[i] = q[i]
         /\ \A i \in 1 .. Len(Append(q, e)) : i \in 1 .. Len(q) \/ i = Len(q) + 1
  OBVIOUS

\* Where the elements of a queue are after several have joined it.
LEMMA ConcatIdx ==
  ASSUME NEW S, NEW p \in Seq(S), NEW q \in Seq(S)
  PROVE  /\ p \o q \in Seq(S) /\ Len(p \o q) = Len(p) + Len(q)
         /\ \A i \in 1 .. Len(p) : (p \o q)[i] = p[i]
         /\ \A i \in 1 .. Len(p \o q) :
               \/ i \in 1 .. Len(p)
               \/ i - Len(p) \in 1 .. Len(q) /\ (p \o q)[i] = q[i - Len(p)]
  OBVIOUS

\* The three shapes a frame is built in are frames.
LEMMA FramType ==
  /\ \A id, no \in Nat : SEQFram(id, no) \in Frames
  /\ \A id, no, size \in Nat, ok \in BOOLEAN :
        /\ Fram("ANS", id, no, size, ok) \in Frames
        /\ Fram("MSG", id, no, size, ok) \in Frames
        /\ Fram("RPY", id, no, size, ok) \in Frames
        /\ Fram("ERR", id, no, size, ok) \in Frames
  BY FlowAssumption DEF Fram, SEQFram, Frames

\* A frame has the fields it is built from.
LEMMA FramFields ==
  ASSUME NEW q \in Seq(Frames), NEW i \in 1 .. Len(q)
  PROVE  /\ q[i] \in Frames /\ q[i].id \in Nat /\ q[i].no \in Nat
         /\ q[i].size \in Nat /\ q[i].ok \in BOOLEAN
         /\ q[i].hdr \in {"ANS", "MSG", "SEQ", "RPY", "ERR"}
<1>1. q[i] \in Frames
  OBVIOUS
<1> QED
  BY <1>1 DEF Frames

\* The placeholder for "no frame" is not a frame and carries no log message.
LEMMA NoFramType == NoFram \notin Frames /\ ~IsLog(NoFram) /\ ~IsReply(NoFram)
  BY DEF NoFram, Frames, IsLog, IsReply

\* sbSessDoSEQ stays within an unsigned for every ackno that was produced.
LEMMA WinType ==
  ASSUME NEW seqno \in 0 .. WordMod - 1, NEW ackno \in Nat, ackno <= seqno
  PROVE  WinAfterSEQ(seqno, ackno) \in 0 .. WordMod - 1
  BY FlowAssumption DEF WinAfterSEQ, Unsigned

\* The state sbChanConstruct leaves behind satisfies the invariant.
LEMMA InitInv == Init => IInv
<1> SUFFICES ASSUME Init PROVE IInv
  OBVIOUS
<1> USE FlowAssumption, NoFramType DEF Init
<1>1. TypeOK
  BY DEF TypeOK
<1>2. NothingLostOrDoubled
  BY DEF NothingLostOrDoubled, InFlight, Waiting
<1>3. ReportIsTrue
  BY DEF ReportIsTrue
<1>4. CallOK /\ RepliesOK /\ AcksOK /\ FramesOK /\ HistOK
  BY DEF CallOK, RepliesOK, AcksOK, FramesOK, HistOK, NoReply, OneReply,
         TrueReplies, FromLstn, AcksUpTo
<1> QED
  BY <1>1, <1>2, <1>3, <1>4 DEF IInv

\* A read of one frame (sbSessDoReceive) keeps the connection's invariants.
LEMMA DoReceiveInv ==
  ASSUME IInv, NEW seqno \in 0 .. WordMod - 1, uSeqno <= seqno,
         NEW que \in Seq(Frames), \A i \in 1 .. Len(que) : IsReply(que[i]),
         que # <<>> => NoReply(s2c) /\ NoReply(sendQue),
         OneReply(que), PollReceive(seqno, que), UNCHANGED sendQue
  PROVE  /\ uTXWinLeft' \in 0 .. WordMod - 1
         /\ rxq' \in Seq(Frames) /\ s2c' \in Seq(Frames)
         /\ \A i \in 1 .. Len(rxq') :
               \/ i \in 1 .. Len(que) /\ rxq'[i] = que[i]
               \/ /\ ~NoReply(s2c) /\ IsReply(rxq'[i])
                  /\ \E j \in 1 .. Len(s2c) : rxq'[i] = s2c[j]
         /\ \A i \in 1 .. Len(s2c') : \E j \in 1 .. Len(s2c) : s2c'[i] = s2c[j]
         /\ rxq' # <<>> => NoReply(s2c') /\ NoReply(sendQue')
         /\ ~NoReply(s2c') => ~NoReply(s2c)
         /\ OneReply(rxq') /\ OneReply(s2c')
<1> USE DEF IInv, TypeOK
<1>1. CASE rxq' = que /\ UNCHANGED <<s2c, uTXWinLeft>>
  BY <1>1 DEF RepliesOK
<1>2. CASE DoReceive(seqno, que)
  <2> DEFINE h == Head(s2c)
  <2>1. /\ s2c # <<>> /\ s2c' = Tail(s2c) /\ s2c \in Seq(Frames)
        /\ h = s2c[1] /\ h \in Frames /\ 1 \in 1 .. Len(s2c)
        /\ s2c' \in Seq(Frames) /\ Len(s2c') = Len(s2c) - 1
        /\ \A i \in 1 .. Len(s2c') : i + 1 \in 1 .. Len(s2c) /\ s2c'[i] = s2c[i + 1]
    BY <1>2, TailIdx DEF DoReceive
  <2>a. OneReply(s2c)
    BY DEF RepliesOK
  <2>b. \A i \in 1 .. Len(s2c') : i \in Nat
    BY <2>1
  <2>c. OneReply(s2c')
    BY <2>1, <2>a, <2>b, SMTT(30) DEF OneReply
  <2>d. ~NoReply(s2c') => ~NoReply(s2c)
    BY <2>1 DEF NoReply
  <2>2. OneReply(s2c') /\ (~NoReply(s2c') => ~NoReply(s2c))
    BY <2>c, <2>d
  <2>3. CASE h.hdr = "SEQ"
    <3>1. rxq' = que /\ uTXWinLeft' = WinAfterSEQ(seqno, h.no)
      BY <1>2, <2>3 DEF DoReceive
    <3>2. h.no <= uSeqno
      BY <2>1, <2>3 DEF AcksOK, AcksUpTo
    <3>a. h.no \in Nat /\ h.no <= seqno
      BY <2>1, <3>2, SMTT(60) DEF Frames
    <3>3. que # <<>> => NoReply(s2c') /\ NoReply(sendQue')
      BY <2>2
    <3> QED
      BY <2>1, <2>2, <3>1, <3>a, <3>3, WinType
  <2>4. CASE h.hdr # "SEQ"
    <3>1. rxq' = Append(que, h) /\ uTXWinLeft' = uTXWinLeft
      BY <1>2, <2>4 DEF DoReceive
    <3>2. IsReply(h) /\ ~NoReply(s2c)
      BY <2>1, <2>4 DEF NoReply, IsReply, RepliesOK, FromLstn
    <3>3. que = <<>>
      BY <3>2
    <3>4. NoReply(s2c') /\ NoReply(sendQue')
      BY <2>1, <3>2 DEF RepliesOK, OneReply, NoReply
    <3>5. /\ rxq' \in Seq(Frames)
          /\ \A i \in 1 .. Len(rxq') : i = 1 /\ rxq'[i] = h
      BY <2>1, <3>1, <3>3, AppendIdx
    <3> QED
      BY <2>1, <2>2, <3>1, <3>2, <3>3, <3>4, <3>5 DEF OneReply
  <2> QED
    BY <2>3, <2>4
<1> QED
  BY <1>1, <1>2 DEF PollReceive

\* srAPISendLogmsg up to the first sbChanActualSendFram keeps the invariant.
LEMMA LogMesgInv ==
  ASSUME IInv, NEW s \in Sizes, NEW ok \in Parsable, LogMesg(s, ok)
  PROVE  IInv'
<1> DEFINE f == Fram(LogHdr, logged + 1, uSeqno, s, ok)
<1>1. /\ cpc = "idle" /\ pend = NoFram /\ reply = NoFram /\ rxq = <<>>
      /\ NoReply(s2c) /\ NoReply(sendQue)
      /\ Profile = "COOKED" => handled = logged
  BY DEF IInv, LogMesg, CallOK, RepliesOK, TrueReplies, NoReply
<1>2. /\ pend' = f /\ f \in Frames /\ IsLog(f) /\ f.hdr = LogHdr
      /\ f.id = logged + 1 /\ f.no = uSeqno /\ f.size = s /\ s \in Nat
  <2>1. s \in Nat /\ ok \in BOOLEAN /\ logged \in Nat /\ uSeqno \in Nat
    BY FlowAssumption DEF IInv, TypeOK
  <2>2. LogHdr \in {"ANS", "MSG"}
    BY DEF LogHdr
  <2>3. f \in Frames
    BY <2>1, <2>2, FramType
  <2>4. /\ f.hdr = LogHdr /\ f.id = logged + 1 /\ f.no = uSeqno /\ f.size = s
    BY DEF Fram
  <2> QED
    BY <2>1, <2>2, <2>3, <2>4 DEF LogMesg, IsLog
<1>3. /\ logged' = logged + 1 /\ logged' \in 0 .. MaxLogs
      /\ uSeqno' = uSeqno + s /\ uSeqno' \in 0 .. WordMod - 1 /\ cpc' = "send"
      /\ UNCHANGED <<reply, uRXWinLeft, c2s, lstnVars, acked, refused,
                     rcvdHist, granted>>
  BY <1>2, FlowAssumption DEF LogMesg, SessionCap, IInv, TypeOK
<1>4. UNCHANGED <<handled, delivered, rejected, lstnUp, lSeqno, lTXWinLeft,
                  sendQue>>
  BY <1>3 DEF rcvdHist, lstnVars
<1>5. /\ uTXWinLeft' \in 0 .. WordMod - 1
      /\ s2c' \in Seq(Frames) /\ rxq' \in Seq(Frames) /\ rxq' = <<>>
      /\ NoReply(s2c') /\ NoReply(sendQue')
      /\ \A i \in 1 .. Len(s2c') : \E j \in 1 .. Len(s2c) : s2c'[i] = s2c[j]
  <2>1. PollReceive(uSeqno', rxq) /\ uSeqno <= uSeqno' /\ OneReply(rxq)
        /\ rxq \in Seq(Frames)
    BY <1>1, <1>2, <1>3 DEF LogMesg, IInv, TypeOK, OneReply
  <2>2. (\A i \in 1 .. Len(rxq) : IsReply(rxq[i])) /\ UNCHANGED sendQue
    BY <1>1, <1>4
  <2> HIDE DEF f
  <2>3. /\ uTXWinLeft' \in 0 .. WordMod - 1
        /\ rxq' \in Seq(Frames) /\ s2c' \in Seq(Frames)
        /\ \A i \in 1 .. Len(rxq') :
              i \in 1 .. Len(rxq) \/ ~NoReply(s2c)
        /\ \A i \in 1 .. Len(s2c') : \E j \in 1 .. Len(s2c) : s2c'[i] = s2c[j]
        /\ ~NoReply(s2c') => ~NoReply(s2c)
    BY <1>1, <1>3, <2>1, <2>2, DoReceiveInv
  <2>4. rxq' = <<>>
    BY <1>1, <2>3
  <2> QED
    BY <1>1, <2>2, <2>3, <2>4
<1> HIDE DEF f
<1>6. TypeOK'
  BY <1>2, <1>3, <1>4, <1>5 DEF IInv, TypeOK
<1>7. NothingLostOrDoubled'
  <2>1. Waiting = {} /\ Waiting' = {logged + 1}
    BY <1>1, <1>2, NoFramType DEF Waiting
  <2>2. InFlight(c2s)' = InFlight(c2s) /\ c2s' = c2s
    BY <1>3
  <2>3. handled \in Nat /\ logged \in Nat /\ handled <= logged
    BY DEF IInv, TypeOK, HistOK
  <2> QED
    BY <1>3, <1>4, <2>1, <2>2, <2>3 DEF IInv, NothingLostOrDoubled
<1>8. ReportIsTrue'
  BY <1>3, <1>4 DEF IInv, ReportIsTrue
<1>9. CallOK'
  <2>1. logged' - 1 = logged
    BY <1>3 DEF IInv, TypeOK
  <2> QED
    BY <1>1, <1>2, <1>3, <1>4, <2>1 DEF IInv, CallOK, LogHdr
<1>10. RepliesOK'
  BY <1>4, <1>5, SMTT(60) DEF IInv, RepliesOK, NoReply, OneReply, TrueReplies, FromLstn
<1>11. AcksOK'
  <2>1. uSeqno \in Nat /\ uSeqno <= uSeqno'
    BY <1>2, <1>3 DEF IInv, TypeOK
  <2>2. AcksUpTo(s2c', uSeqno') /\ AcksUpTo(sendQue', uSeqno')
    <3>1. \A i \in 1 .. Len(s2c) : s2c[i].no \in Nat
      BY FramFields DEF IInv, TypeOK
    <3>2. \A i \in 1 .. Len(sendQue) : sendQue[i].no \in Nat
      BY FramFields DEF IInv, TypeOK
    <3> QED
      BY <1>3, <1>4, <1>5, <2>1, <3>1, <3>2, SMTT(60) DEF IInv, AcksOK, AcksUpTo
  <2>3. \A i \in 1 .. Len(c2s') :
          IsLog(c2s'[i]) => c2s'[i].no + c2s'[i].size <= uSeqno'
    <3>1. \A i \in 1 .. Len(c2s) : c2s[i].no \in Nat /\ c2s[i].size \in Nat
      BY FramFields DEF IInv, TypeOK
    <3> QED
      BY <1>3, <2>1, <3>1 DEF IInv, AcksOK
  <2> QED
    BY <1>2, <1>3, <2>1, <2>2, <2>3 DEF AcksOK
<1>12. FramesOK'
  BY <1>3, <1>4, <1>5 DEF IInv, FramesOK, LogMesg, SessionCap
<1>13. HistOK'
  BY <1>3, <1>4 DEF IInv, HistOK, TypeOK
<1> QED
  BY <1>6, <1>7, <1>8, <1>9, <1>10, <1>11, <1>12, <1>13 DEF IInv

\* The log messages on a wire after one more frame was put on it.
LEMMA InFlightAppend ==
  ASSUME NEW q \in Seq(Frames), NEW e \in Frames
  PROVE  InFlight(Append(q, e)) = InFlight(q) \union (IF IsLog(e) THEN {e.id} ELSE {})
<1> DEFINE qe == Append(q, e)
<1>1. /\ Len(qe) = Len(q) + 1 /\ qe[Len(q) + 1] = e /\ Len(q) \in Nat
      /\ \A i \in 1 .. Len(q) : qe[i] = q[i] /\ i \in 1 .. Len(qe)
      /\ Len(q) + 1 \in 1 .. Len(qe)
      /\ \A i \in 1 .. Len(qe) : i \in 1 .. Len(q) \/ i = Len(q) + 1
  BY AppendIdx
<1> HIDE DEF qe
<1>2. \A x : x \in InFlight(qe) <=> \E i \in 1 .. Len(qe) : IsLog(qe[i]) /\ x = qe[i].id
  BY DEF InFlight
<1>3. \A x : x \in InFlight(q) <=> \E i \in 1 .. Len(q) : IsLog(q[i]) /\ x = q[i].id
  BY DEF InFlight
<1> QED
  BY <1>1, <1>2, <1>3 DEF qe

\* What the API call reports is true if what the reply says is.
LEMMA ReportInv ==
  ASSUME IInv, NEW f, Report(f), IsReply(f) => SaysTrue(f),
         UNCHANGED <<logged, delivered, rejected>>
  PROVE  ReportIsTrue' /\ acked' \subseteq Nat /\ refused' \subseteq Nat
<1> USE DEF IInv
<1>1. logged \in Nat /\ acked \subseteq Nat /\ refused \subseteq Nat
  BY FlowAssumption DEF TypeOK
<1>2. \A m : Got(m) => m \notin rejected
  BY DEF HistOK, Got
<1>3. (\A m \in acked : Got(m)) /\ refused \subseteq rejected
  BY DEF ReportIsTrue, Got
<1>4. (\A m \in acked' : Got(m)) /\ refused' \subseteq rejected
  BY <1>3 DEF Report, SaysTrue, IsReply
<1>5. (\A m \in acked' : Got(m)') /\ refused' \subseteq rejected'
  BY <1>4 DEF Got
<1>6. acked' \intersect refused' = {}
  BY <1>2, <1>4
<1> QED
  BY <1>1, <1>5, <1>6 DEF ReportIsTrue, Got, Report

\* A frame that is sent keeps the invariant.
LEMMA SendFramInv ==
  ASSUME IInv, SendFram
  PROVE  IInv'
<1>1. /\ cpc = "send" /\ cpc' = (IF pend.hdr = "MSG" THEN "recv" ELSE "idle")
      /\ c2s' = Append(c2s, pend) /\ uTXWinLeft' = uTXWinLeft - pend.size
      /\ pend.size <= uTXWinLeft /\ pend' = NoFram /\ reply' = NoFram
      /\ Report(reply)
      /\ UNCHANGED <<uSeqno, uRXWinLeft, rxq, s2c, logged, granted,
                     handled, delivered, rejected, lstnUp, lSeqno, lTXWinLeft,
                     sendQue>>
  BY DEF SendFram, Sent, lstnVars, rcvdHist
<1>2. /\ pend \in Frames /\ pend.size \in Nat /\ pend.id \in Nat
      /\ \/ pend.hdr = LogHdr /\ IsLog(pend) /\ pend.id = logged /\ reply = NoFram
            /\ (Profile = "COOKED" => handled = logged - 1)
         \/ pend.hdr = "SEQ" /\ ~IsLog(pend) /\ Profile = "COOKED"
            /\ IsReply(reply) /\ SaysTrue(reply)
  <2>1. pend # NoFram
    BY <1>1 DEF IInv, CallOK, NoFram, LogHdr
  <2>2. pend \in Frames
    BY <2>1 DEF IInv, TypeOK
  <2>3. pend.size \in Nat /\ pend.id \in Nat
    BY <2>2 DEF Frames
  <2> QED
    BY <1>1, <2>2, <2>3 DEF IInv, CallOK, IsLog, LogHdr
<1>3. /\ rxq = <<>>
      /\ c2s \in Seq(Frames) /\ NoReply(s2c) /\ NoReply(sendQue)
      /\ handled \in Nat /\ logged \in Nat /\ handled <= logged
  BY <1>1, FlowAssumption
     DEF IInv, RepliesOK, TrueReplies, NoReply, TypeOK, HistOK
<1>4. IsReply(reply) => SaysTrue(reply)
  BY <1>2, NoFramType
<1>5. ReportIsTrue' /\ acked' \subseteq Nat /\ refused' \subseteq Nat
  BY <1>1, <1>4, ReportInv
<1>6. c2s' \in Seq(Frames)
  BY <1>1, <1>2, <1>3
<1>7. TypeOK'
  <2>1. uTXWinLeft \in 0 .. WordMod - 1
    BY DEF IInv, TypeOK
  <2>2. uTXWinLeft' \in 0 .. WordMod - 1
    BY <1>1, <1>2, <2>1, FlowAssumption
  <2> QED
    BY <1>1, <1>5, <1>6, <2>2 DEF IInv, TypeOK
<1>8. NothingLostOrDoubled'
  <2>1. InFlight(c2s') = InFlight(c2s) \union Waiting /\ Waiting' = {}
    BY <1>1, <1>2, <1>3, InFlightAppend, NoFramType DEF Waiting
  <2>2. InFlight(c2s') \union Waiting' = handled + 1 .. logged
    BY <2>1 DEF IInv, NothingLostOrDoubled
  <2>3. ASSUME NEW i \in 1 .. Len(c2s'), NEW j \in 1 .. Len(c2s'), i < j,
               IsLog(c2s'[i]), IsLog(c2s'[j])
        PROVE  c2s'[i].id < c2s'[j].id
    <3>1. i \in 1 .. Len(c2s) /\ c2s'[i] = c2s[i]
      BY <1>1, <1>2, <1>3, <2>3, AppendIdx
    <3>2. CASE j \in 1 .. Len(c2s)
      BY <1>1, <1>2, <1>3, <2>3, <3>1, <3>2, AppendIdx
         DEF IInv, NothingLostOrDoubled
    <3>3. CASE j = Len(c2s) + 1
      <4>1. c2s'[j] = pend
        BY <1>1, <1>2, <1>3, <3>3, AppendIdx
      <4>2. c2s[i].id \in InFlight(c2s) /\ Waiting = {logged} /\ pend.id = logged
        BY <1>2, <2>3, <3>1, <4>1 DEF InFlight, Waiting
      <4>3. c2s[i].id \in handled + 1 .. logged /\ c2s[i].id # logged
        BY <4>2 DEF IInv, NothingLostOrDoubled
      <4> QED
        BY <1>3, <3>1, <4>1, <4>2, <4>3
    <3> QED
      BY <1>1, <1>2, <1>3, <3>2, <3>3, AppendIdx
  <2> QED
    BY <1>1, <2>1, <2>2, <2>3 DEF NothingLostOrDoubled
<1>9. CallOK'
  <2>1. CASE Profile = "RAW"
    BY <1>1, <1>2, <2>1 DEF CallOK, LogHdr
  <2>2. CASE Profile = "COOKED"
    BY <1>1, <1>2, <1>3, <2>2 DEF CallOK, LogHdr, SaysTrue
  <2> QED
    BY <2>1, <2>2, FlowAssumption
<1>10. RepliesOK'
  BY <1>1, <1>3 DEF IInv, RepliesOK, NoReply, OneReply, TrueReplies, FromLstn
<1>11. AcksOK'
  <2>1. \A i \in 1 .. Len(c2s') :
          IsLog(c2s'[i]) => c2s'[i].no + c2s'[i].size <= uSeqno
    BY <1>1, <1>2, <1>3, AppendIdx DEF IInv, AcksOK
  <2> QED
    BY <1>1, <2>1, NoFramType DEF IInv, AcksOK, AcksUpTo
<1>12. FramesOK' /\ HistOK'
  BY <1>1 DEF IInv, FramesOK, HistOK
<1> QED
  BY <1>5, <1>7, <1>8, <1>9, <1>10, <1>11, <1>12 DEF IInv

\* The two blocking reads: of a sender short of window, and for a reply.
LEMMA BlockedReadInv ==
  ASSUME IInv, cpc \in {"send", "recv"}, rxq = <<>>, DoReceive(uSeqno, rxq),
         cpc = "send" => NoReply(s2c),
         UNCHANGED <<cpc, pend, reply, uSeqno, uRXWinLeft, c2s, lstnVars,
                     sentHist, rcvdHist, granted>>
  PROVE  IInv'
<1>1. UNCHANGED <<cpc, pend, reply, uSeqno, uRXWinLeft, c2s, lstnUp, lSeqno,
                  lTXWinLeft, sendQue, logged, acked, refused, handled,
                  delivered, rejected, granted>>
  BY DEF lstnVars, sentHist, rcvdHist
<1>2. /\ uSeqno \in 0 .. WordMod - 1 /\ uSeqno <= uSeqno /\ rxq \in Seq(Frames)
      /\ (\A i \in 1 .. Len(rxq) : IsReply(rxq[i])) /\ OneReply(rxq)
      /\ PollReceive(uSeqno, rxq)
  BY DEF IInv, TypeOK, OneReply, PollReceive
<1>3. /\ uTXWinLeft' \in 0 .. WordMod - 1
      /\ rxq' \in Seq(Frames) /\ s2c' \in Seq(Frames)
      /\ \A i \in 1 .. Len(rxq') :
            /\ ~NoReply(s2c) /\ IsReply(rxq'[i])
            /\ \E j \in 1 .. Len(s2c) : rxq'[i] = s2c[j]
      /\ \A i \in 1 .. Len(s2c') : \E j \in 1 .. Len(s2c) : s2c'[i] = s2c[j]
      /\ rxq' # <<>> => NoReply(s2c') /\ NoReply(sendQue')
      /\ ~NoReply(s2c') => ~NoReply(s2c)
      /\ OneReply(rxq') /\ OneReply(s2c')
  <2>1. rxq # <<>> => NoReply(s2c) /\ NoReply(sendQue)
    OBVIOUS
  <2>2. UNCHANGED sendQue
    BY <1>1
  <2>3. /\ uTXWinLeft' \in 0 .. WordMod - 1
        /\ rxq' \in Seq(Frames) /\ s2c' \in Seq(Frames)
        /\ \A i \in 1 .. Len(rxq') :
              \/ i \in 1 .. Len(rxq) /\ rxq'[i] = rxq[i]
              \/ /\ ~NoReply(s2c) /\ IsReply(rxq'[i])
                 /\ \E j \in 1 .. Len(s2c) : rxq'[i] = s2c[j]
        /\ \A i \in 1 .. Len(s2c') : \E j \in 1 .. Len(s2c) : s2c'[i] = s2c[j]
        /\ rxq' # <<>> => NoReply(s2c') /\ NoReply(sendQue')
        /\ ~NoReply(s2c') => ~NoReply(s2c)
        /\ OneReply(rxq') /\ OneReply(s2c')
    BY <1>2, <2>1, <2>2, DoReceiveInv
  <2>4. \A i : i \notin 1 .. Len(rxq)
    OBVIOUS
  <2> QED
    BY <2>3, <2>4
<1>4. TypeOK'
  BY <1>1, <1>3 DEF IInv, TypeOK
<1>5. NothingLostOrDoubled' /\ ReportIsTrue' /\ CallOK' /\ HistOK'
  <2>1. NothingLostOrDoubled'
    BY <1>1 DEF IInv, NothingLostOrDoubled, Waiting
  <2>2. ReportIsTrue'
    BY <1>1 DEF IInv, ReportIsTrue
  <2>3. CallOK'
    BY <1>1 DEF IInv, CallOK, SaysTrue, Got
  <2>4. HistOK'
    BY <1>1 DEF IInv, HistOK
  <2> QED
    BY <2>1, <2>2, <2>3, <2>4
<1>6. RepliesOK'
  <2>1. rxq' # <<>> => cpc' \in {"recv", "failed"}
    BY <1>1, <1>3
  <2>2. FromLstn(s2c') /\ FromLstn(sendQue')
    BY <1>1, <1>3 DEF IInv, RepliesOK, FromLstn
  <2>3. ~NoReply(s2c') => NoReply(sendQue')
    BY <1>1, <1>3 DEF IInv, RepliesOK
  <2>4. TrueReplies(s2c) /\ TrueReplies(sendQue) /\ OneReply(sendQue)
    BY DEF IInv, RepliesOK
  <2>5. TrueReplies(s2c)' /\ TrueReplies(sendQue)' /\ TrueReplies(rxq)'
    <3>1. TrueReplies(s2c)'
      BY <1>1, <1>3, <2>4 DEF TrueReplies, SaysTrue, Got
    <3>2. TrueReplies(sendQue)'
      BY <1>1, <2>4 DEF TrueReplies, SaysTrue, Got
    <3>3. TrueReplies(rxq)'
      BY <1>1, <1>3, <2>4 DEF TrueReplies, SaysTrue, Got
    <3> QED
      BY <3>1, <3>2, <3>3
  <2> QED
    BY <1>1, <1>3, <2>1, <2>2, <2>3, <2>4, <2>5 DEF RepliesOK, OneReply
<1>7. AcksOK'
  BY <1>1, <1>3 DEF IInv, AcksOK, AcksUpTo
<1>8. FramesOK'
  BY <1>1, <1>3 DEF IInv, FramesOK
<1> QED
  BY <1>4, <1>5, <1>6, <1>7, <1>8 DEF IInv

\* The read of a sender that is short of window keeps the invariant.
LEMMA WaitWindowInv == ASSUME IInv, WaitWindow PROVE IInv'
<1>1. cpc = "send" /\ rxq = <<>> /\ NoReply(s2c)
  BY DEF WaitWindow, IInv, RepliesOK, TrueReplies, NoReply
<1> QED
  BY <1>1, BlockedReadInv DEF WaitWindow

\* The read of a client that waits for a reply keeps the invariant.
LEMMA AwaitFramInv == ASSUME IInv, AwaitFram PROVE IInv'
  BY BlockedReadInv DEF AwaitFram

\* What is known when a reply is taken from the queue.
LEMMA TakeFacts ==
  ASSUME IInv, cpc = "recv", rxq # <<>>
  PROVE  LET f == Head(rxq) IN
         /\ f \in Frames /\ IsReply(f) /\ SaysTrue(f) /\ Tail(rxq) = <<>>
         /\ f.size \in Nat /\ f.size <= Window /\ f.id \in Nat /\ f.no \in Nat
         /\ RXWinAfter(f) \in 0 .. WordMod - 1
         /\ NoReply(s2c) /\ NoReply(sendQue)
         /\ pend = NoFram /\ reply = NoFram /\ Profile = "COOKED"
<1> DEFINE f == Head(rxq)
<1>1. rxq \in Seq(Frames) /\ f = rxq[1] /\ 1 \in 1 .. Len(rxq)
  BY DEF IInv, TypeOK
<1>2. f \in Frames /\ IsReply(f) /\ SaysTrue(f)
  BY <1>1 DEF IInv, RepliesOK, TrueReplies
<1>3. f.size \in Nat /\ f.id \in Nat /\ f.no \in Nat
  BY <1>1, FramFields
<1>4. f.size <= Window
  BY <1>1 DEF IInv, FramesOK
<1>5. Tail(rxq) = <<>>
  <2>1. \A i \in 1 .. Len(rxq) : i = 1
    BY <1>1 DEF IInv, RepliesOK, OneReply
  <2>2. Len(rxq) = 1
    BY <1>1, <2>1
  <2>3. Len(Tail(rxq)) = 0 /\ Tail(rxq) \in Seq(Frames)
    BY <1>1, <2>2, TailIdx
  <2> QED
    BY <2>3, EmptySeq
<1>6. uRXWinLeft \in 0 .. WordMod - 1
  BY DEF IInv, TypeOK
<1>7. RXWinAfter(f) \in 0 .. WordMod - 1
  <2> HIDE DEF f
  <2> QED
    BY <1>3, <1>4, <1>6, FlowAssumption DEF RXWinAfter, Unsigned
<1> QED
  BY <1>2, <1>3, <1>4, <1>5, <1>7 DEF IInv, RepliesOK, CallOK

\* Taking a reply from pRXQue keeps the invariant.
LEMMA TakeReplyInv == ASSUME IInv, TakeReply PROVE IInv'
<1> DEFINE f == Head(rxq)
<1>1. /\ cpc = "recv" /\ rxq # <<>> /\ cpc' = "idle" /\ rxq' = Tail(rxq)
      /\ uRXWinLeft' = RXWinAfter(f) /\ Report(f)
      /\ UNCHANGED <<pend, reply, uSeqno, uTXWinLeft, c2s, s2c, lstnUp, lSeqno,
                     lTXWinLeft, sendQue, logged, handled, delivered, rejected,
                     granted>>
  BY DEF TakeReply, lstnVars, rcvdHist
<1>2. /\ IsReply(f) /\ SaysTrue(f) /\ rxq' = <<>>
      /\ uRXWinLeft' \in 0 .. WordMod - 1
      /\ NoReply(s2c) /\ NoReply(sendQue)
      /\ pend = NoFram /\ reply = NoFram /\ Profile = "COOKED"
  BY <1>1, TakeFacts
<1> HIDE DEF f
<1>3. ReportIsTrue' /\ acked' \subseteq Nat /\ refused' \subseteq Nat
  BY <1>1, <1>2, ReportInv
<1>4. rxq' \in Seq(Frames)
  BY <1>2
<1>5. TypeOK'
  BY <1>1, <1>2, <1>3, <1>4 DEF IInv, TypeOK
<1>6. NothingLostOrDoubled'
  BY <1>1 DEF IInv, NothingLostOrDoubled, Waiting
<1>7. CallOK'
  BY <1>1, <1>2 DEF CallOK, SaysTrue
<1>8. RepliesOK'
  <2>1. NoReply(s2c') /\ NoReply(sendQue') /\ \A i : i \notin 1 .. Len(rxq')
    BY <1>1, <1>2
  <2>2. OneReply(rxq)' /\ OneReply(s2c)' /\ OneReply(sendQue)'
    BY <2>1 DEF OneReply, NoReply
  <2>3. TrueReplies(rxq)' /\ TrueReplies(s2c)' /\ TrueReplies(sendQue)'
    BY <2>1 DEF TrueReplies, NoReply
  <2>4. FromLstn(s2c') /\ FromLstn(sendQue')
    BY <1>1 DEF IInv, RepliesOK
  <2> QED
    BY <1>2, <2>1, <2>2, <2>3, <2>4 DEF RepliesOK
<1>9. AcksOK'
  BY <1>1 DEF IInv, AcksOK
<1>10. FramesOK' /\ HistOK'
  BY <1>1, <1>2 DEF IInv, FramesOK, HistOK
<1> QED
  BY <1>3, <1>5, <1>6, <1>7, <1>8, <1>9, <1>10 DEF IInv

\* Taking a reply that makes a SEQ due keeps the invariant.
LEMMA TakeReplySendSEQInv == ASSUME IInv, TakeReplySendSEQ PROVE IInv'
<1> DEFINE f == Head(rxq)
           g == SEQFram(f.id, f.no + f.size)
<1>1. /\ cpc = "recv" /\ rxq # <<>> /\ cpc' = "send"
      /\ uRXWinLeft' = Window /\ reply' = f /\ pend' = g
      /\ PollReceive(uSeqno, Tail(rxq))
      /\ UNCHANGED <<uSeqno, c2s, lstnUp, lSeqno, lTXWinLeft, sendQue,
                     logged, acked, refused, handled, delivered, rejected,
                     granted>>
  BY DEF TakeReplySendSEQ, lstnVars, rcvdHist, sentHist
<1>2. /\ f \in Frames /\ IsReply(f) /\ SaysTrue(f) /\ Tail(rxq) = <<>>
      /\ NoReply(s2c) /\ NoReply(sendQue) /\ Profile = "COOKED"
      /\ pend = NoFram /\ f.id \in Nat /\ f.no + f.size \in Nat
  BY <1>1, TakeFacts
<1>3. g \in Frames /\ g.hdr = "SEQ" /\ ~IsLog(g) /\ g # NoFram
  BY <1>2, FramType, NoFramType DEF SEQFram, Fram, IsLog
<1> HIDE DEF f, g
<1>4. /\ uTXWinLeft' \in 0 .. WordMod - 1 /\ s2c' \in Seq(Frames)
      /\ rxq' = <<>> /\ rxq' \in Seq(Frames)
      /\ \A i \in 1 .. Len(s2c') : \E j \in 1 .. Len(s2c) : s2c'[i] = s2c[j]
      /\ NoReply(s2c') /\ NoReply(sendQue')
  <2> DEFINE que == Tail(rxq)
  <2>1. /\ uSeqno \in 0 .. WordMod - 1 /\ uSeqno <= uSeqno /\ que \in Seq(Frames)
        /\ (\A i \in 1 .. Len(que) : IsReply(que[i])) /\ OneReply(que)
        /\ que = <<>> /\ PollReceive(uSeqno, que) /\ UNCHANGED sendQue
    <3>1. que = <<>> /\ PollReceive(uSeqno, que) /\ UNCHANGED sendQue
      BY <1>1, <1>2
    <3>2. uSeqno \in 0 .. WordMod - 1 /\ uSeqno <= uSeqno
      BY DEF IInv, TypeOK
    <3> HIDE DEF que
    <3>3. que \in Seq(Frames) /\ \A i : i \notin 1 .. Len(que)
      BY <3>1
    <3> QED
      BY <3>1, <3>2, <3>3 DEF OneReply
  <2> HIDE DEF que
  <2>2. /\ uTXWinLeft' \in 0 .. WordMod - 1
        /\ rxq' \in Seq(Frames) /\ s2c' \in Seq(Frames)
        /\ \A i \in 1 .. Len(rxq') : i \in 1 .. Len(que) \/ ~NoReply(s2c)
        /\ \A i \in 1 .. Len(s2c') : \E j \in 1 .. Len(s2c) : s2c'[i] = s2c[j]
        /\ ~NoReply(s2c') => ~NoReply(s2c)
    BY <1>2, <2>1, DoReceiveInv
  <2>3. rxq' = <<>>
    BY <1>2, <2>1, <2>2
  <2> QED
    BY <1>2, <2>1, <2>2, <2>3
<1>5. TypeOK'
  BY <1>1, <1>2, <1>3, <1>4, FlowAssumption DEF IInv, TypeOK
<1>6. NothingLostOrDoubled'
  BY <1>1, <1>2, <1>3, NoFramType DEF IInv, NothingLostOrDoubled, Waiting
<1>7. ReportIsTrue'
  BY <1>1 DEF IInv, ReportIsTrue
<1>8. CallOK'
  BY <1>1, <1>2, <1>3 DEF CallOK, SaysTrue, Got
<1>9. RepliesOK'
  BY <1>1, <1>4, SMTT(60) DEF IInv, RepliesOK, NoReply, OneReply, TrueReplies, FromLstn
<1>10. AcksOK'
  BY <1>1, <1>3, <1>4 DEF IInv, AcksOK, AcksUpTo
<1>11. FramesOK'
  BY <1>1, <1>4 DEF IInv, FramesOK
<1>12. HistOK'
  BY <1>1 DEF IInv, HistOK
<1> QED
  BY <1>5, <1>6, <1>7, <1>8, <1>9, <1>10, <1>11, <1>12 DEF IInv

\* The end of a call on a broken connection keeps the invariant.
LEMMA ClntConnLostInv == ASSUME IInv, ClntConnLost PROVE IInv'
<1>1. /\ cpc' = "failed" /\ ~lstnUp /\ cpc \in {"send", "recv"}
      /\ UNCHANGED <<pend, reply, uSeqno, uTXWinLeft, uRXWinLeft, rxq, c2s, s2c,
                     lstnUp, lSeqno, lTXWinLeft, sendQue, logged, acked,
                     refused, handled, delivered, rejected, granted>>
  BY DEF ClntConnLost, lstnVars, sentHist, rcvdHist
<1>2. TypeOK'
  BY <1>1 DEF IInv, TypeOK
<1>3. NothingLostOrDoubled' /\ ReportIsTrue'
  BY <1>1 DEF IInv, NothingLostOrDoubled, Waiting, ReportIsTrue
<1>4. CallOK'
  BY <1>1 DEF CallOK
<1>5. RepliesOK'
  <2>1. TrueReplies(rxq)' /\ TrueReplies(s2c)' /\ TrueReplies(sendQue)'
    BY <1>1 DEF IInv, RepliesOK, TrueReplies, SaysTrue, Got
  <2> QED
    BY <1>1, <2>1 DEF IInv, RepliesOK, NoReply, OneReply, FromLstn
<1>6. AcksOK' /\ FramesOK' /\ HistOK'
  BY <1>1 DEF IInv, AcksOK, FramesOK, HistOK
<1> QED
  BY <1>2, <1>3, <1>4, <1>5, <1>6 DEF IInv

\* What a profile handler enqueues.
LEMMA AnswerFacts ==
  ASSUME NEW f \in Frames, lSeqno \in Nat
  PROVE  /\ Answer(f) \in Seq(Frames)
         /\ \A i \in 1 .. Len(Answer(f)) :
              LET g == Answer(f)[i] IN
              /\ g.hdr \in {"SEQ", "RPY", "ERR"} /\ g.size <= Window
              /\ g.hdr = "SEQ" => g.no = f.no + f.size
              /\ IsReply(g) => i = 1 /\ Profile = "COOKED"
              /\ g.hdr = "RPY" => f.ok
              /\ g.hdr = "ERR" => ~f.ok
<1> DEFINE ack == SEQFram(f.id, f.no + f.size)
           r == Response(f)
<1>1. f.id \in Nat /\ f.no + f.size \in Nat /\ f.ok \in BOOLEAN
  BY DEF Frames
<1>2. /\ ack \in Frames /\ ack.hdr = "SEQ" /\ ack.no = f.no + f.size
      /\ ack.size <= Window
  BY <1>1, FramType, FlowAssumption DEF SEQFram, Fram
<1>3. /\ r \in Frames /\ r.size <= Window
      /\ r.hdr = (IF f.ok THEN "RPY" ELSE "ERR")
  <2>1. CASE f.ok
    <3>1. r = Fram("RPY", f.id, lSeqno, OkSize, TRUE)
      BY <2>1 DEF Response
    <3>2. r.size = OkSize /\ r.hdr = "RPY"
      BY <3>1 DEF Fram
    <3>3. OkSize \in Nat /\ OkSize <= Window /\ TRUE \in BOOLEAN
      BY FlowAssumption
    <3>4. Fram("RPY", f.id, lSeqno, OkSize, TRUE) \in Frames
      BY <1>1, <3>3, FramType
    <3> QED
      BY <2>1, <3>1, <3>2, <3>3, <3>4
  <2>2. CASE ~f.ok
    <3>1. r = Fram("ERR", f.id, lSeqno, ErrSize, TRUE)
      BY <2>2 DEF Response
    <3>2. r.size = ErrSize /\ r.hdr = "ERR"
      BY <3>1 DEF Fram
    <3>3. ErrSize \in Nat /\ ErrSize <= Window /\ TRUE \in BOOLEAN
      BY FlowAssumption
    <3>4. Fram("ERR", f.id, lSeqno, ErrSize, TRUE) \in Frames
      BY <1>1, <3>3, FramType
    <3> QED
      BY <2>2, <3>1, <3>2, <3>3, <3>4
  <2> QED
    BY <2>1, <2>2
<1>4. Answer(f) = IF Profile = "RAW" THEN <<ack>>
                  ELSE IF f.ok THEN <<r, ack>> ELSE <<r>>
  BY DEF Answer
<1> HIDE DEF ack, r
<1>5. CASE Profile = "RAW"
  BY <1>2, <1>4, <1>5 DEF IsReply
<1>6. CASE Profile # "RAW" /\ f.ok
  BY <1>2, <1>3, <1>4, <1>6, FlowAssumption DEF IsReply
<1>7. CASE Profile # "RAW" /\ ~f.ok
  BY <1>2, <1>3, <1>4, <1>7, FlowAssumption DEF IsReply
<1> QED
  BY <1>5, <1>6, <1>7

\* The log frame a living listener reads is the next one in order.
LEMMA HeadIsNext ==
  ASSUME IInv, lstnUp, c2s # <<>>, IsLog(Head(c2s))
  PROVE  /\ Head(c2s) \in Frames /\ Head(c2s) = c2s[1] /\ 1 \in 1 .. Len(c2s)
         /\ Head(c2s).id = handled + 1 /\ handled < logged
         /\ handled \in Nat /\ logged \in Nat
         /\ handled + 1 \notin Waiting
         /\ InFlight(Tail(c2s)) = InFlight(c2s) \ {handled + 1}
<1> DEFINE f == Head(c2s)
<1>1. /\ c2s \in Seq(Frames) /\ f = c2s[1] /\ f \in Frames /\ 1 \in 1 .. Len(c2s)
      /\ handled \in Nat /\ logged \in Nat
  BY FlowAssumption, TailIdx DEF IInv, TypeOK
<1>2. f.id \in InFlight(c2s) /\ f.id \in Nat
  BY <1>1, FramFields DEF InFlight
<1>3. f.id \in handled + 1 .. logged /\ f.id \notin Waiting
  BY <1>2 DEF IInv, NothingLostOrDoubled
<1>4. ASSUME NEW i \in 1 .. Len(c2s), i # 1, IsLog(c2s[i])
      PROVE  f.id < c2s[i].id
  BY <1>1, <1>4 DEF IInv, NothingLostOrDoubled
<1>5. Waiting = {} \/ Waiting = {logged}
  BY NoFramType DEF IInv, TypeOK, CallOK, Waiting, IsLog
<1>6. f.id = handled + 1
  <2>1. handled + 1 \in InFlight(c2s) \union Waiting
    BY <1>1, <1>3 DEF IInv, NothingLostOrDoubled
  <2>2. CASE handled + 1 \in Waiting
    BY <1>1, <1>3, <1>5, <2>2
  <2>3. CASE handled + 1 \in InFlight(c2s)
    <3>1. PICK i \in 1 .. Len(c2s) : IsLog(c2s[i]) /\ c2s[i].id = handled + 1
      BY <2>3 DEF InFlight
    <3> QED
      BY <1>1, <1>2, <1>3, <1>4, <3>1
  <2> QED
    BY <2>1, <2>2, <2>3
<1>7. InFlight(Tail(c2s)) = InFlight(c2s) \ {handled + 1}
  <2> DEFINE t == Tail(c2s)
  <2>1. /\ Len(t) = Len(c2s) - 1
        /\ \A i \in 1 .. Len(t) : i + 1 \in 1 .. Len(c2s) /\ t[i] = c2s[i + 1]
    BY <1>1, TailIdx
  <2>2. \A j \in 1 .. Len(c2s) : j = 1 \/ (j - 1 \in 1 .. Len(t) /\ t[j - 1] = c2s[j])
    BY <1>1, <2>1
  <2> HIDE DEF t
  <2>3. \A x : x \in InFlight(t) <=> \E i \in 1 .. Len(t) : IsLog(t[i]) /\ x = t[i].id
    BY DEF InFlight
  <2>4. \A x : x \in InFlight(c2s) <=>
                 \E i \in 1 .. Len(c2s) : IsLog(c2s[i]) /\ x = c2s[i].id
    BY DEF InFlight
  <2>5. ASSUME NEW x, x \in InFlight(t) PROVE x \in InFlight(c2s) /\ x # handled + 1
    <3>1. PICK i \in 1 .. Len(t) : IsLog(t[i]) /\ x = t[i].id
      BY <2>3, <2>5
    <3>2. i + 1 \in 1 .. Len(c2s) /\ i + 1 # 1 /\ t[i] = c2s[i + 1]
      BY <1>1, <2>1
    <3>3. f.id < x
      BY <1>4, <3>1, <3>2
    <3> QED
      BY <1>2, <1>6, <2>4, <3>1, <3>2, <3>3
  <2>6. ASSUME NEW x, x \in InFlight(c2s), x # handled + 1 PROVE x \in InFlight(t)
    BY <1>1, <1>6, <2>2, <2>3, <2>4, <2>6
  <2> QED
    BY <2>5, <2>6 DEF t
<1> QED
  BY <1>1, <1>3, <1>6, <1>7

\* A profile handler's run for one log message keeps the invariant.
LEMMA LstnOnLogFramInv == ASSUME IInv, LstnOnLogFram PROVE IInv'
<1> DEFINE f == Head(c2s)
           a == Answer(f)
<1>1. /\ lstnUp /\ c2s # <<>> /\ IsLog(f) /\ c2s' = Tail(c2s)
      /\ handled' = f.id /\ HandOver(f) /\ sendQue' = sendQue \o a
      /\ lSeqno' = IF Profile = "RAW" THEN lSeqno
                   ELSE lSeqno + (IF f.ok THEN OkSize ELSE ErrSize)
      /\ UNCHANGED <<cpc, pend, reply, uSeqno, uTXWinLeft, uRXWinLeft, rxq, s2c,
                     lstnUp, lTXWinLeft, logged, acked, refused, granted>>
  BY DEF LstnOnLogFram, Enqueue, clntVars, sentHist
<1>2. /\ f \in Frames /\ f = c2s[1] /\ 1 \in 1 .. Len(c2s)
      /\ f.id = handled + 1 /\ handled < logged
      /\ handled \in Nat /\ logged \in Nat /\ handled + 1 \notin Waiting
      /\ InFlight(c2s') = InFlight(c2s) \ {handled + 1}
  BY <1>1, HeadIsNext
<1>3. /\ rxq = <<>> /\ NoReply(s2c) /\ NoReply(sendQue)
  BY <1>2 DEF IInv, RepliesOK, TrueReplies, NoReply, SaysTrue
<1>4. Profile = "COOKED" => cpc = "recv" /\ handled + 1 = logged
  <2> SUFFICES ASSUME Profile = "COOKED" PROVE cpc = "recv" /\ handled + 1 = logged
    OBVIOUS
  <2>1. cpc \in {"idle", "send", "recv", "failed"}
    BY DEF IInv, TypeOK
  <2>2. cpc # "idle" /\ cpc # "failed"
    BY <1>1, <1>2 DEF IInv, CallOK
  <2>3. CASE cpc = "send"
    <3>1. pend.hdr = LogHdr /\ pend.id = logged /\ handled = logged - 1
      BY <1>2, <2>3 DEF IInv, CallOK, SaysTrue
    <3>2. Waiting = {logged}
      BY <3>1 DEF Waiting, IsLog, LogHdr
    <3> QED
      BY <1>2, <3>1, <3>2
  <2>4. CASE cpc = "recv"
    BY <1>2, <2>4 DEF IInv, CallOK
  <2> QED
    BY <2>1, <2>2, <2>3, <2>4
<1>5. /\ c2s \in Seq(Frames) /\ c2s' \in Seq(Frames) /\ Len(c2s') = Len(c2s) - 1
      /\ \A i \in 1 .. Len(c2s') : i + 1 \in 1 .. Len(c2s) /\ c2s'[i] = c2s[i + 1]
      /\ sendQue \in Seq(Frames) /\ lSeqno \in Nat
  BY <1>1, TailIdx, FlowAssumption DEF IInv, TypeOK
<1>6. /\ a \in Seq(Frames)
      /\ \A i \in 1 .. Len(a) :
            /\ a[i].hdr \in {"SEQ", "RPY", "ERR"} /\ a[i].size <= Window
            /\ a[i].hdr = "SEQ" => a[i].no = f.no + f.size
            /\ IsReply(a[i]) => i = 1 /\ Profile = "COOKED"
            /\ a[i].hdr = "RPY" => f.ok
            /\ a[i].hdr = "ERR" => ~f.ok
  BY <1>2, <1>5, AnswerFacts
<1>7. f.no + f.size <= uSeqno
  BY <1>1, <1>2 DEF IInv, AcksOK
<1> HIDE DEF f, a
<1>8. /\ sendQue' \in Seq(Frames) /\ Len(sendQue) \in Nat
      /\ \A i \in 1 .. Len(sendQue') :
            \/ i \in 1 .. Len(sendQue) /\ sendQue'[i] = sendQue[i]
            \/ i - Len(sendQue) \in 1 .. Len(a) /\ sendQue'[i] = a[i - Len(sendQue)]
  <2>1. Len(sendQue) \in Nat
    BY <1>5
  <2> QED
    BY <1>1, <1>5, <1>6, <2>1, ConcatIdx
<1>9. /\ delivered' \in Seq(Nat) /\ rejected' \subseteq Nat
      /\ \A i \in 1 .. Len(delivered) :
           i \in 1 .. Len(delivered') /\ delivered'[i] = delivered[i]
      /\ \A i \in 1 .. Len(delivered') :
            \/ i \in 1 .. Len(delivered) /\ delivered'[i] = delivered[i]
            \/ delivered'[i] = handled + 1 /\ rejected' = rejected
      /\ rejected' \subseteq rejected \union {handled + 1}
      /\ rejected \subseteq rejected'
      /\ Accepted(f) => /\ \E i \in 1 .. Len(delivered') : delivered'[i] = handled + 1
                        /\ rejected' = rejected
      /\ ~Accepted(f) => handled + 1 \in rejected' /\ delivered' = delivered
  <2>1. delivered \in Seq(Nat) /\ rejected \subseteq Nat /\ handled + 1 \in Nat
    BY <1>2, SMTT(60) DEF IInv, TypeOK
  <2>2. CASE Accepted(f)
    <3>1. delivered' = Append(delivered, handled + 1) /\ rejected' = rejected
      BY <1>1, <1>2, <2>2 DEF HandOver
    <3>2. /\ Len(delivered') = Len(delivered) + 1 /\ Len(delivered) \in Nat
          /\ delivered' \in Seq(Nat) /\ delivered'[Len(delivered) + 1] = handled + 1
          /\ \A i \in 1 .. Len(delivered) : delivered'[i] = delivered[i]
          /\ \A i \in 1 .. Len(delivered') :
                i \in 1 .. Len(delivered) \/ i = Len(delivered) + 1
      BY <2>1, <3>1, AppendIdx
    <3>3. \E i \in 1 .. Len(delivered') : delivered'[i] = handled + 1
      BY <3>2
    <3> QED
      BY <2>1, <2>2, <3>1, <3>2, <3>3
  <2>3. CASE ~Accepted(f)
    BY <1>1, <1>2, <2>1, <2>3 DEF HandOver
  <2> QED
    BY <2>2, <2>3
<1>10. lSeqno' \in 0 .. WordMod - 1
  BY <1>1, <1>2, <1>5, FlowAssumption DEF IInv, TypeOK, FramesOK
<1>11. TypeOK'
  <2>1. handled' \in Nat
    BY <1>1, <1>2
  <2>2. /\ delivered' \in Seq(Nat) /\ rejected' \subseteq Nat
        /\ sendQue' \in Seq(Frames) /\ c2s' \in Seq(Frames)
    BY <1>5, <1>8, <1>9
  <2> QED
    BY <1>1, <1>10, <2>1, <2>2 DEF IInv, TypeOK
<1>12. NothingLostOrDoubled'
  <2>1. Waiting' = Waiting /\ handled' = handled + 1
    BY <1>1, <1>2 DEF Waiting
  <2>2. InFlight(c2s') \union Waiting' = handled' + 1 .. logged'
    BY <1>1, <1>2, <2>1 DEF IInv, NothingLostOrDoubled
  <2>3. InFlight(c2s') \intersect Waiting' = {}
    BY <1>2, <2>1 DEF IInv, NothingLostOrDoubled
  <2>4. \A i, j \in 1 .. Len(c2s') :
          i < j /\ IsLog(c2s'[i]) /\ IsLog(c2s'[j]) => c2s'[i].id < c2s'[j].id
    <3>1. ASSUME NEW i \in 1 .. Len(c2s'), NEW j \in 1 .. Len(c2s'), i < j,
                 IsLog(c2s'[i]), IsLog(c2s'[j])
          PROVE  c2s'[i].id < c2s'[j].id
      <4>1. /\ i + 1 \in 1 .. Len(c2s) /\ j + 1 \in 1 .. Len(c2s) /\ i + 1 < j + 1
            /\ c2s'[i] = c2s[i + 1] /\ c2s'[j] = c2s[j + 1]
        BY <1>5, <3>1, SMTT(60)
      <4> QED
        BY <3>1, <4>1 DEF IInv, NothingLostOrDoubled
    <3> QED
      BY <3>1
  <2> QED
    BY <2>2, <2>3, <2>4 DEF NothingLostOrDoubled
<1>13. ReportIsTrue'
  BY <1>1, <1>9 DEF IInv, ReportIsTrue
<1>14. CallOK'
  <2>1. handled' = handled + 1
    BY <1>1, <1>2
  <2> QED
    BY <1>1, <1>2, <1>4, <2>1, FlowAssumption DEF IInv, TypeOK, CallOK
<1>15. RepliesOK'
  <2>1. rxq' = <<>> /\ NoReply(s2c') /\ \A i : i \notin 1 .. Len(rxq')
    BY <1>1, <1>3
  <2>2. FromLstn(s2c') /\ FromLstn(sendQue')
    BY <1>1, <1>6, <1>8 DEF IInv, RepliesOK, FromLstn
  <2>3. \A i \in 1 .. Len(sendQue') :
          IsReply(sendQue'[i]) =>
             /\ i = Len(sendQue) + 1 /\ Profile = "COOKED"
             /\ sendQue'[i].hdr = "RPY" => f.ok
             /\ sendQue'[i].hdr = "ERR" => ~f.ok
    <3> SUFFICES ASSUME NEW i \in 1 .. Len(sendQue'), IsReply(sendQue'[i])
                 PROVE  /\ i = Len(sendQue) + 1 /\ Profile = "COOKED"
                        /\ sendQue'[i].hdr = "RPY" => f.ok
                        /\ sendQue'[i].hdr = "ERR" => ~f.ok
      OBVIOUS
    <3>1. ~(i \in 1 .. Len(sendQue) /\ sendQue'[i] = sendQue[i])
      BY <1>3 DEF NoReply
    <3>2. /\ i - Len(sendQue) \in 1 .. Len(a)
          /\ sendQue'[i] = a[i - Len(sendQue)]
      BY <1>8, <3>1
    <3>3. i - Len(sendQue) = 1
      BY <1>6, <3>2
    <3> QED
      BY <1>6, <1>8, <3>2, <3>3
  <2>4. OneReply(rxq)' /\ OneReply(s2c)' /\ OneReply(sendQue)'
    BY <2>1, <2>3 DEF OneReply, NoReply
  <2>5. TrueReplies(rxq)' /\ TrueReplies(s2c)'
    BY <2>1 DEF TrueReplies, NoReply
  <2>6. TrueReplies(sendQue)'
    <3> SUFFICES ASSUME NEW i \in 1 .. Len(sendQue'), IsReply(sendQue'[i])
                 PROVE  SaysTrue(sendQue[i])' /\ cpc' \in {"recv", "failed"}
      BY DEF TrueReplies
    <3>1. cpc' = "recv" /\ handled' = logged' /\ logged' = handled + 1
      BY <1>1, <1>2, <1>4, <2>3
    <3>2. sendQue'[i].hdr = "RPY" => Got(logged)'
      BY <1>9, <2>3, <3>1 DEF Accepted, Got
    <3>3. sendQue'[i].hdr = "ERR" => logged' \in rejected'
      BY <1>9, <2>3, <3>1 DEF Accepted
    <3> QED
      BY <3>1, <3>2, <3>3 DEF SaysTrue
  <2> QED
    BY <2>1, <2>2, <2>4, <2>5, <2>6 DEF RepliesOK
<1>16. AcksOK'
  <2>1. AcksUpTo(sendQue', uSeqno')
    <3> SUFFICES ASSUME NEW i \in 1 .. Len(sendQue'), sendQue'[i].hdr = "SEQ"
                 PROVE  sendQue'[i].no <= uSeqno
      BY <1>1 DEF AcksUpTo
    <3>1. CASE i \in 1 .. Len(sendQue) /\ sendQue'[i] = sendQue[i]
      BY <3>1 DEF IInv, AcksOK, AcksUpTo
    <3>2. CASE /\ i - Len(sendQue) \in 1 .. Len(a)
               /\ sendQue'[i] = a[i - Len(sendQue)]
      BY <1>6, <1>7, <3>2
    <3> QED
      BY <1>8, <3>1, <3>2
  <2> QED
    BY <1>1, <1>5, <2>1 DEF IInv, AcksOK
<1>17. FramesOK'
  <2>1. \A i \in 1 .. Len(sendQue') : sendQue'[i].size <= Window
    BY <1>6, <1>8 DEF IInv, FramesOK
  <2>2. ~(Profile = "COOKED" /\ handled' < logged')
    BY <1>1, <1>2, <1>4
  <2> QED
    BY <1>1, <2>1, <2>2 DEF IInv, FramesOK
<1>18. HistOK'
  <2>1. handled' = handled + 1 /\ handled' <= logged'
    BY <1>1, <1>2
  <2>2. rejected' \subseteq 1 .. handled'
    BY <1>2, <1>9, <2>1 DEF IInv, HistOK
  <2>3. handled + 1 \notin rejected
    BY <1>2 DEF IInv, HistOK
  <2>4. ASSUME NEW i \in 1 .. Len(delivered')
        PROVE  delivered'[i] \in 1 .. handled' /\ delivered'[i] \notin rejected'
    <3>1. CASE delivered'[i] = handled + 1 /\ rejected' = rejected
      BY <1>2, <2>1, <2>3, <3>1
    <3>2. CASE i \in 1 .. Len(delivered) /\ delivered'[i] = delivered[i]
      <4>1. delivered[i] \in 1 .. handled /\ delivered[i] \notin rejected
        BY <3>2 DEF IInv, HistOK
      <4> QED
        BY <1>2, <1>9, <2>1, <3>2, <4>1
    <3> QED
      BY <1>9, <3>1, <3>2
  <2> QED
    BY <2>1, <2>2, <2>4 DEF HistOK
<1> QED
  BY <1>11, <1>12, <1>13, <1>14, <1>15, <1>16, <1>17, <1>18 DEF IInv

\* The listener's end on a SEQ frame keeps the invariant.
LEMMA LstnOnSEQFramInv == ASSUME IInv, LstnOnSEQFram PROVE IInv'
<1>1. /\ c2s # <<>> /\ Head(c2s).hdr = "SEQ" /\ c2s' = Tail(c2s)
      /\ lstnUp' = FALSE /\ sendQue' = <<>>
      /\ UNCHANGED <<cpc, pend, reply, uSeqno, uTXWinLeft, uRXWinLeft, rxq, s2c,
                     lSeqno, lTXWinLeft, logged, handled, delivered, rejected,
                     acked, refused, granted>>
  BY DEF LstnOnSEQFram, clntVars, sentHist, rcvdHist
<1>2. /\ c2s \in Seq(Frames) /\ c2s' \in Seq(Frames) /\ Len(c2s') = Len(c2s) - 1
      /\ Len(c2s) \in Nat /\ c2s[1].hdr = "SEQ"
      /\ \A i \in 1 .. Len(c2s') : i + 1 \in 1 .. Len(c2s) /\ c2s'[i] = c2s[i + 1]
  BY <1>1, TailIdx DEF IInv, TypeOK
<1>3. /\ sendQue' \in Seq(Frames) /\ \A i : i \notin 1 .. Len(sendQue')
  BY <1>1
<1>4. TypeOK'
  BY <1>1, <1>2, <1>3 DEF IInv, TypeOK
<1>5. NothingLostOrDoubled'
  <2>1. InFlight(c2s') = InFlight(c2s)
    <3> DEFINE t == c2s'
    <3>1. \A j \in 1 .. Len(c2s) : j = 1 \/ (j - 1 \in 1 .. Len(t) /\ t[j - 1] = c2s[j])
      BY <1>2
    <3>2. /\ Len(t) = Len(c2s) - 1 /\ ~IsLog(c2s[1])
          /\ \A i \in 1 .. Len(t) : i + 1 \in 1 .. Len(c2s) /\ t[i] = c2s[i + 1]
      BY <1>2 DEF IsLog
    <3> HIDE DEF t
    <3>3. \A x : x \in InFlight(t) <=> \E i \in 1 .. Len(t) : IsLog(t[i]) /\ x = t[i].id
      BY DEF InFlight
    <3>4. \A x : x \in InFlight(c2s) <=>
                   \E i \in 1 .. Len(c2s) : IsLog(c2s[i]) /\ x = c2s[i].id
      BY DEF InFlight
    <3>5. \A x : x \in InFlight(t) => x \in InFlight(c2s)
      BY <3>2, <3>3, <3>4
    <3>6. \A x : x \in InFlight(c2s) => x \in InFlight(t)
      BY <3>1, <3>2, <3>3, <3>4
    <3> QED
      BY <3>5, <3>6 DEF t
  <2>2. Waiting' = Waiting
    BY <1>1 DEF Waiting
  <2>3. ASSUME NEW i \in 1 .. Len(c2s'), NEW j \in 1 .. Len(c2s'), i < j,
               IsLog(c2s'[i]), IsLog(c2s'[j])
        PROVE  c2s'[i].id < c2s'[j].id
    <3>1. /\ i + 1 \in 1 .. Len(c2s) /\ j + 1 \in 1 .. Len(c2s) /\ i + 1 < j + 1
          /\ c2s'[i] = c2s[i + 1] /\ c2s'[j] = c2s[j + 1]
      BY <1>2, <2>3
    <3> QED
      BY <2>3, <3>1 DEF IInv, NothingLostOrDoubled
  <2> QED
    BY <1>1, <2>1, <2>2, <2>3 DEF IInv, NothingLostOrDoubled
<1>6. ReportIsTrue' /\ HistOK'
  BY <1>1 DEF IInv, ReportIsTrue, HistOK
<1>7. CallOK'
  BY <1>1 DEF IInv, CallOK, SaysTrue, Got
<1>8. RepliesOK'
  <2>1. NoReply(sendQue') /\ FromLstn(sendQue') /\ OneReply(sendQue)'
        /\ TrueReplies(sendQue)'
    BY <1>3 DEF NoReply, FromLstn, OneReply, TrueReplies
  <2>2. TrueReplies(rxq)' /\ TrueReplies(s2c)'
    BY <1>1 DEF IInv, RepliesOK, TrueReplies, SaysTrue, Got
  <2> QED
    BY <1>1, <2>1, <2>2 DEF IInv, RepliesOK
<1>9. AcksOK'
  <2>1. AcksUpTo(sendQue', uSeqno')
    BY <1>3 DEF AcksUpTo
  <2> QED
    BY <1>1, <1>2, <2>1 DEF IInv, AcksOK
<1>10. FramesOK'
  BY <1>1, <1>3 DEF IInv, FramesOK
<1> QED
  BY <1>4, <1>5, <1>6, <1>7, <1>8, <1>9, <1>10 DEF IInv

\* sbLstnSendFram keeps the invariant.
LEMMA LstnSendFramInv == ASSUME IInv, LstnSendFram PROVE IInv'
<1> DEFINE f == Head(sendQue)
<1>1. /\ sendQue # <<>> /\ sendQue' = Tail(sendQue) /\ s2c' = Append(s2c, f)
      /\ f.hdr = "SEQ" \/ FrameLen(f) <= lTXWinLeft
      /\ lTXWinLeft' = IF f.hdr = "SEQ" THEN lTXWinLeft ELSE lTXWinLeft - FrameLen(f)
      /\ granted' = IF f.hdr = "SEQ" THEN f.no + Window ELSE granted
      /\ UNCHANGED <<cpc, pend, reply, uSeqno, uTXWinLeft, uRXWinLeft, rxq, c2s,
                     lstnUp, lSeqno, logged, handled, delivered, rejected,
                     acked, refused>>
  BY DEF LstnSendFram, clntVars, sentHist, rcvdHist
<1>2. /\ sendQue \in Seq(Frames) /\ s2c \in Seq(Frames)
      /\ f \in Frames /\ f = sendQue[1] /\ 1 \in 1 .. Len(sendQue)
      /\ sendQue' \in Seq(Frames) /\ Len(sendQue') = Len(sendQue) - 1
      /\ \A i \in 1 .. Len(sendQue') :
            i + 1 \in 1 .. Len(sendQue) /\ sendQue'[i] = sendQue[i + 1]
  BY <1>1, TailIdx DEF IInv, TypeOK
<1>3. f.no \in Nat /\ f.size \in Nat
  BY <1>2, FramFields
<1> HIDE DEF f
<1>4. /\ s2c' \in Seq(Frames) /\ Len(s2c') = Len(s2c) + 1 /\ Len(s2c) \in Nat
      /\ \A i \in 1 .. Len(s2c') :
            \/ i \in 1 .. Len(s2c) /\ s2c'[i] = s2c[i]
            \/ i = Len(s2c) + 1 /\ s2c'[i] = f
  BY <1>1, <1>2, AppendIdx
<1>5. TypeOK'
  <2>1. granted' \in Nat
    BY <1>1, <1>3, FlowAssumption DEF IInv, TypeOK
  <2>2. lTXWinLeft \in 0 .. Window
    BY DEF IInv, TypeOK
  <2>3. lTXWinLeft' \in 0 .. Window
    BY <1>1, <1>3, <2>2, FlowAssumption DEF FrameLen
  <2> QED
    BY <1>1, <1>2, <1>4, <2>1, <2>3 DEF IInv, TypeOK
<1>6. NothingLostOrDoubled'
  BY <1>1 DEF IInv, NothingLostOrDoubled, Waiting
<1>7. ReportIsTrue' /\ HistOK'
  BY <1>1 DEF IInv, ReportIsTrue, HistOK
<1>8. CallOK'
  BY <1>1 DEF IInv, CallOK, SaysTrue, Got
<1>9. RepliesOK'
  <2>1. /\ FromLstn(s2c) /\ FromLstn(sendQue) /\ OneReply(s2c) /\ OneReply(sendQue)
        /\ TrueReplies(s2c) /\ TrueReplies(sendQue) /\ TrueReplies(rxq)
        /\ ~NoReply(s2c) => NoReply(sendQue)
        /\ rxq # <<>> => NoReply(s2c) /\ NoReply(sendQue)
    BY DEF IInv, RepliesOK
  <2>2. FromLstn(s2c)' /\ FromLstn(sendQue)'
    BY <1>2, <1>4, <2>1 DEF FromLstn
  <2>3. TrueReplies(s2c)' /\ TrueReplies(sendQue)' /\ TrueReplies(rxq)'
    BY <1>1, <1>2, <1>4, <2>1 DEF TrueReplies, SaysTrue, Got
  <2>4. OneReply(sendQue)'
    <3> SUFFICES ASSUME NEW i \in 1 .. Len(sendQue'), NEW j \in 1 .. Len(sendQue'),
                        IsReply(sendQue'[i]), IsReply(sendQue'[j])
                 PROVE  i = j
      BY DEF OneReply
    <3>1. i + 1 = j + 1
      BY <1>2, <2>1 DEF OneReply
    <3> QED
      BY <1>2, <3>1
  <2>5. IsReply(f) => NoReply(s2c) /\ NoReply(sendQue')
    <3>1. IsReply(f) => ~NoReply(sendQue)
      BY <1>2 DEF NoReply
    <3>2. IsReply(f) => NoReply(sendQue')
      <4> SUFFICES ASSUME IsReply(f), NEW i \in 1 .. Len(sendQue'),
                          IsReply(sendQue'[i])
                   PROVE  FALSE
        BY DEF NoReply
      <4>1. i + 1 \in 1 .. Len(sendQue) /\ IsReply(sendQue[i + 1]) /\ i + 1 # 1
        BY <1>2
      <4> QED
        BY <1>2, <2>1, <4>1 DEF OneReply
    <3> QED
      BY <2>1, <3>1, <3>2
  <2>6. NoReply(sendQue) => NoReply(sendQue')
    BY <1>2 DEF NoReply
  <2>7. CASE IsReply(f)
    <3>1. OneReply(s2c)'
      BY <1>4, <2>5, <2>7 DEF OneReply, NoReply
    <3>2. rxq' = <<>>
      BY <1>1, <1>2, <2>1, <2>7 DEF NoReply
    <3> QED
      BY <1>1, <2>2, <2>3, <2>4, <2>5, <2>7, <3>1, <3>2 DEF IInv, RepliesOK
  <2>8. CASE ~IsReply(f)
    <3>1. OneReply(s2c)'
      BY <1>4, <2>1, <2>8 DEF OneReply
    <3>2. NoReply(s2c) => NoReply(s2c')
      BY <1>4, <2>8 DEF NoReply
    <3>3. NoReply(s2c') => NoReply(s2c)
      BY <1>1, <1>2, AppendIdx DEF NoReply
    <3> QED
      BY <1>1, <2>1, <2>2, <2>3, <2>4, <2>6, <3>1, <3>2, <3>3
         DEF IInv, RepliesOK
  <2> QED
    BY <2>7, <2>8
<1>10. AcksOK'
  <2>1. AcksUpTo(s2c, uSeqno) /\ AcksUpTo(sendQue, uSeqno)
    BY DEF IInv, AcksOK
  <2>2. AcksUpTo(s2c', uSeqno) /\ AcksUpTo(sendQue', uSeqno)
    BY <1>2, <1>4, <2>1 DEF AcksUpTo
  <2> QED
    BY <1>1, <2>2 DEF IInv, AcksOK
<1>11. FramesOK'
  BY <1>1, <1>2, <1>4 DEF IInv, FramesOK
<1> QED
  BY <1>5, <1>6, <1>7, <1>8, <1>9, <1>10, <1>11 DEF IInv

\* The invariant is inductive: no step of the session breaks it.
LEMMA NextInv == ASSUME IInv, [Next]_vars PROVE IInv'
<1>1. CASE UNCHANGED vars
  <2>1. UNCHANGED <<cpc, pend, reply, uSeqno, uTXWinLeft, uRXWinLeft, rxq, c2s,
                    s2c, lstnUp, lSeqno, lTXWinLeft, sendQue, logged, handled,
                    delivered, rejected, acked, refused, granted>>
    BY <1>1 DEF vars, clntVars, lstnVars, sentHist, rcvdHist
  <2>2. TypeOK' /\ ReportIsTrue' /\ HistOK' /\ FramesOK'
    BY <2>1 DEF IInv, TypeOK, ReportIsTrue, HistOK, FramesOK
  <2>3. NothingLostOrDoubled' /\ AcksOK'
    BY <2>1 DEF IInv, NothingLostOrDoubled, Waiting, AcksOK
  <2>4. CallOK' /\ RepliesOK'
    BY <2>1 DEF IInv, CallOK, RepliesOK, TrueReplies, SaysTrue, Got
  <2> QED
    BY <2>2, <2>3, <2>4 DEF IInv
<1>2. ASSUME NEW s \in Sizes, NEW ok \in Parsable, LogMesg(s, ok) PROVE IInv'
  BY <1>2, LogMesgInv
<1>3. CASE SendFram
  BY <1>3, SendFramInv
<1>4. CASE WaitWindow
  BY <1>4, WaitWindowInv
<1>5. CASE AwaitFram
  BY <1>5, AwaitFramInv
<1>6. CASE TakeReply
  BY <1>6, TakeReplyInv
<1>7. CASE TakeReplySendSEQ
  BY <1>7, TakeReplySendSEQInv
<1>8. CASE ClntConnLost
  BY <1>8, ClntConnLostInv
<1>9. CASE LstnOnLogFram
  BY <1>9, LstnOnLogFramInv
<1>10. CASE LstnOnSEQFram
  BY <1>10, LstnOnSEQFramInv
<1>11. CASE LstnSendFram
  BY <1>11, LstnSendFramInv
<1>12. CASE Done
  BY <1>1, <1>12 DEF Done
<1> QED
  BY <1>1, <1>2, <1>3, <1>4, <1>5, <1>6, <1>7, <1>8, <1>9, <1>10, <1>11, <1>12
     DEF Next

\* The inductive invariant holds throughout: the base of what follows.
THEOREM Invariance == Spec => []IInv
  BY InitInv, NextInv, PTL DEF Spec

\* All counters and queues keep their types; in particular no window ever
\* leaves the range of a C unsigned, whatever the listener acknowledges.
THEOREM TypeCorrect == Spec => []TypeOK
<1>1. IInv => TypeOK
  BY DEF IInv
<1> QED
  BY <1>1, Invariance, PTL

\* For any mix of sizes and any window: each logged message is taken, on the
\* wire, or in the hands of the sender, in exactly one of these places.
THEOREM Conservation == Spec => []NothingLostOrDoubled
<1>1. IInv => NothingLostOrDoubled
  BY DEF IInv
<1> QED
  BY <1>1, Invariance, PTL

\* srAPISendLogmsg never confirms a message the handler did not get and never
\* reports as refused one that it got.
THEOREM TrueReports == Spec => []ReportIsTrue
<1>1. IInv => ReportIsTrue
  BY DEF IInv
<1> QED
  BY <1>1, Invariance, PTL
-----------------------------------------------------------------------------
(***************************************************************************)
(* The data phase implements LogDelivery.                                  *)
(***************************************************************************)
\* What Report does is an Acknowledge, a Refuse or nothing.
LEMMA ReportStep ==
  ASSUME IInv, NEW f, Report(f), IsReply(f) => SaysTrue(f),
         UNCHANGED <<logged, handled, delivered, rejected>>
  PROVE  [Promise!Next]_Promise!avars
<1>1. CASE f.hdr = "RPY" /\ logged \notin acked
  <2>1. PICK i \in 1 .. Len(delivered) : delivered[i] = logged
    BY <1>1 DEF IsReply, SaysTrue, Got
  <2>2. Promise!Acknowledge
    BY <1>1, <2>1 DEF Promise!Acknowledge, Report
  <2> QED
    BY <2>2 DEF Promise!Next
<1>2. CASE f.hdr = "ERR" /\ logged \notin refused
  <2>1. logged \in rejected \ refused
    BY <1>2 DEF IsReply, SaysTrue
  <2>2. Promise!Refuse
    BY <1>2, <2>1 DEF Promise!Refuse, Report
  <2> QED
    BY <2>2 DEF Promise!Next
<1>3. CASE ~(f.hdr = "RPY" /\ logged \notin acked)
           /\ ~(f.hdr = "ERR" /\ logged \notin refused)
  BY <1>3 DEF Promise!avars, Report
<1> QED
  BY <1>1, <1>2, <1>3

\* Each step of the session is a step of LogDelivery or leaves its variables alone.
LEMMA StepImplements == ASSUME IInv, [Next]_vars PROVE [Promise!Next]_Promise!avars
<1>1. ASSUME NEW s \in Sizes, NEW ok \in Parsable, LogMesg(s, ok)
      PROVE  Promise!Next
  BY <1>1 DEF LogMesg, SessionCap, rcvdHist, Promise!Next, Promise!Log
<1>2. CASE SendFram
  <2>1. Report(reply) /\ UNCHANGED <<logged, handled, delivered, rejected>>
    BY <1>2 DEF SendFram, Sent, rcvdHist
  <2>2. IsReply(reply) => SaysTrue(reply)
    BY <1>2, NoFramType DEF SendFram, IInv, CallOK
  <2> QED
    BY <2>1, <2>2, ReportStep
<1>3. CASE TakeReply
  <2>1. /\ Report(Head(rxq)) /\ SaysTrue(Head(rxq))
        /\ UNCHANGED <<logged, handled, delivered, rejected>>
    BY <1>3, TakeFacts DEF TakeReply, rcvdHist
  <2> QED
    BY <2>1, ReportStep
<1>4. CASE LstnOnLogFram
  <2> DEFINE f == Head(c2s)
  <2>1. f.id = handled + 1 /\ handled < logged
    BY <1>4, HeadIsNext DEF LstnOnLogFram
  <2>2. handled' = f.id /\ HandOver(f) /\ UNCHANGED <<logged, acked, refused>>
    BY <1>4 DEF LstnOnLogFram, sentHist
  <2>3. Promise!Deliver \/ Promise!Reject
    BY <2>1, <2>2 DEF HandOver, Promise!Deliver, Promise!Reject
  <2> QED
    BY <2>3 DEF Promise!Next
<1>5. CASE \/ WaitWindow \/ AwaitFram \/ TakeReplySendSEQ \/ ClntConnLost
           \/ LstnOnSEQFram \/ LstnSendFram \/ Done \/ UNCHANGED vars
  <2>1. UNCHANGED <<sentHist, rcvdHist>>
    BY <1>5 DEF WaitWindow, AwaitFram, TakeReplySendSEQ, ClntConnLost,
                LstnOnSEQFram, LstnSendFram, Done, vars
  <2> QED
    BY <2>1 DEF sentHist, rcvdHist, Promise!avars
<1> QED
  BY <1>1, <1>2, <1>3, <1>4, <1>5 DEF Next

\* Messages reach the handler in order, each at most once, and the sender is
\* told the truth: the frames, windows and crashes below do not show.
THEOREM Implementation == Spec => KeepsPromise
<1>1. Init => Promise!Init
  BY DEF Init, Promise!Init
<1> QED
  BY <1>1, StepImplements, Invariance, PTL DEF Spec, KeepsPromise, Promise!Spec
-----------------------------------------------------------------------------
(***************************************************************************)
(* The windows of the data phase, for every number of messages.            *)
(*                                                                         *)
(* The argument follows one number through the system, the octet a message *)
(* ends at: OnWire is where the last message put on the wire ends, h where *)
(* the last one the listener took ends, LastAck what the last SEQ frame    *)
(* put on the wire acknowledges and a what the last one the client read    *)
(* did.  Always a <= LastAck <= h <= OnWire; the SEQ frames on the wire    *)
(* climb from a to LastAck, those queued from LastAck to h and the         *)
(* messages on the wire from h to OnWire, each by at least the size d of   *)
(* the smallest message.                                                   *)
(***************************************************************************)
Acks == {"SEQ"}
Logs == {"ANS", "MSG"}

\* The octet a frame is about: what a SEQ acknowledges, where a message ends.
Pos(f) == IF f.hdr = "SEQ" THEN f.no ELSE f.no + f.size

\* The frames of kind K in q climb from lo to hi in steps of at least d.
Climbs(q, K, lo, hi, d) ==
  /\ \A i \in 1 .. Len(q) :
        q[i].hdr \in K => lo + d <= Pos(q[i]) /\ Pos(q[i]) <= hi
  /\ \A i, j \in 1 .. Len(q) :
        q[i].hdr \in K /\ q[j].hdr \in K /\ i < j => Pos(q[i]) + d <= Pos(q[j])

\* One of them is at the top, if there is any way to go.
Reaches(q, K, lo, hi) ==
  lo = hi \/ \E i \in 1 .. Len(q) : q[i].hdr \in K /\ Pos(q[i]) = hi

OnWire == uSeqno - Unsent
LastAck == granted - Window

Order(a, h, d) ==
  /\ a <= LastAck /\ LastAck <= h /\ h <= OnWire
  /\ Climbs(s2c, Acks, a, LastAck, d)
  /\ Climbs(sendQue, Acks, LastAck, h, d)
  /\ Climbs(c2s, Logs, h, OnWire, d)
  /\ IsLog(pend) => Pos(pend) = uSeqno /\ pend.size \in Sizes

\* All messages are of one size, and a window is not a number of them.
Uniform(d) == Sizes = {d} /\ \A n \in Nat : n * d # Window

\* What the client believes is left of the window really is; from the first
\* SEQ on it is even one octet less (the + 1 of sbSessDoSEQ).
Fits(a) == /\ uTXWinLeft <= Window + a - OnWire
           /\ a > 0 => uTXWinLeft < Window + a - OnWire
Whole(d) == \E n \in Nat : OnWire = n * d

\* A SEQ for all that was sent leaves room for any message.
Roomy == Profile = "RAW" /\ \A s \in Sizes : 2 * s + 1 <= Window

\* Nothing between the last message and the window is missing, and a client
\* that has everything acknowledged may send.
Owed(a, h) ==
  /\ lstnUp => /\ Reaches(s2c, Acks, a, LastAck)
               /\ Reaches(sendQue, Acks, LastAck, h)
               /\ Reaches(c2s, Logs, h, OnWire)
  /\ cpc = "idle" => a < OnWire \/ (OnWire = 0 /\ uTXWinLeft = Window)
  /\ cpc = "send" => IsLog(pend) /\ (a = OnWire => pend.size <= uTXWinLeft)
  /\ cpc # "recv"

WInv(a, h, d) ==
  /\ Order(a, h, d)
  /\ Uniform(d) => Fits(a) /\ Whole(d)
  /\ Roomy => Owed(a, h)

\* d is no more than the size of any message.
Step(d) == d \in Nat \ {0} /\ \A s \in Sizes : d <= s
-----------------------------------------------------------------------------
(***************************************************************************)
(* Queues that climb.                                                      *)
(***************************************************************************)
\* Frames are about octets.
LEMMA PosType == ASSUME NEW f \in Frames PROVE Pos(f) \in Nat
  BY DEF Pos, Frames

\* A queue without frames climbs nowhere.
LEMMA ClimbsEmpty ==
  ASSUME NEW K, NEW lo, NEW hi, NEW d
  PROVE  Climbs(<<>>, K, lo, hi, d)
  BY DEF Climbs

\* A climb has room for a longer way.
LEMMA ClimbsOn ==
  ASSUME NEW q \in Seq(Frames), NEW K, NEW lo \in Int, NEW hi \in Int,
         NEW top \in Int, NEW d \in Nat, Climbs(q, K, lo, hi, d), hi <= top
  PROVE  Climbs(q, K, lo, top, d)
<1>1. \A i \in 1 .. Len(q) : Pos(q[i]) \in Nat
  BY PosType
<1> QED
  BY <1>1 DEF Climbs

\* Behind a frame of another kind the climb is the same.
LEMMA ClimbsPast ==
  ASSUME NEW q \in Seq(Frames), q # <<>>, NEW K, NEW lo \in Int, NEW hi \in Int,
         NEW d \in Nat, Climbs(q, K, lo, hi, d), Head(q).hdr \notin K
  PROVE  Climbs(Tail(q), K, lo, hi, d)
<1>1. \A i \in 1 .. Len(Tail(q)) : i \in Nat
  OBVIOUS
<1>2. Len(q) \in Nat
  OBVIOUS
<1> DEFINE t == Tail(q)
<1>3. /\ Len(t) = Len(q) - 1
      /\ \A i \in 1 .. Len(t) : i + 1 \in 1 .. Len(q) /\ t[i] = q[i + 1]
  BY TailIdx
<1> HIDE DEF t
<1>4. \A i \in 1 .. Len(t) : t[i].hdr \in K => lo + d <= Pos(t[i]) /\ Pos(t[i]) <= hi
  BY <1>3 DEF Climbs
<1>5. ASSUME NEW i \in 1 .. Len(t), NEW j \in 1 .. Len(t),
             t[i].hdr \in K, t[j].hdr \in K, i < j
      PROVE  Pos(t[i]) + d <= Pos(t[j])
  <2>1. /\ i + 1 \in 1 .. Len(q) /\ t[i] = q[i + 1]
        /\ j + 1 \in 1 .. Len(q) /\ t[j] = q[j + 1]
    BY <1>3
  <2>2. i + 1 < j + 1
    BY <1>5
  <2> QED
    BY <1>5, <2>1, <2>2 DEF Climbs
<1> QED
  BY <1>4, <1>5 DEF Climbs, t

\* The first frame of the kind is a step up, the others climb from there.
LEMMA ClimbsTaken ==
  ASSUME NEW q \in Seq(Frames), q # <<>>, NEW K, NEW lo \in Int, NEW hi \in Int,
         NEW d \in Nat, Climbs(q, K, lo, hi, d), Head(q).hdr \in K
  PROVE  /\ lo + d <= Pos(Head(q)) /\ Pos(Head(q)) <= hi
         /\ Climbs(Tail(q), K, Pos(Head(q)), hi, d)
<1>2. Len(q) \in Nat /\ Head(q) = q[1] /\ 1 \in 1 .. Len(q)
  BY TailIdx
<1> DEFINE t == Tail(q)
<1>3. /\ Len(t) = Len(q) - 1
      /\ \A i \in 1 .. Len(t) : i + 1 \in 1 .. Len(q) /\ t[i] = q[i + 1]
  BY TailIdx
<1> HIDE DEF t
<1>4. lo + d <= Pos(Head(q)) /\ Pos(Head(q)) <= hi
  BY <1>2 DEF Climbs
<1>5. ASSUME NEW i \in 1 .. Len(t), t[i].hdr \in K
      PROVE  Pos(Head(q)) + d <= Pos(t[i]) /\ Pos(t[i]) <= hi
  <2>1. i + 1 \in 1 .. Len(q) /\ t[i] = q[i + 1]
    BY <1>3
  <2>2. 1 < i + 1
    OBVIOUS
  <2> QED
    BY <1>2, <1>5, <2>1, <2>2 DEF Climbs
<1>6. ASSUME NEW i \in 1 .. Len(t), NEW j \in 1 .. Len(t),
             t[i].hdr \in K, t[j].hdr \in K, i < j
      PROVE  Pos(t[i]) + d <= Pos(t[j])
  <2>1. /\ i + 1 \in 1 .. Len(q) /\ t[i] = q[i + 1]
        /\ j + 1 \in 1 .. Len(q) /\ t[j] = q[j + 1]
    BY <1>3
  <2>2. i + 1 < j + 1
    BY <1>6
  <2> QED
    BY <1>6, <2>1, <2>2 DEF Climbs
<1>7. Climbs(t, K, Pos(Head(q)), hi, d)
  BY <1>5, <1>6 DEF Climbs
<1> QED
  BY <1>4, <1>7 DEF t

\* A frame of another kind may join a climb.
LEMMA ClimbsBeside ==
  ASSUME NEW q \in Seq(Frames), NEW e \in Frames, NEW K, NEW lo \in Int,
         NEW hi \in Int, NEW d \in Nat, Climbs(q, K, lo, hi, d), e.hdr \notin K
  PROVE  Climbs(Append(q, e), K, lo, hi, d)
<1> DEFINE p == Append(q, e)
<1>1. /\ Len(p) = Len(q) + 1 /\ p[Len(q) + 1] = e /\ Len(q) \in Nat
      /\ \A i \in 1 .. Len(q) : p[i] = q[i]
      /\ \A i \in 1 .. Len(p) : i \in 1 .. Len(q) \/ i = Len(q) + 1
  BY AppendIdx
<1> HIDE DEF p
<1>2. \A i \in 1 .. Len(p) : p[i].hdr \in K => i \in 1 .. Len(q) /\ p[i] = q[i]
  BY <1>1
<1>3. Climbs(p, K, lo, hi, d)
  BY <1>2 DEF Climbs
<1> QED
  BY <1>3 DEF p

\* A frame at least d above the top goes on with it.
LEMMA ClimbsAppend ==
  ASSUME NEW q \in Seq(Frames), NEW e \in Frames, NEW K, NEW lo \in Int,
         NEW hi \in Int, NEW d \in Nat, Climbs(q, K, lo, hi, d), lo <= hi,
         hi + d <= Pos(e)
  PROVE  Climbs(Append(q, e), K, lo, Pos(e), d)
<1> DEFINE p == Append(q, e)
<1>1. /\ Len(p) = Len(q) + 1 /\ p[Len(q) + 1] = e /\ Len(q) \in Nat
      /\ \A i \in 1 .. Len(q) : p[i] = q[i]
      /\ \A i \in 1 .. Len(p) : i \in 1 .. Len(q) \/ i = Len(q) + 1
  BY AppendIdx
<1>2. Pos(e) \in Nat /\ \A i \in 1 .. Len(q) : Pos(q[i]) \in Nat
  BY PosType
<1> HIDE DEF p
<1>3. ASSUME NEW i \in 1 .. Len(p), p[i].hdr \in K
      PROVE  lo + d <= Pos(p[i]) /\ Pos(p[i]) <= Pos(e)
  <2>1. CASE i \in 1 .. Len(q)
    BY <1>1, <1>2, <1>3, <2>1 DEF Climbs
  <2>2. CASE i = Len(q) + 1
    BY <1>1, <1>2, <2>2
  <2> QED
    BY <1>1, <2>1, <2>2
<1>4. ASSUME NEW i \in 1 .. Len(p), NEW j \in 1 .. Len(p),
             p[i].hdr \in K, p[j].hdr \in K, i < j
      PROVE  Pos(p[i]) + d <= Pos(p[j])
  <2>1. i \in 1 .. Len(q) /\ p[i] = q[i]
    BY <1>1, <1>4
  <2>2. CASE j \in 1 .. Len(q)
    BY <1>1, <1>4, <2>1, <2>2 DEF Climbs
  <2>3. CASE j = Len(q) + 1
    <3>1. Pos(p[i]) <= hi
      BY <1>4, <2>1 DEF Climbs
    <3> QED
      BY <1>1, <1>2, <2>1, <2>3, <3>1
  <2> QED
    BY <1>1, <2>2, <2>3
<1>5. Climbs(p, K, lo, Pos(e), d)
  BY <1>3, <1>4 DEF Climbs
<1> QED
  BY <1>5 DEF p

\* The top is still there behind a frame of another kind.
LEMMA ReachesPast ==
  ASSUME NEW q \in Seq(Frames), q # <<>>, NEW K, NEW lo, NEW hi,
         Reaches(q, K, lo, hi), Head(q).hdr \notin K
  PROVE  Reaches(Tail(q), K, lo, hi)
<1> SUFFICES ASSUME lo # hi PROVE Reaches(Tail(q), K, lo, hi)
  BY DEF Reaches
<1>1. PICK i \in 1 .. Len(q) : q[i].hdr \in K /\ Pos(q[i]) = hi
  BY DEF Reaches
<1>2. i # 1
  BY <1>1
<1>3. i - 1 \in 1 .. Len(Tail(q)) /\ Tail(q)[i - 1] = q[i]
  BY <1>2
<1> QED
  BY <1>1, <1>3 DEF Reaches

\* Taking a frame below the top leaves the top in the queue.
LEMMA ReachesTaken ==
  ASSUME NEW q \in Seq(Frames), q # <<>>, NEW K, NEW lo \in Int, NEW hi \in Int,
         NEW d \in Nat, d > 0, Climbs(q, K, lo, hi, d), Reaches(q, K, lo, hi),
         Head(q).hdr \in K
  PROVE  Reaches(Tail(q), K, Pos(Head(q)), hi)
<1>1. lo + d <= Pos(Head(q)) /\ Pos(Head(q)) <= hi
  BY ClimbsTaken
<1>2. Head(q) \in Frames /\ Pos(Head(q)) \in Nat
  BY TailIdx, PosType
<1>3. PICK i \in 1 .. Len(q) : q[i].hdr \in K /\ Pos(q[i]) = hi
  BY <1>1, <1>2 DEF Reaches
<1>4. CASE i = 1
  BY <1>3, <1>4 DEF Reaches
<1>5. CASE i # 1
  <2>1. i - 1 \in 1 .. Len(Tail(q)) /\ Tail(q)[i - 1] = q[i]
    BY <1>5
  <2> QED
    BY <1>3, <2>1 DEF Reaches
<1> QED
  BY <1>4, <1>5

\* A frame that joins the queue takes nothing away.
LEMMA ReachesBeside ==
  ASSUME NEW q \in Seq(Frames), NEW e \in Frames, NEW K, NEW lo, NEW hi,
         Reaches(q, K, lo, hi)
  PROVE  Reaches(Append(q, e), K, lo, hi)
<1>1. \A i \in 1 .. Len(q) : i \in 1 .. Len(Append(q, e)) /\ Append(q, e)[i] = q[i]
  OBVIOUS
<1> QED
  BY <1>1 DEF Reaches

\* A frame of the kind that joins the queue is a new top.
LEMMA ReachesAppend ==
  ASSUME NEW q \in Seq(Frames), NEW e \in Frames, NEW K, NEW lo, e.hdr \in K
  PROVE  Reaches(Append(q, e), K, lo, Pos(e))
<1>1. Len(q) + 1 \in 1 .. Len(Append(q, e)) /\ Append(q, e)[Len(q) + 1] = e
  OBVIOUS
<1> QED
  BY <1>1 DEF Reaches
-----------------------------------------------------------------------------
(***************************************************************************)
(* The steps of the client.                                                *)
(***************************************************************************)
\* The positions are numbers.
LEMMA PositionTypes ==
  ASSUME IInv
  PROVE  /\ OnWire \in Int /\ LastAck \in Int /\ Unsent \in Nat
         /\ uSeqno \in Nat /\ uTXWinLeft \in Nat /\ granted \in Nat
         /\ s2c \in Seq(Frames) /\ c2s \in Seq(Frames) /\ sendQue \in Seq(Frames)
         /\ Window \in Nat /\ WordMod \in Nat
<1>1. /\ uSeqno \in Nat /\ uTXWinLeft \in Nat /\ granted \in Nat
      /\ s2c \in Seq(Frames) /\ c2s \in Seq(Frames) /\ sendQue \in Seq(Frames)
      /\ Window \in Nat /\ WordMod \in Nat
  BY FlowAssumption DEF IInv, TypeOK
<1>2. Unsent \in Nat
  BY NoFramType DEF IInv, TypeOK, Unsent, Frames
<1> QED
  BY <1>1, <1>2 DEF OnWire, LastAck

\* b is what the client has seen acknowledged after a poll or a read.
Seen(a, b, d, seqno) ==
  /\ a <= b /\ b <= LastAck
  /\ Climbs(s2c', Acks, b, LastAck, d)
  /\ Reaches(s2c, Acks, a, LastAck) => Reaches(s2c', Acks, b, LastAck)
  /\ \/ b = a /\ uTXWinLeft' = uTXWinLeft
     \/ a + d <= b /\ uTXWinLeft' = WinAfterSEQ(seqno, b)

\* sbSessDoReceive takes the lowest acknowledgement there is.
LEMMA PollSees ==
  ASSUME IInv, NEW d, Step(d), NEW a \in Nat, NEW h \in Nat, Order(a, h, d),
         NEW seqno, NEW que, PollReceive(seqno, que)
  PROVE  \E b \in Nat : Seen(a, b, d, seqno)
<1>1. /\ s2c \in Seq(Frames) /\ d \in Nat /\ d > 0 /\ LastAck \in Int
      /\ Climbs(s2c, Acks, a, LastAck, d) /\ a <= LastAck
  BY PositionTypes DEF Step, Order
<1>2. CASE rxq' = que /\ UNCHANGED <<s2c, uTXWinLeft>>
  BY <1>1, <1>2 DEF Seen
<1>3. CASE DoReceive(seqno, que)
  <2>1. s2c # <<>> /\ s2c' = Tail(s2c) /\ Head(s2c) \in Frames
    BY <1>1, <1>3, TailIdx DEF DoReceive
  <2>2. CASE Head(s2c).hdr = "SEQ"
    <3>1. Head(s2c).hdr \in Acks /\ Pos(Head(s2c)) = Head(s2c).no
      BY <2>2 DEF Acks, Pos
    <3>2. uTXWinLeft' = WinAfterSEQ(seqno, Head(s2c).no)
      BY <1>3, <2>2 DEF DoReceive
    <3> DEFINE b == Pos(Head(s2c))
    <3>3. /\ a + d <= b /\ b <= LastAck
          /\ Climbs(s2c', Acks, b, LastAck, d)
      BY <1>1, <2>1, <3>1, ClimbsTaken
    <3>4. Reaches(s2c, Acks, a, LastAck) => Reaches(s2c', Acks, b, LastAck)
      BY <1>1, <2>1, <3>1, ReachesTaken
    <3>5. b \in Nat /\ b = Head(s2c).no
      BY <2>1, <3>1, PosType
    <3> HIDE DEF b
    <3>6. Seen(a, b, d, seqno)
      BY <1>1, <3>2, <3>3, <3>4, <3>5 DEF Seen
    <3> QED
      BY <3>5, <3>6
  <2>3. CASE Head(s2c).hdr # "SEQ"
    <3>1. Head(s2c).hdr \notin Acks /\ uTXWinLeft' = uTXWinLeft
      BY <1>3, <2>3 DEF Acks, DoReceive
    <3>2. Climbs(s2c', Acks, a, LastAck, d)
      BY <1>1, <2>1, <3>1, ClimbsPast
    <3>3. Reaches(s2c, Acks, a, LastAck) => Reaches(s2c', Acks, a, LastAck)
      BY <1>1, <2>1, <3>1, ReachesPast
    <3>4. Seen(a, a, d, seqno)
      BY <1>1, <3>1, <3>2, <3>3 DEF Seen
    <3> QED
      BY <3>4
  <2> QED
    BY <2>2, <2>3
<1> QED
  BY <1>2, <1>3 DEF PollReceive

\* What a poll or a read leaves alone.
Still == /\ UNCHANGED <<sendQue, c2s, granted, lstnUp>> /\ OnWire' = OnWire
         /\ IsLog(pend') => Pos(pend') = uSeqno' /\ pend'.size \in Sizes

\* A poll keeps the order.
LEMMA SeenOrder ==
  ASSUME NEW a \in Nat, NEW h \in Nat, NEW d, Order(a, h, d),
         NEW b \in Nat, NEW seqno, Seen(a, b, d, seqno), Still
  PROVE  Order(b, h, d)'
<1>1. LastAck' = LastAck
  BY DEF Still, LastAck
<1> QED
  BY <1>1 DEF Order, Seen, Still

\* For messages of one size sbSessDoSEQ never computes a negative window, and
\* never one larger than what is left.
LEMMA SeenFits ==
  ASSUME IInv, NEW a \in Nat, NEW h \in Nat, NEW d, Step(d), Uniform(d),
         Fits(a), Whole(d), NEW b \in Nat, NEW seqno \in {OnWire, OnWire + d},
         Seen(a, b, d, seqno), Still
  PROVE  Fits(b)' /\ Whole(d)'
<1>1. /\ OnWire \in Int /\ Window \in Nat /\ WordMod \in Nat
      /\ uTXWinLeft \in Nat /\ d \in Nat /\ d > 0 /\ OnWire' = OnWire
  BY PositionTypes DEF Step, Still
<1>2. Whole(d)'
  BY <1>1 DEF Whole
<1>3. CASE b = a /\ uTXWinLeft' = uTXWinLeft
  BY <1>1, <1>2, <1>3 DEF Fits
<1>4. CASE a + d <= b /\ uTXWinLeft' = WinAfterSEQ(seqno, b)
  <2>1. OnWire # Window
    BY DEF Whole, Uniform
  <2>2. OnWire - a < Window
    BY <1>1, <2>1 DEF Fits
  <2>3. uTXWinLeft' = Window - (seqno - b + 1)
    BY <1>1, <1>4, <2>2 DEF WinAfterSEQ, Unsigned
  <2> QED
    BY <1>1, <1>2, <2>3 DEF Fits
<1> QED
  BY <1>3, <1>4 DEF Seen

\* A client that has read the last acknowledgement has room for its message.
LEMMA SeenOwed ==
  ASSUME IInv, NEW a \in Nat, NEW h \in Nat, NEW d, Step(d), Roomy, Owed(a, h),
         NEW b \in Nat, NEW seqno, Seen(a, b, d, seqno), Still,
         cpc' = "send", IsLog(pend'), seqno = OnWire + pend'.size,
         a = OnWire => pend'.size <= uTXWinLeft
  PROVE  Owed(b, h)'
<1>1. /\ OnWire \in Int /\ Window \in Nat /\ WordMod \in Nat
      /\ uTXWinLeft \in Nat /\ d \in Nat /\ OnWire' = OnWire /\ LastAck' = LastAck
      /\ pend'.size \in Nat /\ 2 * pend'.size + 1 <= Window
  BY PositionTypes, FlowAssumption DEF Step, Still, LastAck, Roomy
<1>2. b = OnWire => pend'.size <= uTXWinLeft'
  <2>1. CASE b = a /\ uTXWinLeft' = uTXWinLeft
    BY <2>1
  <2>2. CASE uTXWinLeft' = WinAfterSEQ(seqno, b) /\ b = OnWire
    BY <1>1, <2>2 DEF WinAfterSEQ, Unsigned
  <2> QED
    BY <2>1, <2>2 DEF Seen
<1>3. lstnUp' => /\ Reaches(s2c', Acks, b, LastAck)
                 /\ Reaches(sendQue', Acks, LastAck, h)
                 /\ Reaches(c2s', Logs, h, OnWire)
  BY DEF Owed, Seen, Still
<1> QED
  BY <1>1, <1>2, <1>3 DEF Owed
\* srAPISendLogmsg up to the first sbChanActualSendFram.
LEMMA LogMesgWin ==
  ASSUME IInv, NEW d, Step(d), NEW a \in Nat, NEW h \in Nat, WInv(a, h, d),
         NEW s \in Sizes, NEW ok \in Parsable, LogMesg(s, ok)
  PROVE  \E b, g \in Nat : WInv(b, g, d)'
<1>1. /\ cpc = "idle" /\ cpc' = "send" /\ uSeqno' = uSeqno + s
      /\ pend' = Fram(LogHdr, logged + 1, uSeqno, s, ok)
      /\ PollReceive(uSeqno', rxq) /\ s \in Nat
      /\ UNCHANGED <<sendQue, c2s, granted, lstnUp>>
  BY FlowAssumption DEF LogMesg, lstnVars
<1>2. /\ IsLog(pend') /\ pend'.size = s /\ Pos(pend') = uSeqno + s
      /\ Unsent' = s
  BY <1>1 DEF Fram, LogHdr, IsLog, Pos, Unsent
<1>3. Unsent = 0 /\ uSeqno \in Nat /\ OnWire = uSeqno
  BY <1>1, NoFramType, PositionTypes DEF IInv, CallOK, Unsent, OnWire
<1>4. OnWire' = OnWire /\ Still
  BY <1>1, <1>2, <1>3 DEF OnWire, Still
<1>5. PICK b \in Nat : Seen(a, b, d, uSeqno')
  BY <1>1, PollSees DEF WInv
<1>6. Order(b, h, d)'
  BY <1>4, <1>5, SeenOrder DEF WInv
<1>7. Uniform(d) => Fits(b)' /\ Whole(d)'
  <2> SUFFICES ASSUME Uniform(d) PROVE Fits(b)' /\ Whole(d)'
    OBVIOUS
  <2>1. uSeqno' \in {OnWire, OnWire + d}
    BY <1>1, <1>3 DEF Uniform
  <2> QED
    BY <1>4, <1>5, <2>1, SeenFits DEF WInv
<1>8. Roomy => Owed(b, h)'
  <2> SUFFICES ASSUME Roomy PROVE Owed(b, h)'
    OBVIOUS
  <2>1. a = OnWire => pend'.size <= uTXWinLeft
    BY <1>1, <1>2, FlowAssumption DEF WInv, Owed
  <2>2. uSeqno' = OnWire + pend'.size
    BY <1>1, <1>2, <1>3
  <2> QED
    BY <1>1, <1>2, <1>4, <1>5, <2>1, <2>2, SeenOwed DEF WInv
<1> QED
  BY <1>6, <1>7, <1>8 DEF WInv

\* sbChanActualSendFram: the wire reaches one message further.
LEMMA SendFramWin ==
  ASSUME IInv, NEW d, Step(d), NEW a \in Nat, NEW h \in Nat, WInv(a, h, d),
         SendFram
  PROVE  \E b, g \in Nat : WInv(b, g, d)'
<1>1. /\ cpc = "send" /\ cpc' = (IF pend.hdr = "MSG" THEN "recv" ELSE "idle")
      /\ pend.size <= uTXWinLeft /\ uTXWinLeft' = uTXWinLeft - pend.size
      /\ c2s' = Append(c2s, pend) /\ pend' = NoFram
      /\ UNCHANGED <<uSeqno, s2c, granted, lstnUp, sendQue>>
  BY DEF SendFram, Sent, lstnVars
<1>2. /\ OnWire \in Int /\ LastAck \in Int /\ uSeqno \in Nat /\ uTXWinLeft \in Nat
      /\ c2s \in Seq(Frames) /\ d \in Nat /\ d > 0 /\ Window \in Nat
  BY PositionTypes DEF Step
<1>3. /\ pend \in Frames /\ pend.size \in Nat
      /\ pend.hdr = LogHdr \/ (pend.hdr = "SEQ" /\ Profile = "COOKED")
  <2>1. pend # NoFram
    BY <1>1 DEF IInv, CallOK, NoFram, LogHdr
  <2>2. pend \in Frames
    BY <2>1 DEF IInv, TypeOK
  <2> QED
    BY <1>1, <2>2 DEF IInv, CallOK, Frames
<1>4. OnWire' = uSeqno /\ LastAck' = LastAck /\ ~IsLog(pend')
  BY <1>1, <1>2, NoFramType DEF OnWire, Unsent, LastAck
<1>o. /\ a <= LastAck /\ LastAck <= h /\ h <= OnWire
      /\ Climbs(s2c, Acks, a, LastAck, d)
      /\ Climbs(sendQue, Acks, LastAck, h, d)
      /\ Climbs(c2s, Logs, h, OnWire, d)
      /\ IsLog(pend) => Pos(pend) = uSeqno /\ pend.size \in Sizes
  BY DEF WInv, Order
<1>5. CASE IsLog(pend)
  <2>1. /\ pend.hdr \in Logs /\ Pos(pend) = uSeqno /\ pend.size \in Sizes
        /\ uSeqno = OnWire + pend.size /\ d <= pend.size
    BY <1>2, <1>3, <1>5, <1>o DEF IsLog, Logs, Step, OnWire, Unsent
  <2>2. Climbs(c2s', Logs, h, OnWire', d)
    <3>1. OnWire + d <= Pos(pend)
      BY <1>2, <1>3, <2>1
    <3>2. Climbs(Append(c2s, pend), Logs, h, Pos(pend), d)
      BY <1>2, <1>3, <1>o, <3>1, ClimbsAppend
    <3> QED
      BY <1>1, <1>4, <2>1, <3>2
  <2>3. Order(a, h, d)'
    BY <1>1, <1>2, <1>3, <1>4, <1>o, <2>1, <2>2 DEF Order
  <2>4. Uniform(d) => Fits(a)' /\ Whole(d)'
    <3> SUFFICES ASSUME Uniform(d) PROVE Fits(a)' /\ Whole(d)'
      OBVIOUS
    <3>1. Fits(a)'
      <4>1. Fits(a)
        BY DEF WInv
      <4>2. OnWire' = OnWire + pend.size /\ uTXWinLeft' = uTXWinLeft - pend.size
        BY <1>1, <1>4, <2>1
      <4> QED
        BY <1>2, <1>3, <4>1, <4>2, SMTT(30) DEF Fits
    <3>2. PICK n \in Nat : OnWire = n * d
      BY DEF WInv, Whole
    <3>3. OnWire' = (n + 1) * d
      <4>1. OnWire' = OnWire + d
        BY <1>4, <2>1 DEF Uniform
      <4>2. (n + 1) * d = n * d + d
        BY <1>2
      <4> QED
        BY <3>2, <4>1, <4>2
    <3>4. Whole(d)'
      BY <3>3 DEF Whole
    <3> QED
      BY <3>1, <3>4
  <2>5. Roomy => Owed(a, h)'
    <3> SUFFICES ASSUME Roomy PROVE Owed(a, h)'
      OBVIOUS
    <3>1. cpc' = "idle"
      BY <1>1, <1>3 DEF Roomy, LogHdr
    <3>2. Reaches(c2s', Logs, h, OnWire')
      <4>1. Reaches(Append(c2s, pend), Logs, h, Pos(pend))
        BY <1>2, <1>3, <2>1, ReachesAppend
      <4> QED
        BY <1>1, <1>4, <2>1, <4>1
    <3>3. a < OnWire'
      BY <1>2, <1>3, <1>4, <1>o, <2>1
    <3> QED
      BY <1>1, <1>4, <3>1, <3>2, <3>3 DEF WInv, Owed
  <2> QED
    BY <2>3, <2>4, <2>5 DEF WInv
<1>6. CASE ~IsLog(pend)
  <2>1. pend.hdr = "SEQ" /\ pend.hdr \notin Logs /\ OnWire = uSeqno /\ ~Roomy
    BY <1>2, <1>3, <1>6 DEF IsLog, LogHdr, Logs, Roomy, OnWire, Unsent
  <2>2. Climbs(c2s', Logs, h, OnWire', d)
    BY <1>1, <1>2, <1>3, <1>4, <1>o, <2>1, ClimbsBeside
  <2>3. Order(a, h, d)'
    BY <1>1, <1>4, <1>o, <2>1, <2>2 DEF Order
  <2>4. Uniform(d) => Fits(a)' /\ Whole(d)'
    BY <1>1, <1>2, <1>3, <1>4, <2>1 DEF Fits, Whole, WInv
  <2> QED
    BY <2>1, <2>3, <2>4 DEF WInv, Roomy
<1> QED
  BY <1>5, <1>6

\* A blocked read, waiting for a larger window or for the reply.
LEMMA BlockedReadWin ==
  ASSUME IInv, NEW d, Step(d), NEW a \in Nat, NEW h \in Nat, WInv(a, h, d),
         WaitWindow \/ AwaitFram
  PROVE  \E b, g \in Nat : WInv(b, g, d)'
<1>1. /\ PollReceive(uSeqno, rxq)
      /\ UNCHANGED <<cpc, pend, uSeqno, sendQue, c2s, granted, lstnUp>>
  BY DEF WaitWindow, AwaitFram, PollReceive, lstnVars
<1>2. Unsent' = Unsent /\ OnWire' = OnWire /\ Still
  BY <1>1 DEF Unsent, OnWire, Still, Order, WInv
<1>3. PICK b \in Nat : Seen(a, b, d, uSeqno)
  BY <1>1, PollSees DEF WInv
<1>4. Order(b, h, d)'
  BY <1>2, <1>3, SeenOrder DEF WInv
<1>5. uSeqno = OnWire + Unsent
  BY PositionTypes DEF OnWire
<1>6. Uniform(d) => Fits(b)' /\ Whole(d)'
  <2> SUFFICES ASSUME Uniform(d) PROVE Fits(b)' /\ Whole(d)'
    OBVIOUS
  <2>1. uSeqno \in {OnWire, OnWire + d}
    BY <1>5, PositionTypes DEF Uniform, WInv, Order, Unsent
  <2> QED
    BY <1>2, <1>3, <2>1, SeenFits DEF WInv
<1>7. Roomy => Owed(b, h)'
  <2> SUFFICES ASSUME Roomy PROVE Owed(b, h)'
    OBVIOUS
  <2>1. cpc = "send" /\ IsLog(pend) /\ (a = OnWire => pend.size <= uTXWinLeft)
    BY DEF WaitWindow, AwaitFram, WInv, Owed
  <2>2. uSeqno = OnWire + pend.size
    BY <1>5, <2>1 DEF Unsent
  <2> QED
    BY <1>1, <1>2, <1>3, <2>1, <2>2, SeenOwed DEF WInv
<1> QED
  BY <1>4, <1>6, <1>7 DEF WInv

\* The SEQ the client owes for the reply takes no octets of the channel.
LEMMA TakeReplySendSEQWin ==
  ASSUME IInv, NEW d, Step(d), NEW a \in Nat, NEW h \in Nat, WInv(a, h, d),
         TakeReplySendSEQ
  PROVE  \E b, g \in Nat : WInv(b, g, d)'
<1>1. /\ cpc = "recv" /\ PollReceive(uSeqno, Tail(rxq))
      /\ pend' = SEQFram(Head(rxq).id, Head(rxq).no + Head(rxq).size)
      /\ UNCHANGED <<uSeqno, sendQue, c2s, granted, lstnUp>>
  BY DEF TakeReplySendSEQ, lstnVars
<1>2. ~IsLog(pend) /\ ~IsLog(pend')
  BY <1>1, NoFramType DEF IInv, CallOK, SEQFram, Fram, IsLog
<1>3. OnWire' = OnWire /\ OnWire = uSeqno /\ Still /\ ~Roomy
  BY <1>1, <1>2, PositionTypes DEF OnWire, Unsent, Still, Roomy, IInv, CallOK
<1>4. PICK b \in Nat : Seen(a, b, d, uSeqno)
  BY <1>1, PollSees DEF WInv
<1>5. Order(b, h, d)'
  BY <1>3, <1>4, SeenOrder DEF WInv
<1>6. Uniform(d) => Fits(b)' /\ Whole(d)'
  BY <1>3, <1>4, SeenFits DEF WInv
<1> QED
  BY <1>3, <1>5, <1>6 DEF WInv, Roomy

\* Steps that touch no window and no queue of the argument.
LEMMA AsideWin ==
  ASSUME IInv, NEW d, Step(d), NEW a \in Nat, NEW h \in Nat, WInv(a, h, d),
         TakeReply \/ ClntConnLost \/ UNCHANGED vars
  PROVE  \E b, g \in Nat : WInv(b, g, d)'
<1>1. UNCHANGED <<pend, uSeqno, uTXWinLeft, s2c, c2s, sendQue, granted, lstnUp>>
  BY DEF TakeReply, ClntConnLost, vars, clntVars, lstnVars
<1>2. UNCHANGED cpc \/ cpc' = "failed" \/ cpc = "recv"
  BY DEF TakeReply, ClntConnLost, vars, clntVars
<1>3. OnWire' = OnWire /\ LastAck' = LastAck
  BY <1>1 DEF OnWire, LastAck, Unsent
<1>4. Order(a, h, d)'
  BY <1>1, <1>3 DEF WInv, Order
<1>5. Uniform(d) => Fits(a)' /\ Whole(d)'
  BY <1>1, <1>3 DEF WInv, Fits, Whole
<1>6. Roomy => Owed(a, h)'
  BY <1>1, <1>2, <1>3 DEF WInv, Owed
<1> QED
  BY <1>4, <1>5, <1>6 DEF WInv
-----------------------------------------------------------------------------
(***************************************************************************)
(* The steps of the listener.                                              *)
(***************************************************************************)
\* One or two frames that join a queue join it one after the other.
LEMMA ConcatOne ==
  ASSUME NEW q \in Seq(Frames), NEW x \in Frames PROVE q \o <<x>> = Append(q, x)
  OBVIOUS
LEMMA ConcatTwo ==
  ASSUME NEW q \in Seq(Frames), NEW x \in Frames, NEW y \in Frames
  PROVE  q \o <<x, y>> = Append(Append(q, x), y)
  OBVIOUS

\* The SEQ of a handler acknowledges all of the message it is about.
LEMMA AnswerClimbs ==
  ASSUME NEW f \in Frames, IsLog(f), lSeqno \in Nat, NEW q \in Seq(Frames),
         NEW lo \in Int, NEW hi \in Int, NEW d \in Nat, Climbs(q, Acks, lo, hi, d),
         lo <= hi, hi + d <= Pos(f)
  PROVE  /\ Climbs(q \o Answer(f), Acks, lo, Pos(f), d)
         /\ Profile = "RAW" => Reaches(q \o Answer(f), Acks, lo, Pos(f))
<1> DEFINE ack == SEQFram(f.id, f.no + f.size)
           r == Response(f)
<1>1. f.id \in Nat /\ f.no \in Nat /\ f.size \in Nat /\ Pos(f) = f.no + f.size
  BY DEF Frames, Pos, IsLog
<1>2. ack \in Frames /\ ack.hdr \in Acks /\ Pos(ack) = Pos(f)
  BY <1>1, FramType DEF SEQFram, Fram, Pos, Acks
<1>3. r \in Frames /\ r.hdr \notin Acks
  BY <1>1, FramType, FlowAssumption DEF Response, Fram, Acks
<1>4. Answer(f) = IF Profile = "RAW" THEN <<ack>>
                  ELSE IF f.ok THEN <<r, ack>> ELSE <<r>>
  BY DEF Answer
<1> HIDE DEF ack, r
<1>5. CASE Profile = "RAW"
  <2>1. q \o Answer(f) = Append(q, ack)
    BY <1>2, <1>4, <1>5, ConcatOne
  <2>2. Climbs(Append(q, ack), Acks, lo, Pos(ack), d)
    BY <1>2, ClimbsAppend
  <2>3. Reaches(Append(q, ack), Acks, lo, Pos(ack))
    BY <1>2, ReachesAppend
  <2> QED
    BY <1>2, <2>1, <2>2, <2>3
<1>6. CASE Profile # "RAW" /\ f.ok
  <2> DEFINE p == Append(q, r)
  <2>1. q \o Answer(f) = Append(p, ack) /\ p \in Seq(Frames)
    BY <1>2, <1>3, <1>4, <1>6, ConcatTwo
  <2>2. Climbs(p, Acks, lo, hi, d)
    BY <1>3, ClimbsBeside
  <2> HIDE DEF p
  <2>3. Climbs(Append(p, ack), Acks, lo, Pos(ack), d)
    BY <1>2, <2>1, <2>2, ClimbsAppend
  <2> QED
    BY <1>2, <1>6, <2>1, <2>3
<1>7. CASE Profile # "RAW" /\ ~f.ok
  <2>1. q \o Answer(f) = Append(q, r) /\ Append(q, r) \in Seq(Frames)
    BY <1>3, <1>4, <1>7, ConcatOne
  <2>2. Climbs(Append(q, r), Acks, lo, hi, d)
    BY <1>3, ClimbsBeside
  <2>3. hi <= Pos(f) /\ Pos(f) \in Int
    BY <1>1
  <2>4. Climbs(Append(q, r), Acks, lo, Pos(f), d)
    BY <2>1, <2>2, <2>3, ClimbsOn
  <2> QED
    BY <1>7, <2>1, <2>4
<1> QED
  BY <1>5, <1>6, <1>7

\* sbLstnOnFramRcvd with a log message: the listener is one message further.
LEMMA LstnOnLogFramWin ==
  ASSUME IInv, NEW d, Step(d), NEW a \in Nat, NEW h \in Nat, WInv(a, h, d),
         LstnOnLogFram
  PROVE  \E b, g \in Nat : WInv(b, g, d)'
<1> DEFINE f == Head(c2s)
<1>1. /\ c2s # <<>> /\ IsLog(f) /\ c2s' = Tail(c2s)
      /\ sendQue' = sendQue \o Answer(f)
      /\ UNCHANGED <<cpc, pend, uSeqno, uTXWinLeft, s2c, granted, lstnUp>>
  BY DEF LstnOnLogFram, Enqueue, clntVars
<1>2. /\ OnWire \in Int /\ LastAck \in Int /\ d \in Nat /\ d > 0
      /\ c2s \in Seq(Frames) /\ sendQue \in Seq(Frames) /\ lSeqno \in Nat
  BY PositionTypes, FlowAssumption DEF Step, IInv, TypeOK
<1>3. /\ f \in Frames /\ Pos(f) \in Nat /\ f.hdr \in Logs
  BY <1>1, <1>2, TailIdx, PosType DEF IsLog, Logs
<1>4. OnWire' = OnWire /\ LastAck' = LastAck
  BY <1>1 DEF OnWire, LastAck, Unsent
<1>o. /\ a <= LastAck /\ LastAck <= h /\ h <= OnWire
      /\ Climbs(s2c, Acks, a, LastAck, d)
      /\ Climbs(sendQue, Acks, LastAck, h, d)
      /\ Climbs(c2s, Logs, h, OnWire, d)
      /\ IsLog(pend) => Pos(pend) = uSeqno /\ pend.size \in Sizes
  BY DEF WInv, Order
<1> HIDE DEF f
<1>5. h + d <= Pos(f) /\ Pos(f) <= OnWire /\ Climbs(c2s', Logs, Pos(f), OnWire, d)
  BY <1>1, <1>2, <1>3, <1>o, ClimbsTaken DEF f
<1>6. /\ Climbs(sendQue', Acks, LastAck, Pos(f), d)
      /\ Profile = "RAW" => Reaches(sendQue', Acks, LastAck, Pos(f))
  <2>1. LastAck <= h /\ h + d <= Pos(f) /\ h \in Int
    BY <1>o, <1>5
  <2>2. /\ Climbs(sendQue \o Answer(f), Acks, LastAck, Pos(f), d)
        /\ Profile = "RAW" => Reaches(sendQue \o Answer(f), Acks, LastAck, Pos(f))
    BY <1>1, <1>2, <1>3, <1>o, <2>1, AnswerClimbs
  <2> QED
    BY <1>1, <2>2
<1>7. PICK n \in Nat : n = Pos(f)
  BY <1>3
<1>8. Order(a, n, d)'
  BY <1>1, <1>2, <1>4, <1>o, <1>5, <1>6, <1>7 DEF Order
<1>9. Uniform(d) => Fits(a)' /\ Whole(d)'
  BY <1>1, <1>4 DEF WInv, Fits, Whole
<1>10. Roomy => Owed(a, n)'
  <2> SUFFICES ASSUME Roomy PROVE Owed(a, n)'
    OBVIOUS
  <2>1. lstnUp => Reaches(c2s', Logs, n, OnWire)
    <3> SUFFICES ASSUME lstnUp PROVE Reaches(c2s', Logs, n, OnWire)
      OBVIOUS
    <3>1. Reaches(c2s, Logs, h, OnWire) /\ Head(c2s).hdr \in Logs
      BY <1>3 DEF WInv, Owed, f
    <3>2. Reaches(Tail(c2s), Logs, Pos(Head(c2s)), OnWire)
      BY <1>1, <1>2, <1>o, <3>1, ReachesTaken
    <3> QED
      BY <1>1, <1>7, <3>2 DEF f
  <2>2. Reaches(sendQue', Acks, LastAck, n)
    BY <1>6, <1>7 DEF Roomy
  <2> QED
    BY <1>1, <1>4, <2>1, <2>2 DEF WInv, Owed
<1> QED
  BY <1>8, <1>9, <1>10 DEF WInv

\* The SEQ that kills the listener empties its queue; the wire keeps its order.
LEMMA LstnOnSEQFramWin ==
  ASSUME IInv, NEW d, Step(d), NEW a \in Nat, NEW h \in Nat, WInv(a, h, d),
         LstnOnSEQFram
  PROVE  \E b, g \in Nat : WInv(b, g, d)'
<1>1. /\ c2s # <<>> /\ Head(c2s).hdr \notin Logs /\ c2s' = Tail(c2s)
      /\ sendQue' = <<>> /\ lstnUp' = FALSE
      /\ UNCHANGED <<cpc, pend, uSeqno, uTXWinLeft, s2c, granted>>
  BY DEF LstnOnSEQFram, clntVars, Logs
<1>2. /\ OnWire \in Int /\ LastAck \in Int /\ d \in Nat /\ c2s \in Seq(Frames)
      /\ OnWire' = OnWire /\ LastAck' = LastAck
  BY <1>1, PositionTypes DEF Step, OnWire, LastAck, Unsent
<1>3. Climbs(c2s', Logs, h, OnWire, d)
  BY <1>1, <1>2, ClimbsPast DEF WInv, Order
<1>4. Climbs(sendQue', Acks, LastAck, h, d)
  BY <1>1, ClimbsEmpty
<1>5. Order(a, h, d)'
  BY <1>1, <1>2, <1>3, <1>4 DEF WInv, Order
<1>6. Uniform(d) => Fits(a)' /\ Whole(d)'
  BY <1>1, <1>2 DEF WInv, Fits, Whole
<1>7. Roomy => Owed(a, h)'
  BY <1>1, <1>2 DEF WInv, Owed
<1> QED
  BY <1>5, <1>6, <1>7 DEF WInv

\* sbLstnSendFram: the SEQ frames go on the wire in the order of the queue.
LEMMA LstnSendFramWin ==
  ASSUME IInv, NEW d, Step(d), NEW a \in Nat, NEW h \in Nat, WInv(a, h, d),
         LstnSendFram
  PROVE  /\ \E b, g \in Nat : WInv(b, g, d)'
         /\ granted' >= granted
<1> DEFINE f == Head(sendQue)
<1>1. /\ sendQue # <<>> /\ sendQue' = Tail(sendQue) /\ s2c' = Append(s2c, f)
      /\ granted' = IF f.hdr = "SEQ" THEN f.no + Window ELSE granted
      /\ UNCHANGED <<cpc, pend, uSeqno, uTXWinLeft, c2s, lstnUp>>
  BY DEF LstnSendFram, clntVars
<1>2. /\ OnWire \in Int /\ LastAck \in Int /\ d \in Nat /\ d > 0 /\ Window \in Nat
      /\ s2c \in Seq(Frames) /\ sendQue \in Seq(Frames) /\ granted \in Nat
      /\ OnWire' = OnWire
  BY <1>1, PositionTypes DEF Step, OnWire, Unsent
<1>3. f \in Frames /\ Pos(f) \in Nat
  BY <1>1, <1>2, TailIdx, PosType
<1>o. /\ a <= LastAck /\ LastAck <= h /\ h <= OnWire
      /\ Climbs(s2c, Acks, a, LastAck, d)
      /\ Climbs(sendQue, Acks, LastAck, h, d)
      /\ Climbs(c2s, Logs, h, OnWire, d)
      /\ IsLog(pend) => Pos(pend) = uSeqno /\ pend.size \in Sizes
  BY DEF WInv, Order
<1>4. Uniform(d) => Fits(a)' /\ Whole(d)'
  BY <1>1, <1>2 DEF WInv, Fits, Whole
<1> HIDE DEF f
<1>5. CASE f.hdr = "SEQ"
  <2>1. f.hdr \in Acks /\ Pos(f) = f.no
    BY <1>5 DEF Acks, Pos
  <2>2. LastAck' = Pos(f)
    BY <1>1, <1>2, <1>3, <1>5, <2>1 DEF LastAck
  <2>3. LastAck + d <= Pos(f) /\ Pos(f) <= h /\ Climbs(sendQue', Acks, Pos(f), h, d)
    BY <1>1, <1>2, <1>o, <2>1, ClimbsTaken DEF f
  <2>4. Climbs(s2c', Acks, a, Pos(f), d)
    BY <1>1, <1>2, <1>3, <1>o, <2>3, ClimbsAppend
  <2>5. Order(a, h, d)'
    BY <1>1, <1>2, <1>3, <1>o, <2>2, <2>3, <2>4 DEF Order
  <2>6. Roomy => Owed(a, h)'
    <3> SUFFICES ASSUME Roomy PROVE Owed(a, h)'
      OBVIOUS
    <3>1. Reaches(s2c', Acks, a, Pos(f))
      BY <1>1, <1>2, <1>3, <2>1, ReachesAppend
    <3>2. lstnUp => Reaches(sendQue', Acks, Pos(f), h)
      <4> SUFFICES ASSUME lstnUp PROVE Reaches(sendQue', Acks, Pos(f), h)
        OBVIOUS
      <4>1. Reaches(sendQue, Acks, LastAck, h)
        BY DEF WInv, Owed
      <4> QED
        BY <1>1, <1>2, <1>o, <2>1, <4>1, ReachesTaken DEF f
    <3> QED
      BY <1>1, <1>2, <2>2, <3>1, <3>2 DEF WInv, Owed
  <2>7. granted' >= granted
    BY <1>1, <1>2, <1>3, <1>5, <2>1, <2>3 DEF LastAck
  <2> QED
    BY <1>4, <2>5, <2>6, <2>7 DEF WInv
<1>6. CASE f.hdr # "SEQ"
  <2>1. f.hdr \notin Acks /\ granted' = granted /\ LastAck' = LastAck
    BY <1>1, <1>6 DEF Acks, LastAck
  <2>2. Climbs(sendQue', Acks, LastAck, h, d)
    BY <1>1, <1>2, <1>o, <2>1, ClimbsPast DEF f
  <2>3. Climbs(s2c', Acks, a, LastAck, d)
    BY <1>1, <1>2, <1>3, <1>o, <2>1, ClimbsBeside
  <2>4. Order(a, h, d)'
    BY <1>1, <1>2, <1>o, <2>1, <2>2, <2>3 DEF Order
  <2>5. Roomy => Owed(a, h)'
    <3> SUFFICES ASSUME Roomy PROVE Owed(a, h)'
      OBVIOUS
    <3>1. lstnUp => Reaches(s2c', Acks, a, LastAck)
      BY <1>1, <1>2, <1>3, ReachesBeside DEF WInv, Owed
    <3>2. lstnUp => Reaches(sendQue', Acks, LastAck, h)
      BY <1>1, <1>2, <2>1, ReachesPast DEF WInv, Owed, f
    <3> QED
      BY <1>1, <1>2, <2>1, <3>1, <3>2 DEF WInv, Owed
  <2>6. granted' >= granted
    BY <1>2, <2>1
  <2> QED
    BY <1>4, <2>4, <2>5, <2>6 DEF WInv
<1> QED
  BY <1>5, <1>6
-----------------------------------------------------------------------------
\* The channel starts with nothing sent and a full window.
LEMMA InitWin == ASSUME NEW d, Step(d), Init PROVE WInv(0, 0, d)
<1>1. /\ OnWire = 0 /\ LastAck = 0 /\ ~IsLog(pend)
      /\ s2c = <<>> /\ c2s = <<>> /\ sendQue = <<>>
      /\ cpc = "idle" /\ uTXWinLeft = Window
  BY FlowAssumption, NoFramType DEF Init, OnWire, LastAck, Unsent
<1>2. Order(0, 0, d)
  BY <1>1, ClimbsEmpty DEF Order
<1>3. Fits(0) /\ Whole(d)
  <2>1. 0 = 0 * d
    BY DEF Step
  <2> QED
    BY <1>1, <2>1, FlowAssumption DEF Fits, Whole
<1>4. Owed(0, 0)
  BY <1>1 DEF Owed, Reaches
<1> QED
  BY <1>2, <1>3, <1>4 DEF WInv

\* No step takes the positions out of order.
LEMMA NextWin ==
  ASSUME IInv, NEW d, Step(d), NEW a \in Nat, NEW h \in Nat, WInv(a, h, d),
         [Next]_vars
  PROVE  \E b, g \in Nat : WInv(b, g, d)'
<1>1. ASSUME NEW s \in Sizes, NEW ok \in Parsable, LogMesg(s, ok)
      PROVE  \E b, g \in Nat : WInv(b, g, d)'
  BY <1>1, LogMesgWin
<1>2. CASE SendFram
  BY <1>2, SendFramWin
<1>3. CASE WaitWindow \/ AwaitFram
  BY <1>3, BlockedReadWin
<1>4. CASE TakeReplySendSEQ
  BY <1>4, TakeReplySendSEQWin
<1>5. CASE TakeReply \/ ClntConnLost \/ UNCHANGED vars
  BY <1>5, AsideWin
<1>6. CASE LstnOnLogFram
  BY <1>6, LstnOnLogFramWin
<1>7. CASE LstnOnSEQFram
  BY <1>7, LstnOnSEQFramWin
<1>8. CASE LstnSendFram
  BY <1>8, LstnSendFramWin
<1>9. CASE Done
  BY <1>5, <1>9 DEF Done
<1> QED
  BY <1>1, <1>2, <1>3, <1>4, <1>5, <1>6, <1>7, <1>8, <1>9 DEF Next

\* The positions exist and stay in order throughout.
Positions(d) == \E a, h \in Nat : WInv(a, h, d)
LEMMA InitPositions == ASSUME NEW d, Step(d), Init PROVE Positions(d)
  BY InitWin DEF Positions
LEMMA NextPositions ==
  ASSUME NEW d, Step(d), IInv, Positions(d), [Next]_vars
  PROVE  Positions(d)'
<1>1. PICK a, h \in Nat : WInv(a, h, d)
  BY DEF Positions
<1>2. \E b, g \in Nat : WInv(b, g, d)'
  BY <1>1, NextWin
<1> QED
  BY <1>2 DEF Positions

\* Whatever the profile and the sizes: although SEQ frames are queued and sent
\* apart from the messages they are about, and pass replies that wait for the
\* window, none takes back what an earlier one granted.
THEOREM NoGrantTakenBack == Spec => GrantsOnlyGrow
<1>1. Step(1)
  BY FlowAssumption DEF Step
<1>2. ASSUME IInv, Positions(1), [Next]_vars PROVE [granted' >= granted]_vars
  <2>1. PICK a, h \in Nat : WInv(a, h, 1)
    BY <1>2 DEF Positions
  <2>2. CASE LstnSendFram
    BY <1>1, <1>2, <2>1, <2>2, LstnSendFramWin
  <2>3. CASE ~LstnSendFram
    <3>1. granted' = granted
      BY <1>2, <2>3 DEF Next, LogMesg, SendFram, Sent, WaitWindow, AwaitFram,
           TakeReply, TakeReplySendSEQ, ClntConnLost, LstnOnLogFram,
           LstnOnSEQFram, Done, vars
    <3> QED
      BY <1>2, <3>1, PositionTypes
  <2> QED
    BY <2>2, <2>3
<1>3. Init => Positions(1)
  BY <1>1, InitPositions
<1>4. IInv /\ Positions(1) /\ [Next]_vars => Positions(1)'
  BY <1>1, NextPositions
<1> QED
  BY <1>2, <1>3, <1>4, Invariance, PTL DEF Spec, GrantsOnlyGrow

\* With messages of one size that does not divide the window the client keeps
\* within what was granted, for all sizes and windows.  Both conditions are
\* needed: with either one dropped sbSessDoSEQ subtracts below zero.
THEOREM UniformMessagesFit ==
  ASSUME NEW CONSTANT d, Uniform(d)
  PROVE  Spec => []WindowRespected
<1>1. Step(d)
  BY FlowAssumption DEF Step, Uniform
<1>2. ASSUME IInv, Positions(d) PROVE WindowRespected
  <2>1. PICK a, h \in Nat : WInv(a, h, d)
    BY <1>2 DEF Positions
  <2>2. uTXWinLeft <= Window + a - OnWire /\ a <= LastAck
    BY <2>1 DEF WInv, Fits, Order
  <2>3. OnWire \in Int /\ uTXWinLeft \in Nat /\ granted \in Nat /\ Window \in Nat
    BY <1>2, PositionTypes
  <2>4. OnWire <= granted
    BY <2>1, <2>2, <2>3 DEF LastAck
  <2> QED
    BY <2>4 DEF WindowRespected, OnWire
<1>3. Init => Positions(d)
  BY <1>1, InitPositions
<1>4. IInv /\ Positions(d) /\ [Next]_vars => Positions(d)'
  BY <1>1, NextPositions
<1> QED
  BY <1>2, <1>3, <1>4, Invariance, PTL DEF Spec

\* A RAW client whose messages fill less than half of the window never waits
\* for a SEQ that nobody owes it, in whatever mix of sizes it sends them.
THEOREM NobodyStranded ==
  ASSUME Roomy
  PROVE  Spec => []SenderNotStranded
<1>1. Step(1)
  BY FlowAssumption DEF Step
<1>2. ASSUME IInv, Positions(1) PROVE SenderNotStranded
  <2> SUFFICES ASSUME cpc = "send", pend.size > uTXWinLeft, lstnUp
               PROVE  \/ \E i \in 1 .. Len(s2c) : s2c[i].hdr = "SEQ"
                      \/ \E i \in 1 .. Len(sendQue) : sendQue[i].hdr = "SEQ"
                      \/ \E i \in 1 .. Len(c2s) : IsLog(c2s[i])
    BY DEF SenderNotStranded
  <2>1. PICK a, h \in Nat : WInv(a, h, 1)
    BY <1>2 DEF Positions
  <2>2. /\ Reaches(s2c, Acks, a, LastAck) /\ Reaches(sendQue, Acks, LastAck, h)
        /\ Reaches(c2s, Logs, h, OnWire)
        /\ IsLog(pend) /\ (a = OnWire => pend.size <= uTXWinLeft)
    BY <2>1 DEF WInv, Owed
  <2>3. a # OnWire
    <3>1. pend.size \in Nat /\ uTXWinLeft \in Nat
      BY <1>2, <2>2, PositionTypes DEF Unsent
    <3> QED
      BY <2>2, <3>1
  <2>4. CASE a # LastAck
    BY <2>2, <2>4 DEF Reaches, Acks
  <2>5. CASE LastAck # h
    BY <2>2, <2>5 DEF Reaches, Acks
  <2>6. CASE h # OnWire
    BY <2>2, <2>6 DEF Reaches, Logs, IsLog
  <2> QED
    BY <2>3, <2>4, <2>5, <2>6
<1>3. Init => Positions(1)
  BY <1>1, InitPositions
<1>4. IInv /\ Positions(1) /\ [Next]_vars => Positions(1)'
  BY <1>1, NextPositions
<1> QED
  BY <1>2, <1>3, <1>4, Invariance, PTL DEF Spec
=============================================================================
