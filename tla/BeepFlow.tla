------------------------------ MODULE BeepFlow ------------------------------
(***************************************************************************)
(* The data phase of one log channel: a blocking client (srAPISendLogmsg   *)
(* down to sbSessSendFram and sbSessRecvFram) and the event-driven         *)
(* listener (sbLstnOnFramRcvd, the profile handlers, sbLstnSendFram) over  *)
(* one TCP connection, with the RFC 3081 window accounting as it is coded. *)
(*                                                                         *)
(* A frame is its header, the log message it belongs to and the numbers    *)
(* the window logic reads; its text is abstracted.  Sizes are scaled down: *)
(* Window stands for BEEP_DEFAULT_WINDOWSIZE (4096), WordMod for 2^32.     *)
(*                                                                         *)
(* The channel starts as sbChanConstruct leaves it.  The <iam> exchange of *)
(* a COOKED client is one more round of MSG, RPY and SEQ: let the first    *)
(* message stand for it.  The greeting of a RAW listener touches only      *)
(* windows that a RAW session never looks at again.                        *)
(***************************************************************************)
EXTENDS Integers, Sequences

CONSTANTS
  Profile,      \* "RAW" or "COOKED": the profile the channel was started with
  Sizes,        \* payload sizes (MIME header included) of the log messages
  Parsable,     \* subset of BOOLEAN: can the peer's XML parser read a message?
  Window,       \* BEEP_DEFAULT_WINDOWSIZE, also the frame buffer BEEPFRAMEMAX
  WordMod,      \* one more than the largest C unsigned
  Overhead,     \* octets a frame adds to its payload: header and trailer
  SeqLen,       \* physical length of a SEQ frame
  OkSize,       \* payload of the listener's "<ok />" reply
  ErrSize,      \* payload of the listener's "<error ...>" reply
  MaxLogs       \* bound: messages the application logs in the session

ASSUME FlowAssumption ==
  /\ Profile \in {"RAW", "COOKED"}
  /\ Window \in Nat /\ WordMod \in Nat /\ 2 * Window < WordMod
  /\ Overhead \in Nat /\ SeqLen \in Nat /\ MaxLogs \in Nat
  /\ SeqLen < Window
  /\ OkSize \in Nat \ {0} /\ OkSize <= Window
  /\ ErrSize \in Nat \ {0} /\ ErrSize <= Window
  /\ Sizes \subseteq Nat \ {0}
  /\ \A s \in Sizes : s + Overhead <= Window
  /\ Parsable \subseteq BOOLEAN

VARIABLES
  \* the client: program counter inside the API call, the frame it is trying
  \* to send, the reply it has taken and the fields of its sbChanObj
  cpc, pend, reply, uSeqno, uTXWinLeft, uRXWinLeft,
  rxq,          \* pSess->pRXQue
  \* the connection, one FIFO of frames per direction
  c2s, s2c,
  \* the listener: process alive, its sbChanObj and pSess->pSendQue
  lstnUp, lSeqno, lTXWinLeft, sendQue,
  \* history: what was logged, taken, handed over, refused, reported to the
  \* caller, and the highest octet a SEQ frame on the wire has granted
  logged, handled, delivered, rejected, acked, refused, granted

clntVars == <<cpc, pend, reply, uSeqno, uTXWinLeft, uRXWinLeft, rxq>>
lstnVars == <<lstnUp, lSeqno, lTXWinLeft, sendQue>>
sentHist == <<logged, acked, refused>>
rcvdHist == <<handled, delivered, rejected>>
vars == <<clntVars, c2s, s2c, lstnVars, sentHist, rcvdHist, granted>>

LogHdr == IF Profile = "RAW" THEN "ANS" ELSE "MSG"
IsLog(f) == f.hdr \in {"ANS", "MSG"}

\* id: the log message the frame is about; no: uSeqno, or uAckno of a SEQ.
Frames == [hdr : {"ANS", "MSG", "SEQ", "RPY", "ERR"}, id : Nat, no : Nat,
           size : Nat, ok : BOOLEAN]
NoFram == [hdr |-> "none", id |-> 0, no |-> 0, size |-> 0, ok |-> FALSE]

Fram(hdr, id, no, size, ok) ==
  [hdr |-> hdr, id |-> id, no |-> no, size |-> size, ok |-> ok]
SEQFram(id, ackno) == Fram("SEQ", id, ackno, SeqLen, TRUE)

\* The C conversion of an int in -WordMod .. WordMod - 1 to unsigned.
Unsigned(x) == IF x < 0 THEN x + WordMod ELSE x

\* What sbSessDoSEQ makes of an ackno, given the channel's own uSeqno.
\* Mutant: octets that are still in flight are forgotten.
WinAfterSEQ_Free(seqno, ackno) == Window
WinAfterSEQ(seqno, ackno) == Unsigned(Window - (seqno - ackno + 1))
-----------------------------------------------------------------------------
Init ==
  /\ cpc = "idle" /\ pend = NoFram /\ reply = NoFram
  /\ uSeqno = 0 /\ uTXWinLeft = Window /\ uRXWinLeft = Window /\ rxq = <<>>
  /\ c2s = <<>> /\ s2c = <<>>
  /\ lstnUp = TRUE /\ lSeqno = 0 /\ lTXWinLeft = Window /\ sendQue = <<>>
  /\ logged = 0 /\ handled = 0 /\ delivered = <<>> /\ rejected = {}
  /\ acked = {} /\ refused = {}
  /\ granted = Window

(***************************************************************************)
(* The client.  sbSessDoReceive takes one frame off the socket: a SEQ is   *)
(* digested, any other frame joins pRXQue.                                 *)
(***************************************************************************)
DoReceive(seqno, que) ==
  /\ s2c # <<>>
  /\ s2c' = Tail(s2c)
  /\ IF Head(s2c).hdr = "SEQ"
     THEN /\ uTXWinLeft' = WinAfterSEQ(seqno, Head(s2c).no)
          /\ rxq' = que
     ELSE /\ rxq' = Append(que, Head(s2c))
          /\ UNCHANGED uTXWinLeft

\* sbSessSendFram polls once before it sends; a frame that is still in flight
\* is not seen by sbSockHasReceiveData.
PollReceive(seqno, que) ==
  DoReceive(seqno, que) \/ (rxq' = que /\ UNCHANGED <<s2c, uTXWinLeft>>)

\* Both directions of the session stay shorter than an unsigned can count.
SessionCap(s) ==
  /\ logged < MaxLogs
  /\ uSeqno + s < WordMod
  /\ lSeqno + OkSize + ErrSize < WordMod

\* srAPISendLogmsg: the frame is built, which advances uSeqno, then the poll.
LogMesg(s, ok) ==
  /\ cpc = "idle"
  /\ SessionCap(s)
  /\ pend' = Fram(LogHdr, logged + 1, uSeqno, s, ok)
  /\ uSeqno' = uSeqno + s
  /\ logged' = logged + 1
  /\ cpc' = "send"
  /\ PollReceive(uSeqno', rxq)
  /\ UNCHANGED <<reply, uRXWinLeft, c2s, lstnVars, acked, refused, rcvdHist,
                 granted>>

\* What the call returns to the application about the message it was given:
\* OK if the reply taken is a RPY, an error if it is an ERR (sbPSRCClntWaitOK).
\* Mutant: the ERR branch is missing.
Report_ErrIsOK(f) ==
  /\ acked' = IF f.hdr \in {"RPY", "ERR"} THEN acked \union {logged} ELSE acked
  /\ UNCHANGED refused
Report(f) ==
  /\ acked' = IF f.hdr = "RPY" THEN acked \union {logged} ELSE acked
  /\ refused' = IF f.hdr = "ERR" THEN refused \union {logged} ELSE refused

\* Mutant: COOKED does not wait for the reply.
Sent_NoWait ==
  /\ pend' = NoFram
  /\ reply' = NoFram
  /\ cpc' = "idle"
  /\ Report(reply)
  /\ UNCHANGED <<uSeqno, uRXWinLeft, rxq, s2c, lstnVars, logged, rcvdHist,
                 granted>>
\* What a frame that was sent leaves behind.
Sent ==
  /\ pend' = NoFram
  /\ reply' = NoFram
  /\ cpc' = IF pend.hdr = "MSG" THEN "recv" ELSE "idle"
  /\ Report(reply)
  /\ UNCHANGED <<uSeqno, uRXWinLeft, rxq, s2c, lstnVars, logged, rcvdHist,
                 granted>>

\* Mutant: bRetry is still set after a success.
SendFram_Again ==
  /\ cpc = "send"
  /\ pend.size <= uTXWinLeft
  /\ c2s' = c2s \o <<pend, pend>>
  /\ uTXWinLeft' = uTXWinLeft - pend.size
  /\ Sent

\* Mutant: the frame goes out whatever is left of the window.
SendFram_Unchecked ==
  /\ cpc = "send"
  /\ c2s' = Append(c2s, pend)
  /\ uTXWinLeft' = uTXWinLeft - pend.size
  /\ Sent

\* sbChanActualSendFram succeeds.  RAW returns at once, COOKED waits for the
\* reply; a SEQ was the last thing sbSessRecvFram does before it returns one.
SendFram ==
  /\ cpc = "send"
  /\ pend.size <= uTXWinLeft
  /\ c2s' = Append(c2s, pend)
  /\ uTXWinLeft' = uTXWinLeft - pend.size
  /\ Sent

\* SR_RET_REMAIN_WIN_TOO_SMALL: a blocking read of one frame, then retry.
WaitWindow ==
  /\ cpc = "send"
  /\ pend.size > uTXWinLeft
  /\ DoReceive(uSeqno, rxq)
  /\ UNCHANGED <<cpc, pend, reply, uSeqno, uRXWinLeft, c2s, lstnVars, sentHist,
                 rcvdHist, granted>>

\* sbSessRecvFram reads until a payload frame is queued.
AwaitFram ==
  /\ cpc = "recv"
  /\ rxq = <<>>
  /\ DoReceive(uSeqno, rxq)
  /\ UNCHANGED <<cpc, pend, reply, uSeqno, uRXWinLeft, c2s, lstnVars, sentHist,
                 rcvdHist, granted>>

RXWinAfter(f) == Unsigned(uRXWinLeft - f.size)

\* Mutant: the frame taken stays in pRXQue.
TakeReply_Keep ==
  /\ cpc = "recv"
  /\ rxq # <<>>
  /\ RXWinAfter(Head(rxq)) >= Window \div 2
  /\ uRXWinLeft' = RXWinAfter(Head(rxq))
  /\ Report(Head(rxq))
  /\ cpc' = "idle"
  /\ UNCHANGED <<pend, reply, uSeqno, uTXWinLeft, rxq, c2s, s2c, lstnVars,
                 logged, rcvdHist, granted>>

\* sbSessRecvFram returns the first queued frame, no SEQ being due.
TakeReply ==
  /\ cpc = "recv"
  /\ rxq # <<>>
  /\ RXWinAfter(Head(rxq)) >= Window \div 2
  /\ uRXWinLeft' = RXWinAfter(Head(rxq))
  /\ rxq' = Tail(rxq)
  /\ Report(Head(rxq))
  /\ cpc' = "idle"
  /\ UNCHANGED <<pend, reply, uSeqno, uTXWinLeft, c2s, s2c, lstnVars, logged,
                 rcvdHist, granted>>

\* Half the receive window is used up: a SEQ is created and goes the way of
\* every client frame, through sbSessSendFram and the transmit window.
TakeReplySendSEQ ==
  /\ cpc = "recv"
  /\ rxq # <<>>
  /\ RXWinAfter(Head(rxq)) < Window \div 2
  /\ uRXWinLeft' = Window
  /\ reply' = Head(rxq)
  /\ pend' = SEQFram(Head(rxq).id, Head(rxq).no + Head(rxq).size)
  /\ cpc' = "send"
  /\ PollReceive(uSeqno, Tail(rxq))
  /\ UNCHANGED <<uSeqno, c2s, lstnVars, sentHist, rcvdHist, granted>>

\* The listener is gone: the socket call the client is in fails, and so does
\* the API call; the application gives the session up.
ClntConnLost ==
  /\ cpc \in {"send", "recv"}
  /\ ~lstnUp
  /\ cpc' = "failed"
  /\ UNCHANGED <<pend, reply, uSeqno, uTXWinLeft, uRXWinLeft, rxq, c2s, s2c,
                 lstnVars, sentHist, rcvdHist, granted>>
-----------------------------------------------------------------------------
(***************************************************************************)
(* The listener.  A handler enqueues its answers; the SEQ acknowledges up  *)
(* to uNxtSeqno of the message.                                            *)
(***************************************************************************)
Accepted(f) == Profile = "RAW" \/ f.ok

Response(f) == IF f.ok THEN Fram("RPY", f.id, lSeqno, OkSize, TRUE)
                        ELSE Fram("ERR", f.id, lSeqno, ErrSize, TRUE)

\* Mutants: no SEQ, no reply.
Answer_NoSEQ(f) == IF Profile = "RAW" THEN <<>> ELSE <<Response(f)>>
Answer_NoReply(f) == <<SEQFram(f.id, f.no + f.size)>>

\* ANS: psrrOnMesgRecv; MSG: psrcOnMesgRecv.  XML that cannot be parsed earns
\* an ERR and the handler returns without a SEQ.
Answer(f) ==
  LET ack == SEQFram(f.id, f.no + f.size) IN
  IF Profile = "RAW" THEN <<ack>>
  ELSE IF f.ok THEN <<Response(f), ack>>
  ELSE <<Response(f)>>

\* Mutant: OnSyslogMessageRcvd is called for a message that is then refused.
HandOver_All(f) ==
  delivered' = Append(delivered, f.id) /\ UNCHANGED rejected
\* Mutant: it is called twice for one message.
HandOver_Twice(f) ==
  delivered' = delivered \o <<f.id, f.id>> /\ UNCHANGED rejected
HandOver(f) ==
  \/ /\ Accepted(f)
     /\ delivered' = Append(delivered, f.id)
     /\ UNCHANGED rejected
  \/ /\ ~Accepted(f)
     /\ rejected' = rejected \union {f.id}
     /\ UNCHANGED delivered

\* Mutant: a new frame goes to the head of the queue.
Enqueue_First(frams) == sendQue' = frams \o sendQue
\* sbSessLstnSendFram, once per frame.
Enqueue(frams) == sendQue' = sendQue \o frams

\* sbLstnOnFramRcvd for a frame of the log channel.  Left out: an <entry> whose
\* message object cannot be built for want of memory, after which
\* psrcOnMesgRecv returns without any answer.
LstnOnLogFram ==
  /\ lstnUp
  /\ c2s # <<>> /\ IsLog(Head(c2s))
  /\ LET f == Head(c2s) IN
     /\ handled' = f.id
     /\ HandOver(f)
     /\ lSeqno' = IF Profile = "RAW" THEN lSeqno
                  ELSE lSeqno + (IF f.ok THEN OkSize ELSE ErrSize)
     /\ Enqueue(Answer(f))
  /\ c2s' = Tail(c2s)
  /\ UNCHANGED <<clntVars, s2c, lstnUp, lTXWinLeft, sentHist, granted>>

\* sbLstnOnFramRcvd hands every frame to sbMesgConstrFromFrame.  A SEQ frame
\* has no szRawBuf, sbMIMEExtract reads through the null pointer and the
\* process dies with everything it had not yet sent.
LstnOnSEQFram ==
  /\ lstnUp
  /\ c2s # <<>> /\ Head(c2s).hdr = "SEQ"
  /\ c2s' = Tail(c2s)
  /\ lstnUp' = FALSE
  /\ sendQue' = <<>>
  /\ UNCHANGED <<clntVars, s2c, lSeqno, lTXWinLeft, sentHist, rcvdHist,
                 granted>>

FrameLen(f) == IF f.hdr = "SEQ" THEN SeqLen ELSE f.size + Overhead

\* sbLstnSendFram: SEQ frames bypass the window, any other frame is measured
\* and charged with its physical length.
LstnSendFram ==
  /\ lstnUp
  /\ sendQue # <<>>
  /\ LET f == Head(sendQue) IN
     /\ f.hdr = "SEQ" \/ FrameLen(f) <= lTXWinLeft
     /\ s2c' = Append(s2c, f)
     /\ lTXWinLeft' = IF f.hdr = "SEQ" THEN lTXWinLeft
                      ELSE lTXWinLeft - FrameLen(f)
     /\ granted' = IF f.hdr = "SEQ" THEN f.no + Window ELSE granted
  /\ sendQue' = Tail(sendQue)
  /\ UNCHANGED <<clntVars, c2s, lstnUp, lSeqno, sentHist, rcvdHist>>

\* Between two calls of the application nothing need happen any more.
Done == cpc \in {"idle", "failed"} /\ UNCHANGED vars
-----------------------------------------------------------------------------
ClntStep == SendFram \/ WaitWindow \/ AwaitFram \/ TakeReply
              \/ TakeReplySendSEQ \/ ClntConnLost
LstnStep == LstnOnLogFram \/ LstnOnSEQFram

Next ==
  \/ \E s \in Sizes, ok \in Parsable : LogMesg(s, ok)
  \/ SendFram
  \/ WaitWindow
  \/ AwaitFram
  \/ TakeReply
  \/ TakeReplySendSEQ
  \/ ClntConnLost
  \/ LstnOnLogFram
  \/ LstnOnSEQFram
  \/ LstnSendFram
  \/ Done

Spec == Init /\ [][Next]_vars

\* A call in progress runs on as long as its socket lets it; the select loop
\* serves every readable and every writable session again and again.  The
\* application is not obliged to log.
Fairness == WF_vars(ClntStep) /\ WF_vars(LstnStep) /\ WF_vars(LstnSendFram)

FairSpec == Spec /\ Fairness
-----------------------------------------------------------------------------
(***************************************************************************)
(* Properties.                                                             *)
(***************************************************************************)
TypeOK ==
  /\ cpc \in {"idle", "send", "recv", "failed"}
  /\ pend \in Frames \union {NoFram} /\ reply \in Frames \union {NoFram}
  /\ uSeqno \in 0 .. WordMod - 1
  /\ uTXWinLeft \in 0 .. WordMod - 1 /\ uRXWinLeft \in 0 .. WordMod - 1
  /\ rxq \in Seq(Frames) /\ c2s \in Seq(Frames) /\ s2c \in Seq(Frames)
  /\ lstnUp \in BOOLEAN /\ lSeqno \in 0 .. WordMod - 1
  /\ lTXWinLeft \in 0 .. Window /\ sendQue \in Seq(Frames)
  /\ logged \in 0 .. MaxLogs /\ handled \in Nat /\ granted \in Nat
  /\ delivered \in Seq(Nat) /\ rejected \subseteq Nat
  /\ acked \subseteq Nat /\ refused \subseteq Nat

InFlight(q) == {q[i].id : i \in {j \in 1 .. Len(q) : IsLog(q[j])}}
Waiting == IF IsLog(pend) THEN {pend.id} ELSE {}
Unsent == IF IsLog(pend) THEN pend.size ELSE 0

\* What the listener is owed: the log messages not yet taken are exactly those
\* on the wire and the one the client is still trying to send; a message can
\* neither be lost nor be in two places.
NothingLostOrDoubled ==
  /\ InFlight(c2s) \union Waiting = handled + 1 .. logged
  /\ InFlight(c2s) \intersect Waiting = {}
  /\ \A i, j \in 1 .. Len(c2s) :
        i < j /\ IsLog(c2s[i]) /\ IsLog(c2s[j]) => c2s[i].id < c2s[j].id

\* A confirmation is about a message the handler got, a refusal about one it
\* never saw, and no message is both: replies carry no identity the client
\* checks (sbPSRCClntWaitOK takes whatever RPY or ERR comes first), so this
\* rests on the order of calls and answers alone.
ReportIsTrue ==
  /\ \A m \in acked : \E i \in 1 .. Len(delivered) : delivered[i] = m
  /\ refused \subseteq rejected
  /\ acked \intersect refused = {}

\* RFC 3081 as the listener sees it: the client never puts an octet on the
\* wire beyond what the latest SEQ frame granted.
WindowRespected == uSeqno - Unsent <= granted

\* A client that waits for a larger window waits for a frame that exists or
\* that the listener still owes it.
SenderNotStranded ==
  cpc = "send" /\ pend.size > uTXWinLeft =>
    \/ ~lstnUp
    \/ \E i \in 1 .. Len(s2c) : s2c[i].hdr = "SEQ"
    \/ \E i \in 1 .. Len(sendQue) : sendQue[i].hdr = "SEQ"
    \/ \E i \in 1 .. Len(c2s) : IsLog(c2s[i])

\* The SEQ frames of a channel leave in the order of what they acknowledge: none
\* takes back what the one before it granted (RFC 3081 forbids it), although
\* they are queued and sent apart from the messages they are about.
GrantsOnlyGrow == [][granted' >= granted]_vars

\* Every message the application hands over is taken by the listener.
EveryLogHandled ==
  \A n \in 1 .. MaxLogs : (logged >= n) ~> (handled >= n \/ ~lstnUp)

\* A COOKED call that waits for its reply waits for something that exists: its
\* message is still on the wire, or the reply is queued, in flight or received.
\* Where a call hangs, a window is used up and no answer was lost.
IsReplyTo(f, m) == f.hdr \in {"RPY", "ERR"} /\ f.id = m
AnswerExists ==
  cpc = "recv" /\ lstnUp =>
    \/ \E i \in 1 .. Len(c2s) : c2s[i].hdr = "MSG" /\ c2s[i].id = logged
    \/ \E que \in {sendQue, s2c, rxq} :
         \E i \in 1 .. Len(que) : IsReplyTo(que[i], logged)

\* "SEQ frames are directly processed": the window for replies opens again, and
\* srAPISendLogmsg returns.
EveryCallReturns == (cpc \in {"send", "recv"}) ~> (cpc \in {"idle", "failed"})

\* The abstract promise.
Promise == INSTANCE LogDelivery
KeepsPromise == Promise!Spec
=============================================================================
