---------------------------- MODULE FrameStream ----------------------------
(***************************************************************************)
(* The octets under a log channel.  BEEP frames are written with one       *)
(* SNPRINTF, cut into octets by TCP, and taken apart twice: by the state   *)
(* machine of the listener, one octet at a time and whatever the chunks a  *)
(* recv() returns (sbLstnBuildFrame), and by the blocking reader of the    *)
(* client (sbFramActualRecvFram).  Above them, a payload is a MIME header, *)
(* an empty line and a text, and a RAW text is split into syslog messages. *)
(*                                                                         *)
(* An octet is the one-character string that shows it, CR or LF.  FrameMax *)
(* stands for BEEPFRAMEMAX = BEEP_DEFAULT_WINDOWSIZE (4096), scaled down   *)
(* so that short texts reach it.  The windows are the subject of BeepFlow: *)
(* here the replies of a session never fill the listener's window or half  *)
(* the client's (StreamAssumption), and a client blocked for good by its   *)
(* own window, or left by a listener that died, is left to that module.    *)
(* Nothing sends an octet 0.                                               *)
(***************************************************************************)
EXTENDS Integers, Sequences, SequencesExt

CONSTANTS
  Texts,       \* texts of log messages, sequences of octets
  Unparsable,  \* those of them a COOKED listener cannot parse as XML
  FrameMax,    \* BEEPFRAMEMAX
  WordMod,     \* one more than the largest C unsigned
  MaxLogs      \* bound: messages the application logs in the session

CR == "CR"
LF == "LF"
CRLF == <<CR, LF>>
Trailer == <<"E", "N", "D", CR, LF>>

OkReply == <<"k">>     \* <ok />
ErrReply == <<"e">>    \* <error code=...>
MIMEHdr == <<"H", CR, LF>>   \* BEEP_DEFAULT_MIME_HDR

ASSUME StreamAssumption ==
  /\ \A t \in Texts : t \in Seq(STRING) /\ Len(t) + 2 < FrameMax
  /\ Unparsable \subseteq Texts
  /\ FrameMax \in Nat /\ WordMod \in Nat /\ 2 * FrameMax < WordMod
  /\ MaxLogs \in Nat /\ 26 * MaxLogs <= FrameMax

VARIABLES
  profile,      \* "RAW" or "COOKED", settled when the channel was started
  \* the client: where the API call is, the frame it is sending, its
  \* sbChanObj (with uAnsno of the RAW instance) and pSess->pRXQue
  cpc, pend, chan, rxq,
  \* the connection: the octets on their way, one FIFO per direction
  c2s, s2c,
  \* the listener: process alive, pSess->pRecvFrame, its sbChanObj,
  \* pSess->pSendQue and uBytesSend of the first frame in it
  lstnUp, recvFram, lchan, sendQue, uBytesSend,
  \* history: texts logged, frames the client sent and the listener built,
  \* what that handed over for each; frames the listener queued and the
  \* client read, and the replies it took
  logged, sent, built, handed, queued, got, told

clntVars == <<cpc, pend, chan, rxq>>
lstnVars == <<lstnUp, recvFram, lchan, sendQue, uBytesSend>>
clntHist == <<logged, sent, got, told>>
lstnHist == <<built, handed, queued>>
vars == <<profile, clntVars, c2s, s2c, lstnVars, clntHist, lstnHist>>
-----------------------------------------------------------------------------
(***************************************************************************)
(* Frames and their text form.                                             *)
(***************************************************************************)
MSG == <<"M", "S", "G">>
ANS == <<"A", "N", "S">>
RPY == <<"R", "P", "Y">>
ERR == <<"E", "R", "R">>
NUL == <<"N", "U", "L">>
SEQ == <<"S", "E", "Q">>
Commands == {MSG, ANS, RPY, ERR, NUL, SEQ}

\* The header fields after the command, in their order on the wire.
Fields(cmd) ==
  IF cmd = SEQ THEN <<"chan", "ackno", "window">>
  ELSE <<"chan", "msgno", "more", "seqno", "size">>
         \o (IF cmd = ANS THEN <<"ansno">> ELSE <<>>)

NoVal == [n \in {"chan", "msgno", "more", "seqno", "size", "ansno", "ackno",
                 "window"} |-> 0]

Digit == <<"0", "1", "2", "3", "4", "5", "6", "7", "8", "9">>
DigitVal == [c \in ToSet(Digit) |-> CHOOSE d \in 0 .. 9 : Digit[d + 1] = c]
IsDigit(c) == c \in ToSet(Digit)

\* %u
Decimal[n \in Nat] ==
  IF n < 10 THEN <<Digit[n + 1]>>
  ELSE Append(Decimal[n \div 10], Digit[(n % 10) + 1])

\* The cMore of every frame this code writes is ".", and no code reads it.
FieldText(f, name) == IF name = "more" THEN <<".">> ELSE Decimal[f.val[name]]

Item(f, name) == <<" ">> \o FieldText(f, name)
Body(f) == CRLF \o f.payload \o Trailer

\* The three formats of beepframe.c.
Whole(f) ==
  IF f.cmd = SEQ
  THEN f.cmd \o Item(f, "chan") \o Item(f, "ackno") \o Item(f, "window") \o CRLF
  ELSE f.cmd \o Item(f, "chan") \o Item(f, "msgno") \o Item(f, "more")
         \o Item(f, "seqno") \o Item(f, "size")
         \o (IF f.cmd = ANS THEN Item(f, "ansno") ELSE <<>>) \o Body(f)

Fits(f) == Len(Whole(f)) <= FrameMax

\* Mutant: the trailer is written without its line end.
Octets_NoCRLF(f) == IF f.cmd = SEQ THEN Whole(f)
                    ELSE SubSeq(Whole(f), 1, Len(Whole(f)) - 2)
\* SNPRINTF cuts what does not fit and uSize still says what was meant.
Octets(f) == IF Fits(f) THEN Whole(f) ELSE SubSeq(Whole(f), 1, FrameMax)

\* sbMesgConstruct.
Mesg(hdr, text) == hdr \o CRLF \o text

\* sbFramCreateFramFromMesg, with the sbChanObj it takes the numbers from.
MesgFram(ch, cmd, raw, ansno) ==
  [cmd |-> cmd, payload |-> raw,
   val |-> [NoVal EXCEPT !.chan = 1, !.msgno = ch.uMsgno,
              !.seqno = ch.uSeqno, !.size = Len(raw), !.ansno = ansno]]
Advance(ch, f) ==
  [ch EXCEPT !.uMsgno = @ + 1, !.uSeqno = @ + f.val.size]

SEQFram(ackno) ==
  [cmd |-> SEQ, payload |-> <<>>,
   val |-> [NoVal EXCEPT !.chan = 1, !.ackno = ackno,
                         !.window = FrameMax]]

CRLFAt(s, i) == i >= 1 /\ i < Len(s) /\ s[i] = CR /\ s[i + 1] = LF

\* Mutant: any line end closes the header.
MIMEExtract_AnyLine(raw) ==
  LET ends == {i \in 1 .. Len(raw) : CRLFAt(raw, i)}
  IN IF ends = {} THEN raw ELSE SubSeq(raw, Min(ends) + 2, Len(raw))
\* sbMIMEExtract: the payload starts after the first empty line; without one,
\* all of the buffer is payload.
MIMEExtract(raw) ==
  LET blank == {i \in 1 .. Len(raw) : CRLFAt(raw, i)
                                       /\ (i = 1 \/ CRLFAt(raw, i - 2))}
  IN IF blank = {} THEN raw ELSE SubSeq(raw, Min(blank) + 2, Len(raw))

\* Mutant: a CR is remembered past the octet after it.
SplitOctet_StickyCR(a, c) ==
  CASE c = CR -> [a EXCEPT !.cr = TRUE, !.open = TRUE]
    [] c = LF /\ a.cr -> [mesgs |-> Append(a.mesgs, a.text), text |-> <<>>,
                          cr |-> FALSE, open |-> FALSE]
    [] OTHER -> [a EXCEPT !.text = Append(@, c), !.open = TRUE]
\* One octet in the loop of psrrOnMesgRecvCallAPI.
SplitOctet(a, c) ==
  CASE c = CR -> [a EXCEPT !.cr = TRUE, !.open = TRUE]
    [] c = LF /\ a.cr -> [mesgs |-> Append(a.mesgs, a.text), text |-> <<>>,
                          cr |-> FALSE, open |-> FALSE]
    [] OTHER -> [a EXCEPT !.text = Append(@, c), !.cr = FALSE, !.open = TRUE]

SplitMesgs(payload) ==
  LET end == FoldLeft(SplitOctet,
               [mesgs |-> <<>>, text |-> <<>>, cr |-> FALSE, open |-> FALSE],
               payload)
  IN IF end.open THEN Append(end.mesgs, end.text) ELSE end.mesgs
-----------------------------------------------------------------------------
(***************************************************************************)
(* sbLstnBuildFrame: what one octet c makes of the frame q under           *)
(* construction.  An octet that is refused is dropped and leaves q as it   *)
(* is: no error return sets bAbort, the next octet is tried in the same    *)
(* state.                                                                  *)
(***************************************************************************)
NoFram == [st |-> "CMD", cmd |-> <<>>, buf |-> <<>>, i |-> 0, val |-> NoVal,
           n |-> 0]

CommandOctets == <<{"A", "E", "M", "N", "R", "S"}, {"N", "R", "S", "U", "P", "E"}>>

\* WAITING_HDR1 to 3.  "NULL": pStrBuf is gone but the state is not left.
OnCommand(q, c) ==
  LET cmd == Append(q.buf, c) IN
  IF Len(cmd) < 3
  THEN IF c \in CommandOctets[Len(cmd)] THEN [q EXCEPT !.buf = cmd] ELSE q
  ELSE IF cmd \in Commands
  THEN [q EXCEPT !.st = "SP", !.cmd = cmd, !.buf = <<>>, !.i = 1]
  ELSE [q EXCEPT !.st = "NULL"]

NextField(q) == IF q.i < Len(Fields(q.cmd)) THEN [q EXCEPT !.st = "SP", !.i = @ + 1]
                                            ELSE [q EXCEPT !.st = "HDRCR"]

\* WAITING_SP_x and WAITING_HDRCR.
OnSeparator(q, c) ==
  IF q.st = "SP" /\ c = " "
  THEN [q EXCEPT !.st = "IN", !.val[Fields(q.cmd)[q.i]] = 0]
  ELSE IF q.st = "HDRCR" /\ c = CR THEN [q EXCEPT !.st = "HDRLF"]
  ELSE q

\* IN_x.  The octet after the last digit is processed again as a separator.
OnField(q, c) ==
  LET name == Fields(q.cmd)[q.i] IN
  IF name = "more" THEN IF c \in {".", "*"} THEN NextField(q) ELSE q
  ELSE IF IsDigit(c) THEN [q EXCEPT !.val[name] = 10 * @ + DigitVal[c]]
  ELSE IF name = "size" /\ q.val.size > FrameMax THEN q
  ELSE OnSeparator(NextField(q), c)

\* Mutant: the line feed of the header is counted as payload.
OnHdrLF_Counts(q, c) ==
  IF c # LF THEN q
  ELSE IF q.cmd = SEQ THEN [q EXCEPT !.st = "DONE"]
  ELSE [q EXCEPT !.buf = <<>>, !.n = q.val.size - 1, !.st = "PAYLOAD"]
OnHdrLF(q, c) ==
  IF c # LF THEN q
  ELSE IF q.cmd = SEQ THEN [q EXCEPT !.st = "DONE"]
  ELSE [q EXCEPT !.buf = <<>>, !.n = q.val.size,
                 !.st = IF q.val.size > 0 THEN "PAYLOAD" ELSE "TRAILER"]

OnPayload(q, c) ==
  [q EXCEPT !.buf = Append(@, c), !.n = @ - 1,
            !.st = IF q.n = 1 THEN "TRAILER" ELSE @]

\* WAITING_END1 to 5; q.n octets of the trailer have matched.  The first one
\* takes the payload out of pStrBuf whether it matches or not.
OnTrailer(q, c) ==
  IF c = Trailer[q.n + 1]
  THEN IF q.n = 4 THEN [q EXCEPT !.st = "DONE"] ELSE [q EXCEPT !.n = @ + 1]
  ELSE IF q.n = 0 THEN [q EXCEPT !.st = "NULL"] ELSE q

BuildFrame(q, c) ==
  CASE q.st = "CMD" -> OnCommand(q, c)
    [] q.st \in {"SP", "HDRCR"} -> OnSeparator(q, c)
    [] q.st = "IN" -> OnField(q, c)
    [] q.st = "HDRLF" -> OnHdrLF(q, c)
    [] q.st = "PAYLOAD" -> OnPayload(q, c)
    [] q.st = "TRAILER" -> OnTrailer(q, c)
    [] OTHER -> q
-----------------------------------------------------------------------------
(***************************************************************************)
(* The blocking reader of the client, over the octets s that have arrived. *)
(***************************************************************************)
\* sbFramRecvUnsigned: the position after the digits that start at i.
AfterDigits(s, i) == Min({j \in i .. Len(s) : ~IsDigit(s[j])} \union {Len(s) + 1})
Number(s, i, j) ==
  FoldLeft(LAMBDA u, c : 10 * u + DigitVal[c], 0, SubSeq(s, i, j - 1))

\* sbFramActualRecvFram: was the frame accepted, how many octets were taken off
\* the socket, the frame.  Sep[k] is where the space before field k must be.
RecvFram(s) ==
  LET cmd == SubSeq(s, 1, 3)
      names == IF cmd \in Commands THEN Fields(cmd) ELSE <<>>
      last == Len(names) + 1
      Sep[k \in 1 .. last] ==
        IF k = 1 THEN 4
        ELSE IF names[k - 1] = "more" THEN Sep[k - 1] + 2
        ELSE AfterDigits(s, Sep[k - 1] + 1)
      bad == {k \in 1 .. last - 1 : Sep[k] > Len(s) \/ s[Sep[k]] # " "}
               \union (IF CRLFAt(s, Sep[last]) THEN {} ELSE {last})
      val == [n \in DOMAIN NoVal |->
                LET k == SelectInSeq(names, LAMBDA m : m = n)
                IN IF k = 0 \/ n = "more" THEN 0
                   ELSE Number(s, Sep[k] + 1, Sep[k + 1])]
      body == Sep[last] + 1
      end == IF cmd = SEQ THEN body ELSE body + val.size + 5
  IN IF cmd \notin Commands THEN [ok |-> FALSE, len |-> 3]
     ELSE IF bad # {} THEN [ok |-> FALSE, len |-> Sep[Min(bad)]]
     ELSE IF val.size > FrameMax THEN [ok |-> FALSE, len |-> body - 2]
     ELSE IF end > Len(s) THEN [ok |-> FALSE, len |-> end]
     ELSE [ok |-> cmd = SEQ \/ SubSeq(s, end - 4, end) = Trailer, len |-> end,
           fram |-> [cmd |-> cmd, val |-> val,
                     payload |-> IF cmd = SEQ THEN <<>>
                                 ELSE SubSeq(s, body + 1, end - 5)]]

Unsigned(x) == IF x < 0 THEN x + WordMod ELSE x

\* sbSessDoReceive.  A read in the middle of a frame blocks until the rest has
\* arrived; what cannot be read is lost with the octets it took.
DoReceive(ch) ==
  /\ LF \in ToSet(s2c)
  /\ \E r \in {RecvFram(s2c)} :
     /\ r.len <= Len(s2c)
     /\ s2c' = SubSeq(s2c, r.len + 1, Len(s2c))
     /\ got' = IF r.ok THEN Append(got, r.fram) ELSE got
     /\ rxq' = IF r.ok /\ r.fram.cmd # SEQ THEN Append(rxq, r.fram) ELSE rxq
     /\ chan' = IF r.ok /\ r.fram.cmd = SEQ
                THEN [ch EXCEPT !.uTXWinLeft = Unsigned(
                        r.fram.val.window - (ch.uSeqno - r.fram.val.ackno + 1))]
                ELSE ch
-----------------------------------------------------------------------------
Init ==
  /\ profile \in {"RAW", "COOKED"}
  /\ cpc = "idle" /\ pend = SEQFram(0) /\ rxq = <<>>
  /\ chan = [uMsgno |-> 0, uSeqno |-> 0, uTXWinLeft |-> FrameMax, uAnsno |-> 0]
  /\ c2s = <<>> /\ s2c = <<>>
  /\ lstnUp = TRUE /\ recvFram = NoFram /\ lchan = [uMsgno |-> 0, uSeqno |-> 0]
  /\ sendQue = <<>> /\ uBytesSend = 0
  /\ logged = <<>> /\ sent = <<>> /\ got = <<>> /\ told = <<>>
  /\ built = <<>> /\ handed = <<>> /\ queued = <<>>

LogCmd == IF profile = "RAW" THEN ANS ELSE MSG

(***************************************************************************)
(* The client.                                                             *)
(***************************************************************************)
\* sbPSSRClntSendMsg and sbPSRCClntSendSLMG build the frame, sbSessSendFram
\* polls the socket once before it sends and ignores what the poll returns.
LogMesg(t) ==
  /\ cpc = "idle"
  /\ Len(logged) < MaxLogs
  /\ LET f == MesgFram(chan, LogCmd, Mesg(<<>>, t),
                       IF profile = "RAW" THEN chan.uAnsno ELSE 0)
         ch == [Advance(chan, f) EXCEPT
                  !.uAnsno = IF profile = "RAW" THEN @ + 1 ELSE @] IN
     /\ pend' = f
     /\ \/ DoReceive(ch)
        \/ chan' = ch /\ UNCHANGED <<s2c, got, rxq>>
  /\ logged' = Append(logged, t)
  /\ cpc' = "send"
  /\ UNCHANGED <<profile, c2s, lstnVars, sent, told, lstnHist>>

\* sbChanActualSendFram; the window counts payload.
SendFram ==
  /\ cpc = "send"
  /\ pend.val.size <= chan.uTXWinLeft
  /\ c2s' = c2s \o Octets(pend)
  /\ sent' = Append(sent, pend)
  /\ chan' = [chan EXCEPT !.uTXWinLeft = @ - pend.val.size]
  /\ cpc' = IF profile = "RAW" THEN "idle" ELSE "recv"
  /\ UNCHANGED <<profile, pend, rxq, s2c, lstnVars, logged, got, told, lstnHist>>

\* A blocking read, for a larger window or for a reply; its failure is the
\* failure of the call.
AwaitFram ==
  /\ \/ cpc = "send" /\ pend.val.size > chan.uTXWinLeft
     \/ cpc = "recv" /\ rxq = <<>>
  /\ DoReceive(chan)
  /\ cpc' = IF got' # got THEN cpc ELSE "failed"
  /\ UNCHANGED <<profile, pend, c2s, lstnVars, logged, sent, told, lstnHist>>

\* sbPSRCClntWaitOK gets the frame and looks at the text of the reply.
TakeReply ==
  /\ cpc = "recv"
  /\ rxq # <<>>
  /\ told' = Append(told, [cmd |-> Head(rxq).cmd,
                           text |-> MIMEExtract(Head(rxq).payload)])
  /\ rxq' = Tail(rxq)
  /\ cpc' = "idle"
  /\ UNCHANGED <<profile, pend, chan, c2s, s2c, lstnVars, logged, sent, got,
                 lstnHist>>
-----------------------------------------------------------------------------
(***************************************************************************)
(* The listener.                                                           *)
(***************************************************************************)
\* An octet that does not complete a frame.
LstnBuildFrame ==
  /\ lstnUp /\ c2s # <<>>
  /\ recvFram.st # "NULL"
  /\ LET q == BuildFrame(recvFram, Head(c2s)) IN
     /\ q.st # "DONE"
     /\ recvFram' = q
  /\ c2s' = Tail(c2s)
  /\ UNCHANGED <<profile, clntVars, s2c, lstnUp, lchan, sendQue, uBytesSend,
                 clntHist, lstnHist>>

\* The handlers append to, or finish, a string buffer that is not there.
LstnCrash ==
  /\ lstnUp /\ c2s # <<>>
  /\ recvFram.st = "NULL"
  /\ lstnUp' = FALSE
  /\ c2s' = Tail(c2s)
  /\ UNCHANGED <<profile, clntVars, s2c, recvFram, lchan, sendQue, uBytesSend,
                 clntHist, lstnHist>>

\* psrrOnMesgRecv and psrcOnMesgRecv: what is handed over, and the answers.
HandOver(text) ==
  IF profile = "RAW" THEN SplitMesgs(text)
  ELSE IF text \in Unparsable THEN <<>> ELSE <<text>>

Answers(f, text) ==
  LET ack == SEQFram(f.val.seqno + f.val.size)
      rpy == MesgFram(lchan, RPY, Mesg(<<>>, OkReply), 0)
      err == MesgFram(lchan, ERR, Mesg(MIMEHdr, ErrReply), 0)
  IN IF profile = "RAW" THEN <<ack>>
     ELSE IF text \in Unparsable THEN <<err>> ELSE <<rpy, ack>>

\* The octet that completes a frame runs sbLstnOnFramRcvd.  Its channel is
\* always the log channel and its command the profile's (FramesAsSent says so),
\* so the errors for other frames are not reached.
LstnOnFramRcvd ==
  /\ lstnUp /\ c2s # <<>>
  /\ LET q == BuildFrame(recvFram, Head(c2s))
         f == [cmd |-> q.cmd, val |-> q.val, payload |-> q.buf]
         text == MIMEExtract(q.buf)
         ans == Answers(f, text) IN
     /\ q.st = "DONE"
     /\ built' = Append(built, f)
     /\ handed' = Append(handed, HandOver(text))
     /\ sendQue' = sendQue \o ans
     /\ queued' = queued \o ans
     /\ lchan' = IF profile = "RAW" THEN lchan ELSE Advance(lchan, ans[1])
  /\ recvFram' = NoFram
  /\ c2s' = Tail(c2s)
  /\ UNCHANGED <<profile, clntVars, s2c, lstnUp, uBytesSend, clntHist>>

\* Mutant: a frame that was sent in part is started over.
LstnSendFram_Restart ==
  /\ lstnUp /\ sendQue # <<>>
  /\ LET buf == Octets(Head(sendQue)) IN
     \E n \in 1 .. Len(buf) :
       /\ s2c' = s2c \o SubSeq(buf, 1, n)
       /\ sendQue' = IF n = Len(buf) THEN Tail(sendQue) ELSE sendQue
       /\ uBytesSend' = 0
  /\ UNCHANGED <<profile, clntVars, c2s, lstnUp, recvFram, lchan, clntHist,
                 lstnHist>>
\* Mutant: a send that took fewer octets than asked is taken for complete.
LstnSendFram_Short ==
  /\ lstnUp /\ sendQue # <<>>
  /\ LET buf == Octets(Head(sendQue)) IN
     \E n \in 1 .. Len(buf) :
       /\ s2c' = s2c \o SubSeq(buf, 1, n)
       /\ sendQue' = Tail(sendQue) /\ uBytesSend' = 0
  /\ UNCHANGED <<profile, clntVars, c2s, lstnUp, recvFram, lchan, clntHist,
                 lstnHist>>
\* sbLstnSendFram: the socket takes as many octets as it likes.
LstnSendFram ==
  /\ lstnUp /\ sendQue # <<>>
  /\ LET buf == Octets(Head(sendQue)) IN
     \E n \in 1 .. Len(buf) - uBytesSend :
       /\ s2c' = s2c \o SubSeq(buf, uBytesSend + 1, uBytesSend + n)
       /\ IF uBytesSend + n = Len(buf)
          THEN sendQue' = Tail(sendQue) /\ uBytesSend' = 0
          ELSE uBytesSend' = uBytesSend + n /\ UNCHANGED sendQue
  /\ UNCHANGED <<profile, clntVars, c2s, lstnUp, recvFram, lchan, clntHist,
                 lstnHist>>
-----------------------------------------------------------------------------
ClntStep == SendFram \/ AwaitFram \/ TakeReply

Next ==
  \/ \E t \in Texts : LogMesg(t)
  \/ SendFram \/ AwaitFram \/ TakeReply
  \/ LstnBuildFrame \/ LstnOnFramRcvd \/ LstnCrash
  \/ LstnSendFram

Spec == Init /\ [][Next]_vars

\* The select loop reads what has arrived and sends what is queued, again and
\* again, and a call goes on when its socket lets it.  Only the listener
\* takes octets off c2s, each of its three steps one.
LstnTakesOctet == lstnUp /\ c2s # <<>> /\ c2s' = Tail(c2s)

FairSpec ==
  Spec /\ WF_vars(ClntStep) /\ WF_c2s(LstnTakesOctet) /\ WF_vars(LstnSendFram)
-----------------------------------------------------------------------------
(***************************************************************************)
(* Properties.  They are about the frames up to the first that was cut.    *)
(***************************************************************************)
AllFit == \A i \in DOMAIN sent : Fits(sent[i])
InStep == {i \in DOMAIN sent : \A j \in 1 .. i : Fits(sent[j])}

\* What the machine has built of those frames is what was sent, and as long as
\* none was cut it has its buffer and builds no frame that was not sent.
BuiltAsSent == \A i \in InStep \intersect DOMAIN built : built[i] = sent[i]
MachineInStep ==
  AllFit => Len(built) <= Len(sent) /\ lstnUp /\ recvFram.st # "NULL"

\* The state machine finds every frame the client wrote, one after the other,
\* with its numbers and its payload, whatever the payload looks like: one that
\* holds a trailer or a header moves nothing.  Only a cut frame leaves the
\* machine without its buffer.  (Behind a cut frame, a text made for it can pass
\* for a frame of another command: such texts are not among an instance's.)
FramesAsSent ==
  /\ BuiltAsSent
  /\ \A i \in DOMAIN built : built[i].cmd = LogCmd /\ built[i].val.chan = 1
  /\ MachineInStep

\* The blocking reader gets every frame the listener queued, in order, across
\* any cut of the stream into sends, and no read of a call fails.
FramesAsQueued ==
  /\ IsPrefix(got, queued)
  /\ cpc # "failed"

Loneless(t) ==
  LET kept == {i \in DOMAIN t : t[i] # CR \/ CRLFAt(t, i)}
  IN FoldLeftDomain(LAMBDA acc, i : IF i \in kept THEN Append(acc, t[i]) ELSE acc,
                    <<>>, t)

\* What the API handler of a RAW listener is given, put together again: every
\* octet of the text but a CR that ends no line.
Rejoined(mesgs, t) ==
  LET lines == FlattenSeq([i \in DOMAIN mesgs |-> mesgs[i] \o CRLF]) IN
  /\ lines \in {Loneless(t), Loneless(t) \o CRLF}
  /\ \A i \in DOMAIN mesgs : CR \notin ToSet(mesgs[i])

\* Each message handed to the library comes out of the listener's API: as the
\* lines of the text for RAW, as the text itself for COOKED.
TextsHandedOver ==
  \A i \in InStep \intersect DOMAIN handed :
    IF profile = "RAW" THEN Rejoined(handed[i], logged[i])
    ELSE handed[i] = IF logged[i] \in Unparsable THEN <<>> ELSE <<logged[i]>>

\* The reply to the i-th message says what became of it, although it passes
\* through a header with numbers nobody compares and, for an error, a MIME
\* header.
RepliesTold ==
  \A i \in DOMAIN told :
    told[i] = IF logged[i] \in Unparsable THEN [cmd |-> ERR, text |-> ErrReply]
                                          ELSE [cmd |-> RPY, text |-> OkReply]

\* Every frame is built: no octet that TCP still owes, or that the machine
\* waits for, is missing in the end.
EveryFrameBuilt ==
  \A n \in 1 .. MaxLogs :
    (Len(sent) >= n) ~> (Len(built) >= n \/ ~AllFit)

\* Every call comes back as long as no frame is cut.  (One that
\* does not fit can also meet a window that counts it twice, see BeepFlow.)
CallsReturn ==
  (cpc \in {"send", "recv"}) ~> (cpc = "idle" \/ ~AllFit \/ ~Fits(pend))
=============================================================================
