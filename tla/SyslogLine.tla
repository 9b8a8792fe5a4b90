------------------------------ MODULE SyslogLine ------------------------------
(***************************************************************************)
(* The way of one log message through the libraries: from the fields or    *)
(* the format an application gives, to a line of text, and from the line   *)
(* to the fields the receiving application reads.                          *)
(*                                                                         *)
(* A job says what the sending application does:                           *)
(*   "date"    only the conversion of a time;                              *)
(*   "file", "uxsock"  stdlog_log() on a channel of that driver; what is   *)
(*             sent to the socket reaches the listener of the other        *)
(*             library, which listens on it;                               *)
(*   "slmg"    calls on one message object, sent over and over again;      *)
(*   "text"    srAPISendLogmsg() on a COOKED channel;                      *)
(*   "doc"     a peer sends an XML document to the COOKED listener.        *)
(* The listening application may pass on what it receives.  What BEEP adds *)
(* to a message on the way is the matter of FrameStream.                   *)
(***************************************************************************)
EXTENDS CivilTime, Formatter, SyslogMessage, XmlStream

CONSTANTS
  Jobs,       \* bound: what applications ask for
  Leftovers,  \* bound: what a struct tm may hold that nobody has filled in
  PeerHost,   \* where a message comes from, as its listener names it
  MyIP        \* the address a COOKED sender gives as its own

VARIABLES
  pc,         \* "idle", "date", "compose", "send", "wire", "rcvd" or "end"; "dead"
              \* once a process has crashed, "loops" once it does not come back
  job, step,  \* the job, and the call of it the application is at
  line,       \* what stdlog_log() has built
  mesg,       \* the sender's message object
  wire,       \* the text on its way, and by what: "file", "uxsock", "udp", ...
  rcvd,       \* the object the listening application got last
  answer      \* what the peer got for its last COOKED document: "ok", an error
              \* or, when the session was closed on it, "closed"

lineVars == <<pc, job, step, line, mesg, wire, rcvd, answer>>
vars == <<civilVars, lineVars>>

Nothing == [by |-> "nothing", text |-> <<>>]
NoJob == [kind |-> "none"]
NoLine == Line(<<>>, 0)

Init ==
  /\ CivilInit
  /\ pc = "idle" /\ job = NoJob /\ step = 0 /\ line = NoLine /\ mesg = NewMesg
  /\ wire = Nothing /\ rcvd = NewMesg /\ answer = "none"
-----------------------------------------------------------------------------
(***************************************************************************)
(* stdlog_log() of the file driver and of the socket driver.               *)
(***************************************************************************)
StartConversion(j) ==
  /\ pc = "idle" /\ j.kind \in {"date", "file", "uxsock"}
  /\ Timesub(j.time, j.offset)
  /\ pc' = "date" /\ job' = j
  /\ UNCHANGED <<step, line, mesg, wire, rcvd, answer>>

ConvertTime == pc = "date" /\ Convert /\ UNCHANGED lineVars

\* A job that only asks for a date is done.
DateDone ==
  /\ pc = "date" /\ cpc \in {"done", "null"} /\ job.kind = "date"
  /\ pc' = "end"
  /\ UNCHANGED <<civilVars, job, step, line, mesg, wire, rcvd, answer>>

\* The drivers do not look at the result: where the year is beyond INT_MAX they
\* go on with a struct tm that was never written.
Stamps == CASE cpc = "done" -> {tm} [] cpc = "null" -> Leftovers [] OTHER -> {}

LogFile ==
  /\ pc = "date" /\ job.kind = "file"
  /\ \E stamp \in Stamps :
       line' = BuildFileLine(job.buf, stamp, job.ident, job.pid, job)
  /\ wire' = [by |-> "file", text |-> line'.text]
  /\ pc' = "end"
  /\ UNCHANGED <<civilVars, job, step, mesg, rcvd, answer>>
LogUxsock ==
  /\ pc = "date" /\ job.kind = "uxsock"
  /\ \E stamp \in Stamps :
       line' = BuildSyslogFrame(job.buf, job.fac, job.sev, stamp, job.ident, job.pid, job)
  /\ wire' = [by |-> "uxsock", text |-> line'.text]
  /\ pc' = "wire"
  /\ UNCHANGED <<civilVars, job, step, mesg, rcvd, answer>>
\* What it holds for a month may lie outside the table of their names.
StampCrash ==
  /\ pc = "date" /\ cpc = "null" /\ job.kind # "date"
  /\ pc' = "dead"
  /\ UNCHANGED <<civilVars, job, step, line, mesg, wire, rcvd, answer>>
-----------------------------------------------------------------------------
(***************************************************************************)
(* An application with a message object: each call sets the fields again   *)
(* and formats the object again; a setter that refuses leaves it alone.    *)
(***************************************************************************)
Apply(m, call) ==
  LET fac == SetFacility(m, call.fac).m
      sev == SetSeverity(fac, call.sev).m
      tag == SetTag(sev, call.tag).m
  IN SetTimestamp(SetHostname(SetMsg(tag, call.msg)), call.now)

StartMesg(j) ==
  /\ pc = "idle" /\ j.kind = "slmg"
  /\ pc' = "compose" /\ job' = j /\ step' = 1
  /\ UNCHANGED <<civilVars, line, mesg, wire, rcvd, answer>>

Compose ==
  /\ pc = "compose"
  /\ LET built == FormatRawMsg(Apply(mesg, job.calls[step]), job.calls[step].fmt)
     IN mesg' = built.m
  /\ pc' = "send"
  /\ UNCHANGED <<civilVars, job, step, line, wire, rcvd, answer>>

\* The text as it is, over UDP or on a RAW channel.
SendPlain ==
  /\ pc = "send" /\ job.by[step] \in {"udp", "RAW"}
  /\ wire' = [by |-> job.by[step], text |-> mesg.raw]
  /\ pc' = "wire"
  /\ UNCHANGED <<civilVars, job, step, line, mesg, rcvd, answer>>

\* srUtilItoA writes the first digit of a number only.
ItoA(n) == <<Head(Decimal(n))>>
Attribute(name, value) == Chars(name) \o Chars("='") \o value \o <<"'">>
EntryText(m) ==
  Chars("<entry") \o Attribute(" facility", ItoA(m.fac))
    \o Attribute(" severity", ItoA(m.sev)) \o Attribute(" timestamp", m.stamp)
    \o Attribute(" hostname", m.host)
    \o (IF m.tag = NullStr THEN <<>> ELSE Attribute(" tag", m.tag))
    \o Attribute(" deviceFQDN", m.host) \o Attribute(" deviceIP", MyIP)
    \o <<">">> \o EscapePCDATA(m.raw) \o Chars("</entry>")

\* A message that was not recognised has no stamp or no host to be appended.
SendCOOKED ==
  /\ pc = "send" /\ job.by[step] = "COOKED"
  /\ IF NullStr \in {mesg.stamp, mesg.host} THEN pc' = "dead" /\ UNCHANGED wire
     ELSE /\ wire' = [by |-> "COOKED", text |-> EntryText(mesg)]
          /\ pc' = "wire"
  /\ UNCHANGED <<civilVars, job, step, line, mesg, rcvd, answer>>

\* sbPSRCClntSendMsg takes the text apart for the attributes of the entry.
SendLogmsg(j) ==
  /\ pc = "idle" /\ j.kind = "text"
  /\ mesg' = ParseMesg(SetRawMsg(NewMesg, j.text, FALSE))
  /\ pc' = "send" /\ job' = j /\ step' = 1
  /\ UNCHANGED <<civilVars, line, wire, rcvd, answer>>

SendDocument(j) ==
  /\ pc = "idle" /\ j.kind = "doc"
  /\ wire' = [by |-> "COOKED", text |-> j.text]
  /\ pc' = "wire" /\ job' = j /\ step' = 1
  /\ UNCHANGED <<civilVars, line, mesg, rcvd, answer>>
-----------------------------------------------------------------------------
(***************************************************************************)
(* The listener.  UDP and the socket copy the text, BEEP lends it.         *)
(***************************************************************************)
\* The text of a datagram, which is used as a C string.
CString(s) == SubSeq(s, 1, SkipTo(s, 1, {}) - 1)
Received(text, remote, copied) ==
  ParseMesg(SetRemoteHostIP(SetRawMsg(NewMesg, text, copied), remote))

RecvUXDOMSOCK ==
  /\ pc = "wire" /\ wire.by = "uxsock"
  /\ rcvd' = Received(CString(wire.text), OwnHost, TRUE)
  /\ pc' = "rcvd"
  /\ UNCHANGED <<civilVars, job, step, line, mesg, wire, answer>>
RecvUDP ==
  /\ pc = "wire" /\ wire.by = "udp"
  /\ rcvd' = Received(wire.text, PeerHost, TRUE)
  /\ pc' = "rcvd"
  /\ UNCHANGED <<civilVars, job, step, line, mesg, wire, answer>>
RecvRAW ==
  /\ pc = "wire" /\ wire.by = "RAW"
  /\ rcvd' = Received(wire.text, PeerHost, FALSE)
  /\ pc' = "rcvd"
  /\ UNCHANGED <<civilVars, job, step, line, mesg, wire, answer>>

\* psrcOnMesgRecvCallAPI.  A document that is malformed is answered, and one
\* that is none of the three is too, but the answer is lost with the session,
\* which the abort flag closes.  Where the parser has read on behind the end,
\* anything may have come of it.
RecvCOOKED ==
  /\ pc = "wire" /\ wire.by = "COOKED"
  /\ \E doc \in {ParseXML(wire.text)} :
       \/ /\ ~doc.ok /\ doc.v = None
          /\ answer' = "550" /\ pc' = "end" /\ UNCHANGED rcvd
       \/ /\ ~doc.ok /\ doc.v = Loops
          /\ pc' = "loops" /\ UNCHANGED <<rcvd, answer>>
       \/ /\ ~doc.ok /\ doc.v = Overrun
          /\ \/ pc' = "dead" /\ UNCHANGED answer
             \/ pc' = "end" /\ answer' \in {"550", "ok", "closed"}
          /\ UNCHANGED rcvd
       \/ /\ doc.ok /\ HasOnly(doc.v, Chars("entry")) /\ doc.v[1].value # None
          /\ rcvd' = Received(doc.v[1].value, PeerHost, FALSE)
          /\ answer' = "ok" /\ pc' = "rcvd"
       \/ \* The text of an entry that has none is a null pointer.
          /\ doc.ok /\ HasOnly(doc.v, Chars("entry")) /\ doc.v[1].value = None
          /\ pc' = "dead" /\ UNCHANGED <<rcvd, answer>>
       \/ /\ doc.ok
          /\ HasOnly(doc.v, Chars("path")) \/ HasOnly(doc.v, Chars("iam"))
          /\ answer' = "ok" /\ pc' = "end" /\ UNCHANGED rcvd
       \/ /\ doc.ok
          /\ \A key \in {"entry", "path", "iam"} : ~HasOnly(doc.v, Chars(key))
          /\ answer' = "closed" /\ pc' = "end" /\ UNCHANGED rcvd
  /\ UNCHANGED <<civilVars, job, step, line, mesg, wire>>

\* The listening application passes on the object, formatted anew where the
\* job says so and the object owns its text, and else with the text it came in.
Relay ==
  /\ pc = "rcvd" /\ job.kind = "slmg" /\ step = Len(job.calls) /\ step < Len(job.by)
  /\ mesg' = IF job.anew THEN FormatRawMsg(rcvd, rcvd.format).m ELSE rcvd
  /\ step' = step + 1 /\ pc' = "send"
  /\ UNCHANGED <<civilVars, job, line, wire, rcvd, answer>>
NextCall ==
  /\ pc = "rcvd" /\ job.kind = "slmg" /\ step < Len(job.calls)
  /\ step' = step + 1 /\ pc' = "compose"
  /\ UNCHANGED <<civilVars, job, line, mesg, wire, rcvd, answer>>
Finish ==
  /\ pc = "rcvd"
  /\ job.kind = "slmg" => step >= Len(job.calls) /\ step = Len(job.by)
  /\ pc' = "end"
  /\ UNCHANGED <<civilVars, job, step, line, mesg, wire, rcvd, answer>>
-----------------------------------------------------------------------------
Start ==
  \E j \in Jobs : \/ StartConversion(j) \/ StartMesg(j)
                  \/ SendLogmsg(j) \/ SendDocument(j)
Continue ==
  \/ ConvertTime \/ DateDone \/ LogFile \/ LogUxsock \/ StampCrash
  \/ Compose \/ SendPlain \/ SendCOOKED
  \/ RecvUXDOMSOCK \/ RecvUDP \/ RecvRAW \/ RecvCOOKED
  \/ Relay \/ NextCall \/ Finish
Next == Start \/ Continue

\* The conversion of a time runs on in its thread.
Spec == Init /\ [][Next]_vars /\ WF_vars(ConvertTime)
-----------------------------------------------------------------------------
\* What stdlog_log() should write: a job names its stamp and, for the format
\* and the arguments, the text they stand for.
WholeLine ==
  (IF job.kind = "uxsock"
   THEN <<"<">> \o Decimal(8 * job.fac + job.sev) \o <<">">> ELSE <<>>)
    \o job.stamp \o <<" ">> \o job.ident
    \o (IF job.pid = 0 THEN <<>> ELSE <<"[">> \o Decimal(job.pid) \o <<"]">>)
    \o Chars(": ") \o job.meaning
HeadLen == Len(WholeLine) - Len(job.meaning)
Built == line # NoLine /\ cpc = "done"

\* Where something is written behind the buffer: a head that leaves no octet
\* takes the NUL of the signal-safe formatter or the newline of a file there,
\* and the wrapper counts the NUL of a line it cut, so that the newline of a
\* file follows it.
Spills ==
  IF HeadLen >= job.buf THEN job.sigsafe \/ job.kind = "file"
  ELSE Len(WholeLine) >= job.buf /\ ~job.sigsafe /\ job.kind = "file"

\* A line is the date, the sender and the text that the format stands for, cut
\* where the buffer ends and not sooner; the line in a file ends with a newline
\* all the same (build_file_line, build_syslog_frame).  The buffer holds it but
\* for one octet, and that goes behind the buffer exactly in the lines that
\* Spills tells, against the manual and the comments quoted at LineFits.  A
\* number with a point whose hundredths are 00 may add a digit where the buffer
\* ends (cents), so little is said of a line cut there.
LineWhole ==
  Built =>
    /\ line.reach <= job.buf + 1
    /\ job.cents \/ Len(WholeLine) < job.buf =>
         /\ line.reach > job.buf <=> Spills
         /\ ~Spills /\ HeadLen < job.buf =>
              CString(line.text) = SubSeq(WholeLine, 1, Least(Len(WholeLine), job.buf - 1))
                                     \o (IF job.kind = "file" THEN <<"\n">> ELSE <<>>)

\* "If the complete log message does not fit into the buffer, it is silently
\* truncated", "space reserved", "we reserved space for this!": nothing is
\* written behind the work buffer.
LineFits == Built => line.reach <= job.buf

\* What the formats can carry: see the README for each exception.
Recognisable(month) == month \notin 5 .. 8
Carries(m, fmt) ==
  /\ Len(m.tag) <= 31
  /\ IF fmt = "3164" THEN Recognisable(m.month) /\ m.tag[Len(m.tag)] \in Alnum \union {":"}
     ELSE m.mode # NUL /\ m.offMin <= 59 /\ m.year >= 2003

\* What the parser of a tag can make of a text: the first colon is not its 33rd
\* character, and it does not begin with 33 letters and digits.
TagFits(text) ==
  /\ SkipTo(text, 1, {":"}) = 33 => At(text, 33) = NUL
  /\ SkipOver(text, 1, Alnum) <= 33

\* The name in the head of a frame.
Sender ==
  job.ident \o (IF job.pid = 0 THEN <<>> ELSE <<"[">> \o Decimal(job.pid) \o <<"]">>) \o <<":">>

\* A stdlog frame that a listener takes from the socket says the priority and
\* the date it was sent with, wherever the buffer cut it behind its head
\* (build_syslog_frame against srSLMGParseMesg), and its sender, but in the
\* field of the host, which the parser expects in front of the tag.  It is
\* recognised exactly if the text can then pass for a tag and the month is one
\* the parser knows.
FrameUnderstood ==
  pc = "rcvd" /\ wire.by = "uxsock" /\ Built /\ HeadLen < job.buf =>
    /\ rcvd.format = "3164" <=>
         /\ Recognisable(tm.mon + 1)
         /\ TagFits(From(CString(line.text), HeadLen + 1))
    /\ rcvd.format = "3164" =>
         /\ rcvd.fac = job.fac /\ rcvd.sev = job.sev /\ rcvd.host = Sender
         /\ rcvd.month = tm.mon + 1 /\ rcvd.day = tm.mday
         /\ rcvd.hour = tm.hour /\ rcvd.minute = tm.min /\ rcvd.second = tm.sec

\* "the hostname is NOT present on /dev/log": a frame from the socket is one of
\* this host, and its tag is the sender's name.
TagIsSender ==
  pc = "rcvd" /\ wire.by = "uxsock" /\ Built /\ rcvd.format = "3164" =>
    rcvd.host = OwnHost /\ rcvd.tag = Sender

\* The fields of a message object reach the other side, whether they are
\* written once or over the text of the message before, plain or in an entry,
\* and once more when the listening application passes them on
\* (srSLMGFormatRawMsg against srSLMGParseMesg).  An entry is held to this for
\* messages without an ampersand; for those with one see EveryTextKept.
DateFields == {"month", "day", "hour", "minute", "second"}
ZoneFields == {"year", "frac", "prec", "mode", "offHour", "offMin"}
FieldsSurvive ==
  LET fmt == job.calls[Least(step, Len(job.calls))].fmt IN
  /\ pc = "rcvd" /\ job.kind = "slmg" /\ Carries(mesg, fmt)
  /\ wire.by = "COOKED" => "&" \notin ToSet(mesg.msg)
  => /\ rcvd.format = fmt /\ rcvd.msg = mesg.msg
     /\ \A f \in {"fac", "sev", "host"} \union DateFields : rcvd[f] = mesg[f]
     /\ fmt = "sign12" => \A f \in ZoneFields : rcvd[f] = mesg[f]
     /\ rcvd.tag = IF mesg.tag[Len(mesg.tag)] = ":" THEN mesg.tag
                   ELSE Append(mesg.tag, ":")

\* The text of a COOKED entry reaches the other side character by character,
\* brackets and quotes included, also when it was not recognised as a message,
\* exactly if there is no ampersand in it (sbNVTXMLEscapePCDATAintoStrB against
\* sbNVTXMLReadXMLVALUE).  An apostrophe in the tag would end its attribute.
IsEntry == pc \in {"rcvd", "end"} /\ wire.by = "COOKED" /\ job.kind \in {"slmg", "text"}
EntryKeepsText ==
  IsEntry /\ "'" \notin ToSet(mesg.tag) =>
    answer = "ok" /\ (rcvd.raw = mesg.raw <=> "&" \notin ToSet(mesg.raw))

\* "XML-Escape a string. The resulting string is suitable for use in #pcdata":
\* every text arrives as it was.
EveryTextKept == IsEntry => rcvd.raw = mesg.raw

\* What becomes of a document: it is understood as its sender meant it (the
\* list that is read is the tree it was printed from) and gets the answer that
\* its root calls for, or the answer that it is malformed; but the parser stays
\* for ever in a tag where no parameter can begin, passes the end of a document
\* that ends in a tag, and an entry without a text is a null pointer
\* (sbNVTRParseXML, psrcOnMesgRecvCallAPI).
Handled == job.kind = "doc" /\ pc # "wire"
Root == IF Len(job.tree) = 1 THEN job.tree[1].key ELSE None
DocumentAsMeant ==
  Handled =>
    CASE job.fault = "syntax" -> pc = "end" /\ answer = "550"
      [] job.fault = "param" -> pc = "loops"
      [] job.fault = "end" -> ParseXML(wire.text).v = Overrun
      [] OTHER ->
           /\ ParseXML(wire.text).ok /\ ParseXML(wire.text).v = job.tree
           /\ IF Root = Chars("entry") /\ job.tree[1].value = None THEN pc = "dead"
              ELSE answer = IF Root \in {Chars("entry"), Chars("path"), Chars("iam")}
                            THEN "ok" ELSE "closed"

\* "The method detects syntax errors, only. If one is detected, an error state
\* is returned": the peer is told of them.
SyntaxErrorAnswered == Handled /\ job.fault # "none" => answer = "550"

\* "If there are any error conditions, THIS method must notify the remote
\* peer": each document has its answer.
PeerAnswered == Handled => answer \in {"ok", "550", "500"}

\* A call of stdlog_log() comes out of the loops that convert the time, however
\* far it lies from the epoch.
ConversionEnds == pc = "date" ~> cpc \in {"done", "null"}

\* "If we look at the month (...), we may see the following character
\* sequences occur: J(an/u(n/l)), Feb, Ma(r/y), A(pr/ug), ...": the stamp of
\* every month is recognised.
EveryStampRecognised ==
  pc = "rcvd" /\ job.kind = "slmg" =>
    rcvd.month = mesg.month /\ rcvd.format # "3164raw"
==============================================================================
