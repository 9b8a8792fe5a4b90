# liblogging in TLA+

liblogging is two libraries in one repository: `rfc3195`, syslog over BEEP (RFC 3195
on RFC 3080/3081) with a blocking client and an event-driven listener, and `stdlog`, a
small thread-safe replacement for `syslog(3)`. This directory models what is hard to
test in them, model-checks it with TLC and proves the central parts with TLAPS.
Source paths below are relative to `src/rfc3195/src/`, or to `src/stdlog/` where the
file belongs to stdlog.

## 1. Inventory

| component | state | operations | hard because | correct when |
|---|---|---|---|---|
| flow control (`beepsession.c`, `beepchannel.c`, `beepframe.c`) | `uSeqno`, `uTXWinLeft`, `uRXWinLeft`, `pRXQue` | `sbSessSendFram`, `sbSessRecvFram`, `sbSessDoReceive`, `sbSessDoSEQ`, `sbChanSendSEQ` | SEQ frames race with frames already built; unsigned arithmetic | no octet beyond the window, no message lost or sent twice, nobody waits for a SEQ that never comes |
| client profiles (`clntprof-*`) | the call in progress | `SendMsg`, `SendSLMG`, `OpenLogChan`, `CloseLogChan`, `WaitOK` | replies carry no identity | what a call reports is what happened to its message |
| listener profiles (`lstnprof-*`) | none of their own | `OnChanCreate`, `OnMesgRecv`, `CallAPI` | error paths that answer in part | each message handed over or refused, once |
| listener (`beeplisten.c`, `beepsession-lstn.c`) | sessions, channels, `pSendQue`, `bRun` | server loop, `sbLstnOnFramRcvd`, `sbLstnSendFram`, start and close of channels, abort | freed channels, partial sends, shutdown | no frame outlives its channel, no session outlives its client, the loop ends when asked |
| API (`srAPI.c`, `srAPI-lstn.c`) | `pChan`, `pSess`, `pLstn` of a handle | open, send, close, run and shut down a listener | failures half way through | every call returns, a close that was answered means that all was delivered |
| messages, frame parser (`beepmessage.c`, `beepframe.c`, `beeplisten.c`) | parser position and state | receive a frame, extract MIME | chunks that end anywhere | any chunking gives the same frames |
| profiles, lists, XML (`beepprofile.c`, `namevaluetree.c`) | a linked list, a parser position | add, search, unlink, parse, escape | boundaries | escape and parse are inverse, lists stay linked |
| syslog message (`syslogmessage.c`) | fields of the message | parse, format | time stamps | format and parse are inverse |
| stdlog channels, drivers (`stdlog.c`, `file.c`, `uxsock.c`) | `dflt_channel`, `fd`, `sock`, `addr` | init, open, close, log, deinit | lazy open shared by threads and handlers | no descriptor lost, no failure without a cause, true results |
| stdlog formatter, time (`formatter.c`, `timeutils.c`) | a buffer position | the signal-safe printf, the wrapper around `vsnprintf`, `timesub` | buffer bounds, calendar | never beyond the buffer, the right date |

How they interact. An application calls `srAPI.c`; that calls the client profile of the
channel, which builds a message (`beepmessage.c`), a frame (`beepframe.c`) and hands it
to `sbChanActualSendFram` and `sbSessSendFram`. The session reads its socket only inside
such calls. On the other side one thread runs `sbLstnServerLoop`: it polls all sockets,
turns octets into frames, gives each frame to channel 0 or to the listener profile of its
channel, and queues answers, which it sends when the socket is writable. A frame in a
send queue holds a pointer to its channel and may hold a callback. Shutdown is a flag
set from another thread or a signal handler. A send to a peer that has gone raises SIGPIPE,
which the library leaves to the application. stdlog is independent of all this: a channel
is a structure shared by the threads of an application without a lock, its driver opens
the file or socket when the first message is logged.

## 2. Modules

| module | extends | contents |
|---|---|---|
| `LogDelivery` | Naturals, Sequences | abstract: what logging a message promises |
| `BeepFlow` | Integers, Sequences | the data phase of one log channel, both profiles, both windows; implements `LogDelivery` |
| `BeepFlow_proofs` | BeepFlow, TLAPS | type correctness, two safety theorems, the refinement; then the windows: grants only grow, are respected, and leave nobody stranded |
| `BeepSession` | Integers, SequencesExt, Queues | clients that open, log, close, die; the listener's loop, channels, send queues, shutdown |
| `BeepSession_proofs` | BeepSession, Queues_proofs | its type invariant, four safety invariants, and when a freed channel can be touched |
| `FrameStream`, `MCFrameStream` | Integers, SequencesExt | the octets of a log channel: frames written, cut by TCP, read again on both sides, MIME headers, RAW texts split into messages; the texts of its run |
| `FrameStream_proofs` | FrameStream, Queues_proofs, SequenceTheorems | the listener builds the frames that were sent and hands over the texts |
| `FrameReader_proofs` | FrameStream_proofs | the client reads the frames that were queued, and its calls are told the truth |
| `StdlogChannel`, `MCStdlogChannel` | Naturals, FiniteSets | channels of stdlog used by threads and signal handlers; who uses which in its runs |
| `StdlogChannel_proofs` | StdlogChannel, TLAPS | its three invariants |
| `Queues` | Integers, Sequences | taking entries out of a list |
| `Queues_proofs` | Queues, TLAPS | lemmas about sequences, and induction over the naturals |
| `EntryList` | Integers, SequencesExt | abstract: what a list promises to the code that keeps its sessions, channels, frames or profiles in it |
| `NameValueList` | Naturals, FiniteSets, SequencesExt | the linked lists of `namevaluetree.c` on a heap, with the walks of their users; implements `EntryList` |
| `NameValueList_proofs` | NameValueList, Queues_proofs | its three invariants, the refinement of `EntryList` |
| `CivilTime` | Integers | `__stdlog_timesub`, one turn of a loop per step |
| `CivilTime_proofs` | CivilTime, TLAPS | the date is right and the search converges, for all times |
| `Text` | Integers, SequencesExt | C strings |
| `Formatter` | Text | both printfs with their bounds, the line of a file, the frame of the log socket |
| `SyslogMessage` | Text | `srSLMGObj`: setters, the two formats, the parser |
| `XmlStream` | Text | the XML parser and the escape of `namevaluetree.c` |
| `SyslogLine`, `MCSyslogLine` | the five above | the way of one message through them all, from application to application; the jobs of its runs |

`BeepFlow` and `BeepSession` cut the same code along two lines. `BeepFlow` follows one
channel in full numeric detail; `BeepSession` follows many sessions through their whole
life and leaves the numbers out; `FrameStream` goes below both, to octets, and justifies
that they treat a frame as atomic. `SyslogLine` is about what is inside: it composes the
time conversion, the formatter, the message object and the XML into the journey of a
message, and leaves what BEEP adds to it to `FrameStream`. `NameValueList` justifies that
`BeepSession` and `BeepFlow` treat sets and queues of objects as sets and queues. TLC
checks each module directly, with model values or numbers in a `.cfg`, except
`FrameStream`, `SyslogLine` and `StdlogChannel`, whose texts and pairs stand in
`MCFrameStream`, `MCSyslogLine` and `MCStdlogChannel`. Definitions whose name ends in `_Something`
under a comment "Mutant" are deliberate bugs: none is used by a specification.

### LogDelivery

Messages are numbered in the order they are logged. `Log` accepts one; `Deliver` and
`Reject` take the oldest pending one; `Acknowledge` and `Refuse` tell the caller, only
after the fact and never both. `Init`/`Next` say nothing of frames, windows or sockets.

### BeepFlow

| state | code |
|---|---|
| `cpc`, `pend`, `reply` | where `srAPISendLogmsg` stands, the frame it tries to send, the reply it holds while it sends a SEQ first |
| `uSeqno`, `uTXWinLeft`, `uRXWinLeft`, `rxq` | the same names in `sbChanObj`; `pRXQue` |
| `c2s`, `s2c` | the two directions of the TCP connection |
| `lSeqno`, `lTXWinLeft`, `sendQue`, `lstnUp` | the listener's channel, `pSendQue`, its process |
| `logged`, `handled`, `delivered`, `rejected`, `acked`, `refused`, `granted` | history |

`LogMesg` is `sbPSSRClntSendMsg` or `sbPSRCClntSendSLMG` up to the point where the frame
is built and the socket polled; building the frame advances `uSeqno`, and that order is
what most of the properties are about. `SendFram`, `WaitWindow`, `AwaitFram`,
`TakeReply`, `TakeReplySendSEQ` are the rounds of `sbSessSendFram` and
`sbSessRecvFram`. `LstnOnLogFram` is the whole handler: hand over, count `lSeqno`, queue
the answers. `LstnOnSEQFram` is what happens to a SEQ frame in the listener, which
builds a message from it and reads through a null pointer. `LstnSendFram` takes the head
of the queue, charging the physical length as the code does.

Abstractions. A frame is atomic on the wire: the client blocks until a frame is complete,
and a listener that gets part of a frame only remembers it. The poll before a send sees a
frame in the connection or does not, which stands for data still in flight. Window sizes
and 2^32 are scaled (`Window`, `WordMod`); all uses of them are comparisons, additions
and the conversion to unsigned (`Unsigned`), which are translated, wrap included.
`SessionCap` bounds a session to fewer octets than an unsigned counts. Shortage of memory,
after which `psrcOnMesgRecvDoEntry` returns without any answer, is left out.

### BeepSession

| state | code |
|---|---|
| `cpc`, `cup`, `cchans`, `rxq`, `sent` | each client's API call, its socket, `pChannels`, `pRXQue` |
| `c2s`, `s2c`, `conn`, `backlog` | connections, from the listen queue to the close |
| `lpc`, `bRun`, `sessions`, `todo`, `fdsetRD`, `fdsetWR`, `got` | phase of `sbLstnServerLoop`, its flag, `pRootSessions`, the iteration over it, the descriptor sets |
| `chans`, `greeted`, `closed`, `sendQue`, `sending` | of each session: `pChannels`, has channel 0 been greeted, `iState`, `pSendQue`, a frame sent in part |
| `handled`, `asked`, `freed` | history: messages handed over, shutdown asked for, a freed channel was touched |

The client actions follow the calls in order: `OpenSession`, `TakeGreeting`,
`TakeProfile`, `TakeGoAhead` or `TakeIamReply` (open), `LogMesg` and `TakeLogReply`
(send), `CloseLog`, `CloseChan`, `TakeCloseReply`, `TakeLastReply` (close). `ConnLost` is
`sbSessRecvFram` returning NULL, and says for each call what becomes of it; `Die` ends a
client's process and may cut off what it had sent; a client that SIGPIPE kills looks no
different to the listener. With `PipeKills` a send to a client that has gone may end the
listener (`KilledBySend`), whose sockets the system closes (`CloseSockets`). The listener's actions are the
phases of its loop, one session at a time: `LoopTop`, `SendPhase`, `BuildFDSets`,
`Select` or `SelectReturns`, `NewSess`, `DoIncomingData` or `SessionEnds`, `ServeNext`,
`ServeDone`, `LoopEnd`. `LstnSendFram` lets the socket take all, part or nothing of a
frame. `Abort` is `sbSessAbort` with the destructors it calls, in their order.

### FrameStream

| state | code |
|---|---|
| `profile`, `cpc`, `pend`, `chan`, `rxq` | the client: its profile, API call, frame, `sbChanObj` (with `uAnsno`), `pRXQue` |
| `c2s`, `s2c` | octets on their way |
| `recvFram` | `pSess->pRecvFrame`: state, command, fields so far, string buffer |
| `lchan`, `sendQue`, `uBytesSend` | the listener's channel, send queue, octets of its head already sent |
| `logged`, `sent`, `built`, `handed`, `queued`, `got`, `told` | history |

`Octets` is the SNPRINTF of a frame, cut at the buffer as the code cuts it. `BuildFrame`
is `sbLstnBuildFrame`; the states that differ only in the field they read are one state
with a position in `Fields`. `LstnBuildFrame` and `LstnOnFramRcvd` take one octet, which
stands for any chunks of `recv`: `sbLstnDoIncomingData` keeps no state between octets but
`recvFram`. An octet that is refused is dropped, because no error return sets `bAbort`.
The state `"NULL"` is the one in which the string buffer is gone and the next octet ends
the process (`LstnCrash`). `RecvFram` is the client's blocking reader; it takes a frame
when all of it has arrived. `LstnSendFram` lets the socket take any number of octets.
The windows are followed only as far as the client's sending needs them, the replies
being too few to matter (`StreamAssumption`).

### StdlogChannel

`Open`, `Close`, `Deinit`, `Call` are the API; `Log`, `DrvrOpen`, `SysOpen`, `ClearAddr`,
`FillAddr`, `Check`, `Write` are the accesses of `file_log`/`file_open` and
`uxs_log`/`uxs_open` to the shared channel, one per step, so threads interleave between
any two; `Write` reads the descriptor again, as the code does, which may no longer be the
one that was checked. A signal handler (`Handlers`) runs on the main thread and stops it
(`MayRun`). `GoDown`/`ComeUp` make a target unavailable. `excuse` remembers that
something happened during a call which may make it fail: its target was down, no
descriptor was left, a signal interrupted its system call. `Start` and `Join` are the
application's: `stdlog.rst` asks for `stdlog_init` on the main thread before other
threads start, and calls `stdlog_open`, `stdlog_close` not thread-safe. `Warm` is the set
of channels the main thread logs to before it starts the others; `Uses` says who logs where
while they run. Lazy opens are in every run: `MCPrivate` gives the channels that are not
warm to one thread each (`Disciplined`, in the proofs), `MCShared` gives all to everybody.

### EntryList and NameValueList

A behaviour of `NameValueList` is the life of one list, and `kind` says which: the
sessions of the listener, the channels of a session, its send queue, a client's receive
queue, the profiles of a handle or a listener.

| state | code |
|---|---|
| `heap`, `live` | the entries (`sbNVTEObj`: `pNext`, `pUsr`), and which cells are allocated |
| `pFirst`, `pLast` | the root (`sbNVTRObj`) |
| `pc`, `pEntry` | the walk under way and its cursor: the server loop over sessions, `sbSessAbort` over channels, `sbNVTRDestroy`, `sbProfFindProfileURIMatch` |
| `pThis`, `pPrev`, `pUsr` | the cursors of `sbNVTSearch...AndPrev` and what it looks for |
| `remote`, `pProf` | the profiles of the peer, and the last match |
| `alive`, `aborted` | the objects that exist; channels marked `sbChan_STATE_ERR_FREE_NEEDED` |

A round of a loop is a step, so the state between any two can be looked at. A freed cell
may be the next one allocated, which is how a pointer kept too long does harm.
`VisitAndRemove` with `SearchNext` and `SearchEnd` is the server loop removing the session
it stands on. Memory is short only where the code goes on without looking at it: a client
whose channel got no entry (`AddFails`).

`EntryList` has a sequence of objects and no pointers. `Abstract` maps `NameValueList` to
it by reading the chain: `list` (`Listed`) is the chain from `pFirst`, or from the cursor
while the list is destroyed, `todo` (`ToMeet`) the chain from the walk's cursor, `leaving`
(`Leaving`) what a search is going to remove, `found` (`Match`) the last match.

### CivilTime

`Timesub` cuts a time into days and seconds; `SkipYears` is a turn of the loop that finds
the year, with its leap arithmetic and both overflow returns (`Null`); `AddOffset`,
`CarryDay`, `CarryYear`, `Fields`, `SkipMonth`, `SetDay` follow the code to its end. `y`,
`days`, `rem`, `tm` are the variables of the same names (`tdays` and `idays` are one). The
lengths of minute, hour and day and `INT_MAX` are constants: with short days a model of
small numbers reaches distant years, and the theorems hold for every length. The reference
is the arithmetic of the proleptic Gregorian calendar (`NewYearsDay`, `DaysBefore`), stated
apart from the code's own.

### Text, Formatter, SyslogMessage, XmlStream, SyslogLine

The first four are operators: a string is a sequence of characters, an object a record, a
method returns the object it leaves. Parsers get a position and say where they stopped and
whether they succeeded. They keep what the code does at boundaries: a letter that is
compared in vain is consumed (`MonthAt`), an ampersand is escaped as a quotation mark
(`EscapePCDATA`), a facility in an entry is its first digit (`ItoA`), `SNPRINTF` cuts at 33
characters (`StampText`).

`Formatter` has both functions a channel may format with. `Line` and `SyslogFrame` say what
was written and how far it reached (`reach`), behind the end of the buffer too. The parser
of `XmlStream` has two results beside success and error: `Loops`, where the code stays in a
tag for ever, and `Overrun`, where it reads on behind the end of the document.

`SyslogLine` makes one journey of them: `pc` is where the message is (`"loops"` and `"dead"`
are the two it does not come back from), `job` what the
application asked for, `line`, `mesg`, `wire`, `rcvd`, `answer` what has become of it
(`"closed"` is an answer lost with its session). A
job of kind `file` or `uxsock` goes through `Timesub` ... `SetDay`, then `LogFile` or
`LogUxsock`, and a frame of the socket is taken by the listener of the other library
(`RecvUXDOMSOCK`). Where the conversion has no date to return, the drivers format a
`struct tm` that nobody has written: any of `Leftovers`, or a crash (`StampCrash`). A job
`slmg` sets the fields of one object, formats and sends it,
several times over the same object, and may have the receiver pass it on (`Relay`); `text`
is `srAPISendLogmsg` on a COOKED channel, `doc` any document in a COOKED message.

The promises the code does not keep everywhere are stated as equivalences: `LineWhole`,
`FrameUnderstood`, `EntryKeepsText` and `DocumentAsMeant` say for which messages they are
kept and for which not, and the jobs of the run lie on both sides. What else the formats
and parsers cannot carry is named in `Recognisable`, `TagFits` and `Carries`, or excluded by
the jobs. The whole list of exceptions:

* May to August are not recognised (`Recognisable`), and a frame stamped then is a raw one;
* the listener gives a socket frame the host it came from, so the parser takes the
  `ident:` of stdlog for the hostname and the start of the text for the tag; a text that
  begins with 33 letters and digits, or whose first colon is its 33rd character, has no tag
  that fits, and the frame is a raw one (`TagFits`);
* a line that does not fit may go one octet behind its buffer (`Spills`), and a `%f` whose
  hundredths are 00 may do so where the buffer ends (`cents`);
* a text with `&` arrives with `"` for it; `&apos;` in a document is read as `;`, and no job
  has it; attribute values are not escaped, so a tag with an apostrophe ends its
  attribute;
* a document is read for ever, beyond its end, or through a null pointer, where
  `DocumentAsMeant` says so;
* a tag of 32 characters, which the setter accepts, is refused by the parser; a 3164 tag
  that does not end with an alphanumeric character runs over into the text (as the
  `testdrvr[0]` of `testdrvr.c:93` does);
* a zone that is not a whole number of hours does not survive, because the rest of the
  hour is kept in seconds (`oscallsUnix.c:103`); a year before 2003, and a stamp with `Z`,
  whose reformatting ends at a NUL, do not survive either (`Carries`);
* a precision needs a width before it, and `%f` is a number of thousandths.

## 3. What the runs check

| run | instance | checks |
|---|---|---|
| `raw_uniform` | RAW, size 2, Window 9, 12 messages | `TypeOK`, `WindowRespected`, `SenderNotStranded`, `KeepsPromise`, `EveryLogHandled` |
| `cooked_flow` | COOKED, sizes {4,8}, accepted and refused, Window 22, 8 messages | `NothingLostOrDoubled`, `ReportIsTrue`, `AnswerExists`, `KeepsPromise`, `GrantsOnlyGrow` |
| `session_dying` | a RAW client that may die, a client without common profile, a listener SIGPIPE may kill | `TypeOK`, `QueuedFrameHasChannel`, `NoOrphanFrames`, `DeliveredWhenClosed`, `CallReturns`, `SessionFreed` |
| `session_shutdown` | a RAW and a COOKED client, shutdown at any moment | `RightReply`, `CallReturns`, `ShutdownEnds` |
| `stdlog_warm` | main, one thread, one handler, a warm socket channel for all, a file channel the thread opens | `DescriptorsOwned`, `FailsOnlyForCause`, `ReturnIsTrue` |
| `frame_stream` | both profiles, two of four texts: a false trailer, two lines with a stray CR (refused by COOKED), two too long for a frame of 64 octets | `FramesAsSent`, `FramesAsQueued`, `TextsHandedOver`, `RepliesTold`, `EveryFrameBuilt`, `CallsReturn` |
| `entry_list` | five kinds of list, four objects, four cells | `TypeOK`, `NoStaleEntry`, `WellLinked`, `KeepsList` |
| `syslog_line` | more than 900 jobs of every kind, buffers of 20 to 80 octets, days of 13 hours of 2 minutes | `DateRight`, `LineWhole`, `FrameUnderstood`, `FieldsSurvive`, `EntryKeepsText`, `DocumentAsMeant`, `NeverOvershoots`, `ConversionEnds` |
| `raw_window_wrap` | RAW, sizes {1,3}, Window 8 | refutes `WindowRespected` |
| `session_abort` | a RAW client, shutdown at any moment | refutes `NoFreedChannelTouched` |
| `cooked_stall` | COOKED, accepted messages only, Window 22, 6 messages | refutes `EveryCallReturns` |
| `stdlog_cold` | as `stdlog_warm`, nothing warm, everybody logs everywhere | refutes `FailsOnlyForCause` |

**The bounds.** In `BeepFlow` the window is a few messages wide, so every session of a run
fills it, waits, digests a SEQ before, during and after the poll, and goes on: 12
messages pass through a window of 9 two or three times. `raw_uniform` uses messages
of one size, the case in which the window arithmetic does not wrap (`raw_window_wrap`
shows the other). The window of 9 is no multiple of the message size, so the rest of a
window is sometimes too small. `cooked_flow` has replies of 6 and 2 octets with a header of
2: an `<ok/>` after an `<ok/>` takes the client to the half of its receive window, and its
SEQ kills the listener; a row of refusals uses up the client's window of 22, which nothing
opens again; and a mix of both uses up the listener's. All three ends are reached. In `BeepSession` one message per client
is enough for a data frame to be under way during every step of open, close, shutdown and
death; two clients are the least for the loop's list to have a rest to visit when one of
them ends. In `stdlog_warm` and `stdlog_cold` two messages per actor let every message of one actor be
concurrent with an earlier or later one of another; two descriptors are as many as two
channels can own, so a leak also exhausts them. In `frame_stream` two messages are one
frame boundary, and a frame after a frame that was cut: of the two long texts one is cut in
its trailer and one in its payload, and a short text after the latter takes the listener to
its death. Answers are cut at every octet. The properties speak of the frames up to the
first that was cut; what the listener makes of the rest is a hazard of the code, since
`beepmessage.c:276` assumes that every message fits.

In `entry_list` four objects let an entry leave from the start, the middle and the end of
a list while a walk stands before, on or behind it, and with four cells an object that
comes later lies where one lay before. In `syslog_line` the times lie on both sides of the
turns of days, months, leap years, centuries and 400 years, before and after the epoch and
year 0, and beyond `IntMax`; the lines end before, at and behind the end of the buffer, and
the buffer ends in every part of a line from the end of its head on, with both formatters;
the texts of frames are just below, at and above the limit of a tag; the message objects have each
field at its limits, are reused, refuse a setter, and cross every transport; the texts look
like tags, stamps and entities; the documents nest four deep, with white space at every
place it is allowed, and every fault the parser treats differently.

**Fairness.** In `BeepFlow`, weak fairness for the client's call in progress, for the
listener's handling of frames, and for its sending: the calls are loops around blocking
socket calls, and the select loop serves each readable and each writable session in every
round. In `BeepSession`, weak fairness for each client inside a call and for the
single-threaded loop as a whole; that the loop gets round to each session is not assumed
but a consequence. The application is never obliged to make a call, a target never to
come back, and a client never to die. In `FrameStream`, weak fairness for the client's call, for the
listener taking octets, and for its sending. In `NameValueList`, weak fairness for the next
round of each loop, and in `SyslogLine` for the conversion of a time: they are loops of one
thread that nothing in them can block. `EntryList` asks the same of its walks, and the
refinement shows that the loops of the code deliver it. A socket whose client has read everything is
writable (`Select`); that is TCP's part.

**Deadlock.** It is checked for `raw_uniform`. A COOKED session stalls, and the other runs say `CHECK_DEADLOCK FALSE`
because their systems, too, really stop: a listener with idle clients sits in `select`, an
application of stdlog may have nothing more to log, a list comes to its end, a message has
arrived.

**What the refutations show.**

* `raw_window_wrap`: `sbSessSendFram` builds the next frame, which advances `uSeqno`,
  before it reads a SEQ; `sbSessDoSEQ` then computes `WINDOWSIZE - (uSeqno - ackno + 1)`
  below zero in unsigned arithmetic. The client has an almost infinite window.
* `session_abort`: `sbSessDestroy` frees channels before the send queue whose callback
  still points to them. It takes a shutdown or a client that dies (`FreedOnlyByAbort`).
* `stdlog_cold`: the socket is stored before its address is complete, so a second thread
  may send to an incomplete address.
* `cooked_stall`: `sbLstnSendFram` charges replies, with their headers, to a window that
  nothing ever opens again, and falls silent. At the library's own sizes (`Window = 4096`,
  `Sizes = {200}`, `Overhead = 22`, `SeqLen = 16`, `OkSize = 8`) that is after 136 replies;
  the run has sizes at which it takes four. `cooked_flow` has the two other ends of a COOKED
  session: a row of refused messages, which earn an ERR but no SEQ, and the SEQ frame of the
  client, which the listener dispatches as a message and dies of. In all of them no call is
  told anything false (`ReportIsTrue`), and the answer of a call that hangs is there but for
  the window (`AnswerExists`).

**What `syslog_line` shows.** The run passes, and its equivalences say where the comments are
wrong: the newline one octet behind the buffer, the sender's name as the host, the ampersand
that arrives as a quotation mark, the tag the parser never leaves, the end of a document it
passes, the entry without a text, the answer lost with the session, the four months. They
are the findings that name this run.

**Further instances.** The directory has configurations that show one such promise each
refuted, in the words of the comment it is quoted from. They are no part of the runs above;
`tlc -config X.cfg M` reproduces them.

| cfg (module) | refutes | because |
|---|---|---|
| `stdlog_cut_line` (`MCSyslogLine`) | `LineFits` | `__stdlog_wrapper_vsnprintf` counts the NUL of a line it cut, and the newline goes behind the buffer |
| `stdlog_full_head` (`MCSyslogLine`) | `LineFits` | a head that fills the buffer leaves the formatter no room, and it writes its NUL |
| `stdlog_round_number` (`MCSyslogLine`) | `LineFits` | the digit 0 of a fraction is written without a look at the room left (`formatter.c:158`) |
| `devlog_sender` (`MCSyslogLine`) | `TagIsSender` | a message with a remote host is parsed as one with a hostname |
| `entry_ampersand` (`MCSyslogLine`) | `EveryTextKept` | `&` is escaped as `&quot;` |
| `xml_no_param`, `xml_torn_tag` (`MCSyslogLine`) | `SyntaxErrorAnswered` | the loop over parameters does not move on; the end of the document is stepped over |
| `xml_empty_entry`, `xml_other_root` (`MCSyslogLine`) | `PeerAnswered` | a null pointer; an answer queued in a session that is removed at once |
| `syslog_months` (`MCSyslogLine`) | `EveryStampRecognised` | `srSLMGParseTIMESTAMP3164` advances in comparisons that fail, so behind `Ma`, `J` and `A` it tries the wrong letter; the sender of a COOKED entry then reads a null pointer (`SendCOOKED`) |
| `stdlog_cold_leak` (`MCStdlogChannel`) | `DescriptorsOwned` | two threads that use a cold channel for the first time both open it |
| `stdlog_deinit` (`MCStdlogChannel`) | `NoneOpenAtEnd` | `stdlog_deinit` leaves the default channel open, of which the application has no handle |
| `session_shutdown_early` (`BeepSession`) | `ShutdownEnds` | `sbLstnRun` sets `bRun` and so forgets a shutdown that came first |
| `session_close_lost` (`BeepSession`) | `CloseReportIsTrue` | `srAPICloseLog` drops the results of closing channel and session: a RAW client whose messages were never read is told `SR_RET_OK` |

In `BeepFlow`, RAW messages of more than half a window refute `EveryLogHandled`: see
`NobodyStranded` below.

## 4. What is proved

`BeepFlow_proofs`, for all values of the constants that satisfy `FlowAssumption` (sizes
that fit the frame buffer, a word larger than two windows):

* `TypeCorrect`: `TypeOK`, the unsigned window included.
* `Conservation`: `NothingLostOrDoubled`.
* `TrueReports`: `ReportIsTrue`.
* `Implementation`: every behaviour is one of `LogDelivery`.

They all rest on `Invariance`, the inductive invariant. `NothingLostOrDoubled` alone is
not inductive: a step of the listener needs to know that the frame at the head of `c2s`
is the message after the last one handled, and `ReportIsTrue` needs to know that a reply
found anywhere on its way is about the message the client is waiting for. The invariant
therefore says where each message is (waiting, on the wire, taken), that a COOKED session
has at most one exchange open, and that the replies in `sendQue`, `s2c`, `rxq` and
`reply` are about the last message logged and agree with `delivered` and `rejected`. None
of this uses the window: the window only decides when a step is possible. That is why
the theorems hold although `WindowRespected` does not.

`CivilTime_proofs`, for all times and offsets, all lengths of minute, hour and day, and an
`int` of any width:

* `CivilCorrect` (`DateRight`): the date returned is the day and the second of the calendar
  that lie `timep + offset` seconds after the epoch. The inductive invariant says of every
  turn of every loop that year, day and second together still name that moment (`Kept`); it
  is what the loops preserve, while `DateRight` itself speaks only of the end. Under it lie
  lemmas about the calendar: the code's count of leap years is the reference's, a year
  begins where the one before it ends, a month likewise, and the weekday of a day is its
  number modulo 7.
* `CivilConverges` (`NeverOvershoots`): each guess of the year comes strictly closer and
  stays on its side. That the loop therefore ends is the step TLAPS cannot take; TLC checks
  it (`ConversionEnds`).

`StdlogChannel_proofs`, for any set of threads, handlers, channels and descriptors:

* `Truthful` (`ReturnIsTrue`): needs no discipline of the application. A message is in the
  target of a channel only if it was logged and its call has not ended otherwise.
* `NoneLeaked` (`DescriptorsOwned`) and `ThreadSafe` (`FailsOnlyForCause`): under
  `Disciplined`, which asks that a channel the startup thread has not logged to belong to one
  thread or handler. Threads may so open channels at the same time, run out of descriptors
  and retry. They follow from `DisciplineHolds`, whose inductive invariant says that while a
  channel is being opened nobody else is in a call on it, and that the address of every
  other channel with a descriptor is complete. The hypothesis is needed for both: two users
  of one cold channel break `FailsOnlyForCause` (`stdlog_cold`) and `DescriptorsOwned`
  (`stdlog_cold_leak.cfg`).

The second part of `BeepFlow_proofs` is about the window numbers that the first leaves
aside. It follows one number through the system, the octet at which a message ends: `OnWire`, where
the last message put on the wire ends; `h`, where the last one the listener took ends;
`LastAck`, what the last SEQ frame put on the wire acknowledges; `a`, what the last one the
client read did. The inductive invariant (`WInv`) says `a <= LastAck <= h <= OnWire`, and
that the SEQ frames on the wire climb from `a` to `LastAck`, those in `pSendQue` from
`LastAck` to `h`, and the messages on the wire from `h` to `OnWire`, each by at least the
size of the smallest message (`Climbs`). `a` and `h` are no variables of the model: they
exist in every state, and each step says what they become.

* `NoGrantTakenBack` (`GrantsOnlyGrow`): without any hypothesis, refused COOKED messages
  included, which earn no SEQ at all.
* `UniformMessagesFit` (`WindowRespected`): when all messages have one size `d` and the
  window is no multiple of it. The invariant adds that the client's idea of the window is
  the true one or less (`Fits`) and that `OnWire` is a multiple of `d`. Both conditions are
  needed. `raw_window_wrap` drops the first; with size 2 and a window of 8 the client fills
  the window to the last octet, and the SEQ it then reads makes `sbSessDoSEQ` compute -1.
  The theorem thus says exactly how far the finding goes.
* `NobodyStranded` (`SenderNotStranded`): for RAW clients and any mix of sizes `s` with
  `2 * s + 1 <= Window`. The invariant adds that each gap between the four positions is
  covered by a frame (`Reaches`), and that a client that has read the acknowledgement of
  everything has room for its message (`Owed`). The bound is sharp: with a window of 8 and
  messages of 4 octets, or 9 and 5, TLC strands the client, since `sbSessDoSEQ` counts the
  message that waits as if it were in flight.

`BeepSession_proofs`, for any number of clients of any profile, any number of messages and
any shutdown: `SessionTypeCorrect` (`TypeOK`), `QueuedFramesHaveChannels`
(`QueuedFrameHasChannel`), `FramesFindTheirChannel` (`NoOrphanFrames`),
`ReplyIsTheRightOne` (`RightReply`) and `LoggedIsDelivered` (`DeliveredWhenClosed`).
Nothing in the code checks that a session is a conversation in turns; it is one because of
what can be under way when, and that is what the inductive invariant writes down for each
client: where its call and its connection stand (`Phase`), what the listener holds of it
(`Served`), which frames may be on their way in each state of the call and in which order
(`Talks`), and that the messages handed over and those under way are those logged
(`Tally`). `Lists` adds that the loop's list of sessions names nobody twice. A step concerns
one client; `UnmovedInv` carries the invariant of all others over. None of the five is
inductive alone: that no frame names a channel that is gone rests on what its sender was
told before, and on the frames that may still be ahead of it. `NoFreedChannelTouched` is
not among them: `session_abort` refutes it. `FreedChannelsOnAbort` says how far the defect
goes: a freed channel is touched only when the loop was told to end or when the session of a
client that died is removed (`FreedOnlyByAbort`), so `NoneFreedInPeace`: as long as no client
dies and nobody stops the running listener, never. This needs two more parts (`EInv`): a
session whose channel 0 is closed has nothing queued or unread, its client has its answer or
will get it, and no other client gives up before the listener has left it (`Ended`); and a
socket that `select()` reported has data, or its client is gone, until it is read
(`Watched`), without which the end of a session could be a mistake.

`NameValueList_proofs`, for any number of entries, objects and kinds of list:

* `ListTypeCorrect` (`TypeOK`), `NoLoopHoldsFreedEntry` (`NoStaleEntry`), `NoEntryIsLost`
  (`WellLinked`). The inductive invariant says that there is a sequence `q` of distinct
  cells, which the heap links in this order and which are the cells allocated, and that
  every cursor of every loop is a place in `q`. Adding, unlinking and freeing cells are
  then operations on `q`; that the chain read from the heap is `q` is shown by induction
  over the places (`ChainIs`).
* `ImplementsEntryList`: each step is a step of `EntryList` or changes nothing its users
  see. This is `KeepsList` without fairness.

`FrameStream_proofs` and `FrameReader_proofs`, for any texts, any size of a frame and
sessions of any length:

* `FramesInStep`: up to the first frame that SNPRINTF cuts, `sbLstnBuildFrame` builds the
  frames that were sent, each with its numbers and its payload; before that one the machine
  never loses its buffer and builds nothing else (`BuiltAsSent`, `MachineInStep`, two parts
  of `FramesAsSent`).
* `FramesArrive`: `FramesAsSent`, while no frame is cut. Its last part, that whatever is built
  carries the command of the profile on the log channel, does not hold for every text behind
  a cut frame: the machine then looks for a command inside a payload, and a payload written
  for it can pass for a frame of another command. The texts of the run contain none.
* `TextsArrive`: `TextsHandedOver`, without a hypothesis.
* `ClientReadsFrames` (`FramesAsQueued`) and `CallsToldTheTruth` (`RepliesTold`): while no
  frame of the client is cut (`AllFit`). Frames are only ever added to those sent, so the
  hypothesis, once false, stays false. Behind a cut frame the machine can take digits of a
  payload for the numbers of a frame, and of any length, for they have no width here; an
  acknowledgement of such a frame need not fit into its buffer. Nor does `Answers` follow the
  code for a frame of another command. So nothing is claimed there.
* `EarlyRepliesTrue`: without a hypothesis, `RepliesTold` for the calls up to the first frame
  that was cut, whatever happens later.

The argument follows the code octet by octet. Reading the digits of a `%u` back gives the
number (`DecimalTells`, by induction on it). For each state of the machine, `Expects` says
what is left of the frame it is in: the rest of the digits and the fields after them, the
rest of the payload, of the trailer. `MachineReads` shows that the next octet leads to a
state that waits for one octet less, whichever command with a payload it reads (MSG, RPY,
ERR, ANS, NUL). The inductive invariant then says that the octets on their way are the rest of
that frame and the frames after it (`Aligned`), or that some frame was cut and all before
it were built (`Astray`). It quantifies over the texts still to be read, so TLC cannot
evaluate it; `frame_stream` checks what follows from it.

`TextsArrive` adds to that invariant the text of every payload (`TInv`). Its core is
`SplitRejoins`: `psrrOnMesgRecvCallAPI` is a fold over the octets of a text, and a fold is
followed as a path of states (`FoldPath`); in every state, the lines finished so far, put
together again with the one in progress, are the octets read so far without the lone CRs.

In the other direction the client's reader does not go octet by octet: it looks for the
fields in octets that have arrived, of which the end of the last frame may be missing.
`ReadsFrame` says that whenever the octets on their way, with those the listener has not sent
yet, are frames one after the other, and a line feed has arrived, `RecvFram` reads the first of
them, and takes exactly its octets off the stream. The inductive invariant (`DInv`) says that
they are: the octets in `s2c` and the unsent rest of `sendQue` together are the frames of
`queued` that were not yet read (`Pipe`). For this no frame the listener queues may be cut,
so the invariant also bounds the numbers in a session (`ClientNums`, `ListenerNums`) and
lemmas bound the length of their decimals (`AckOK`, `ReplyOK`); this is where
`StreamAssumption` is used. `RInv` counts the replies among the frames queued, read and taken
(`Numbered`): replies carry no number that anybody compares, but the n-th reply is the answer
to the n-th frame, and that is the n-th text. `SInv` adds where a call stands (`Turns`): when
a frame is sent, all calls before it have been answered.

The prover has no rules for fairness and ENABLED, and cannot use the induction theorems of
its library, which take an operator; `SetInduction` in `Queues_proofs` states induction for a
set instead and serves where a proof needs one.

Assumed: the `ASSUME`s of the modules, which TLC evaluates in every run, and the hypotheses
named above. Only model-checked: liveness (`EveryLogHandled`, `CallReturns`, `SessionFreed`, `ShutdownEnds`, `EveryFrameBuilt`, `CallsReturn`,
`ConversionEnds`, the fairness in `KeepsList`); `AnswerExists`; of `FrameStream`, the three parts named above
behind a frame that was cut; and the texts of `SyslogLine` (`LineWhole`, `FrameUnderstood`,
`FieldsSurvive`, `EntryKeepsText`, `DocumentAsMeant`), whose parsers and formatters are RECURSIVE
operators, which no module the prover sees may declare, over literal strings taken apart into
characters, which the prover cannot do.

## 5. Not modelled

`PROJECT.json` lists each part with its reason. Left out of modelled parts: `srAPISetOption`
and what becomes of an API handle when opening fails; UDP and the UNIX domain socket beside
the sessions in the listener's loop (what they hand over is in `SyslogLine`); frames of
more than one message part and SEQ frames from a client to the octet level; sessions of
more than 2^32 octets; shortage of memory, except in `NameValueList`; local time zones of stdlog, which passes an offset of 0. Left out as a whole:
the journal driver (one call), the sockets layer and the Windows sources (wrappers of
system calls, modelled by what their callers see), the command line programs, and
`architecture.c`, which is a comment. The use of stdlog without `stdlog_init`, and calls of
`stdlog_open` and `stdlog_close` concurrent with others, are excluded by the manual.

## 6. Plan

In this order:

1. `FrameStream`: channel 0 requests and the greeting at the octet level.
2. `ApiHandle`: what srAPI leaves of a handle after each failure, who destroys it.
3. Sequence numbers that pass 2^32.
