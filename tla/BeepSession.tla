---------------------------- MODULE BeepSession ----------------------------
(***************************************************************************)
(* The life of BEEP sessions: clients that open a log session, log and     *)
(* close it (srAPIOpenlog, srAPISendLogmsg, srAPICloseLog), and the single *)
(* threaded listener that serves all of them from its select loop          *)
(* (sbLstnServerLoop), creates and destroys channels, and is shut down by  *)
(* another thread or a signal handler.                                     *)
(*                                                                         *)
(* A frame is its channel, what it says and a number: the message a log    *)
(* frame carries, the channel a close request or its <ok/> is about.  The  *)
(* windows are the business of BeepFlow.  A listener that reads a chunk of *)
(* several frames is one that reads several times before it turns to the   *)
(* next socket.                                                            *)
(*                                                                         *)
(* The library sends without MSG_NOSIGNAL and leaves the disposition of    *)
(* SIGPIPE to the application.  A listener that has not ignored it may be  *)
(* killed by a send to a client that has gone (KilledBySend).  A client    *)
(* killed that way sends nothing more, as one in ConnLost or Die.          *)
(***************************************************************************)
EXTENDS Integers, Sequences, SequencesExt, Queues

CONSTANTS
  RawClients, CookedClients,  \* clients by the profile they open a channel with
  Strangers,                  \* clients the listener shares no profile with
  MaxLogs,                    \* bound: messages each client logs
  CanDie,                     \* clients whose process may end at any time
  PipeKills,                  \* the listener's application leaves SIGPIPE alone
  ShutdownIn                  \* when srAPIShutdownListener may be called

Clients == RawClients \union CookedClients \union Strangers

ASSUME SessionAssumption ==
  /\ RawClients \intersect CookedClients = {}
  /\ Strangers \intersect (RawClients \union CookedClients) = {}
  /\ MaxLogs \in Nat
  /\ CanDie \subseteq Clients
  /\ PipeKills \in BOOLEAN
  /\ ShutdownIn \subseteq {"setup", "running"}

VARIABLES
  \* each client: where its API call stands, its end of the connection is open,
  \* its pSess->pChannels and pSess->pRXQue, the messages it has logged
  cpc, cup, cchans, rxq, sent,
  \* each connection: frames under way, and the listener's end of it
  c2s, s2c, conn,
  \* the listener: phase of its loop, bRun, connections to be accepted,
  \* pRootSessions, sessions still to visit in this phase, the fd sets
  lpc, bRun, backlog, sessions, todo, fdsetRD, fdsetWR, got,
  \* each session of the listener: pChannels, channel 0 is open, iState is
  \* CLOSED, pSendQue, its first frame is partly sent
  chans, greeted, closed, sendQue, sending,
  \* history: messages handed over; shutdown was requested; the listener has
  \* followed a pointer to a channel it had freed
  handled, asked, freed

clntVars == <<cpc, cup, cchans, rxq, sent>>
wireVars == <<c2s, s2c, conn>>
loopVars == <<lpc, bRun, backlog, sessions, todo, fdsetRD, fdsetWR, got>>
sessVars == <<chans, greeted, closed, sendQue, sending>>
histVars == <<handled, asked, freed>>
vars == <<clntVars, wireVars, loopVars, sessVars, histVars>>

Fram(chan, kind, arg) == [chan |-> chan, kind |-> kind, arg |-> arg]
Frames ==
  [chan : {0, 1}, arg : Nat,
   kind : {"greeting", "start", "profile", "goahead", "iam", "log", "NUL", "ok",
           "SEQ", "close", "closeok", "err"}]

\* What each blocking call of the client waits for.
Expected == [greeting |-> "greeting", profile |-> "profile",
             goahead |-> "goahead", iam |-> "ok", log |-> "ok",
             close1 |-> "closeok", close0 |-> "closeok"]
Waiting(c) == cpc[c] \in DOMAIN Expected

Init ==
  /\ cpc = [c \in Clients |-> "new"] /\ cup = [c \in Clients |-> FALSE]
  /\ cchans = [c \in Clients |-> {}] /\ rxq = [c \in Clients |-> <<>>]
  /\ sent = [c \in Clients |-> 0]
  /\ c2s = [c \in Clients |-> <<>>] /\ s2c = [c \in Clients |-> <<>>]
  /\ conn = [c \in Clients |-> "none"]
  /\ lpc = "setup" /\ bRun = FALSE /\ backlog = <<>> /\ sessions = <<>>
  /\ todo = <<>> /\ fdsetRD = {} /\ fdsetWR = {} /\ got = FALSE
  /\ chans = [c \in Clients |-> {}] /\ greeted = [c \in Clients |-> FALSE]
  /\ closed = [c \in Clients |-> FALSE]
  /\ sendQue = [c \in Clients |-> <<>>] /\ sending = [c \in Clients |-> FALSE]
  /\ handled = [c \in Clients |-> <<>>] /\ asked = FALSE /\ freed = FALSE
-----------------------------------------------------------------------------
(***************************************************************************)
(* The client.                                                             *)
(***************************************************************************)
\* sbSessDoReceive reads one frame into the queue q: a SEQ is digested, a frame
\* of a channel the session does not have is an error, any other joins q.
DoReceive(c, q, channels) ==
  /\ s2c[c] # <<>>
  /\ s2c' = [s2c EXCEPT ![c] = Tail(@)]
  /\ LET f == Head(s2c[c]) IN
     rxq' = [rxq EXCEPT ![c] =
               IF f.kind = "SEQ" \/ f.chan \notin channels THEN q
               ELSE Append(q, f)]

\* sbSessSendFram: a poll, whose result is ignored, then the frame.  What is
\* sent to a connection the listener has closed is lost.
SendFram(c, q, channels, f) ==
  /\ \/ DoReceive(c, q, channels)
     \/ rxq' = [rxq EXCEPT ![c] = q] /\ UNCHANGED s2c
  /\ c2s' = IF conn[c] = "closed" THEN c2s
            ELSE [c2s EXCEPT ![c] = Append(@, f)]

GoTo(c, pc) == cpc' = [cpc EXCEPT ![c] = pc]

\* sbSessOpenSession: connect to a listening socket and send the greeting.
OpenSession(c) ==
  /\ cpc[c] = "new"
  /\ lpc \notin {"setup", "stopped"}
  /\ GoTo(c, "greeting")
  /\ cup' = [cup EXCEPT ![c] = TRUE]
  /\ cchans' = [cchans EXCEPT ![c] = {0}]
  /\ conn' = [conn EXCEPT ![c] = "backlog"]
  /\ backlog' = Append(backlog, c)
  /\ c2s' = [c2s EXCEPT ![c] = <<Fram(0, "greeting", 0)>>]
  /\ UNCHANGED <<rxq, sent, s2c, lpc, bRun, sessions, todo, fdsetRD, fdsetWR,
                 got, sessVars, histVars>>

\* sbSessRecvFram waits for a payload frame.
AwaitFram(c) ==
  /\ Waiting(c) /\ rxq[c] = <<>>
  /\ s2c[c] # <<>> /\ Head(s2c[c]).chan \in cchans[c]
  /\ DoReceive(c, rxq[c], cchans[c])
  /\ UNCHANGED <<cpc, cup, cchans, sent, c2s, conn, loopVars, sessVars, histVars>>

\* It returns the first one, whatever channel it belongs to.
Takes(c, pc) ==
  /\ cpc[c] = pc
  /\ rxq[c] # <<>>
Reply(c) == Head(rxq[c])

\* Take the reply and, in the same call, send the next frame of the protocol.
TakeAndSend(c, channels, f, pc) ==
  /\ GoTo(c, pc)
  /\ cchans' = [cchans EXCEPT ![c] = channels]
  /\ SendFram(c, Tail(rxq[c]), channels, f)
  /\ UNCHANGED <<cup, sent, conn, loopVars, sessVars, histVars>>
TakeOnly(c, pc) ==
  /\ GoTo(c, pc)
  /\ rxq' = [rxq EXCEPT ![c] = Tail(@)]
  /\ UNCHANGED <<cup, cchans, sent, wireVars, loopVars, sessVars, histVars>>

\* The process ends: the connection is closed, and what was still on its way
\* to the listener may be cut short.
GiveUp(c) ==
  /\ GoTo(c, "failed")
  /\ cup' = [cup EXCEPT ![c] = FALSE]
  /\ \E n \in 0 .. Len(c2s[c]) : c2s' = [c2s EXCEPT ![c] = SubSeq(@, 1, n)]
  /\ UNCHANGED <<cchans, rxq, sent, s2c, conn, loopVars, sessVars, histVars>>

\* sbSessOpenChan: channel 1 is created before the start request is sent; a
\* client without a common profile closes the session.
TakeGreeting(c) ==
  /\ Takes(c, "greeting")
  /\ IF Reply(c).kind = "greeting" /\ c \notin Strangers
     THEN TakeAndSend(c, {0, 1}, Fram(0, "start", 1), "profile")
     ELSE TakeAndSend(c, {0}, Fram(0, "close", 0), "close0")

\* The second half of sbSessOpenChan, then OnClntOpenLogChan: RAW waits for the
\* listener's MSG, COOKED introduces itself.
TakeProfile(c) ==
  /\ Takes(c, "profile")
  /\ IF Reply(c).kind # "profile"
     THEN TakeAndSend(c, {0}, Fram(0, "close", 0), "close0")
     ELSE IF c \in RawClients THEN TakeOnly(c, "goahead")
     ELSE TakeAndSend(c, {0, 1}, Fram(1, "iam", 0), "iam")

TakeGoAhead(c) ==
  /\ Takes(c, "goahead")
  /\ IF Reply(c).kind = "goahead" THEN TakeOnly(c, "idle") ELSE GiveUp(c)

\* sbPSRCClntOpenLogChan ignores what came of the <iam>.
TakeIamReply(c) == Takes(c, "iam") /\ TakeOnly(c, "idle")

LogMesg(c) ==
  /\ cpc[c] = "idle"
  /\ sent[c] < MaxLogs
  /\ sent' = [sent EXCEPT ![c] = @ + 1]
  /\ GoTo(c, IF c \in RawClients THEN "idle" ELSE "log")
  /\ SendFram(c, rxq[c], cchans[c], Fram(1, "log", sent'[c]))
  /\ UNCHANGED <<cup, cchans, conn, loopVars, sessVars, histVars>>

TakeLogReply(c) ==
  /\ Takes(c, "log")
  /\ IF Reply(c).kind = "ok" THEN TakeOnly(c, "idle") ELSE GiveUp(c)

\* srAPICloseLog begins: OnClntCloseLogChan, for RAW a NUL.
CloseLog(c) ==
  /\ cpc[c] = "idle"
  /\ c \in RawClients
  /\ GoTo(c, "nul")
  /\ SendFram(c, rxq[c], cchans[c], Fram(1, "NUL", 0))
  /\ UNCHANGED <<cup, cchans, sent, conn, loopVars, sessVars, histVars>>

\* Mutant: the channel is destroyed when the request has been sent.
CloseChan_Early(c) ==
  /\ cpc[c] = IF c \in RawClients THEN "nul" ELSE "idle"
  /\ GoTo(c, "close1")
  /\ SendFram(c, rxq[c], cchans[c], Fram(0, "close", 1))
  /\ cchans' = [cchans EXCEPT ![c] = @ \ {1}]
  /\ UNCHANGED <<cup, sent, conn, loopVars, sessVars, histVars>>
\* sbSessCloseChan for the log channel.
CloseChan(c) ==
  /\ cpc[c] = IF c \in RawClients THEN "nul" ELSE "idle"
  /\ GoTo(c, "close1")
  /\ SendFram(c, rxq[c], cchans[c], Fram(0, "close", 1))
  /\ UNCHANGED <<cup, cchans, sent, conn, loopVars, sessVars, histVars>>

\* Mutant: nobody waits for the reply of channel 0.
TakeCloseReply_NoWait(c) ==
  /\ cpc[c] = "close1"
  /\ cchans' = [cchans EXCEPT ![c] = @ \ {1}]
  /\ GoTo(c, "done") /\ cup' = [cup EXCEPT ![c] = FALSE]
  /\ UNCHANGED <<rxq, sent, wireVars, loopVars, sessVars, histVars>>
\* Any reply will do; then sbSessCloseSession closes channel 0.
TakeCloseReply(c) ==
  /\ Takes(c, "close1")
  /\ TakeAndSend(c, {0}, Fram(0, "close", 0), "close0")

\* srAPICloseLog (or a failed srAPIOpenlog) returns.
TakeLastReply(c) ==
  /\ Takes(c, "close0")
  /\ GoTo(c, "done")
  /\ cup' = [cup EXCEPT ![c] = FALSE]
  /\ cchans' = [cchans EXCEPT ![c] = {}]
  /\ rxq' = [rxq EXCEPT ![c] = Tail(@)]
  /\ UNCHANGED <<sent, wireVars, loopVars, sessVars, histVars>>

\* sbSessRecvFram returns NULL: end of file, or a frame of no known channel.
RecvFails(c) ==
  /\ Waiting(c) /\ rxq[c] = <<>>
  /\ IF s2c[c] = <<>> THEN conn[c] = "closed"
     ELSE Head(s2c[c]).chan \notin cchans[c]

\* The <iam> of COOKED does not care, srAPICloseLog goes on without its answer
\* and returns the SR_RET_OK of the profile's handler, any other call fails.
ConnLost(c) ==
  /\ RecvFails(c)
  /\ IF cpc[c] = "iam"
     THEN GoTo(c, "idle") /\ UNCHANGED <<cup, c2s>>
     ELSE /\ GoTo(c, IF cpc[c] \in {"close1", "close0"} THEN "unanswered" ELSE "failed")
          /\ cup' = [cup EXCEPT ![c] = FALSE]
          /\ c2s' = [c2s EXCEPT ![c] = <<>>]
  /\ UNCHANGED <<cchans, rxq, sent, s2c, conn, loopVars, sessVars, histVars>>

Die(c) ==
  /\ c \in CanDie
  /\ cpc[c] \notin {"new", "done", "unanswered", "failed"}
  /\ GiveUp(c)
-----------------------------------------------------------------------------
(***************************************************************************)
(* The listener's sessions.                                                *)
(***************************************************************************)
\* The sockets of all sessions in S are closed (a reset, if there is unread
\* data), what the sessions hold is gone.
CloseSockets(S) ==
  /\ conn' = [c \in Clients |-> IF c \in S THEN "closed" ELSE conn[c]]
  /\ s2c' = [c \in Clients |->
               IF c \in S /\ c2s[c] # <<>> THEN <<>> ELSE s2c[c]]
  /\ c2s' = [c \in Clients |-> IF c \in S THEN <<>> ELSE c2s[c]]
  /\ chans' = [c \in Clients |-> IF c \in S THEN {} ELSE chans[c]]
  /\ sendQue' = [c \in Clients |-> IF c \in S THEN <<>> ELSE sendQue[c]]
  /\ UNCHANGED <<greeted, closed, sending>>

\* sbSessAbort: the socket is closed, the channels are freed, then the send
\* queue, and with each frame of it the channel its callback
\* (sbSessDoChanDestroy) points to.
Abort(S) ==
  /\ CloseSockets(S)
  /\ freed' = (freed \/ \E c \in S : \E i \in DOMAIN sendQue[c] :
                                        sendQue[c][i].kind = "closeok")

Enqueue(c, frams) == sendQue' = [sendQue EXCEPT ![c] = @ \o frams]

\* Mutant: the RAW profile greets before the start request is answered.
DoStartMesg_GoAheadFirst(c) ==
  /\ chans' = [chans EXCEPT ![c] = @ \union {1}]
  /\ Enqueue(c, IF c \in RawClients
                THEN <<Fram(1, "goahead", 0), Fram(0, "profile", 1)>>
                ELSE <<Fram(0, "profile", 1)>>)
\* sbSessDoStartMesg: create the channel, answer, then OnChanCreate.
DoStartMesg(c) ==
  IF 1 \in chans[c]
  THEN Enqueue(c, <<Fram(0, "err", 1)>>) /\ UNCHANGED chans
  ELSE /\ chans' = [chans EXCEPT ![c] = @ \union {1}]
       /\ Enqueue(c, IF c \in RawClients
                     THEN <<Fram(0, "profile", 1), Fram(1, "goahead", 0)>>
                     ELSE <<Fram(0, "profile", 1)>>)

\* Mutant: the channel is torn down without waiting for the <ok/> to be sent.
DoCloseMesg_Now(c, n) ==
  /\ chans' = [chans EXCEPT ![c] = IF n = 0 THEN @ ELSE @ \ {n}]
  /\ Enqueue(c, <<Fram(0, "closeok", n)>>)
\* sbSessDoCloseMesg: the <ok/> carries the callback that destroys the channel;
\* for a channel the session does not have nothing happens at all.
DoCloseMesg(c, n) ==
  /\ Enqueue(c, IF n \in chans[c] THEN <<Fram(0, "closeok", n)>> ELSE <<>>)
  /\ UNCHANGED chans

\* psrrOnMesgRecv and psrcOnMesgRecv.
LogChanOnRecvMesg(c, f) ==
  /\ handled' = IF f.kind = "log" THEN [handled EXCEPT ![c] = Append(@, f.arg)]
                ELSE handled
  /\ Enqueue(c, IF f.kind = "NUL" THEN <<>>
                ELSE IF c \in RawClients THEN <<Fram(1, "SEQ", 0)>>
                ELSE <<Fram(1, "ok", 0), Fram(1, "SEQ", 0)>>)
  /\ UNCHANGED <<chans, greeted>>

\* sbSessChan0OnRecvMesg.  A frame that does not fit the state is ignored.
Chan0OnRecvMesg(c, f) ==
  /\ greeted' = [greeted EXCEPT ![c] = @ \/ f.kind = "greeting"]
  /\ IF greeted[c] /\ f.kind = "start" THEN DoStartMesg(c)
     ELSE IF greeted[c] /\ f.kind = "close" THEN DoCloseMesg(c, f.arg)
     ELSE UNCHANGED <<chans, sendQue>>
  /\ UNCHANGED handled

\* sbLstnOnFramRcvd: frames of unknown channels are dropped.
OnFramRcvd(c, f) ==
  IF f.chan \notin chans[c] THEN UNCHANGED <<chans, greeted, sendQue, handled>>
  ELSE IF f.chan = 0 THEN Chan0OnRecvMesg(c, f)
  ELSE LogChanOnRecvMesg(c, f)

\* sbSessDoChanDestroy, when the frame that carries it leaves the queue.
OnFramDestroy(c, f) ==
  IF f.kind = "closeok"
  THEN /\ chans' = [chans EXCEPT ![c] = @ \ {f.arg}]
       /\ closed' = [closed EXCEPT ![c] = @ \/ f.arg = 0]
  ELSE UNCHANGED <<chans, closed>>

\* sbLstnSendFram.  The socket takes the frame; part of it or nothing if the
\* client leaves data unread; if the client is gone it may report an error,
\* which nobody looks at (or kill the process: KilledBySend).
LstnSendFram(c) ==
  LET f == Head(sendQue[c]) IN
  /\ freed' = (freed \/ f.chan \notin chans[c]
                     \/ (f.kind = "closeok" /\ f.arg \notin chans[c]))
  /\ \/ /\ sendQue' = [sendQue EXCEPT ![c] = Tail(@)]
        /\ sending' = [sending EXCEPT ![c] = FALSE]
        /\ s2c' = IF cup[c] THEN [s2c EXCEPT ![c] = Append(@, f)] ELSE s2c
        /\ OnFramDestroy(c, f)
     \/ /\ cup[c] /\ s2c[c] # <<>>
        /\ sending' = [sending EXCEPT ![c] = TRUE]
        /\ UNCHANGED <<sendQue, s2c, chans, closed>>
     \/ /\ cup[c] => s2c[c] # <<>>
        /\ UNCHANGED <<sendQue, sending, s2c, chans, closed>>
-----------------------------------------------------------------------------
(***************************************************************************)
(* The server loop.                                                        *)
(***************************************************************************)
\* srAPIRunListener.
Run ==
  /\ lpc = "setup"
  /\ lpc' = "top" /\ bRun' = TRUE
  /\ UNCHANGED <<clntVars, wireVars, backlog, sessions, todo, fdsetRD, fdsetWR,
                 got, sessVars, histVars>>

\* srAPIShutdownListener, in another thread or a signal handler.
Shutdown ==
  /\ ~asked
  /\ (IF lpc = "setup" THEN "setup" ELSE "running") \in ShutdownIn
  /\ lpc # "stopped"
  /\ asked' = TRUE /\ bRun' = FALSE
  /\ UNCHANGED <<clntVars, wireVars, lpc, backlog, sessions, todo, fdsetRD,
                 fdsetWR, got, sessVars, handled, freed>>

LoopTop ==
  /\ lpc = "top" /\ bRun
  /\ lpc' = "send" /\ todo' = sessions
  /\ UNCHANGED <<clntVars, wireVars, bRun, backlog, sessions, fdsetRD, fdsetWR,
                 got, sessVars, histVars>>

\* sbLstnRun returns and srAPIExitLib destroys the listener: every session is
\* aborted, every connection not yet accepted is reset.
LoopEnd ==
  /\ lpc = "top" /\ ~bRun
  /\ lpc' = "stopped"
  /\ Abort(Range(sessions) \union Range(backlog))
  /\ sessions' = <<>> /\ backlog' = <<>>
  /\ UNCHANGED <<clntVars, bRun, todo, fdsetRD, fdsetWR, got, handled, asked>>

\* Phase 1: a frame that is ready to be sent is sent.
SendPhase ==
  /\ lpc = "send" /\ todo # <<>>
  /\ todo' = Tail(todo)
  /\ LET c == Head(todo) IN
     IF sendQue[c] # <<>> /\ ~sending[c] THEN LstnSendFram(c)
     ELSE UNCHANGED <<freed, sendQue, sending, s2c, chans, closed>>
  /\ UNCHANGED <<clntVars, c2s, conn, lpc, bRun, backlog, sessions, fdsetRD,
                 fdsetWR, got, greeted, handled, asked>>

\* Mutant: only complete frames are watched for writing.
BuildFDSets_NoWrite ==
  /\ lpc = "send" /\ todo = <<>>
  /\ lpc' = "select"
  /\ LET gone == {c \in Range(sessions) : closed[c]} IN
     /\ Abort(gone)
     /\ sessions' = Without(sessions, gone)
     /\ fdsetWR' = {c \in Range(sessions) : sendQue[c] # <<>> /\ ~sending[c]}
  /\ UNCHANGED <<clntVars, bRun, backlog, todo, fdsetRD, got, handled, asked>>
\* Closed sessions are removed, sockets with something to send are noted.
BuildFDSets ==
  /\ lpc = "send" /\ todo = <<>>
  /\ lpc' = "select"
  /\ LET gone == {c \in Range(sessions) : closed[c]} IN
     /\ Abort(gone)
     /\ sessions' = Without(sessions, gone)
     /\ fdsetWR' = {c \in Range(sessions) \ gone : sendQue[c] # <<>>}
  /\ UNCHANGED <<clntVars, bRun, backlog, todo, fdsetRD, got, handled, asked>>

Readable == {c \in Range(sessions) : c2s[c] # <<>> \/ ~cup[c]}

\* Phase 2: select() returns because a socket is ready.
Select ==
  /\ lpc = "select"
  /\ \E W \in SUBSET fdsetWR :
        /\ {c \in fdsetWR : s2c[c] = <<>>} \subseteq W
        /\ Readable # {} \/ W # {} \/ backlog # <<>>
        /\ fdsetWR' = W
  /\ fdsetRD' = Readable
  /\ lpc' = IF backlog # <<>> THEN "accept" ELSE "serve"
  /\ todo' = sessions /\ got' = FALSE
  /\ UNCHANGED <<clntVars, wireVars, bRun, backlog, sessions, sessVars, histVars>>

\* Mutant: it waits without a timeout and restarts after a signal.
SelectReturns_Never == FALSE /\ UNCHANGED vars
\* A timeout or a signal: of interest only if bRun has changed meanwhile.
SelectReturns ==
  /\ lpc = "select" /\ ~bRun
  /\ lpc' = "top"
  /\ UNCHANGED <<clntVars, wireVars, bRun, backlog, sessions, todo, fdsetRD,
                 fdsetWR, got, sessVars, histVars>>

\* sbLstnNewSess accepts one connection and queues the greeting.
NewSess ==
  /\ lpc = "accept"
  /\ lpc' = "serve"
  /\ LET c == Head(backlog) IN
     /\ conn' = [conn EXCEPT ![c] = "open"]
     /\ sessions' = Append(sessions, c)
     /\ todo' = sessions'
     /\ chans' = [chans EXCEPT ![c] = {0}]
     /\ Enqueue(c, <<Fram(0, "greeting", 0)>>)
  /\ backlog' = Tail(backlog)
  /\ UNCHANGED <<clntVars, c2s, s2c, bRun, fdsetRD, fdsetWR, got, greeted, closed,
                 sending, histVars>>

\* Phase 3, reading: sbLstnDoIncomingData, once per frame of the chunk.
DoIncomingData ==
  /\ lpc = "serve" /\ todo # <<>>
  /\ LET c == Head(todo) IN
     /\ c \in fdsetRD
     /\ c2s[c] # <<>>
     /\ c2s' = [c2s EXCEPT ![c] = Tail(@)]
     /\ OnFramRcvd(c, Head(c2s[c]))
  /\ got' = TRUE
  /\ UNCHANGED <<clntVars, s2c, conn, lpc, bRun, backlog, sessions, todo, fdsetRD,
                 fdsetWR, closed, sending, asked, freed>>

\* Mutant: end of file is taken for "no data".
SessionEnds_Ignored ==
  /\ lpc = "serve" /\ todo # <<>> /\ ~got
  /\ Head(todo) \in fdsetRD /\ c2s[Head(todo)] = <<>>
  /\ got' = TRUE
  /\ UNCHANGED <<clntVars, wireVars, lpc, bRun, backlog, sessions, todo, fdsetRD,
                 fdsetWR, sessVars, histVars>>
\* Mutant: the session is aborted and stays in the list.
SessionEnds_Kept ==
  /\ lpc = "serve" /\ todo # <<>> /\ ~got
  /\ Head(todo) \in fdsetRD /\ c2s[Head(todo)] = <<>>
  /\ Abort({Head(todo)})
  /\ todo' = Tail(todo)
  /\ UNCHANGED <<clntVars, lpc, bRun, backlog, sessions, fdsetRD, fdsetWR, got,
                 handled, asked>>
\* End of file or a socket error: the session is removed and aborted.
SessionEnds ==
  /\ lpc = "serve" /\ todo # <<>> /\ ~got
  /\ LET c == Head(todo) IN
     /\ c \in fdsetRD
     /\ c2s[c] = <<>>
     /\ Abort({c})
     /\ sessions' = Without(sessions, {c})
  /\ todo' = Tail(todo)
  /\ UNCHANGED <<clntVars, lpc, bRun, backlog, fdsetRD, fdsetWR, got, handled,
                 asked>>

\* Phase 3, writing, and on to the next session.
ServeNext ==
  /\ lpc = "serve" /\ todo # <<>>
  /\ LET c == Head(todo) IN
     /\ c \in fdsetRD => got
     /\ IF c \in fdsetWR /\ sendQue[c] # <<>> THEN LstnSendFram(c)
        ELSE UNCHANGED <<freed, sendQue, sending, s2c, chans, closed>>
  /\ todo' = Tail(todo) /\ got' = FALSE
  /\ UNCHANGED <<clntVars, c2s, conn, lpc, bRun, backlog, sessions, fdsetRD,
                 fdsetWR, greeted, handled, asked>>

\* One of the two sends finds that the client has gone, and SIGPIPE ends the
\* process: the system closes its sockets.
KilledBySend ==
  /\ PipeKills
  /\ todo # <<>>
  /\ LET c == Head(todo) IN
     /\ sendQue[c] # <<>> /\ ~cup[c]
     /\ \/ lpc = "send" /\ ~sending[c]
        \/ lpc = "serve" /\ c \in fdsetWR /\ (c \in fdsetRD => got)
  /\ lpc' = "stopped"
  /\ CloseSockets(Range(sessions) \union Range(backlog))
  /\ sessions' = <<>> /\ backlog' = <<>> /\ todo' = <<>>
  /\ UNCHANGED <<clntVars, bRun, fdsetRD, fdsetWR, got, histVars>>

ServeDone ==
  /\ lpc = "serve" /\ todo = <<>>
  /\ lpc' = "top"
  /\ fdsetRD' = {} /\ fdsetWR' = {}
  /\ UNCHANGED <<clntVars, wireVars, bRun, backlog, sessions, todo, got, sessVars,
                 histVars>>
-----------------------------------------------------------------------------
\* A call in progress.
ClntRuns(c) ==
  AwaitFram(c) \/ TakeGreeting(c) \/ TakeProfile(c) \/ TakeGoAhead(c)
    \/ TakeIamReply(c) \/ TakeLogReply(c) \/ TakeCloseReply(c)
    \/ TakeLastReply(c) \/ ConnLost(c)
    \/ (c \in RawClients /\ CloseChan(c))

LstnRuns ==
  Run \/ LoopTop \/ LoopEnd \/ SendPhase \/ BuildFDSets \/ Select
    \/ SelectReturns \/ NewSess \/ DoIncomingData \/ SessionEnds \/ ServeNext
    \/ KilledBySend \/ ServeDone

Next ==
  \/ \E c \in Clients :
        \/ OpenSession(c) \/ LogMesg(c) \/ CloseLog(c) \/ CloseChan(c) \/ Die(c)
        \/ AwaitFram(c) \/ TakeGreeting(c) \/ TakeProfile(c) \/ TakeGoAhead(c)
        \/ TakeIamReply(c) \/ TakeLogReply(c) \/ TakeCloseReply(c)
        \/ TakeLastReply(c) \/ ConnLost(c)
  \/ LstnRuns
  \/ Shutdown

Spec == Init /\ [][Next]_vars

\* A client inside a call and the loop of the listener keep running; an
\* application need not make its next call.
Fairness == WF_vars(LstnRuns) /\ \A c \in Clients : WF_vars(ClntRuns(c))

FairSpec == Spec /\ Fairness
-----------------------------------------------------------------------------
(***************************************************************************)
(* Properties.                                                             *)
(***************************************************************************)
\* Every variable has its type; the session list, and what is left of it to
\* visit, names sessions whose socket the listener has not closed.
TypeOK ==
  /\ cpc \in [Clients -> {"new", "idle", "nul", "done", "unanswered", "failed"}
                            \union DOMAIN Expected]
  /\ cup \in [Clients -> BOOLEAN] /\ cchans \in [Clients -> SUBSET {0, 1}]
  /\ rxq \in [Clients -> Seq(Frames)] /\ sent \in [Clients -> 0 .. MaxLogs]
  /\ c2s \in [Clients -> Seq(Frames)] /\ s2c \in [Clients -> Seq(Frames)]
  /\ conn \in [Clients -> {"none", "backlog", "open", "closed"}]
  /\ lpc \in {"setup", "top", "send", "select", "accept", "serve", "stopped"}
  /\ bRun \in BOOLEAN
  /\ backlog \in Seq({c \in Clients : conn[c] = "backlog"})
  /\ sessions \in Seq({c \in Clients : conn[c] = "open"})
  /\ todo \in Seq(Range(sessions)) /\ fdsetRD \subseteq Clients
  /\ fdsetWR \subseteq Clients /\ got \in BOOLEAN
  /\ chans \in [Clients -> SUBSET {0, 1}] /\ greeted \in [Clients -> BOOLEAN]
  /\ closed \in [Clients -> BOOLEAN] /\ sendQue \in [Clients -> Seq(Frames)]
  /\ sending \in [Clients -> BOOLEAN] /\ handled \in [Clients -> Seq(Nat)]
  /\ asked \in BOOLEAN /\ freed \in BOOLEAN

\* The todo of sbLstnSendFram asks whether a queued frame can outlive its
\* channel.  In every session that is served, the channel of each queued frame
\* and the one its callback will destroy exist, and nothing that belongs to a
\* channel is queued behind the <ok/> that destroys it.
QueuedFrameHasChannel ==
  \A c \in Range(sessions) : ~closed[c] =>
    \A i \in DOMAIN sendQue[c] :
      LET f == sendQue[c][i] IN
      /\ f.chan \in chans[c]
      /\ f.kind = "closeok" =>
           /\ f.arg \in chans[c]
           /\ \A j \in DOMAIN sendQue[c] : j > i => sendQue[c][j].chan # f.arg

\* No frame reaches a peer that does not, or no longer, know its channel.
NoOrphanFrames ==
  \A c \in Clients :
    /\ cup[c] => \A i \in DOMAIN s2c[c] : s2c[c][i].chan \in cchans[c]
    /\ conn[c] = "open" =>
         \A i \in DOMAIN c2s[c] : c2s[c][i].chan = 1 => 1 \in chans[c]

\* sbSessRecvFram takes the first payload frame of any channel: the first one
\* that is queued, on the wire or still in the listener is the reply the
\* client's call waits for.
RightReply ==
  \A c \in Clients : Waiting(c) =>
    LET coming == rxq[c] \o s2c[c] \o sendQue[c] IN
    \A i \in DOMAIN coming :
      /\ coming[i].kind # "SEQ"
      /\ \A j \in 1 .. i - 1 : coming[j].kind = "SEQ"
      => coming[i].kind = Expected[cpc[c]]

\* When the listener has answered the close requests, every message of the
\* session has been handed over, in order: a RAW client has no other
\* confirmation.
DeliveredWhenClosed ==
  \A c \in Clients :
    cpc[c] = "done" => handled[c] = [i \in 1 .. sent[c] |-> i]

\* srAPICloseLog, which preserves the error state, has returned SR_RET_OK
\* ("unanswered" included: see ConnLost): what was logged has been handed over.
CloseReportIsTrue ==
  \A c \in Clients \ Strangers :
    cpc[c] \in {"done", "unanswered"} => handled[c] = [i \in 1 .. sent[c] |-> i]

\* No pointer to a freed channel is followed.
NoFreedChannelTouched == ~freed

\* The listener keeps no session of a client that has gone.
SessionFreed ==
  \A c \in Clients : (cpc[c] \in {"done", "unanswered", "failed"}) ~> (c \notin Range(sessions))

\* Every call of a client returns.
CallReturns == \A c \in Clients : Waiting(c) ~> ~Waiting(c)

\* srAPIRunListener returns once srAPIShutdownListener has been called.
ShutdownEnds == asked ~> (lpc = "stopped")
=============================================================================
