------------------------- MODULE BeepSession_proofs -------------------------
(***************************************************************************)
(* Proofs about BeepSession: its type invariant, the safety properties     *)
(* that do not depend on how sbSessAbort frees a session, and how far what *)
(* it does wrong can go, for any number of clients of any profile and any  *)
(* number of messages.                                                     *)
(*                                                                         *)
(* The protocol of a session is a conversation in turns: a client sends a  *)
(* request and reads the answer before the next one.  Nothing in the code  *)
(* checks that, sbSessRecvFram takes the first frame that comes; it holds  *)
(* because of what can be under way when.  The inductive invariant says so *)
(* for one client and its session at a time (CInv):                        *)
(*   Phase    where the call stands and where the connection stands;       *)
(*   Served   the listener's own side, which must hold whether or not the  *)
(*            client still runs: queued frames refer to channels that      *)
(*            exist, requests to channels in the state they expect;        *)
(*   Talks    a running client: in each state of its call only certain     *)
(*            frames may come (MayCome) or be on their way to the listener *)
(*            (MayGo), in an order that ends each turn (InOrder, Ahead),   *)
(*            and no answer exists while its request is unread (Quiet);    *)
(*   Tally    the messages handed over, and those under way, are those     *)
(*            logged, in order.                                            *)
(* A step concerns one client: the invariant of every other one is carried *)
(* over (UnmovedInv).  Lists adds that the loop's list of sessions names   *)
(* nobody twice, without which removing a session would not be enough.     *)
(*                                                                         *)
(* The last part is about sbSessAbort itself, which may follow a pointer   *)
(* to a channel it has freed: EInv, on top of IInv, says when.             *)
(***************************************************************************)
EXTENDS BeepSession, Queues_proofs

\* What may be under way to a client, or from it, depends on where its call is.
Coming(c) == Range(rxq[c]) \union Range(s2c[c]) \union Range(sendQue[c])

MayCome(c, pc) ==
  IF pc = "greeting" THEN {"greeting"}
  ELSE IF pc = "profile" THEN IF c \in RawClients THEN {"profile", "goahead"} ELSE {"profile"}
  ELSE IF pc = "goahead" THEN {"goahead"}
  ELSE IF pc \in {"iam", "log"} THEN {"ok", "SEQ"}
  ELSE IF pc \in {"idle", "nul"} THEN {"SEQ"}
  ELSE IF pc = "close1" THEN {"closeok", "SEQ"}
  ELSE {"closeok"}

MayGo(c, pc) ==
  IF pc = "greeting" THEN {"greeting"}
  ELSE IF pc = "profile" THEN {"greeting", "start"}
  ELSE IF pc = "goahead" THEN {}
  ELSE IF pc = "iam" THEN {"iam"}
  ELSE IF pc = "log" THEN {"log"}
  ELSE IF pc = "idle" THEN IF c \in RawClients THEN {"log"} ELSE {}
  ELSE IF pc = "nul" THEN {"log", "NUL"}
  ELSE IF pc = "close1" THEN IF c \in RawClients THEN {"log", "NUL", "close"} ELSE {"close"}
  ELSE {"greeting", "close"}

\* g may follow f on a connection.
Fits(c, f, g) ==
  \/ f.kind \in {"SEQ", "NUL"}
  \/ f.kind = "log" /\ c \in RawClients
  \/ f.kind = "greeting" /\ g.kind \in {"start", "close"}
  \/ f.kind = "profile" /\ g.kind = "goahead"
  \/ f.kind = "ok" /\ g.kind = "SEQ"

\* A queue, and two queues one ahead of the other, without frames out of turn.
InOrder(c, q) == \A i, j \in 1 .. Len(q) : i < j => Fits(c, q[i], q[j])
Ahead(c, p, q) == \A f \in Range(p), g \in Range(q) : Fits(c, f, g)

\* Which channel a frame belongs to.
Formed(f) == f.chan = 1 <=> f.kind \in {"goahead", "iam", "log", "NUL", "ok", "SEQ"}

\* Frames of the answer to a request exist only when the request has been read.
Quiet(S, q) ==
  q # <<>> => \A f \in S : \/ f.kind = "SEQ"
                           \/ f.kind = "greeting" /\ \A g \in Range(q) : g.kind = "greeting"

\* The first n - k frames are the log messages k + 1 .. n, the others none.
Logs(q, k, n) ==
  /\ k <= n /\ n - k <= Len(q)
  /\ \A i \in 1 .. Len(q) : q[i].kind = "log" <=> i <= n - k
  /\ \A i \in 1 .. Len(q) : i <= n - k => q[i].arg = k + i

\* The messages handed over are 1, 2, ...
Numbered(h) == \A i \in 1 .. Len(h) : h[i] = i

\* The client runs no session; channel 1 is open on both sides.
Ends == {"new", "done", "unanswered", "failed"}
Opened == {"goahead", "iam", "idle", "nul", "log"}

\* Where the call of the client stands, and its connection.
Phase(c) ==
  /\ cup[c] <=> cpc[c] \notin Ends
  /\ cpc[c] \in {"goahead", "nul"} => c \in RawClients
  /\ cpc[c] \in {"iam", "log"} => c \in CookedClients
  /\ cpc[c] \in {"profile", "idle", "close1"} => c \notin Strangers
  /\ c \in Strangers => sent[c] = 0
  /\ cup[c] => cchans[c] = IF cpc[c] \in {"greeting", "close0"} THEN {0} ELSE {0, 1}
  /\ conn[c] = "none" <=> cpc[c] = "new"
  /\ cpc[c] \in {"new", "greeting"} => sent[c] = 0 /\ handled[c] = <<>>
  /\ conn[c] \in {"none", "backlog"} =>
       /\ rxq[c] = <<>> /\ s2c[c] = <<>> /\ sendQue[c] = <<>>
       /\ chans[c] = {} /\ handled[c] = <<>>
  /\ conn[c] \in {"none", "closed"} => c2s[c] = <<>> /\ sendQue[c] = <<>> /\ chans[c] = {}
  /\ conn[c] = "backlog" =>
       cpc[c] \in {"greeting", "failed"} /\ \A f \in Range(c2s[c]) : f.kind = "greeting"

\* What the listener has of a session is consistent, client or no client.
Served(c) ==
  /\ \A f \in Range(sendQue[c]) :
       f.chan \in chans[c] /\ (f.kind = "closeok" => f.arg \in chans[c])
  /\ \A f \in Range(c2s[c]) :
       /\ f.chan = 1 => 1 \in chans[c]
       /\ f.kind = "start" => 1 \notin chans[c]
       /\ f.kind = "close" => f.arg \in {0, 1} /\ (f.arg = 1 <=> 1 \in chans[c])
       /\ f.kind \in {"greeting", "start", "iam", "log", "NUL", "close"}
  /\ InOrder(c, sendQue[c]) /\ InOrder(c, c2s[c])
  /\ Quiet(Range(sendQue[c]), c2s[c])
  /\ \A f \in Coming(c) \union Range(c2s[c]) : Formed(f)

\* What a client that runs sees of its session.
Talks(c) ==
  cup[c] =>
    /\ \A f \in Coming(c) : f.kind \in MayCome(c, cpc[c])
    /\ \A f \in Range(rxq[c]) : f.kind # "SEQ"
    /\ \A f \in Range(c2s[c]) : /\ f.kind \in MayGo(c, cpc[c])
                                /\ f.kind = "close" => (f.arg = 1 <=> cpc[c] = "close1")
    /\ InOrder(c, rxq[c]) /\ InOrder(c, s2c[c])
    /\ Ahead(c, rxq[c], s2c[c]) /\ Ahead(c, rxq[c], sendQue[c]) /\ Ahead(c, s2c[c], sendQue[c])
    /\ Quiet(Coming(c), c2s[c])
    /\ \A f \in Coming(c) : cpc[c] = "close1" /\ f.kind = "closeok" => f.arg = 1
    /\ \A f \in Coming(c) : cpc[c] = "profile" /\ f.kind = "goahead" =>
          \E g \in Coming(c) : g.kind = "profile"
    /\ conn[c] = "open" =>
         /\ cpc[c] \in Opened => 1 \in chans[c]
         /\ \A f \in Coming(c) : f.kind = "profile" => 1 \in chans[c]
         /\ \A f \in Range(rxq[c]) \union Range(s2c[c]) :
               cpc[c] = "close1" /\ f.kind = "closeok" => 1 \notin chans[c]
         /\ cpc[c] \in {"greeting", "close0"} => 1 \notin chans[c]

\* What has been logged and what has been handed over.
Tally(c) ==
  /\ cup[c] /\ conn[c] \in {"backlog", "open"} =>
       Numbered(handled[c]) /\ Logs(c2s[c], Len(handled[c]), sent[c])
  /\ \/ cpc[c] = "close0"
     \/ cpc[c] = "close1" /\ \E f \in Coming(c) : f.kind = "closeok"
     \/ cpc[c] = "done"
     => Numbered(handled[c]) /\ Len(handled[c]) = sent[c]
  /\ cpc[c] = "done" => c2s[c] = <<>>

CInv(c) == Phase(c) /\ Served(c) /\ Talks(c) /\ Tally(c)

\* The listener's lists, and where in the loop they are in use.
Lists ==
  /\ Distinct(sessions) /\ Distinct(backlog) /\ Distinct(todo)
  /\ lpc \in {"setup", "top", "select", "stopped"} => todo = <<>>
  /\ lpc = "accept" => backlog # <<>>
  /\ lpc \in {"setup", "stopped"} => backlog = <<>> /\ sessions = <<>>

IInv == TypeOK /\ Lists /\ \A c \in Clients : CInv(c)
-----------------------------------------------------------------------------
\* A frame has the fields it is built from.
LEMMA FramType ==
  /\ \A f \in Frames : /\ f.chan \in {0, 1} /\ f.arg \in Nat
                       /\ f.kind \in {"greeting", "start", "profile", "goahead", "iam", "log",
                                      "NUL", "ok", "SEQ", "close", "closeok", "err"}
  /\ \A chan \in {0, 1}, arg \in Nat,
        kind \in {"greeting", "start", "profile", "goahead", "iam", "log",
                  "NUL", "ok", "SEQ", "close", "closeok", "err"} :
        /\ Fram(chan, kind, arg) \in Frames
        /\ Fram(chan, kind, arg).chan = chan
        /\ Fram(chan, kind, arg).kind = kind
        /\ Fram(chan, kind, arg).arg = arg
  BY DEF Fram, Frames

\* The states in which a client waits, and for what.
LEMMA ExpectedIs ==
  /\ DOMAIN Expected = {"greeting", "profile", "goahead", "iam", "log", "close1", "close0"}
  /\ Expected["greeting"] = "greeting" /\ Expected["profile"] = "profile"
  /\ Expected["goahead"] = "goahead" /\ Expected["iam"] = "ok" /\ Expected["log"] = "ok"
  /\ Expected["close1"] = "closeok" /\ Expected["close0"] = "closeok"
  BY DEF Expected

\* A queue that holds nothing is the empty one.
LEMMA NothingIn ==
  ASSUME NEW q \in Seq(Frames), \A f \in Range(q) : FALSE
  PROVE  q = <<>>
  BY RangeIdx

\* What is left of a queue when its first element is taken is in order, and
\* fits what was taken.
LEMMA OrderTail ==
  ASSUME NEW c, NEW q \in Seq(Frames), q # <<>>, InOrder(c, q)
  PROVE  InOrder(c, Tail(q)) /\ \A g \in Range(Tail(q)) : Fits(c, Head(q), g)
<1>1. /\ 1 \in 1 .. Len(q) /\ Head(q) = q[1] /\ Len(Tail(q)) = Len(q) - 1
      /\ Tail(q) \in Seq(Frames)
      /\ \A i \in 1 .. Len(Tail(q)) : i + 1 \in 1 .. Len(q) /\ Tail(q)[i] = q[i + 1]
  OBVIOUS
<1>2. \A i \in 1 .. Len(Tail(q)) : Fits(c, Head(q), Tail(q)[i])
  BY <1>1 DEF InOrder
<1>3. InOrder(c, Tail(q))
  BY <1>1 DEF InOrder
<1>4. ASSUME NEW g \in Range(Tail(q)) PROVE \E i \in 1 .. Len(Tail(q)) : Tail(q)[i] = g
  BY <1>1, RangeIdx
<1> QED BY <1>2, <1>3, <1>4

\* A frame that fits everything in a queue may be put behind it.
LEMMA OrderAppend ==
  ASSUME NEW c, NEW q \in Seq(Frames), NEW f \in Frames, InOrder(c, q),
         \A g \in Range(q) : Fits(c, g, f)
  PROVE  InOrder(c, Append(q, f))
<1>1. /\ Len(Append(q, f)) = Len(q) + 1
      /\ Append(q, f)[Len(q) + 1] = f
      /\ \A i \in 1 .. Len(q) : Append(q, f)[i] = q[i]
  OBVIOUS
<1>2. \A i \in 1 .. Len(q) : Fits(c, q[i], f)
  BY RangeIdx
<1> QED BY <1>1, <1>2 DEF InOrder

\* The beginning of a queue in order is in order.
LEMMA OrderFront ==
  ASSUME NEW c, NEW q \in Seq(Frames), NEW n \in 0 .. Len(q), InOrder(c, q)
  PROVE  InOrder(c, SubSeq(q, 1, n))
<1>1. /\ Len(SubSeq(q, 1, n)) = n
      /\ \A i \in 1 .. n : SubSeq(q, 1, n)[i] = q[i] /\ i \in 1 .. Len(q)
  OBVIOUS
<1> QED BY <1>1 DEF InOrder

\* The empty queue is in order.
LEMMA OrderEmpty == ASSUME NEW c PROVE InOrder(c, <<>>)
  BY DEF InOrder

\* So is a queue of one frame.
LEMMA OrderOne == ASSUME NEW c, NEW f PROVE InOrder(c, <<f>>)
  BY DEF InOrder

\* Only the frames that end a turn must not be followed by others.
LEMMA OrderSEQ ==
  ASSUME NEW c, NEW q \in Seq(Frames), \A f \in Range(q) : f.kind = "SEQ"
  PROVE  InOrder(c, q)
  BY RangeIdx DEF InOrder, Fits

\* Either the first frame is the message that is due, or no message is due.
LEMMA LogsTail ==
  ASSUME NEW q \in Seq(Frames), q # <<>>, NEW k \in Nat, NEW n \in Nat, Logs(q, k, n)
  PROVE  /\ Head(q).kind = "log" => Head(q).arg = k + 1 /\ Logs(Tail(q), k + 1, n)
         /\ Head(q).kind # "log" => k = n /\ Logs(Tail(q), k, n)
<1>1. /\ 1 \in 1 .. Len(q) /\ Head(q) = q[1] /\ Len(Tail(q)) = Len(q) - 1
      /\ \A i \in 1 .. Len(Tail(q)) : i + 1 \in 1 .. Len(q) /\ Tail(q)[i] = q[i + 1]
  OBVIOUS
<1>2. CASE Head(q).kind = "log"
  <2>1. 1 <= n - k /\ Head(q).arg = k + 1
    BY <1>1, <1>2 DEF Logs
  <2>2. \A i \in 1 .. Len(Tail(q)) :
            /\ Tail(q)[i].kind = "log" <=> i + 1 <= n - k
            /\ i + 1 <= n - k => Tail(q)[i].arg = k + (i + 1)
    BY <1>1 DEF Logs
  <2> QED BY <1>1, <1>2, <2>1, <2>2 DEF Logs
<1>3. CASE Head(q).kind # "log"
  <2>1. n = k
    BY <1>1, <1>3 DEF Logs
  <2>2. \A i \in 1 .. Len(Tail(q)) : Tail(q)[i].kind # "log"
    BY <1>1, <2>1 DEF Logs
  <2> QED BY <1>1, <1>3, <2>1, <2>2 DEF Logs
<1> QED BY <1>2, <1>3

\* Another frame is not a message, or it is the next one.
LEMMA LogsAppend ==
  ASSUME NEW q \in Seq(Frames), NEW k \in Nat, NEW n \in Nat, Logs(q, k, n), NEW f \in Frames
  PROVE  /\ f.kind # "log" => Logs(Append(q, f), k, n)
         /\ f.kind = "log" /\ f.arg = n + 1 /\ (\A g \in Range(q) : g.kind = "log")
              => Logs(Append(q, f), k, n + 1)
<1>1. /\ Len(Append(q, f)) = Len(q) + 1 /\ Append(q, f)[Len(q) + 1] = f /\ Len(q) \in Nat
      /\ \A i \in 1 .. Len(q) : Append(q, f)[i] = q[i]
  OBVIOUS
<1>2. CASE f.kind # "log"
  BY <1>1, <1>2 DEF Logs
<1>3. ASSUME f.kind = "log", f.arg = n + 1, \A g \in Range(q) : g.kind = "log"
      PROVE  Logs(Append(q, f), k, n + 1)
  <2>1. \A i \in 1 .. Len(q) : q[i].kind = "log"
    BY <1>3, RangeIdx
  <2>2. n - k = Len(q)
    <3>1. Len(q) # 0 => Len(q) <= n - k
      BY <2>1 DEF Logs
    <3> QED BY <1>1, <3>1 DEF Logs
  <2> QED BY <1>1, <1>3, <2>1, <2>2 DEF Logs
<1> QED BY <1>2, <1>3

\* Without a message under way, all messages have been read.
LEMMA LogsNone ==
  ASSUME NEW q \in Seq(Frames), NEW k \in Nat, NEW n \in Nat, Logs(q, k, n),
         \A f \in Range(q) : f.kind # "log"
  PROVE  k = n
<1>1. \A i \in 1 .. Len(q) : q[i].kind # "log"
  BY RangeIdx
<1>2. ASSUME n > k PROVE FALSE
  <2>1. 1 \in 1 .. Len(q) /\ 1 <= n - k
    BY <1>2 DEF Logs
  <2> QED BY <1>1, <2>1 DEF Logs
<1> QED BY <1>2 DEF Logs
-----------------------------------------------------------------------------
\* Nothing of this client and its session has changed.
Unmoved(c) ==
  /\ cpc'[c] = cpc[c] /\ cup'[c] = cup[c] /\ cchans'[c] = cchans[c]
  /\ rxq'[c] = rxq[c] /\ sent'[c] = sent[c] /\ c2s'[c] = c2s[c] /\ s2c'[c] = s2c[c]
  /\ conn'[c] = conn[c] /\ chans'[c] = chans[c] /\ sendQue'[c] = sendQue[c]
  /\ handled'[c] = handled[c]

\* The invariant of a session depends on that session alone.
LEMMA UnmovedInv ==
  ASSUME NEW c, CInv(c), Unmoved(c)
  PROVE  CInv(c)'
<1>1. Phase(c)'
  BY DEF CInv, Unmoved, Phase
<1>2. Served(c)'
  BY DEF CInv, Unmoved, Served, Coming
<1>3. Talks(c)'
  BY DEF CInv, Unmoved, Talks, Coming
<1>4. Tally(c)'
  BY DEF CInv, Unmoved, Tally, Coming
<1> QED BY <1>1, <1>2, <1>3, <1>4 DEF CInv

\* The invariant holds at the start.
LEMMA InitInv == Init => IInv
<1> SUFFICES ASSUME Init PROVE IInv
  OBVIOUS
<1>1. TypeOK
  <2>1. /\ MaxLogs \in Nat /\ Range(sessions) = {} /\ todo = <<>>
        /\ backlog = <<>> /\ sessions = <<>>
    BY SessionAssumption, RangeEmpty DEF Init
  <2>2. /\ backlog \in Seq({c \in Clients : conn[c] = "backlog"})
        /\ sessions \in Seq({c \in Clients : conn[c] = "open"})
        /\ todo \in Seq(Range(sessions))
    BY <2>1
  <2>3. /\ cpc \in [Clients -> {"new", "idle", "nul", "done", "unanswered", "failed"}
                            \union DOMAIN Expected]
        /\ conn \in [Clients -> {"none", "backlog", "open", "closed"}]
    BY DEF Init
  <2>4. /\ cup \in [Clients -> BOOLEAN] /\ cchans \in [Clients -> SUBSET {0, 1}]
        /\ rxq \in [Clients -> Seq(Frames)] /\ sent \in [Clients -> 0 .. MaxLogs]
        /\ c2s \in [Clients -> Seq(Frames)] /\ s2c \in [Clients -> Seq(Frames)]
        /\ chans \in [Clients -> SUBSET {0, 1}] /\ greeted \in [Clients -> BOOLEAN]
        /\ closed \in [Clients -> BOOLEAN] /\ sendQue \in [Clients -> Seq(Frames)]
        /\ sending \in [Clients -> BOOLEAN] /\ handled \in [Clients -> Seq(Nat)]
    BY <2>1 DEF Init
  <2> QED BY <2>2, <2>3, <2>4 DEF Init, TypeOK
<1>2. Lists
  BY DEF Init, Lists, Distinct
<1>3. ASSUME NEW c \in Clients PROVE CInv(c)
  <2>1. /\ cpc[c] = "new" /\ ~cup[c] /\ rxq[c] = <<>> /\ sent[c] = 0 /\ c2s[c] = <<>>
        /\ s2c[c] = <<>> /\ conn[c] = "none" /\ chans[c] = {} /\ sendQue[c] = <<>>
        /\ handled[c] = <<>> /\ Coming(c) = {} /\ Range(c2s[c]) = {} /\ Range(sendQue[c]) = {}
    BY <1>3, RangeEmpty DEF Init, Coming
  <2>2. Phase(c)
    BY <2>1 DEF Phase, Ends
  <2>3. Served(c)
    BY <2>1, OrderEmpty DEF Served, Quiet
  <2>4. Talks(c) /\ Tally(c)
    BY <2>1 DEF Talks, Tally
  <2> QED BY <2>2, <2>3, <2>4 DEF CInv
<1> QED BY <1>1, <1>2, <1>3 DEF IInv
-----------------------------------------------------------------------------
\* The types of what belongs to one client.
LEMMA TypeOf ==
  ASSUME TypeOK, NEW c \in Clients
  PROVE  /\ rxq[c] \in Seq(Frames) /\ c2s[c] \in Seq(Frames) /\ s2c[c] \in Seq(Frames)
         /\ sendQue[c] \in Seq(Frames) /\ handled[c] \in Seq(Nat) /\ sent[c] \in 0 .. MaxLogs
         /\ MaxLogs \in Nat /\ sent[c] \in Nat /\ Len(handled[c]) \in Nat
         /\ chans[c] \subseteq {0, 1} /\ cchans[c] \subseteq {0, 1}
         /\ conn[c] \in {"none", "backlog", "open", "closed"} /\ cup[c] \in BOOLEAN
         /\ cpc[c] \in {"new", "idle", "nul", "done", "unanswered", "failed", "greeting",
                        "profile", "goahead", "iam", "log", "close1", "close0"}
<1>1. cpc[c] \in {"new", "idle", "nul", "done", "unanswered", "failed"} \union DOMAIN Expected
  BY DEF TypeOK
<1> QED BY <1>1, SessionAssumption, ExpectedIs DEF TypeOK

\* A step of a client concerns nobody else.
LEMMA ClientStep ==
  ASSUME IInv, NEW c \in Clients,
         UNCHANGED <<conn, loopVars, sessVars, histVars>>,
         cpc' \in [Clients -> {"new", "idle", "nul", "done", "unanswered", "failed"}
                            \union DOMAIN Expected],
         cup' \in [Clients -> BOOLEAN], cchans' \in [Clients -> SUBSET {0, 1}],
         rxq' \in [Clients -> Seq(Frames)], sent' \in [Clients -> 0 .. MaxLogs],
         c2s' \in [Clients -> Seq(Frames)], s2c' \in [Clients -> Seq(Frames)],
         \A d \in Clients : d # c => Unmoved(d),
         CInv(c)'
  PROVE  IInv'
<1>1. TypeOK'
  <2>1. UNCHANGED <<conn, lpc, bRun, backlog, sessions, todo, fdsetRD, fdsetWR, got,
                    chans, greeted, closed, sendQue, sending, handled, asked, freed>>
    BY DEF loopVars, sessVars, histVars
  <2> QED BY <2>1 DEF IInv, TypeOK
<1>2. Lists'
  BY DEF IInv, Lists, loopVars, Distinct
<1>3. \A d \in Clients : CInv(d)'
  BY UnmovedInv DEF IInv
<1> QED BY <1>1, <1>2, <1>3 DEF IInv

\* What sbSessSendFram does when only SEQ frames are under way to the client.
LEMMA SendFramIs ==
  ASSUME TypeOK, NEW c \in Clients, NEW channels, NEW f \in Frames, NEW q \in Seq(Frames),
         SendFram(c, q, channels, f), \A g \in Range(s2c[c]) : g.kind = "SEQ"
  PROVE  /\ rxq' \in [Clients -> Seq(Frames)] /\ c2s' \in [Clients -> Seq(Frames)]
         /\ s2c' \in [Clients -> Seq(Frames)]
         /\ \A d \in Clients : d # c =>
               rxq'[d] = rxq[d] /\ c2s'[d] = c2s[d] /\ s2c'[d] = s2c[d]
         /\ rxq'[c] = q
         /\ Range(s2c'[c]) \subseteq Range(s2c[c])
         /\ c2s'[c] = IF conn[c] = "closed" THEN c2s[c] ELSE Append(c2s[c], f)
<1>1. /\ rxq \in [Clients -> Seq(Frames)] /\ s2c \in [Clients -> Seq(Frames)]
      /\ c2s \in [Clients -> Seq(Frames)]
  BY DEF TypeOK
<1>2. /\ c2s' \in [Clients -> Seq(Frames)]
      /\ \A d \in Clients : d # c => c2s'[d] = c2s[d]
      /\ c2s'[c] = IF conn[c] = "closed" THEN c2s[c] ELSE Append(c2s[c], f)
  BY <1>1 DEF SendFram
<1>3. CASE DoReceive(c, q, channels)
  <2>1. /\ Head(s2c[c]).kind = "SEQ" /\ Tail(s2c[c]) \in Seq(Frames)
        /\ Range(Tail(s2c[c])) \subseteq Range(s2c[c])
    BY <1>1, <1>3, RangeTail DEF DoReceive
  <2>2. rxq' = [rxq EXCEPT ![c] = q] /\ s2c' = [s2c EXCEPT ![c] = Tail(@)]
    BY <1>3, <2>1 DEF DoReceive
  <2> QED BY <1>1, <1>2, <2>1, <2>2
<1>4. CASE rxq' = [rxq EXCEPT ![c] = q] /\ UNCHANGED s2c
  BY <1>1, <1>2, <1>4
<1> QED BY <1>3, <1>4 DEF SendFram

\* A client that has read every reply sends the next frame of the protocol.
LEMMA ClientSends ==
  ASSUME IInv, NEW c \in Clients, NEW f \in Frames,
         \* where it stands
         cup[c], conn[c] \in {"open", "closed"},
         \A g \in Range(s2c[c]) \union Range(sendQue[c]) :
            g.kind = "SEQ" /\ "SEQ" \in MayCome(c, cpc'[c]),
         Phase(c)',
         \* what it does
         UNCHANGED <<conn, sessVars, handled>>, cup'[c],
         rxq'[c] = <<>>, s2c'[c] \in Seq(Frames), Range(s2c'[c]) \subseteq Range(s2c[c]),
         c2s'[c] = IF conn[c] = "closed" THEN c2s[c] ELSE Append(c2s[c], f),
         \* the frame it sends
         Formed(f), f.kind \in MayGo(c, cpc'[c]),
         f.kind \in {"greeting", "start", "iam", "log", "NUL", "close"},
         f.kind = "close" => (f.arg = 1 <=> cpc'[c] = "close1"),
         \A g \in Range(c2s[c]) : Fits(c, g, f) /\ g.kind \in MayGo(c, cpc'[c]),
         conn[c] = "open" =>
           /\ cpc'[c] \in Opened => 1 \in chans[c]
           /\ cpc'[c] \in {"greeting", "close0"} => 1 \notin chans[c]
           /\ f.chan = 1 => 1 \in chans[c]
           /\ f.kind = "start" => 1 \notin chans[c]
           /\ f.kind = "close" => f.arg \in {0, 1} /\ (f.arg = 1 <=> 1 \in chans[c])
           /\ Numbered(handled[c]) /\ Logs(Append(c2s[c], f), Len(handled[c]), sent'[c]),
         cpc'[c] = "close0" => Numbered(handled[c]) /\ Len(handled[c]) = sent'[c]
  PROVE  CInv(c)'
<1>1. /\ c2s[c] \in Seq(Frames) /\ sendQue[c] \in Seq(Frames) /\ Served(c) /\ Phase(c)
      /\ s2c[c] \in Seq(Frames)
  BY TypeOf DEF IInv, CInv
<1>2. /\ sendQue'[c] = sendQue[c] /\ chans'[c] = chans[c] /\ handled'[c] = handled[c]
      /\ conn'[c] = conn[c]
  BY DEF sessVars
<1>3. Coming(c)' = Range(s2c'[c]) \union Range(sendQue[c]) /\ Range(rxq'[c]) = {}
  BY <1>2, RangeEmpty DEF Coming
<1>4. \A g \in Coming(c)' : g.kind = "SEQ" /\ "SEQ" \in MayCome(c, cpc'[c])
  BY <1>3
<1>5. /\ conn[c] = "closed" => Range(c2s'[c]) = {} /\ c2s'[c] = <<>>
      /\ conn[c] # "closed" => Range(c2s'[c]) = Range(c2s[c]) \union {f}
  <2>1. conn[c] = "closed" => c2s[c] = <<>>
    BY <1>1 DEF Phase
  <2> QED BY <1>1, <2>1, RangeAppend, RangeEmpty
<1>6. InOrder(c, c2s'[c])
  BY <1>1, OrderAppend DEF Served
<1>7. Served(c)'
  <2>1. \A g \in Range(sendQue[c]) :
           g.chan \in chans[c] /\ (g.kind = "closeok" => g.arg \in chans[c])
    BY <1>1 DEF Served
  <2>2. \A g \in Range(c2s'[c]) :
           /\ g.chan = 1 => 1 \in chans[c]
           /\ g.kind = "start" => 1 \notin chans[c]
           /\ g.kind = "close" => g.arg \in {0, 1} /\ (g.arg = 1 <=> 1 \in chans[c])
           /\ g.kind \in {"greeting", "start", "iam", "log", "NUL", "close"}
    BY <1>1, <1>5 DEF Served
  <2>3. Quiet(Range(sendQue[c]), c2s'[c])
    BY DEF Quiet
  <2>4. \A g \in Coming(c)' \union Range(c2s'[c]) : Formed(g)
    BY <1>1, <1>3, <1>5 DEF Served, Coming
  <2> QED BY <1>1, <1>2, <1>6, <2>1, <2>2, <2>3, <2>4 DEF Served
<1>8. Talks(c)'
  <2>1. InOrder(c, rxq'[c]) /\ InOrder(c, s2c'[c])
    BY <1>4, <1>3, OrderEmpty, OrderSEQ
  <2>2. /\ Ahead(c, rxq'[c], s2c'[c]) /\ Ahead(c, rxq'[c], sendQue'[c])
        /\ Ahead(c, s2c'[c], sendQue'[c])
    BY <1>3, <1>4 DEF Ahead, Fits
  <2>3. \A g \in Range(c2s'[c]) :
           /\ g.kind \in MayGo(c, cpc'[c])
           /\ g.kind = "close" => (g.arg = 1 <=> cpc'[c] = "close1")
    BY <1>5 DEF Fits
  <2>4. Quiet(Coming(c)', c2s'[c])
    BY <1>4 DEF Quiet
  <2> QED BY <1>2, <1>3, <1>4, <2>1, <2>2, <2>3, <2>4 DEF Talks
<1>9. Tally(c)'
  <2>1. cpc'[c] # "done"
    BY DEF Phase, Ends
  <2>2. conn'[c] \in {"backlog", "open"} =>
           Numbered(handled[c]) /\ Logs(c2s'[c], Len(handled[c]), sent'[c])
    BY <1>2
  <2>3. cpc'[c] = "close1" => \A g \in Coming(c)' : g.kind # "closeok"
    BY <1>4
  <2> QED BY <1>2, <2>1, <2>2, <2>3 DEF Tally
<1> QED BY <1>7, <1>8, <1>9 DEF CInv
\* The reply a client is about to take: what may come behind it, and that the
\* listener has read everything that was sent before.
LEMMA ReplyFacts ==
  ASSUME IInv, NEW c \in Clients, cup[c], rxq[c] # <<>>
  PROVE  /\ Reply(c) \in Frames /\ Reply(c) \in Coming(c) /\ Reply(c) \in Range(rxq[c])
         /\ Reply(c).kind # "SEQ" /\ Reply(c).kind \in MayCome(c, cpc[c])
         /\ Tail(rxq[c]) \in Seq(Frames) /\ Range(Tail(rxq[c])) \subseteq Range(rxq[c])
         /\ \A g \in Range(Tail(rxq[c])) : g.kind # "SEQ"
         /\ \A g \in Range(Tail(rxq[c])) \union Range(s2c[c]) \union Range(sendQue[c]) :
               Fits(c, Reply(c), g) /\ g.kind \in MayCome(c, cpc[c])
         /\ conn[c] \in {"open", "closed"}
         /\ Reply(c).kind # "greeting" => c2s[c] = <<>> /\ Range(c2s[c]) = {}
<1>1. rxq[c] \in Seq(Frames) /\ Phase(c) /\ Served(c) /\ Talks(c)
      /\ conn[c] \in {"none", "backlog", "open", "closed"}
  BY TypeOf DEF IInv, CInv
<1>2. /\ Reply(c) \in Frames /\ Reply(c) \in Range(rxq[c]) /\ Tail(rxq[c]) \in Seq(Frames)
      /\ Range(rxq[c]) = {Reply(c)} \union Range(Tail(rxq[c]))
  BY <1>1, RangeTail DEF Reply
<1>3. \A g \in Range(Tail(rxq[c])) : Fits(c, Reply(c), g)
  BY <1>1, OrderTail DEF Talks, Reply
<1>4. /\ Reply(c).kind # "SEQ" /\ Reply(c) \in Coming(c)
      /\ \A g \in Coming(c) : g.kind \in MayCome(c, cpc[c])
      /\ \A g \in Range(rxq[c]) : g.kind # "SEQ"
  BY <1>1, <1>2 DEF Talks, Coming
<1>5. \A g \in Range(s2c[c]) \union Range(sendQue[c]) : Fits(c, Reply(c), g)
  BY <1>1, <1>2 DEF Talks, Ahead
<1>6. conn[c] \in {"open", "closed"}
  BY <1>1 DEF Phase
<1>7. Reply(c).kind # "greeting" => c2s[c] = <<>>
  BY <1>1, <1>4 DEF Talks, Quiet
<1> QED BY <1>2, <1>3, <1>4, <1>5, <1>6, <1>7, RangeEmpty DEF Coming

\* Nothing but SEQ frames is under way to a client that is not in a call, and
\* nothing but log messages from it.
LEMMA IdleFacts ==
  ASSUME IInv, NEW c \in Clients, cpc[c] \in {"idle", "nul"}
  PROVE  /\ cup[c] /\ rxq[c] = <<>> /\ rxq[c] \in Seq(Frames)
         /\ \A g \in Range(s2c[c]) \union Range(sendQue[c]) : g.kind = "SEQ"
         /\ \A g \in Range(c2s[c]) : g.kind \in MayGo(c, cpc[c])
         /\ conn[c] \in {"open", "closed"}
         /\ conn[c] = "open" =>
              1 \in chans[c] /\ Numbered(handled[c])
              /\ Logs(c2s[c], Len(handled[c]), sent[c])
<1>1. /\ rxq[c] \in Seq(Frames) /\ Phase(c) /\ Talks(c) /\ Tally(c)
      /\ conn[c] \in {"none", "backlog", "open", "closed"}
  BY TypeOf DEF IInv, CInv
<1>2. cup[c] /\ conn[c] \in {"open", "closed"}
  BY <1>1 DEF Phase, Ends
<1>3. \A g \in Coming(c) : g.kind = "SEQ"
  BY <1>1, <1>2 DEF Talks, MayCome
<1>4. Range(rxq[c]) = {}
  BY <1>1, <1>2, <1>3 DEF Talks, Coming
<1>5. rxq[c] = <<>>
  BY <1>1, <1>4, RangeIdx
<1> QED BY <1>1, <1>2, <1>3, <1>5 DEF Coming, Talks, Tally, Opened

\* srAPISendLogmsg: the message joins those on their way.
LEMMA LogMesgInv ==
  ASSUME IInv, NEW c \in Clients, LogMesg(c)
  PROVE  IInv'
<1>. DEFINE f == Fram(1, "log", sent'[c])
<1>1. /\ c2s[c] \in Seq(Frames) /\ s2c[c] \in Seq(Frames) /\ sent[c] \in 0 .. MaxLogs
      /\ MaxLogs \in Nat /\ Len(handled[c]) \in Nat /\ Phase(c)
  BY TypeOf DEF IInv, CInv
<1>2. /\ cpc[c] = "idle" /\ sent[c] < MaxLogs /\ sent' = [sent EXCEPT ![c] = @ + 1]
      /\ GoTo(c, IF c \in RawClients THEN "idle" ELSE "log")
      /\ SendFram(c, rxq[c], cchans[c], f)
      /\ UNCHANGED <<cup, cchans, conn, loopVars, sessVars, histVars>>
  BY DEF LogMesg
<1>3. sent' \in [Clients -> 0 .. MaxLogs] /\ sent'[c] = sent[c] + 1
      /\ \A d \in Clients : d # c => sent'[d] = sent[d]
  BY <1>1, <1>2 DEF IInv, TypeOK
<1>4. f \in Frames /\ f.chan = 1 /\ f.kind = "log" /\ f.arg = sent[c] + 1
  BY <1>1, <1>3, FramType
<1> HIDE DEF f
<1>5. /\ cup[c] /\ rxq[c] = <<>> /\ rxq[c] \in Seq(Frames)
      /\ \A g \in Range(s2c[c]) \union Range(sendQue[c]) : g.kind = "SEQ"
      /\ \A g \in Range(c2s[c]) : g.kind \in MayGo(c, "idle")
      /\ conn[c] \in {"open", "closed"}
      /\ conn[c] = "open" =>
              1 \in chans[c] /\ Numbered(handled[c])
              /\ Logs(c2s[c], Len(handled[c]), sent[c])
  BY <1>2, IdleFacts
<1>6. /\ rxq' \in [Clients -> Seq(Frames)] /\ c2s' \in [Clients -> Seq(Frames)]
      /\ s2c' \in [Clients -> Seq(Frames)]
      /\ \A d \in Clients : d # c =>
            rxq'[d] = rxq[d] /\ c2s'[d] = c2s[d] /\ s2c'[d] = s2c[d]
      /\ rxq'[c] = <<>>
      /\ Range(s2c'[c]) \subseteq Range(s2c[c])
      /\ c2s'[c] = IF conn[c] = "closed" THEN c2s[c] ELSE Append(c2s[c], f)
  <2>1. /\ TypeOK /\ \A g \in Range(s2c[c]) : g.kind = "SEQ"
        /\ SendFram(c, <<>>, cchans[c], f)
    BY <1>2, <1>5 DEF IInv
  <2>2. f \in Frames /\ <<>> \in Seq(Frames)
    BY <1>4
  <2> QED BY <2>1, <2>2, SendFramIs
<1>7. /\ cpc' \in [Clients -> {"new", "idle", "nul", "done", "unanswered", "failed"}
                            \union DOMAIN Expected]
      /\ cpc'[c] = IF c \in RawClients THEN "idle" ELSE "log"
      /\ \A d \in Clients : d # c => cpc'[d] = cpc[d]
  BY <1>2, ExpectedIs DEF GoTo, IInv, TypeOK
<1>8. Phase(c)'
  <2>1. c \notin Strangers /\ c \notin RawClients => c \in CookedClients
    BY <1>1, <1>2 DEF Phase, Clients
  <2> QED BY <1>1, <1>2, <1>3, <1>5, <1>6, <1>7, <2>1 DEF Phase, Ends, sessVars, histVars
<1>9. CInv(c)'
  <2>1. c \notin RawClients => Range(c2s[c]) = {}
    BY <1>5 DEF MayGo
  <2>2. \A g \in Range(c2s[c]) : g.kind = "log" /\ c \in RawClients
    BY <1>5, <2>1 DEF MayGo
  <2>3. conn[c] = "open" => Logs(Append(c2s[c], f), Len(handled[c]), sent'[c])
    BY <1>1, <1>3, <1>4, <1>5, <2>2, LogsAppend
  <2>4. "SEQ" \in MayCome(c, cpc'[c]) /\ "log" \in MayGo(c, cpc'[c])
    BY <1>7 DEF MayCome, MayGo
  <2>5. UNCHANGED <<conn, sessVars, handled, cup>>
    BY <1>2 DEF histVars
  <2>6. \A g \in Range(c2s[c]) : Fits(c, g, f) /\ g.kind \in MayGo(c, cpc'[c])
    BY <2>2, <2>4 DEF Fits
  <2>7. cpc'[c] \notin {"greeting", "close0"} /\ Formed(f)
    BY <1>4, <1>7 DEF Formed
  <2> QED BY <1>3, <1>4, <1>5, <1>6, <1>8, <2>3, <2>4, <2>5, <2>6, <2>7, ClientSends
<1> QED
  <2>1. \A d \in Clients : d # c => Unmoved(d)
    BY <1>2, <1>3, <1>6, <1>7 DEF Unmoved, sessVars, histVars
  <2>2. cup' \in [Clients -> BOOLEAN] /\ cchans' \in [Clients -> SUBSET {0, 1}]
    BY <1>2 DEF IInv, TypeOK
  <2> QED BY <1>2, <1>3, <1>6, <1>7, <1>9, <2>1, <2>2, ClientStep
\* The same for a step that logs nothing.
LEMMA SendStep ==
  ASSUME IInv, NEW c \in Clients, NEW pc, NEW channels, NEW f \in Frames,
         pc \in {"profile", "iam", "nul", "close1", "close0"},
         pc = "nul" => c \in RawClients, pc = "iam" => c \in CookedClients,
         pc \in {"profile", "close1"} => c \notin Strangers,
         cup[c], conn[c] \in {"open", "closed"},
         \A g \in Range(s2c[c]) \union Range(sendQue[c]) :
            g.kind = "SEQ" /\ "SEQ" \in MayCome(c, pc),
         GoTo(c, pc), SendFram(c, <<>>, channels, f),
         cchans' \in [Clients -> SUBSET {0, 1}],
         cchans'[c] = IF pc = "close0" THEN {0} ELSE {0, 1},
         \A d \in Clients : d # c => cchans'[d] = cchans[d],
         UNCHANGED <<cup, sent, conn, loopVars, sessVars, histVars>>,
         Formed(f), f.kind \in MayGo(c, pc), f.kind \in {"start", "iam", "NUL", "close"},
         f.kind = "close" => (f.arg = 1 <=> pc = "close1"),
         \A g \in Range(c2s[c]) : Fits(c, g, f) /\ g.kind \in MayGo(c, pc),
         conn[c] = "open" =>
           /\ pc \in Opened => 1 \in chans[c]
           /\ pc = "close0" => 1 \notin chans[c]
           /\ f.chan = 1 => 1 \in chans[c]
           /\ f.kind = "start" => 1 \notin chans[c]
           /\ f.kind = "close" => f.arg \in {0, 1} /\ (f.arg = 1 <=> 1 \in chans[c]),
         pc = "close0" => Numbered(handled[c]) /\ Len(handled[c]) = sent[c]
  PROVE  IInv'
<1>1. /\ c2s[c] \in Seq(Frames) /\ s2c[c] \in Seq(Frames) /\ sent[c] \in Nat
      /\ Len(handled[c]) \in Nat /\ Phase(c) /\ Tally(c)
  BY TypeOf DEF IInv, CInv
<1>2. /\ rxq' \in [Clients -> Seq(Frames)] /\ c2s' \in [Clients -> Seq(Frames)]
      /\ s2c' \in [Clients -> Seq(Frames)]
      /\ \A d \in Clients : d # c =>
            rxq'[d] = rxq[d] /\ c2s'[d] = c2s[d] /\ s2c'[d] = s2c[d]
      /\ rxq'[c] = <<>>
      /\ Range(s2c'[c]) \subseteq Range(s2c[c])
      /\ c2s'[c] = IF conn[c] = "closed" THEN c2s[c] ELSE Append(c2s[c], f)
  <2>1. TypeOK /\ <<>> \in Seq(Frames)
    BY DEF IInv
  <2> QED BY <2>1, SendFramIs
<1>3. /\ cpc' \in [Clients -> {"new", "idle", "nul", "done", "unanswered", "failed"}
                            \union DOMAIN Expected]
      /\ cpc'[c] = pc /\ \A d \in Clients : d # c => cpc'[d] = cpc[d]
  BY ExpectedIs DEF GoTo, IInv, TypeOK
<1>4. /\ cchans' \in [Clients -> SUBSET {0, 1}] /\ cup' \in [Clients -> BOOLEAN]
      /\ sent' \in [Clients -> 0 .. MaxLogs]
      /\ cchans'[c] = IF pc = "close0" THEN {0} ELSE {0, 1}
      /\ \A d \in Clients : d # c => cchans'[d] = cchans[d]
  BY DEF IInv, TypeOK
<1>5. UNCHANGED <<conn, sessVars, handled, cup, sent>>
  BY DEF histVars
<1>6. conn[c] = "open" =>
         Numbered(handled[c]) /\ Logs(Append(c2s[c], f), Len(handled[c]), sent'[c])
  BY <1>1, <1>5, LogsAppend DEF Tally
<1>7. Phase(c)'
  BY <1>1, <1>2, <1>3, <1>4, <1>5 DEF Phase, Ends, sessVars
<1>8. CInv(c)'
  <2>1. s2c'[c] \in Seq(Frames) /\ cup'[c]
    BY <1>2, <1>5
  <2>2. cpc'[c] \in {"greeting", "close0"} => pc = "close0"
    BY <1>3
  <2>3. sent'[c] = sent[c]
    BY <1>5
  <2> QED BY <1>2, <1>3, <1>5, <1>6, <1>7, <2>1, <2>2, <2>3, ClientSends
<1>9. \A d \in Clients : d # c => Unmoved(d)
  BY <1>2, <1>3, <1>4, <1>5 DEF Unmoved, sessVars, histVars
<1> QED BY <1>2, <1>3, <1>4, <1>8, <1>9, ClientStep

\* The greeting is answered by a start request, or by a request to close.
LEMMA TakeGreetingInv ==
  ASSUME IInv, NEW c \in Clients, TakeGreeting(c)
  PROVE  IInv'
<1>1. /\ c2s[c] \in Seq(Frames) /\ s2c[c] \in Seq(Frames) /\ sendQue[c] \in Seq(Frames)
      /\ handled[c] \in Seq(Nat) /\ sent[c] \in Nat
      /\ Phase(c) /\ Talks(c) /\ Tally(c)
  BY TypeOf DEF IInv, CInv
<1>2. cpc[c] = "greeting" /\ rxq[c] # <<>> /\ cup[c]
  BY <1>1 DEF TakeGreeting, Takes, Phase, Ends
<1>3. /\ Reply(c).kind = "greeting"
      /\ \A g \in Range(Tail(rxq[c])) \union Range(s2c[c]) \union Range(sendQue[c]) : FALSE
      /\ Tail(rxq[c]) \in Seq(Frames) /\ conn[c] \in {"open", "closed"}
  BY <1>2, ReplyFacts DEF MayCome, Fits
<1>4. Tail(rxq[c]) = <<>> /\ Range(s2c[c]) = {} /\ Range(sendQue[c]) = {}
  BY <1>3, RangeIdx
<1>5. \A g \in Range(c2s[c]) : g.kind = "greeting"
  BY <1>1, <1>2 DEF Talks, MayGo
<1>6. /\ conn[c] = "open" => 1 \notin chans[c]
      /\ Numbered(handled[c]) /\ Len(handled[c]) = sent[c]
  BY <1>1, <1>2 DEF Talks, Phase, Numbered
<1>7. CASE c \notin Strangers
  <2>. DEFINE f == Fram(0, "start", 1)
  <2>1. f \in Frames /\ f.chan = 0 /\ f.kind = "start"
    BY FramType
  <2>2. TakeAndSend(c, {0, 1}, f, "profile")
    BY <1>3, <1>7 DEF TakeGreeting
  <2> HIDE DEF f
  <2>3. /\ Formed(f) /\ f.kind \in MayGo(c, "profile")
        /\ \A g \in Range(c2s[c]) : Fits(c, g, f) /\ g.kind \in MayGo(c, "profile")
    BY <1>5, <2>1 DEF Formed, MayGo, Fits
  <2>4. /\ GoTo(c, "profile") /\ SendFram(c, <<>>, {0, 1}, f)
        /\ cchans' = [cchans EXCEPT ![c] = {0, 1}]
        /\ UNCHANGED <<cup, sent, conn, loopVars, sessVars, histVars>>
    BY <1>4, <2>2 DEF TakeAndSend
  <2>5. /\ cchans' \in [Clients -> SUBSET {0, 1}] /\ cchans'[c] = {0, 1}
        /\ \A d \in Clients : d # c => cchans'[d] = cchans[d]
    BY <2>4 DEF IInv, TypeOK
  <2> QED BY <1>2, <1>3, <1>4, <1>6, <1>7, <2>1, <2>2, <2>3, <2>4, <2>5, SendStep DEF Opened
<1>8. CASE c \in Strangers
  <2>. DEFINE f == Fram(0, "close", 0)
  <2>1. f \in Frames /\ f.chan = 0 /\ f.kind = "close" /\ f.arg = 0
    BY FramType
  <2>2. TakeAndSend(c, {0}, f, "close0")
    BY <1>3, <1>8 DEF TakeGreeting
  <2> HIDE DEF f
  <2>3. /\ Formed(f) /\ f.kind \in MayGo(c, "close0")
        /\ \A g \in Range(c2s[c]) : Fits(c, g, f) /\ g.kind \in MayGo(c, "close0")
    BY <1>5, <2>1 DEF Formed, MayGo, Fits
  <2>4. /\ GoTo(c, "close0") /\ SendFram(c, <<>>, {0}, f)
        /\ cchans' = [cchans EXCEPT ![c] = {0}]
        /\ UNCHANGED <<cup, sent, conn, loopVars, sessVars, histVars>>
    BY <1>4, <2>2 DEF TakeAndSend
  <2>5. /\ cchans' \in [Clients -> SUBSET {0, 1}] /\ cchans'[c] = {0}
        /\ \A d \in Clients : d # c => cchans'[d] = cchans[d]
    BY <2>4 DEF IInv, TypeOK
  <2> QED BY <1>2, <1>3, <1>4, <1>6, <1>8, <2>1, <2>2, <2>3, <2>4, <2>5, SendStep DEF Opened
<1> QED BY <1>7, <1>8
\* A client takes a reply and returns, or goes on waiting.
LEMMA TakeStep ==
  ASSUME IInv, NEW c \in Clients, NEW pc \in {"goahead", "idle"},
         cup[c], rxq[c] # <<>>, TakeOnly(c, pc), Reply(c).kind # "greeting",
         pc = "goahead" => c \in RawClients, c \notin Strangers, cpc[c] # "close0",
         cpc[c] # "greeting",
         \A g \in Range(Tail(rxq[c])) \union Range(s2c[c]) \union Range(sendQue[c]) :
            g.kind \in MayCome(c, pc),
         conn[c] = "open" => 1 \in chans[c]
  PROVE  IInv'
<1>1. /\ c2s[c] \in Seq(Frames) /\ s2c[c] \in Seq(Frames) /\ sendQue[c] \in Seq(Frames)
      /\ rxq[c] \in Seq(Frames) /\ Phase(c) /\ Served(c) /\ Talks(c) /\ Tally(c)
  BY TypeOf DEF IInv, CInv
<1>2. /\ Tail(rxq[c]) \in Seq(Frames) /\ Range(Tail(rxq[c])) \subseteq Range(rxq[c])
      /\ \A g \in Range(Tail(rxq[c])) : g.kind # "SEQ"
      /\ conn[c] \in {"open", "closed"}
      /\ c2s[c] = <<>> /\ Range(c2s[c]) = {}
  BY ReplyFacts
<1>3. /\ cpc' \in [Clients -> {"new", "idle", "nul", "done", "unanswered", "failed"}
                            \union DOMAIN Expected]
      /\ cpc'[c] = pc /\ \A d \in Clients : d # c => cpc'[d] = cpc[d]
      /\ rxq' \in [Clients -> Seq(Frames)] /\ rxq'[c] = Tail(rxq[c])
      /\ \A d \in Clients : d # c => rxq'[d] = rxq[d]
  BY <1>2, ExpectedIs DEF TakeOnly, GoTo, IInv, TypeOK
<1>4. UNCHANGED <<cup, cchans, sent, c2s, s2c, conn, chans, sendQue, handled, loopVars,
                  sessVars, histVars>>
  BY DEF TakeOnly, wireVars, sessVars, histVars
<1>5. Coming(c)' = Range(Tail(rxq[c])) \union Range(s2c[c]) \union Range(sendQue[c])
      /\ Coming(c)' \subseteq Coming(c)
  BY <1>2, <1>3, <1>4 DEF Coming
<1>6. Phase(c)'
  BY <1>1, <1>2, <1>3, <1>4 DEF Phase, Ends
<1>7. Served(c)'
  BY <1>1, <1>4, <1>5 DEF Served
<1>8. Talks(c)'
  <2>1. InOrder(c, rxq'[c])
    BY <1>1, <1>3, OrderTail DEF Talks
  <2>2. Ahead(c, rxq'[c], s2c[c]) /\ Ahead(c, rxq'[c], sendQue[c])
    BY <1>1, <1>2, <1>3 DEF Talks, Ahead
  <2>3. \A g \in Coming(c)' : g.kind \in MayCome(c, cpc'[c])
    BY <1>3, <1>5
  <2>4. \A g \in Coming(c)' : g.kind # "profile"
    BY <1>3, <2>3 DEF MayCome
  <2>5. Quiet(Coming(c)', c2s'[c])
    BY <1>2, <1>4 DEF Quiet
  <2>6. InOrder(c, s2c[c]) /\ Ahead(c, s2c[c], sendQue[c])
    BY <1>1 DEF Talks
  <2> QED BY <1>2, <1>3, <1>4, <2>1, <2>2, <2>3, <2>4, <2>5, <2>6 DEF Talks
<1>9. Tally(c)'
  BY <1>1, <1>3, <1>4 DEF Tally
<1>10. CInv(c)'
  BY <1>6, <1>7, <1>8, <1>9 DEF CInv
<1>11. \A d \in Clients : d # c => Unmoved(d)
  BY <1>3, <1>4 DEF Unmoved
<1>12. /\ cup' \in [Clients -> BOOLEAN] /\ cchans' \in [Clients -> SUBSET {0, 1}]
       /\ sent' \in [Clients -> 0 .. MaxLogs] /\ c2s' \in [Clients -> Seq(Frames)]
       /\ s2c' \in [Clients -> Seq(Frames)]
  BY <1>4 DEF IInv, TypeOK
<1> QED BY <1>3, <1>4, <1>10, <1>11, <1>12, ClientStep

\* The answer to the start request is read.
LEMMA TakeProfileInv ==
  ASSUME IInv, NEW c \in Clients, TakeProfile(c)
  PROVE  IInv'
<1>1. /\ rxq[c] \in Seq(Frames) /\ s2c[c] \in Seq(Frames) /\ sendQue[c] \in Seq(Frames)
      /\ Phase(c) /\ Served(c) /\ Talks(c)
  BY TypeOf DEF IInv, CInv
<1>2. cpc[c] = "profile" /\ rxq[c] # <<>> /\ cup[c] /\ c \notin Strangers
  BY <1>1 DEF TakeProfile, Takes, Phase, Ends
<1>3. /\ Reply(c).kind \in {"profile", "goahead"} /\ Reply(c) \in Coming(c)
      /\ Tail(rxq[c]) \in Seq(Frames) /\ conn[c] \in {"open", "closed"}
      /\ c2s[c] = <<>> /\ Range(c2s[c]) = {}
      /\ \A g \in Range(Tail(rxq[c])) \union Range(s2c[c]) \union Range(sendQue[c]) :
            Fits(c, Reply(c), g) /\ g.kind \in MayCome(c, "profile")
  BY <1>2, ReplyFacts DEF MayCome
<1>4. Coming(c) = {Reply(c)} \union Range(Tail(rxq[c])) \union Range(s2c[c])
                               \union Range(sendQue[c])
  BY <1>1, <1>2, RangeTail DEF Coming, Reply
<1>5. Reply(c).kind = "profile"
  <2>. SUFFICES ASSUME Reply(c).kind = "goahead" PROVE FALSE
    BY <1>3
  <2>1. PICK g \in Coming(c) : g.kind = "profile"
    BY <1>1, <1>2, <1>3 DEF Talks
  <2> QED BY <1>3, <1>4, <2>1 DEF Fits
<1>6. \A g \in Range(Tail(rxq[c])) \union Range(s2c[c]) \union Range(sendQue[c]) :
            g.kind = "goahead" /\ c \in RawClients
  BY <1>3, <1>5 DEF Fits, MayCome
<1>7. conn[c] = "open" => 1 \in chans[c]
  BY <1>1, <1>2, <1>3, <1>5 DEF Talks
<1>8. CASE c \in RawClients
  <2>1. TakeOnly(c, "goahead")
    BY <1>5, <1>8 DEF TakeProfile
  <2>2. \A g \in Range(Tail(rxq[c])) \union Range(s2c[c]) \union Range(sendQue[c]) :
            g.kind \in MayCome(c, "goahead")
    BY <1>6 DEF MayCome
  <2> QED BY <1>2, <1>5, <1>7, <1>8, <2>1, <2>2, TakeStep
<1>9. CASE c \notin RawClients
  <2>. DEFINE f == Fram(1, "iam", 0)
  <2>1. f \in Frames /\ f.chan = 1 /\ f.kind = "iam"
    BY FramType
  <2>2. TakeAndSend(c, {0, 1}, f, "iam")
    BY <1>5, <1>9 DEF TakeProfile
  <2> HIDE DEF f
  <2>3. Tail(rxq[c]) = <<>> /\ Range(s2c[c]) = {} /\ Range(sendQue[c]) = {}
    BY <1>3, <1>6, <1>9, NothingIn
  <2>4. /\ GoTo(c, "iam") /\ SendFram(c, <<>>, {0, 1}, f)
        /\ cchans' = [cchans EXCEPT ![c] = {0, 1}]
        /\ UNCHANGED <<cup, sent, conn, loopVars, sessVars, histVars>>
    BY <2>2, <2>3 DEF TakeAndSend
  <2>5. /\ cchans' \in [Clients -> SUBSET {0, 1}] /\ cchans'[c] = {0, 1}
        /\ \A d \in Clients : d # c => cchans'[d] = cchans[d]
    BY <2>4 DEF IInv, TypeOK
  <2>6. Formed(f) /\ f.kind \in MayGo(c, "iam") /\ c \in CookedClients
    BY <1>2, <1>9, <2>1 DEF Formed, MayGo, Clients
  <2> QED BY <1>2, <1>3, <1>7, <2>1, <2>3, <2>4, <2>5, <2>6, SendStep DEF Opened
<1> QED BY <1>8, <1>9

\* COOKED: the answer to the introduction is read.
LEMMA TakeIamReplyInv ==
  ASSUME IInv, NEW c \in Clients, TakeIamReply(c)
  PROVE  IInv'
<1>1. Phase(c) /\ Talks(c)
  BY DEF IInv, CInv
<1>2. /\ cpc[c] = "iam" /\ rxq[c] # <<>> /\ TakeOnly(c, "idle") /\ cup[c]
      /\ c \notin Strangers
  BY <1>1, SessionAssumption DEF TakeIamReply, Takes, Phase, Ends
<1>3. /\ Reply(c).kind = "ok"
      /\ \A g \in Range(Tail(rxq[c])) \union Range(s2c[c]) \union Range(sendQue[c]) :
            g.kind = "SEQ"
      /\ conn[c] \in {"open", "closed"}
  BY <1>2, ReplyFacts DEF MayCome, Fits
<1>4. \A g \in Range(Tail(rxq[c])) \union Range(s2c[c]) \union Range(sendQue[c]) :
            g.kind \in MayCome(c, "idle")
  BY <1>3 DEF MayCome
<1>5. conn[c] = "open" => 1 \in chans[c]
  BY <1>1, <1>2 DEF Talks, Opened
<1> QED BY <1>2, <1>3, <1>4, <1>5, TakeStep

\* RAW: the NUL follows the last message.
LEMMA CloseLogInv ==
  ASSUME IInv, NEW c \in Clients, CloseLog(c)
  PROVE  IInv'
<1>. DEFINE f == Fram(1, "NUL", 0)
<1>1. /\ cpc[c] = "idle" /\ c \in RawClients /\ GoTo(c, "nul")
      /\ SendFram(c, rxq[c], cchans[c], f)
      /\ UNCHANGED <<cup, cchans, sent, conn, loopVars, sessVars, histVars>>
  BY DEF CloseLog
<1>2. f \in Frames /\ f.chan = 1 /\ f.kind = "NUL"
  BY FramType
<1> HIDE DEF f
<1>3. /\ cup[c] /\ rxq[c] = <<>>
      /\ \A g \in Range(s2c[c]) \union Range(sendQue[c]) : g.kind = "SEQ"
      /\ \A g \in Range(c2s[c]) : g.kind \in MayGo(c, "idle")
      /\ conn[c] \in {"open", "closed"}
      /\ conn[c] = "open" => 1 \in chans[c]
  BY <1>1, IdleFacts
<1>4. /\ "SEQ" \in MayCome(c, "nul") /\ f.kind \in MayGo(c, "nul") /\ Formed(f)
      /\ \A g \in Range(c2s[c]) : Fits(c, g, f) /\ g.kind \in MayGo(c, "nul")
  BY <1>1, <1>2, <1>3 DEF MayCome, MayGo, Formed, Fits
<1>5. /\ cchans' \in [Clients -> SUBSET {0, 1}] /\ cchans'[c] = {0, 1}
      /\ \A d \in Clients : d # c => cchans'[d] = cchans[d]
  BY <1>1, <1>3 DEF IInv, TypeOK, CInv, Phase
<1>6. SendFram(c, <<>>, cchans[c], f)
  BY <1>1, <1>3
<1> QED BY <1>1, <1>2, <1>3, <1>4, <1>5, <1>6, SendStep DEF Opened

\* The request to close channel 1 follows everything else.
LEMMA CloseChanInv ==
  ASSUME IInv, NEW c \in Clients, CloseChan(c)
  PROVE  IInv'
<1>. DEFINE f == Fram(0, "close", 1)
<1>1. /\ cpc[c] = IF c \in RawClients THEN "nul" ELSE "idle"
      /\ GoTo(c, "close1") /\ SendFram(c, rxq[c], cchans[c], f)
      /\ UNCHANGED <<cup, cchans, sent, conn, loopVars, sessVars, histVars>>
  BY DEF CloseChan
<1>2. f \in Frames /\ f.chan = 0 /\ f.kind = "close" /\ f.arg = 1
  BY FramType
<1> HIDE DEF f
<1>3. /\ cup[c] /\ rxq[c] = <<>>
      /\ \A g \in Range(s2c[c]) \union Range(sendQue[c]) : g.kind = "SEQ"
      /\ \A g \in Range(c2s[c]) : g.kind \in MayGo(c, cpc[c])
      /\ conn[c] \in {"open", "closed"}
      /\ conn[c] = "open" => 1 \in chans[c]
  BY <1>1, IdleFacts
<1>4. c \notin Strangers
  BY <1>1, SessionAssumption DEF IInv, CInv, Phase
<1>5. /\ "SEQ" \in MayCome(c, "close1") /\ f.kind \in MayGo(c, "close1") /\ Formed(f)
      /\ \A g \in Range(c2s[c]) : Fits(c, g, f) /\ g.kind \in MayGo(c, "close1")
  BY <1>1, <1>2, <1>3 DEF MayCome, MayGo, Formed, Fits
<1>6. /\ cchans' \in [Clients -> SUBSET {0, 1}] /\ cchans'[c] = {0, 1}
      /\ \A d \in Clients : d # c => cchans'[d] = cchans[d]
  BY <1>1, <1>3 DEF IInv, TypeOK, CInv, Phase
<1>7. SendFram(c, <<>>, cchans[c], f)
  BY <1>1, <1>3
<1> QED BY <1>1, <1>2, <1>3, <1>4, <1>5, <1>6, <1>7, SendStep DEF Opened

\* Channel 1 is closed: all messages have been handed over.
LEMMA TakeCloseReplyInv ==
  ASSUME IInv, NEW c \in Clients, TakeCloseReply(c)
  PROVE  IInv'
<1>. DEFINE f == Fram(0, "close", 0)
<1>1. cpc[c] = "close1" /\ rxq[c] # <<>> /\ TakeAndSend(c, {0}, f, "close0")
  BY DEF TakeCloseReply, Takes
<1>2. f \in Frames /\ f.chan = 0 /\ f.kind = "close" /\ f.arg = 0
  BY FramType
<1> HIDE DEF f
<1>3. cup[c] /\ Talks(c) /\ Tally(c)
  BY <1>1 DEF IInv, CInv, Phase, Ends
<1>4. /\ Reply(c).kind = "closeok" /\ Reply(c) \in Coming(c) /\ Reply(c) \in Range(rxq[c])
      /\ \A g \in Range(Tail(rxq[c])) \union Range(s2c[c]) \union Range(sendQue[c]) : FALSE
      /\ Tail(rxq[c]) \in Seq(Frames) /\ conn[c] \in {"open", "closed"}
      /\ Range(c2s[c]) = {}
  BY <1>1, <1>3, ReplyFacts DEF MayCome, Fits
<1>5. Tail(rxq[c]) = <<>>
  BY <1>4, NothingIn
<1>6. /\ conn[c] = "open" => 1 \notin chans[c]
      /\ Numbered(handled[c]) /\ Len(handled[c]) = sent[c]
  BY <1>1, <1>3, <1>4 DEF Talks, Tally
<1>7. /\ GoTo(c, "close0") /\ SendFram(c, <<>>, {0}, f)
      /\ cchans' = [cchans EXCEPT ![c] = {0}]
      /\ UNCHANGED <<cup, sent, conn, loopVars, sessVars, histVars>>
  BY <1>1, <1>5 DEF TakeAndSend
<1>8. /\ cchans' \in [Clients -> SUBSET {0, 1}] /\ cchans'[c] = {0}
      /\ \A d \in Clients : d # c => cchans'[d] = cchans[d]
  BY <1>7 DEF IInv, TypeOK
<1>9. Formed(f) /\ f.kind \in MayGo(c, "close0")
  BY <1>2 DEF Formed, MayGo
<1>10. /\ \A g \in Range(s2c[c]) \union Range(sendQue[c]) :
             g.kind = "SEQ" /\ "SEQ" \in MayCome(c, "close0")
       /\ \A g \in Range(c2s[c]) : Fits(c, g, f) /\ g.kind \in MayGo(c, "close0")
       /\ conn[c] \in {"open", "closed"}
  BY <1>4
<1> QED BY <1>2, <1>3, <1>6, <1>7, <1>8, <1>9, <1>10, SendStep DEF Opened

\* RAW: the listener's own MSG is read, the client may log.
LEMMA TakeGoAheadInv ==
  ASSUME IInv, NEW c \in Clients, TakeGoAhead(c)
  PROVE  IInv'
<1>1. Phase(c) /\ Talks(c)
  BY DEF IInv, CInv
<1>2. cpc[c] = "goahead" /\ rxq[c] # <<>> /\ cup[c] /\ c \notin Strangers
  BY <1>1, SessionAssumption DEF TakeGoAhead, Takes, Phase, Ends
<1>3. /\ Reply(c).kind = "goahead"
      /\ \A g \in Range(Tail(rxq[c])) \union Range(s2c[c]) \union Range(sendQue[c]) : FALSE
      /\ conn[c] \in {"open", "closed"}
  BY <1>2, ReplyFacts DEF MayCome, Fits
<1>4. conn[c] = "open" => 1 \in chans[c]
  BY <1>1, <1>2 DEF Talks, Opened
<1>5. TakeOnly(c, "idle")
  BY <1>3 DEF TakeGoAhead
<1> QED BY <1>2, <1>3, <1>4, <1>5, TakeStep

\* COOKED: the answer to a message is read, the client may log the next one.
LEMMA TakeLogReplyInv ==
  ASSUME IInv, NEW c \in Clients, TakeLogReply(c)
  PROVE  IInv'
<1>1. Phase(c) /\ Talks(c)
  BY DEF IInv, CInv
<1>2. cpc[c] = "log" /\ rxq[c] # <<>> /\ cup[c] /\ c \notin Strangers
  BY <1>1, SessionAssumption DEF TakeLogReply, Takes, Phase, Ends
<1>3. /\ Reply(c).kind = "ok"
      /\ \A g \in Range(Tail(rxq[c])) \union Range(s2c[c]) \union Range(sendQue[c]) :
            g.kind = "SEQ"
      /\ conn[c] \in {"open", "closed"}
  BY <1>2, ReplyFacts DEF MayCome, Fits
<1>4. \A g \in Range(Tail(rxq[c])) \union Range(s2c[c]) \union Range(sendQue[c]) :
            g.kind \in MayCome(c, "idle")
  BY <1>3 DEF MayCome
<1>5. conn[c] = "open" => 1 \in chans[c]
  BY <1>1, <1>2 DEF Talks, Opened
<1>6. TakeOnly(c, "idle")
  BY <1>3 DEF TakeLogReply
<1> QED BY <1>2, <1>3, <1>4, <1>5, <1>6, TakeStep

\* A client that is gone asks nothing more of its session than that the
\* listener's side of it is consistent.
LEMMA ClientEnds ==
  ASSUME IInv, NEW c \in Clients, cup[c], ~cup'[c],
         cpc'[c] \in {"done", "unanswered", "failed"},
         UNCHANGED <<sent, s2c, conn, sessVars, handled>>,
         Range(rxq'[c]) \subseteq Range(rxq[c]),
         rxq[c] = <<>> => rxq'[c] = <<>>,
         InOrder(c, c2s'[c]), Range(c2s'[c]) \subseteq Range(c2s[c]),
         c2s[c] = <<>> => c2s'[c] = <<>>,
         cpc'[c] = "done" => /\ conn[c] # "backlog" /\ c2s'[c] = <<>>
                             /\ Numbered(handled[c]) /\ Len(handled[c]) = sent[c],
         conn[c] = "backlog" => cpc'[c] = "failed"
  PROVE  CInv(c)'
<1>1. Phase(c) /\ Served(c)
  BY DEF IInv, CInv
<1>2. /\ sendQue'[c] = sendQue[c] /\ chans'[c] = chans[c] /\ handled'[c] = handled[c]
      /\ conn'[c] = conn[c] /\ sent'[c] = sent[c] /\ s2c'[c] = s2c[c]
  BY DEF sessVars
<1>3. Coming(c)' \subseteq Coming(c)
  BY <1>2 DEF Coming
<1>4. Phase(c)'
  BY <1>1, <1>2 DEF Phase, Ends
<1>5. Served(c)'
  <2>1. Quiet(Range(sendQue[c]), c2s'[c])
    BY <1>1 DEF Served, Quiet
  <2> QED BY <1>1, <1>2, <1>3, <2>1 DEF Served
<1>6. Talks(c)' /\ Tally(c)'
  BY <1>2 DEF Talks, Tally
<1> QED BY <1>4, <1>5, <1>6 DEF CInv

\* srAPICloseLog has all its answers.
LEMMA TakeLastReplyInv ==
  ASSUME IInv, NEW c \in Clients, TakeLastReply(c)
  PROVE  IInv'
<1>1. /\ cpc[c] = "close0" /\ rxq[c] # <<>> /\ GoTo(c, "done")
      /\ cup' = [cup EXCEPT ![c] = FALSE] /\ cchans' = [cchans EXCEPT ![c] = {}]
      /\ rxq' = [rxq EXCEPT ![c] = Tail(@)]
      /\ UNCHANGED <<sent, wireVars, loopVars, sessVars, histVars>>
  BY DEF TakeLastReply, Takes
<1>2. cup[c] /\ Talks(c) /\ Tally(c)
  BY <1>1 DEF IInv, CInv, Phase, Ends
<1>3. /\ Reply(c).kind = "closeok" /\ conn[c] \in {"open", "closed"} /\ c2s[c] = <<>>
      /\ Tail(rxq[c]) \in Seq(Frames) /\ Range(Tail(rxq[c])) \subseteq Range(rxq[c])
  BY <1>1, <1>2, ReplyFacts DEF MayCome
<1>4. /\ cpc' \in [Clients -> {"new", "idle", "nul", "done", "unanswered", "failed"}
                            \union DOMAIN Expected]
      /\ cpc'[c] = "done" /\ ~cup'[c] /\ rxq'[c] = Tail(rxq[c])
      /\ cup' \in [Clients -> BOOLEAN] /\ cchans' \in [Clients -> SUBSET {0, 1}]
      /\ rxq' \in [Clients -> Seq(Frames)]
      /\ \A d \in Clients : d # c => /\ cpc'[d] = cpc[d] /\ cup'[d] = cup[d]
                                     /\ cchans'[d] = cchans[d] /\ rxq'[d] = rxq[d]
  BY <1>1, <1>3 DEF GoTo, IInv, TypeOK
<1>5. UNCHANGED <<sent, s2c, c2s, conn, sessVars, handled, loopVars, histVars, chans, sendQue>>
  BY <1>1 DEF wireVars, histVars, sessVars
<1>6. CInv(c)'
  <2>1. InOrder(c, c2s'[c]) /\ c2s'[c] = c2s[c]
    BY <1>3, <1>5, OrderEmpty
  <2>2. Numbered(handled[c]) /\ Len(handled[c]) = sent[c]
    BY <1>1, <1>2 DEF Tally
  <2>3. Range(rxq'[c]) \subseteq Range(rxq[c])
    BY <1>3, <1>4
  <2> QED BY <1>1, <1>2, <1>3, <1>4, <1>5, <2>1, <2>2, <2>3, ClientEnds
<1>7. \A d \in Clients : d # c => Unmoved(d)
  BY <1>4, <1>5 DEF Unmoved
<1>8. /\ sent' \in [Clients -> 0 .. MaxLogs] /\ c2s' \in [Clients -> Seq(Frames)]
      /\ s2c' \in [Clients -> Seq(Frames)]
  BY <1>5 DEF IInv, TypeOK
<1> QED BY <1>4, <1>5, <1>6, <1>7, <1>8, ClientStep

\* A client that dies may leave its last frames cut off.
LEMMA DieInv ==
  ASSUME IInv, NEW c \in Clients, Die(c)
  PROVE  IInv'
<1>1. PICK n \in 0 .. Len(c2s[c]) : c2s' = [c2s EXCEPT ![c] = SubSeq(@, 1, n)]
  BY DEF Die, GiveUp
<1>2. /\ cup[c] /\ GoTo(c, "failed") /\ cup' = [cup EXCEPT ![c] = FALSE]
      /\ UNCHANGED <<cchans, rxq, sent, s2c, conn, loopVars, sessVars, histVars>>
  BY DEF Die, GiveUp, IInv, CInv, Phase, Ends
<1>3. c2s[c] \in Seq(Frames) /\ Served(c)
  BY TypeOf DEF IInv, CInv
<1>4. /\ SubSeq(c2s[c], 1, n) \in Seq(Frames) /\ Len(SubSeq(c2s[c], 1, n)) = n
      /\ Range(SubSeq(c2s[c], 1, n)) \subseteq Range(c2s[c])
      /\ InOrder(c, SubSeq(c2s[c], 1, n))
  BY <1>3, RangeFront, OrderFront DEF Served
<1>5. c2s[c] = <<>> => SubSeq(c2s[c], 1, n) = <<>>
  BY <1>4, RangeEmpty, NothingIn
<1>6. /\ cpc' \in [Clients -> {"new", "idle", "nul", "done", "unanswered", "failed"}
                            \union DOMAIN Expected]
      /\ cpc'[c] = "failed" /\ ~cup'[c] /\ c2s'[c] = SubSeq(c2s[c], 1, n)
      /\ cup' \in [Clients -> BOOLEAN] /\ c2s' \in [Clients -> Seq(Frames)]
      /\ \A d \in Clients : d # c => /\ cpc'[d] = cpc[d] /\ cup'[d] = cup[d]
                                     /\ c2s'[d] = c2s[d]
  BY <1>1, <1>2, <1>4 DEF GoTo, IInv, TypeOK
<1>7. UNCHANGED <<cchans, rxq, sent, s2c, conn, sessVars, handled, loopVars, histVars,
                  chans, sendQue>>
  BY <1>2 DEF histVars, sessVars
<1>8. CInv(c)'
  BY <1>2, <1>4, <1>5, <1>6, <1>7, ClientEnds
<1>9. \A d \in Clients : d # c => Unmoved(d)
  BY <1>6, <1>7 DEF Unmoved
<1>10. /\ sent' \in [Clients -> 0 .. MaxLogs] /\ rxq' \in [Clients -> Seq(Frames)]
       /\ s2c' \in [Clients -> Seq(Frames)] /\ cchans' \in [Clients -> SUBSET {0, 1}]
  BY <1>7 DEF IInv, TypeOK
<1> QED BY <1>6, <1>7, <1>8, <1>9, <1>10, ClientStep

\* A client that waits is told of the end of the connection by nothing else:
\* no frame comes whose channel it does not know.
LEMMA NoOrphan ==
  ASSUME IInv, NEW c \in Clients, cup[c], NEW f \in Coming(c)
  PROVE  f.chan \in cchans[c] /\ f \in Frames
<1>1. /\ rxq[c] \in Seq(Frames) /\ s2c[c] \in Seq(Frames) /\ sendQue[c] \in Seq(Frames)
      /\ Phase(c) /\ Served(c) /\ Talks(c)
      /\ cpc[c] \in {"new", "idle", "nul", "done", "unanswered", "failed", "greeting",
                        "profile", "goahead", "iam", "log", "close1", "close0"}
  BY TypeOf DEF IInv, CInv
<1>2. f \in Frames
  BY <1>1, RangeIdx DEF Coming
<1>3. f.chan \in {0, 1} /\ Formed(f) /\ f.kind \in MayCome(c, cpc[c])
  BY <1>1, <1>2, FramType DEF Served, Talks
<1>4. cchans[c] = IF cpc[c] \in {"greeting", "close0"} THEN {0} ELSE {0, 1}
  BY <1>1 DEF Phase
<1>5. CASE cpc[c] \in {"greeting", "close0"}
  <2>1. f.kind \in {"greeting", "closeok"}
    BY <1>3, <1>5 DEF MayCome
  <2>2. f.chan = 0
    BY <1>3, <2>1 DEF Formed
  <2> QED BY <1>2, <1>4, <1>5, <2>2
<1>6. CASE cpc[c] \notin {"greeting", "close0"}
  BY <1>2, <1>3, <1>4, <1>6
<1> QED BY <1>5, <1>6

\* The listener has gone: the call of the client fails or goes on without its answer.
LEMMA ConnLostInv ==
  ASSUME IInv, NEW c \in Clients, ConnLost(c)
  PROVE  IInv'
<1>1. /\ s2c[c] \in Seq(Frames) /\ sendQue[c] \in Seq(Frames) /\ c2s[c] \in Seq(Frames)
      /\ Phase(c) /\ Talks(c) /\ Served(c) /\ Tally(c)
  BY TypeOf DEF IInv, CInv
<1>2. rxq[c] = <<>> /\ cup[c]
  BY <1>1, ExpectedIs DEF ConnLost, RecvFails, Waiting, Phase, Ends
<1>3. s2c[c] = <<>> /\ conn[c] = "closed"
  <2>1. ASSUME s2c[c] # <<>> PROVE FALSE
    <3>1. Head(s2c[c]) \in Coming(c)
      BY <1>1, <2>1, RangeTail DEF Coming
    <3> QED BY <1>2, <2>1, <3>1, NoOrphan DEF ConnLost, RecvFails
  <2> QED BY <2>1 DEF ConnLost, RecvFails
<1>4. c2s[c] = <<>> /\ sendQue[c] = <<>> /\ chans[c] = {}
  BY <1>1, <1>3 DEF Phase
<1>5. UNCHANGED <<cchans, rxq, sent, s2c, conn, sessVars, handled, loopVars, histVars,
                  chans, sendQue>>
  BY DEF ConnLost, histVars, sessVars
<1>6. /\ sent' \in [Clients -> 0 .. MaxLogs] /\ rxq' \in [Clients -> Seq(Frames)]
      /\ s2c' \in [Clients -> Seq(Frames)] /\ cchans' \in [Clients -> SUBSET {0, 1}]
  BY <1>5 DEF IInv, TypeOK
<1>7. CASE cpc[c] = "iam"
  <2>1. /\ cpc' \in [Clients -> {"new", "idle", "nul", "done", "unanswered", "failed"}
                            \union DOMAIN Expected]
        /\ cpc'[c] = "idle" /\ \A d \in Clients : d # c => cpc'[d] = cpc[d]
        /\ UNCHANGED <<cup, c2s>>
        /\ cup' \in [Clients -> BOOLEAN] /\ c2s' \in [Clients -> Seq(Frames)]
    BY <1>7 DEF ConnLost, GoTo, IInv, TypeOK
  <2>2. Coming(c)' = {} /\ Range(c2s[c]) = {} /\ Range(rxq'[c]) = {} /\ Range(s2c'[c]) = {}
    BY <1>2, <1>3, <1>4, <1>5, RangeEmpty DEF Coming
  <2>3. Phase(c)'
    BY <1>1, <1>2, <1>7, <1>5, <2>1, SessionAssumption DEF Phase, Ends
  <2>4. Served(c)'
    BY <1>1, <1>4, <1>5, <2>1, <2>2, RangeEmpty DEF Served
  <2>5. Talks(c)'
    BY <1>2, <1>3, <1>4, <1>5, <2>1, <2>2, OrderEmpty DEF Talks, Ahead, Quiet
  <2>6. Tally(c)'
    BY <1>1, <1>3, <1>5, <2>1 DEF Tally
  <2>7. CInv(c)'
    BY <2>3, <2>4, <2>5, <2>6 DEF CInv
  <2>8. \A d \in Clients : d # c => Unmoved(d)
    BY <1>5, <2>1 DEF Unmoved
  <2> QED BY <1>5, <1>6, <2>1, <2>7, <2>8, ClientStep
<1>8. CASE cpc[c] # "iam"
  <2>1. /\ cpc' \in [Clients -> {"new", "idle", "nul", "done", "unanswered", "failed"}
                            \union DOMAIN Expected]
        /\ cpc'[c] \in {"failed", "unanswered"} /\ ~cup'[c] /\ c2s'[c] = <<>>
        /\ cup' \in [Clients -> BOOLEAN] /\ c2s' \in [Clients -> Seq(Frames)]
        /\ \A d \in Clients : d # c => /\ cpc'[d] = cpc[d] /\ cup'[d] = cup[d]
                                       /\ c2s'[d] = c2s[d]
    <3>. DEFINE pc == IF cpc[c] \in {"close1", "close0"} THEN "unanswered" ELSE "failed"
    <3>1. /\ cpc' = [cpc EXCEPT ![c] = pc] /\ cup' = [cup EXCEPT ![c] = FALSE]
          /\ c2s' = [c2s EXCEPT ![c] = <<>>]
      BY <1>8 DEF ConnLost, GoTo
    <3>2. pc \in {"failed", "unanswered"}
      OBVIOUS
    <3> HIDE DEF pc
    <3> QED BY <3>1, <3>2 DEF IInv, TypeOK
  <2>2. InOrder(c, c2s'[c]) /\ c2s'[c] = c2s[c] /\ rxq'[c] = rxq[c]
    BY <1>4, <1>5, <2>1, OrderEmpty
  <2>3. CInv(c)'
    BY <1>2, <1>3, <1>5, <2>1, <2>2, ClientEnds
  <2>4. \A d \in Clients : d # c => Unmoved(d)
    BY <1>5, <2>1 DEF Unmoved
  <2> QED BY <1>5, <1>6, <2>1, <2>3, <2>4, ClientStep
<1> QED BY <1>7, <1>8

\* A frame is read: a SEQ is digested, any other joins pRXQue.
LEMMA AwaitFramInv ==
  ASSUME IInv, NEW c \in Clients, AwaitFram(c)
  PROVE  IInv'
<1>. DEFINE f == Head(s2c[c])
<1>1. /\ s2c[c] \in Seq(Frames) /\ sendQue[c] \in Seq(Frames)
      /\ Phase(c) /\ Talks(c) /\ Served(c) /\ Tally(c)
  BY TypeOf DEF IInv, CInv
<1>2. /\ cup[c] /\ rxq[c] = <<>> /\ Range(rxq[c]) = {} /\ s2c[c] # <<>>
      /\ f.chan \in cchans[c] /\ DoReceive(c, rxq[c], cchans[c])
      /\ UNCHANGED <<cpc, cup, cchans, sent, c2s, conn, loopVars, sessVars, histVars>>
  BY <1>1, ExpectedIs, RangeEmpty DEF AwaitFram, Waiting, Phase, Ends
<1>3. /\ Tail(s2c[c]) \in Seq(Frames) /\ f \in Frames /\ f \in Range(s2c[c])
      /\ Range(s2c[c]) = {f} \union Range(Tail(s2c[c]))
      /\ InOrder(c, Tail(s2c[c])) /\ \A g \in Range(Tail(s2c[c])) : Fits(c, f, g)
  BY <1>1, <1>2, RangeTail, OrderTail DEF Talks
<1>4. /\ s2c' = [s2c EXCEPT ![c] = Tail(@)]
      /\ rxq' = [rxq EXCEPT ![c] = IF f.kind = "SEQ" THEN <<>> ELSE <<f>>]
  <2>. DEFINE q == IF f.kind = "SEQ" \/ f.chan \notin cchans[c] THEN rxq[c]
                   ELSE Append(rxq[c], f)
  <2>1. rxq' = [rxq EXCEPT ![c] = q] /\ s2c' = [s2c EXCEPT ![c] = Tail(@)]
    BY <1>2 DEF DoReceive
  <2>2. q = IF f.kind = "SEQ" THEN <<>> ELSE <<f>>
    BY <1>2
  <2> HIDE DEF q
  <2> QED BY <2>1, <2>2
<1> HIDE DEF f
<1>5. /\ s2c' \in [Clients -> Seq(Frames)] /\ rxq' \in [Clients -> Seq(Frames)]
      /\ s2c'[c] = Tail(s2c[c]) /\ rxq'[c] = IF f.kind = "SEQ" THEN <<>> ELSE <<f>>
      /\ \A d \in Clients : d # c => rxq'[d] = rxq[d] /\ s2c'[d] = s2c[d]
  BY <1>3, <1>4 DEF IInv, TypeOK
<1>6. /\ Range(rxq'[c]) = IF f.kind = "SEQ" THEN {} ELSE {f}
      /\ Range(s2c'[c]) = Range(Tail(s2c[c]))
      /\ InOrder(c, rxq'[c])
  <2>1. CASE f.kind = "SEQ"
    BY <1>5, <2>1, RangeEmpty, OrderEmpty
  <2>2. CASE f.kind # "SEQ"
    BY <1>5, <2>2, RangeOne, OrderOne
  <2> QED BY <2>1, <2>2
<1>7. UNCHANGED <<cpc, cup, cchans, sent, c2s, conn, chans, sendQue, handled,
                  loopVars, sessVars, histVars>>
  BY <1>2 DEF sessVars, histVars
<1>8. /\ Coming(c)' \subseteq Coming(c)
      /\ \A g \in Coming(c) : g.kind # "SEQ" => g \in Coming(c)'
  BY <1>2, <1>3, <1>6, <1>7 DEF Coming
<1>9. Phase(c)'
  BY <1>1, <1>2, <1>7 DEF Phase
<1>10. Served(c)'
  BY <1>1, <1>7, <1>8 DEF Served
<1>11. Talks(c)'
  <2>1. /\ Ahead(c, rxq'[c], s2c'[c]) /\ Ahead(c, rxq'[c], sendQue[c])
        /\ Ahead(c, s2c'[c], sendQue[c])
    BY <1>1, <1>2, <1>3, <1>6 DEF Talks, Ahead
  <2>2. \A g \in Range(rxq'[c]) : g.kind # "SEQ"
    BY <1>6
  <2>3. Quiet(Coming(c)', c2s[c])
    BY <1>1, <1>2, <1>8 DEF Talks, Quiet
  <2>4. \A g \in Coming(c)' : cpc[c] = "profile" /\ g.kind = "goahead" =>
          \E h \in Coming(c)' : h.kind = "profile"
    BY <1>1, <1>2, <1>8 DEF Talks
  <2>5. /\ \A g \in Coming(c) : g.kind \in MayCome(c, cpc[c])
        /\ \A g \in Coming(c) : cpc[c] = "close1" /\ g.kind = "closeok" => g.arg = 1
        /\ \A g \in Range(c2s[c]) :
              /\ g.kind \in MayGo(c, cpc[c])
              /\ g.kind = "close" => (g.arg = 1 <=> cpc[c] = "close1")
    BY <1>1, <1>2 DEF Talks
  <2>6. conn[c] = "open" =>
         /\ cpc[c] \in Opened => 1 \in chans[c]
         /\ \A g \in Coming(c)' : g.kind = "profile" => 1 \in chans[c]
         /\ \A g \in Range(rxq'[c]) \union Range(s2c'[c]) :
               cpc[c] = "close1" /\ g.kind = "closeok" => 1 \notin chans[c]
         /\ cpc[c] \in {"greeting", "close0"} => 1 \notin chans[c]
    BY <1>1, <1>2, <1>3, <1>6, <1>8 DEF Talks
  <2> QED BY <1>3, <1>5, <1>6, <1>7, <1>8, <2>1, <2>2, <2>3, <2>4, <2>5, <2>6 DEF Talks
<1>12. Tally(c)'
  BY <1>1, <1>7, <1>8 DEF Tally
<1>13. CInv(c)'
  BY <1>9, <1>10, <1>11, <1>12 DEF CInv
<1>14. \A d \in Clients : d # c => Unmoved(d)
  BY <1>5, <1>7 DEF Unmoved
<1>15. /\ cpc' \in [Clients -> {"new", "idle", "nul", "done", "unanswered", "failed"}
                            \union DOMAIN Expected]
       /\ cup' \in [Clients -> BOOLEAN] /\ cchans' \in [Clients -> SUBSET {0, 1}]
       /\ sent' \in [Clients -> 0 .. MaxLogs] /\ c2s' \in [Clients -> Seq(Frames)]
  BY <1>7 DEF IInv, TypeOK
<1> QED BY <1>5, <1>7, <1>13, <1>14, <1>15, ClientStep

\* A list is typed by what it holds.
LEMMA ListOf ==
  ASSUME NEW S, NEW T, NEW q \in Seq(S), Range(q) \subseteq T
  PROVE  q \in Seq(T)
<1>1. \A i \in 1 .. Len(q) : q[i] \in T
  BY RangeIdx
<1> QED BY <1>1

\* Who is in the lists of the listener.
LEMMA ListFacts ==
  ASSUME IInv
  PROVE  /\ sessions \in Seq(Clients) /\ backlog \in Seq(Clients) /\ todo \in Seq(Clients)
         /\ \A c \in Range(sessions) : c \in Clients /\ conn[c] = "open"
         /\ \A c \in Range(backlog) : c \in Clients /\ conn[c] = "backlog"
         /\ Range(todo) \subseteq Range(sessions)
         /\ Distinct(sessions) /\ Distinct(backlog) /\ Distinct(todo)
<1>1. /\ backlog \in Seq({c \in Clients : conn[c] = "backlog"})
      /\ sessions \in Seq({c \in Clients : conn[c] = "open"})
      /\ todo \in Seq(Range(sessions))
  BY DEF IInv, TypeOK
<1>2. /\ Range(sessions) \subseteq {c \in Clients : conn[c] = "open"}
      /\ Range(backlog) \subseteq {c \in Clients : conn[c] = "backlog"}
      /\ Range(todo) \subseteq Range(sessions)
  BY <1>1, RangeIdx
<1>3. sessions \in Seq(Clients) /\ backlog \in Seq(Clients) /\ todo \in Seq(Clients)
  BY <1>1, <1>2, ListOf
<1> QED BY <1>2, <1>3 DEF IInv, Lists

\* A client connects and greets.
LEMMA OpenSessionInv ==
  ASSUME IInv, NEW c \in Clients, OpenSession(c)
  PROVE  IInv'
<1>. DEFINE f == Fram(0, "greeting", 0)
<1>1. /\ cpc[c] = "new" /\ lpc \notin {"setup", "stopped"}
      /\ cpc' = [cpc EXCEPT ![c] = "greeting"] /\ cup' = [cup EXCEPT ![c] = TRUE]
      /\ cchans' = [cchans EXCEPT ![c] = {0}] /\ conn' = [conn EXCEPT ![c] = "backlog"]
      /\ backlog' = Append(backlog, c) /\ c2s' = [c2s EXCEPT ![c] = <<f>>]
      /\ UNCHANGED <<rxq, sent, s2c, lpc, bRun, sessions, todo, fdsetRD, fdsetWR, got,
                     sessVars, histVars>>
  BY DEF OpenSession, GoTo
<1>2. f \in Frames /\ f.chan = 0 /\ f.kind = "greeting"
  BY FramType
<1> HIDE DEF f
<1>3. UNCHANGED <<chans, greeted, closed, sendQue, sending, handled, asked, freed>>
  BY <1>1 DEF sessVars, histVars
<1>4. /\ rxq[c] \in Seq(Frames) /\ s2c[c] \in Seq(Frames) /\ sendQue[c] \in Seq(Frames)
      /\ Phase(c) /\ sent[c] = 0
      /\ conn[c] = "none" /\ rxq[c] = <<>> /\ s2c[c] = <<>> /\ sendQue[c] = <<>>
      /\ chans[c] = {} /\ handled[c] = <<>>
  BY <1>1, TypeOf DEF IInv, CInv, Phase
<1>5. /\ cpc' \in [Clients -> {"new", "idle", "nul", "done", "unanswered", "failed"}
                            \union DOMAIN Expected]
      /\ cup' \in [Clients -> BOOLEAN] /\ cchans' \in [Clients -> SUBSET {0, 1}]
      /\ c2s' \in [Clients -> Seq(Frames)]
      /\ conn' \in [Clients -> {"none", "backlog", "open", "closed"}]
      /\ cpc'[c] = "greeting" /\ cup'[c] /\ cchans'[c] = {0} /\ c2s'[c] = <<f>>
      /\ conn'[c] = "backlog"
      /\ \A d \in Clients : d # c => /\ cpc'[d] = cpc[d] /\ cup'[d] = cup[d]
                                     /\ cchans'[d] = cchans[d] /\ c2s'[d] = c2s[d]
                                     /\ conn'[d] = conn[d]
  BY <1>1, <1>2, ExpectedIs DEF IInv, TypeOK
<1>6. c \notin Range(backlog) /\ c \notin Range(sessions)
  BY <1>4, ListFacts
<1>7. /\ backlog' \in Seq({d \in Clients : conn'[d] = "backlog"})
      /\ sessions' \in Seq({d \in Clients : conn'[d] = "open"})
      /\ Distinct(backlog') /\ backlog' # <<>>
  <2>1. backlog' \in Seq(Clients) /\ Range(backlog') = Range(backlog) \union {c}
        /\ backlog' # <<>>
    BY <1>1, ListFacts, RangeAppend
  <2>2. Range(backlog') \subseteq {d \in Clients : conn'[d] = "backlog"}
    BY <1>5, <1>6, <2>1, ListFacts
  <2>3. Range(sessions) \subseteq {d \in Clients : conn'[d] = "open"}
    BY <1>5, <1>6, ListFacts
  <2>4. Distinct(backlog')
    BY <1>1, <1>6, ListFacts, DistinctAppend
  <2> QED BY <1>1, <2>1, <2>2, <2>3, <2>4, ListFacts, ListOf
<1>8. TypeOK'
  BY <1>1, <1>3, <1>5, <1>7 DEF IInv, TypeOK
<1>9. Lists'
  BY <1>1, <1>7 DEF IInv, Lists
<1>10. CInv(c)'
  <2>1. /\ rxq'[c] = <<>> /\ s2c'[c] = <<>> /\ sendQue'[c] = <<>> /\ chans'[c] = {}
        /\ handled'[c] = <<>> /\ sent'[c] = 0
    BY <1>1, <1>3, <1>4
  <2>2. Coming(c)' = {} /\ Range(c2s'[c]) = {f} /\ Range(sendQue'[c]) = {}
    BY <1>5, <2>1, RangeEmpty, RangeOne DEF Coming
  <2>3. Phase(c)'
    BY <1>2, <1>4, <1>5, <2>1, <2>2 DEF Phase, Ends
  <2>4. Served(c)'
    BY <1>2, <1>5, <2>1, <2>2, OrderEmpty, OrderOne DEF Served, Quiet, Formed
  <2>5. Talks(c)'
    BY <1>2, <1>5, <2>1, <2>2, OrderEmpty, RangeEmpty DEF Talks, Quiet, MayGo, Ahead
  <2>6. Tally(c)'
    BY <1>2, <1>5, <2>1, <2>2 DEF Tally, Numbered, Logs
  <2> QED BY <2>3, <2>4, <2>5, <2>6 DEF CInv
<1>11. \A d \in Clients : d # c => Unmoved(d)
  BY <1>1, <1>3, <1>5 DEF Unmoved
<1> QED BY <1>8, <1>9, <1>10, <1>11, UnmovedInv DEF IInv
-----------------------------------------------------------------------------
\* Two queues in order, one ahead of the other, make one in order.
LEMMA OrderJoined ==
  ASSUME NEW c, NEW p \in Seq(Frames), NEW q \in Seq(Frames), NEW r \in Seq(Frames),
         InOrder(c, p), InOrder(c, q), Ahead(c, p, q),
         Len(r) = Len(p) + Len(q),
         \A i \in 1 .. Len(p) : r[i] = p[i],
         \A i \in 1 .. Len(r) :
            \/ i \in 1 .. Len(p)
            \/ i - Len(p) \in 1 .. Len(q) /\ r[i] = q[i - Len(p)]
  PROVE  InOrder(c, r)
<1>1. Len(p) \in Nat /\ Len(q) \in Nat
  OBVIOUS
<1>2. ASSUME NEW i \in 1 .. Len(r), NEW j \in 1 .. Len(r), i < j
      PROVE  Fits(c, r[i], r[j])
  <2>1. CASE i \in 1 .. Len(p) /\ j \in 1 .. Len(p)
    BY <1>1, <1>2, <2>1 DEF InOrder
  <2>2. CASE i \in 1 .. Len(p) /\ j \notin 1 .. Len(p)
    <3>1. r[i] \in Range(p) /\ r[j] \in Range(q)
      BY <1>1, <2>2, RangeIdx
    <3> QED BY <3>1 DEF Ahead
  <2>3. CASE i \notin 1 .. Len(p)
    <3>1. /\ i - Len(p) \in 1 .. Len(q) /\ r[i] = q[i - Len(p)]
          /\ j - Len(p) \in 1 .. Len(q) /\ r[j] = q[j - Len(p)]
          /\ i - Len(p) < j - Len(p)
      BY <1>1, <1>2, <2>3
    <3> QED BY <3>1 DEF InOrder
  <2> QED BY <2>1, <2>2, <2>3
<1> QED BY <1>2 DEF InOrder

\* The same for their concatenation.
LEMMA OrderConcat ==
  ASSUME NEW c, NEW p \in Seq(Frames), NEW q \in Seq(Frames),
         InOrder(c, p), InOrder(c, q), Ahead(c, p, q)
  PROVE  InOrder(c, p \o q)
<1>1. /\ p \o q \in Seq(Frames) /\ Len(p \o q) = Len(p) + Len(q)
      /\ \A i \in 1 .. Len(p) : (p \o q)[i] = p[i]
      /\ \A i \in 1 .. Len(p \o q) :
            \/ i \in 1 .. Len(p)
            \/ i - Len(p) \in 1 .. Len(q) /\ (p \o q)[i] = q[i - Len(p)]
  OBVIOUS
<1> QED BY <1>1, OrderJoined

\* The listener sends, or tries to send, the first frame of a queue.
LEMMA LstnSendFramInv ==
  ASSUME IInv, NEW c \in Clients, conn[c] = "open", sendQue[c] # <<>>, LstnSendFram(c),
         UNCHANGED <<clntVars, c2s, conn, handled>>
  PROVE  /\ CInv(c)' /\ \A d \in Clients : d # c => Unmoved(d)
         /\ sendQue' \in [Clients -> Seq(Frames)] /\ s2c' \in [Clients -> Seq(Frames)]
         /\ sending' \in [Clients -> BOOLEAN] /\ chans' \in [Clients -> SUBSET {0, 1}]
         /\ closed' \in [Clients -> BOOLEAN] /\ freed' \in BOOLEAN
<1>. DEFINE f == Head(sendQue[c])
<1>1. /\ s2c[c] \in Seq(Frames) /\ sendQue[c] \in Seq(Frames) /\ rxq[c] \in Seq(Frames)
      /\ chans[c] \subseteq {0, 1} /\ cup[c] \in BOOLEAN
      /\ Phase(c) /\ Talks(c) /\ Served(c) /\ Tally(c)
  BY TypeOf DEF IInv, CInv
<1>2. /\ Tail(sendQue[c]) \in Seq(Frames) /\ f \in Frames /\ f \in Range(sendQue[c])
      /\ Range(sendQue[c]) = {f} \union Range(Tail(sendQue[c]))
      /\ InOrder(c, Tail(sendQue[c])) /\ \A g \in Range(Tail(sendQue[c])) : Fits(c, f, g)
  BY <1>1, RangeTail, OrderTail DEF Served
<1>3. freed' \in BOOLEAN
  BY DEF LstnSendFram
<1>4. UNCHANGED <<cpc, cup, cchans, rxq, sent, c2s, conn, handled>>
  BY DEF clntVars
<1>5. CASE UNCHANGED <<sendQue, s2c, chans, closed>>
  <2>1. \A d \in Clients : Unmoved(d)
    BY <1>4, <1>5 DEF Unmoved
  <2>2. sending' \in [Clients -> BOOLEAN]
    BY DEF LstnSendFram, IInv, TypeOK
  <2> QED BY <1>3, <1>5, <2>1, <2>2, UnmovedInv DEF IInv, TypeOK
<1>6. CASE /\ sendQue' = [sendQue EXCEPT ![c] = Tail(@)]
           /\ sending' = [sending EXCEPT ![c] = FALSE]
           /\ s2c' = IF cup[c] THEN [s2c EXCEPT ![c] = Append(@, f)] ELSE s2c
           /\ OnFramDestroy(c, f)
  <2> HIDE DEF f
  <2>1. /\ sendQue' \in [Clients -> Seq(Frames)] /\ sendQue'[c] = Tail(sendQue[c])
        /\ sending' \in [Clients -> BOOLEAN]
        /\ \A d \in Clients : d # c => sendQue'[d] = sendQue[d]
    BY <1>2, <1>6 DEF IInv, TypeOK
  <2>2. /\ s2c' \in [Clients -> Seq(Frames)]
        /\ s2c'[c] = IF cup[c] THEN Append(s2c[c], f) ELSE s2c[c]
        /\ \A d \in Clients : d # c => s2c'[d] = s2c[d]
    BY <1>1, <1>2, <1>6 DEF IInv, TypeOK
  <2>3. /\ chans' \in [Clients -> SUBSET {0, 1}] /\ closed' \in [Clients -> BOOLEAN]
        /\ chans'[c] = IF f.kind = "closeok" THEN chans[c] \ {f.arg} ELSE chans[c]
        /\ \A d \in Clients : d # c => chans'[d] = chans[d]
    <3>1. CASE f.kind = "closeok"
      <4>1. /\ chans' = [chans EXCEPT ![c] = @ \ {f.arg}]
            /\ closed' = [closed EXCEPT ![c] = @ \/ f.arg = 0]
        BY <1>6, <3>1 DEF OnFramDestroy
      <4>2. chans \in [Clients -> SUBSET {0, 1}] /\ closed \in [Clients -> BOOLEAN]
        BY DEF IInv, TypeOK
      <4>3. closed' \in [Clients -> BOOLEAN]
        BY <4>1, <4>2
      <4>4. /\ chans' \in [Clients -> SUBSET {0, 1}] /\ chans'[c] = chans[c] \ {f.arg}
            /\ \A d \in Clients : d # c => chans'[d] = chans[d]
        BY <4>1, <4>2
      <4> QED BY <3>1, <4>3, <4>4
    <3>2. CASE f.kind # "closeok"
      BY <1>1, <1>6, <3>2 DEF OnFramDestroy, IInv, TypeOK
    <3> QED BY <3>1, <3>2
  <2>4. /\ cup[c] => Range(s2c'[c]) = Range(s2c[c]) \union {f}
        /\ ~cup[c] => s2c'[c] = s2c[c]
    BY <1>1, <1>2, <2>2, RangeAppend
  <2>5. /\ Coming(c)' \subseteq Coming(c) /\ f \in Coming(c)
        /\ cup[c] => Coming(c)' = Coming(c)
    BY <1>2, <1>4, <2>1, <2>4 DEF Coming
  <2>6. Phase(c)'
    BY <1>1, <1>4 DEF Phase
  <2>7. Served(c)'
    <3>1. ASSUME f.kind = "closeok"
          PROVE  Range(Tail(sendQue[c])) = {} /\ c2s[c] = <<>> /\ Range(c2s[c]) = {}
      <4>1. c2s[c] = <<>>
        BY <1>1, <1>2, <3>1 DEF Served, Quiet
      <4> QED BY <1>2, <3>1, <4>1, RangeEmpty DEF Fits
    <3>2. \A g \in Range(sendQue'[c]) :
             g.chan \in chans'[c] /\ (g.kind = "closeok" => g.arg \in chans'[c])
      BY <1>1, <1>2, <2>1, <2>3, <3>1 DEF Served
    <3>3. \A g \in Range(c2s[c]) :
             /\ g.chan = 1 => 1 \in chans'[c]
             /\ g.kind = "start" => 1 \notin chans'[c]
             /\ g.kind = "close" => g.arg \in {0, 1} /\ (g.arg = 1 <=> 1 \in chans'[c])
             /\ g.kind \in {"greeting", "start", "iam", "log", "NUL", "close"}
      BY <1>1, <2>3, <3>1 DEF Served
    <3>4. Quiet(Range(sendQue'[c]), c2s[c])
      BY <1>1, <1>2, <2>1 DEF Served, Quiet
    <3>5. InOrder(c, c2s[c]) /\ \A g \in Coming(c) \union Range(c2s[c]) : Formed(g)
      BY <1>1 DEF Served
    <3> QED BY <1>2, <1>4, <2>1, <2>5, <3>2, <3>3, <3>4, <3>5 DEF Served
  <2>8. Talks(c)'
    <3>. SUFFICES ASSUME cup[c] PROVE Talks(c)'
      BY <1>4 DEF Talks
    <3>1. InOrder(c, s2c'[c])
      BY <1>1, <1>2, <2>2, OrderAppend DEF Talks, Ahead
    <3>2. /\ Ahead(c, rxq[c], s2c'[c]) /\ Ahead(c, rxq[c], sendQue'[c])
          /\ Ahead(c, s2c'[c], sendQue'[c])
      BY <1>1, <1>2, <2>1, <2>4 DEF Talks, Ahead
    <3>3. f.kind \in MayCome(c, cpc[c]) /\ (f.kind = "closeok" /\ cpc[c] = "close1" => f.arg = 1)
      BY <1>1, <2>5 DEF Talks
    <3>4. f.kind = "closeok" => cpc[c] \notin Opened \union {"greeting", "profile"}
      BY <3>3 DEF MayCome, Opened
    <3>5. conn[c] = "open" =>
         /\ cpc[c] \in Opened => 1 \in chans'[c]
         /\ \A g \in Coming(c) : g.kind = "profile" => 1 \in chans'[c]
         /\ \A g \in Range(rxq[c]) \union Range(s2c'[c]) :
               cpc[c] = "close1" /\ g.kind = "closeok" => 1 \notin chans'[c]
         /\ cpc[c] \in {"greeting", "close0"} => 1 \notin chans'[c]
      <4>1. cpc[c] \in Opened => 1 \in chans'[c]
        BY <1>1, <2>3, <3>4 DEF Talks
      <4>2. ASSUME NEW g \in Coming(c), g.kind = "profile" PROVE 1 \in chans'[c]
        <5>1. 1 \in chans[c] /\ cpc[c] = "profile"
          BY <1>1, <4>2, TypeOf DEF Talks, MayCome
        <5> QED BY <2>3, <3>4, <5>1
      <4>3. ASSUME NEW g \in Range(rxq[c]) \union Range(s2c'[c]),
                   cpc[c] = "close1", g.kind = "closeok"
            PROVE  1 \notin chans'[c]
        BY <1>1, <2>3, <2>4, <3>3, <4>3 DEF Talks
      <4>4. cpc[c] \in {"greeting", "close0"} => 1 \notin chans'[c]
        BY <1>1, <2>3 DEF Talks
      <4> QED BY <4>1, <4>2, <4>3, <4>4
    <3> QED BY <1>1, <1>4, <2>5, <3>1, <3>2, <3>5 DEF Talks
  <2>9. Tally(c)'
    BY <1>1, <1>4, <2>5 DEF Tally
  <2>10. \A d \in Clients : d # c => Unmoved(d)
    BY <1>4, <2>1, <2>2, <2>3 DEF Unmoved
  <2> QED BY <1>3, <2>1, <2>2, <2>3, <2>6, <2>7, <2>8, <2>9, <2>10 DEF CInv
<1> QED BY <1>5, <1>6 DEF LstnSendFram
\* The listener reads the first frame of a connection and queues the frames N.
LEMMA Answers ==
  ASSUME IInv, NEW c \in Clients, NEW N \in Seq(Frames), NEW f,
         conn[c] = "open", c2s[c] # <<>>, f = Head(c2s[c]),
         UNCHANGED <<clntVars, s2c, conn>>,
         c2s'[c] = Tail(c2s[c]), sendQue'[c] = sendQue[c] \o N, chans'[c] \subseteq {0, 1},
         handled'[c] = IF f.kind = "log" THEN Append(handled[c], f.arg) ELSE handled[c],
         \* the frames it queues
         InOrder(c, N),
         \A g \in Range(N) : /\ f.kind # "greeting"
                             /\ (g.kind = "SEQ" \/ Tail(c2s[c]) = <<>>)
                             /\ cup[c] => g.kind \in MayCome(c, cpc[c])
                             /\ Formed(g) /\ g.chan \in chans'[c]
                             /\ g.kind = "closeok" => f.kind = "close" /\ g.arg \in chans'[c]
                             /\ g.kind = "closeok" /\ cpc[c] = "close1" => g.arg = 1
                             /\ g.kind = "profile" => 1 \in chans'[c]
                             /\ g.kind = "goahead" => \E h \in Range(N) : h.kind = "profile",
         \* the channel it creates
         \/ chans'[c] = chans[c]
         \/ f.kind = "start" /\ Tail(c2s[c]) = <<>> /\ chans'[c] = chans[c] \union {1}
  PROVE  CInv(c)'
<1>1. /\ c2s[c] \in Seq(Frames) /\ s2c[c] \in Seq(Frames) /\ sendQue[c] \in Seq(Frames)
      /\ rxq[c] \in Seq(Frames) /\ handled[c] \in Seq(Nat) /\ sent[c] \in Nat
      /\ cup[c] \in BOOLEAN /\ Phase(c) /\ Talks(c) /\ Served(c) /\ Tally(c)
  BY TypeOf DEF IInv, CInv
<1>2. /\ Tail(c2s[c]) \in Seq(Frames) /\ f \in Frames /\ f \in Range(c2s[c])
      /\ Range(c2s'[c]) \subseteq Range(c2s[c]) /\ InOrder(c, c2s'[c])
      /\ \A g \in Range(Tail(c2s[c])) : Fits(c, f, g)
  BY <1>1, RangeTail, OrderTail DEF Served
<1>3. UNCHANGED <<cpc, cup, cchans, rxq, sent, s2c, conn>>
  BY DEF clntVars
<1>4. /\ sendQue'[c] \in Seq(Frames)
      /\ Range(sendQue'[c]) = Range(sendQue[c]) \union Range(N)
  BY <1>1, RangeConcat
<1>5. Coming(c)' = Coming(c) \union Range(N)
  BY <1>3, <1>4 DEF Coming
<1>6. \A g \in Range(N) : /\ \A h \in Range(sendQue[c]) : h.kind = "SEQ"
                          /\ cup[c] => \A h \in Coming(c) : h.kind = "SEQ"
  BY <1>1, <1>2 DEF Served, Talks, Quiet
<1>7. f.kind = "log" /\ cup[c] => cpc[c] \notin {"new", "greeting", "close0"}
  <2>1. cup[c] => f.kind \in MayGo(c, cpc[c])
    BY <1>1, <1>2 DEF Talks
  <2>2. cup[c] => cpc[c] # "new"
    BY <1>1 DEF Phase, Ends
  <2> QED BY <2>1, <2>2 DEF MayGo
<1>8. Phase(c)'
  <2>1. cpc[c] \in {"new", "greeting"} => handled'[c] = <<>>
    BY <1>1, <1>7 DEF Phase, Ends
  <2> QED BY <1>1, <1>3, <2>1 DEF Phase
<1>9. Served(c)'
  <2>1. \A g \in Range(sendQue'[c]) :
             g.chan \in chans'[c] /\ (g.kind = "closeok" => g.arg \in chans'[c])
    BY <1>1, <1>4 DEF Served
  <2>2. \A g \in Range(c2s'[c]) :
             /\ g.chan = 1 => 1 \in chans'[c]
             /\ g.kind = "start" => 1 \notin chans'[c]
             /\ g.kind = "close" => g.arg \in {0, 1} /\ (g.arg = 1 <=> 1 \in chans'[c])
             /\ g.kind \in {"greeting", "start", "iam", "log", "NUL", "close"}
    BY <1>1, <1>2, RangeEmpty DEF Served
  <2>3. InOrder(c, sendQue'[c])
    <3>1. Ahead(c, sendQue[c], N)
      BY <1>6 DEF Ahead, Fits
    <3>2. InOrder(c, sendQue[c])
      BY <1>1 DEF Served
    <3> QED BY <1>1, <3>1, <3>2, OrderConcat
  <2>4. Quiet(Range(sendQue'[c]), c2s'[c])
    BY <1>1, <1>2, <1>4 DEF Served, Quiet
  <2>5. \A g \in Coming(c)' \union Range(c2s'[c]) : Formed(g)
    BY <1>1, <1>2, <1>5 DEF Served
  <2> QED BY <1>2, <2>1, <2>2, <2>3, <2>4, <2>5 DEF Served
<1>10. Talks(c)'
  <2>. SUFFICES ASSUME cup[c] PROVE Talks(c)'
    BY <1>3 DEF Talks
  <2>1. Ahead(c, rxq[c], sendQue'[c]) /\ Ahead(c, s2c[c], sendQue'[c])
    BY <1>1, <1>4, <1>6 DEF Talks, Ahead, Coming, Fits
  <2>2. Quiet(Coming(c)', c2s'[c])
    BY <1>1, <1>2, <1>5 DEF Talks, Quiet
  <2>3. \A g \in Coming(c)' :
           /\ g.kind \in MayCome(c, cpc[c])
           /\ cpc[c] = "close1" /\ g.kind = "closeok" => g.arg = 1
           /\ cpc[c] = "profile" /\ g.kind = "goahead" =>
                 \E h \in Coming(c)' : h.kind = "profile"
    BY <1>1, <1>5 DEF Talks
  <2>4. \A g \in Range(c2s'[c]) :
           /\ g.kind \in MayGo(c, cpc[c])
           /\ g.kind = "close" => (g.arg = 1 <=> cpc[c] = "close1")
    BY <1>1, <1>2 DEF Talks
  <2>5. f.kind = "start" => cpc[c] = "profile"
    <3>1. f.kind \in MayGo(c, cpc[c])
      BY <1>1, <1>2 DEF Talks
    <3> QED BY <3>1 DEF MayGo
  <2>6. /\ cpc[c] \in Opened => 1 \in chans'[c]
        /\ \A g \in Coming(c)' : g.kind = "profile" => 1 \in chans'[c]
        /\ \A g \in Range(rxq[c]) \union Range(s2c[c]) :
              cpc[c] = "close1" /\ g.kind = "closeok" => 1 \notin chans'[c]
        /\ cpc[c] \in {"greeting", "close0"} => 1 \notin chans'[c]
    <3>1. chans'[c] = chans[c] \/ (cpc[c] = "profile" /\ chans'[c] = chans[c] \union {1})
      BY <2>5
    <3>2. \A g \in Coming(c)' : g.kind = "profile" => 1 \in chans'[c]
      BY <1>1, <1>5, <3>1 DEF Talks
    <3>3. /\ cpc[c] \in Opened => 1 \in chans[c]
          /\ \A g \in Range(rxq[c]) \union Range(s2c[c]) :
                cpc[c] = "close1" /\ g.kind = "closeok" => 1 \notin chans[c]
          /\ cpc[c] \in {"greeting", "close0"} => 1 \notin chans[c]
      BY <1>1 DEF Talks
    <3> QED BY <3>1, <3>2, <3>3
  <2>7. /\ InOrder(c, rxq[c]) /\ InOrder(c, s2c[c]) /\ Ahead(c, rxq[c], s2c[c])
        /\ \A g \in Range(rxq[c]) : g.kind # "SEQ"
    BY <1>1 DEF Talks
  <2> QED BY <1>3, <2>1, <2>2, <2>3, <2>4, <2>6, <2>7 DEF Talks
<1>11. Tally(c)'
  <2>1. CASE cup[c]
    <3>. DEFINE k == Len(handled[c])
    <3>1. Numbered(handled[c]) /\ Logs(c2s[c], k, sent[c]) /\ k \in Nat
      BY <1>1, <2>1 DEF Tally
    <3>2. /\ f.kind = "log" => f.arg = k + 1 /\ Logs(Tail(c2s[c]), k + 1, sent[c])
          /\ f.kind # "log" => k = sent[c] /\ Logs(Tail(c2s[c]), k, sent[c])
      BY <1>1, <3>1, LogsTail
    <3>3. ASSUME f.kind = "log" PROVE Len(handled'[c]) = k + 1 /\ Numbered(handled'[c])
      <4>. DEFINE h == Append(handled[c], k + 1)
      <4>1. Len(h) = k + 1 /\ h[k + 1] = k + 1 /\ \A i \in 1 .. k : h[i] = handled[c][i]
        BY <1>1, <3>1
      <4>2. handled'[c] = h
        BY <3>2, <3>3
      <4> HIDE DEF h
      <4>3. Numbered(h)
        <5>1. \A i \in 1 .. k : h[i] = i
          BY <3>1, <4>1 DEF Numbered
        <5>2. \A i \in 1 .. k + 1 : i \in 1 .. k \/ i = k + 1
          BY <3>1
        <5> HIDE DEF k
        <5> QED BY <4>1, <5>1, <5>2 DEF Numbered
      <4> QED BY <4>1, <4>2, <4>3
    <3>4. Numbered(handled'[c]) /\ Logs(c2s'[c], Len(handled'[c]), sent'[c])
      BY <1>3, <3>1, <3>2, <3>3
    <3>5. cpc[c] = "close1" /\ (\E g \in Coming(c)' : g.kind = "closeok") => f.kind # "log"
      <4>1. ASSUME NEW g \in Coming(c), g.kind = "closeok" PROVE FALSE
        BY <1>1, <2>1, <4>1 DEF Talks, Quiet
      <4> QED BY <1>5, <4>1
    <3>6. cpc[c] = "close0" => f.kind # "log"
      BY <1>7, <2>1
    <3>7. cpc[c] # "done"
      BY <1>1, <2>1 DEF Phase, Ends
    <3> QED BY <1>3, <3>1, <3>2, <3>4, <3>5, <3>6, <3>7 DEF Tally
  <2>2. CASE ~cup[c]
    <3>1. cpc[c] \notin {"close0", "close1", "done"}
      BY <1>1, <2>2 DEF Phase, Ends, Tally
    <3> QED BY <1>3, <2>2, <3>1 DEF Tally
  <2> QED BY <1>1, <2>1, <2>2
<1> QED BY <1>8, <1>9, <1>10, <1>11 DEF CInv

\* Closing the sockets leaves nothing behind that could contradict what the client has
\* already received.
LEMMA CloseInv ==
  ASSUME IInv, NEW S, NEW c \in Clients, CloseSockets(S), UNCHANGED <<clntVars, handled>>,
         c \in S => conn[c] \in {"open", "backlog"}
  PROVE  CInv(c)'
<1>1. UNCHANGED <<cpc, cup, cchans, rxq, sent, handled>>
  BY DEF clntVars
<1>2. CASE c \notin S
  BY <1>1, <1>2, UnmovedInv DEF CloseSockets, Unmoved, IInv
<1>3. CASE c \in S
  <2>1. /\ conn'[c] = "closed" /\ c2s'[c] = <<>> /\ chans'[c] = {} /\ sendQue'[c] = <<>>
        /\ (s2c'[c] = s2c[c] \/ s2c'[c] = <<>>)
    BY <1>3 DEF CloseSockets
  <2>2. /\ Range(c2s'[c]) = {} /\ Range(sendQue'[c]) = {}
        /\ (Range(s2c'[c]) = Range(s2c[c]) \/ (s2c'[c] = <<>> /\ Range(s2c'[c]) = {}))
    BY <2>1, RangeEmpty
  <2>3. Phase(c) /\ Served(c) /\ Talks(c) /\ Tally(c)
    BY DEF IInv, CInv
  <2>4. Coming(c)' = Range(rxq[c]) \union Range(s2c'[c]) /\ Coming(c)' \subseteq Coming(c)
    BY <1>1, <2>2 DEF Coming
  <2>5. Phase(c)'
    BY <1>1, <1>3, <2>1, <2>3 DEF Phase
  <2>6. Served(c)'
    BY <2>1, <2>2, <2>3, <2>4, OrderEmpty DEF Served, Quiet
  <2>7. Talks(c)'
    <3>1. \A g \in Coming(c)' : cup[c] /\ cpc[c] = "profile" /\ g.kind = "goahead" =>
             \E h \in Coming(c)' : h.kind = "profile"
      BY <2>2, <2>3, <2>4 DEF Talks, Ahead, Coming, Fits
    <3>2. cup[c] => InOrder(c, s2c'[c])
      BY <2>1, <2>3, OrderEmpty DEF Talks
    <3>3. cup[c] => /\ Ahead(c, rxq[c], s2c'[c]) /\ Ahead(c, rxq[c], sendQue'[c])
                    /\ Ahead(c, s2c'[c], sendQue'[c])
      BY <2>2, <2>3 DEF Talks, Ahead
    <3> QED BY <1>1, <2>1, <2>2, <2>3, <2>4, <3>1, <3>2, <3>3 DEF Talks, Quiet
  <2>8. Tally(c)'
    BY <1>1, <2>1, <2>3, <2>4 DEF Tally
  <2> QED BY <2>5, <2>6, <2>7, <2>8 DEF CInv
<1> QED BY <1>2, <1>3
\* Nothing but the place of the loop, the fd sets and the flags has changed.
LEMMA LoopStep ==
  ASSUME IInv, UNCHANGED <<clntVars, wireVars, backlog, sessions, sessVars, handled>>,
         todo' = todo \/ todo' = sessions, Lists',
         lpc' \in {"setup", "top", "send", "select", "accept", "serve", "stopped"},
         bRun' \in BOOLEAN, got' \in BOOLEAN, asked' \in BOOLEAN, freed' \in BOOLEAN,
         fdsetRD' \subseteq Clients, fdsetWR' \subseteq Clients
  PROVE  IInv'
<1>1. UNCHANGED <<cpc, cup, cchans, rxq, sent, c2s, s2c, conn, chans, greeted, closed,
                  sendQue, sending>>
  BY DEF clntVars, wireVars, sessVars
<1>2. TypeOK'
  <2>1. todo' \in Seq(Range(sessions))
    <3>1. sessions \in Seq(Range(sessions))
      BY ListFacts, ListOf
    <3> QED BY <3>1 DEF IInv, TypeOK
  <2> QED BY <1>1, <2>1 DEF IInv, TypeOK
<1>3. \A c \in Clients : Unmoved(c)
  BY <1>1 DEF Unmoved
<1> QED BY <1>2, <1>3, UnmovedInv DEF IInv

\* The steps in which the loop only moves on.
LEMMA LoopStepsInv ==
  ASSUME IInv, Run \/ Shutdown \/ LoopTop \/ Select \/ SelectReturns \/ ServeDone
  PROVE  IInv'
<1>1. /\ bRun \in BOOLEAN /\ got \in BOOLEAN /\ asked \in BOOLEAN /\ freed \in BOOLEAN
      /\ fdsetRD \subseteq Clients /\ fdsetWR \subseteq Clients
      /\ lpc \in {"setup", "top", "send", "select", "accept", "serve", "stopped"}
  BY DEF IInv, TypeOK
<1>2. CASE Run
  <2>1. Lists'
    BY <1>2 DEF Run, IInv, Lists, Distinct
  <2> QED BY <1>1, <1>2, <2>1, LoopStep DEF Run, histVars
<1>3. CASE Shutdown
  <2>1. Lists'
    BY <1>3 DEF Shutdown, IInv, Lists, Distinct
  <2> QED BY <1>1, <1>3, <2>1, LoopStep DEF Shutdown
<1>4. CASE LoopTop
  <2>1. Lists'
    BY <1>4 DEF LoopTop, IInv, Lists, Distinct
  <2> QED BY <1>1, <1>4, <2>1, LoopStep DEF LoopTop, histVars
<1>5. CASE Select
  <2>1. /\ UNCHANGED <<clntVars, wireVars, bRun, backlog, sessions, sessVars, histVars>>
        /\ lpc' = (IF backlog # <<>> THEN "accept" ELSE "serve")
        /\ todo' = sessions /\ got' = FALSE /\ fdsetRD' = Readable
    BY <1>5 DEF Select
  <2>2. fdsetWR' \subseteq Clients
    BY <1>1, <1>5 DEF Select
  <2>3. fdsetRD' \subseteq Clients
    BY <2>1, ListFacts DEF Readable
  <2>4. Lists'
    BY <2>1 DEF IInv, Lists, Distinct
  <2> QED BY <1>1, <2>1, <2>2, <2>3, <2>4, LoopStep DEF histVars
<1>6. CASE SelectReturns
  <2>1. Lists'
    BY <1>6 DEF SelectReturns, IInv, Lists, Distinct
  <2> QED BY <1>1, <1>6, <2>1, LoopStep DEF SelectReturns, histVars
<1>7. CASE ServeDone
  <2>1. Lists'
    BY <1>7 DEF ServeDone, IInv, Lists, Distinct
  <2> QED BY <1>1, <1>7, <2>1, LoopStep DEF ServeDone, histVars
<1> QED BY <1>2, <1>3, <1>4, <1>5, <1>6, <1>7
-----------------------------------------------------------------------------
\* The session the loop turns to is one it serves.
LEMMA ServedOne ==
  ASSUME IInv, todo # <<>>
  PROVE  /\ Head(todo) \in Clients /\ conn[Head(todo)] = "open"
         /\ Head(todo) \in Range(sessions)
         /\ Tail(todo) \in Seq(Range(sessions)) /\ Distinct(Tail(todo))
         /\ Head(todo) \notin Range(Tail(todo))
<1>1. todo \in Seq(Range(sessions)) /\ todo \in Seq(Clients) /\ Distinct(todo)
  BY ListFacts DEF IInv, TypeOK
<1>2. Head(todo) \in Range(sessions) /\ Tail(todo) \in Seq(Range(sessions))
  BY <1>1
<1> QED BY <1>1, <1>2, ListFacts, DistinctTail

\* The loop has handled one session and turns to the next.
LEMMA ServeStep ==
  ASSUME IInv, todo # <<>>, lpc \in {"send", "serve"}, todo' = Tail(todo),
         UNCHANGED <<clntVars, c2s, conn, lpc, bRun, backlog, sessions, fdsetRD, fdsetWR,
                     greeted, handled, asked>>,
         got' \in BOOLEAN,
         \/ sendQue[Head(todo)] # <<>> /\ LstnSendFram(Head(todo))
         \/ UNCHANGED <<freed, sendQue, sending, s2c, chans, closed>>
  PROVE  IInv'
<1>. PICK c \in Clients : c = Head(todo)
  BY ServedOne
<1>1. /\ c \in Clients /\ conn[c] = "open" /\ todo' \in Seq(Range(sessions))
      /\ Distinct(todo')
  BY ServedOne
<1>2. Lists'
  BY <1>1 DEF IInv, Lists, Distinct
<1>3. UNCHANGED <<cpc, cup, cchans, rxq, sent>>
  BY DEF clntVars
<1>4. CASE sendQue[c] # <<>> /\ LstnSendFram(c)
  <2>1. /\ CInv(c)' /\ \A d \in Clients : d # c => Unmoved(d)
        /\ sendQue' \in [Clients -> Seq(Frames)] /\ s2c' \in [Clients -> Seq(Frames)]
        /\ sending' \in [Clients -> BOOLEAN] /\ chans' \in [Clients -> SUBSET {0, 1}]
        /\ closed' \in [Clients -> BOOLEAN] /\ freed' \in BOOLEAN
    BY <1>1, <1>4, LstnSendFramInv
  <2>2. TypeOK'
    BY <1>1, <1>3, <2>1 DEF IInv, TypeOK
  <2> QED BY <1>2, <2>1, <2>2, UnmovedInv DEF IInv
<1>5. CASE UNCHANGED <<freed, sendQue, sending, s2c, chans, closed>>
  <2>1. TypeOK'
    BY <1>1, <1>3, <1>5 DEF IInv, TypeOK
  <2>2. \A d \in Clients : Unmoved(d)
    BY <1>3, <1>5 DEF Unmoved
  <2> QED BY <1>2, <2>1, <2>2, UnmovedInv DEF IInv
<1> QED BY <1>4, <1>5

\* Phase 1 of the loop.
LEMMA SendPhaseInv == ASSUME IInv, SendPhase PROVE IInv'
<1>1. got \in BOOLEAN
  BY DEF IInv, TypeOK
<1> QED BY <1>1, ServeStep DEF SendPhase

\* Phase 3, writing.
LEMMA ServeNextInv == ASSUME IInv, ServeNext PROVE IInv'
  BY ServeStep DEF ServeNext
\* A connection is accepted: the greeting is queued, channel 0 is open.
LEMMA NewSessInv == ASSUME IInv, NewSess PROVE IInv'
<1>. DEFINE f == Fram(0, "greeting", 0)
<1>. PICK c : c = Head(backlog)
  OBVIOUS
<1>1. /\ lpc = "accept" /\ lpc' = "serve"
      /\ conn' = [conn EXCEPT ![c] = "open"] /\ sessions' = Append(sessions, c)
      /\ todo' = Append(sessions, c) /\ chans' = [chans EXCEPT ![c] = {0}]
      /\ sendQue' = [sendQue EXCEPT ![c] = @ \o <<f>>] /\ backlog' = Tail(backlog)
      /\ UNCHANGED <<clntVars, c2s, s2c, bRun, fdsetRD, fdsetWR, got, greeted, closed,
                     sending, handled, asked, freed>>
  BY DEF NewSess, Enqueue, histVars
<1>2. /\ backlog # <<>> /\ backlog \in Seq(Clients) /\ Distinct(backlog)
      /\ sessions \in Seq(Clients) /\ Distinct(sessions)
  BY <1>1, ListFacts DEF IInv, Lists
<1>3. /\ c \in Clients /\ conn[c] = "backlog" /\ c \notin Range(sessions)
      /\ Tail(backlog) \in Seq(Clients) /\ Range(Tail(backlog)) \subseteq Range(backlog)
      /\ Distinct(Tail(backlog)) /\ c \notin Range(Tail(backlog))
  BY <1>2, ListFacts, RangeTail, DistinctTail
<1>4. f \in Frames /\ f.chan = 0 /\ f.kind = "greeting"
  BY FramType
<1> HIDE DEF f
<1>5. /\ rxq[c] = <<>> /\ s2c[c] = <<>> /\ sendQue[c] = <<>> /\ handled[c] = <<>>
      /\ Phase(c) /\ Served(c) /\ Talks(c) /\ Tally(c) /\ cup[c] \in BOOLEAN
      /\ cpc[c] \in {"greeting", "failed"} /\ \A g \in Range(c2s[c]) : g.kind = "greeting"
  BY <1>3, TypeOf DEF IInv, CInv, Phase
<1>6. UNCHANGED <<cpc, cup, cchans, rxq, sent>>
  BY <1>1 DEF clntVars
<1>7. sendQue[c] \o <<f>> = <<f>>
  BY <1>4, <1>5
<1>8. /\ conn' \in [Clients -> {"none", "backlog", "open", "closed"}] /\ conn'[c] = "open"
      /\ chans' \in [Clients -> SUBSET {0, 1}] /\ chans'[c] = {0}
      /\ sendQue' \in [Clients -> Seq(Frames)] /\ sendQue'[c] = <<f>>
      /\ \A d \in Clients : d # c =>
            conn'[d] = conn[d] /\ chans'[d] = chans[d] /\ sendQue'[d] = sendQue[d]
  <2>1. <<f>> \in Seq(Frames)
    BY <1>4
  <2> QED BY <1>1, <1>3, <1>7, <2>1 DEF IInv, TypeOK
<1>9. /\ backlog' \in Seq({d \in Clients : conn'[d] = "backlog"})
      /\ sessions' \in Seq({d \in Clients : conn'[d] = "open"})
      /\ todo' \in Seq(Range(sessions')) /\ Distinct(sessions') /\ Distinct(backlog')
  <2>1. sessions' \in Seq(Clients) /\ Range(sessions') = Range(sessions) \union {c}
    BY <1>1, <1>2, <1>3, RangeAppend
  <2>2. /\ Range(sessions') \subseteq {d \in Clients : conn'[d] = "open"}
        /\ Range(backlog') \subseteq {d \in Clients : conn'[d] = "backlog"}
    <3>1. \A d \in Range(sessions) : d # c /\ d \in Clients /\ conn[d] = "open"
      BY <1>3, ListFacts
    <3>2. \A d \in Range(backlog') : d # c /\ d \in Clients /\ conn[d] = "backlog"
      BY <1>1, <1>3, ListFacts
    <3> QED BY <1>3, <1>8, <2>1, <3>1, <3>2
  <2>3. Distinct(sessions')
    BY <1>1, <1>2, <1>3, DistinctAppend
  <2>4. todo' \in Seq(Range(sessions'))
    BY <1>1, <2>1, ListOf
  <2> QED BY <1>1, <1>3, <2>1, <2>2, <2>3, <2>4, ListOf
<1>10. TypeOK'
  BY <1>1, <1>6, <1>8, <1>9 DEF IInv, TypeOK
<1>11. Lists'
  BY <1>1, <1>9 DEF IInv, Lists
<1>12. CInv(c)'
  <2>1. /\ Range(rxq[c]) = {} /\ Range(s2c[c]) = {} /\ Range(sendQue'[c]) = {f}
        /\ Coming(c)' = {f} /\ Coming(c) = {}
    BY <1>1, <1>5, <1>6, <1>8, RangeEmpty, RangeOne DEF Coming
  <2>2. Phase(c)'
    BY <1>1, <1>5, <1>6, <1>8 DEF Phase, Ends
  <2>3. Served(c)'
    <3>1. \A g \in Range(c2s[c]) : g.chan # 1
      BY <1>5 DEF Served, Formed
    <3>2. \A g \in Coming(c)' \union Range(c2s'[c]) : Formed(g)
      BY <1>1, <1>4, <1>5, <2>1 DEF Served, Formed
    <3>3. \A g \in Range(c2s'[c]) :
             /\ g.chan = 1 => 1 \in chans'[c]
             /\ g.kind = "start" => 1 \notin chans'[c]
             /\ g.kind = "close" => g.arg \in {0, 1} /\ (g.arg = 1 <=> 1 \in chans'[c])
             /\ g.kind \in {"greeting", "start", "iam", "log", "NUL", "close"}
      BY <1>1, <1>5, <3>1
    <3>4. \A g \in Range(sendQue'[c]) :
             g.chan \in chans'[c] /\ (g.kind = "closeok" => g.arg \in chans'[c])
      BY <1>4, <1>8, <2>1
    <3>5. InOrder(c, sendQue'[c]) /\ InOrder(c, c2s'[c])
      BY <1>1, <1>5, <1>8, OrderOne DEF Served
    <3>6. Quiet(Range(sendQue'[c]), c2s'[c])
      BY <1>1, <1>4, <1>5, <2>1 DEF Quiet
    <3> QED BY <3>2, <3>3, <3>4, <3>5, <3>6 DEF Served
  <2>4. Talks(c)'
    BY <1>1, <1>4, <1>5, <1>6, <1>8, <2>1
       DEF Talks, Quiet, MayCome, Ahead, Phase, Ends, Opened
  <2>5. Tally(c)'
    BY <1>1, <1>3, <1>5, <1>6, <1>8 DEF Tally, Phase, Ends
  <2> QED BY <2>2, <2>3, <2>4, <2>5 DEF CInv
<1>13. \A d \in Clients : d # c => Unmoved(d)
  BY <1>1, <1>6, <1>8 DEF Unmoved
<1> QED BY <1>10, <1>11, <1>12, <1>13, UnmovedInv DEF IInv
-----------------------------------------------------------------------------
\* The types after the sockets are closed.
LEMMA CloseTypes ==
  ASSUME IInv, NEW S, CloseSockets(S)
  PROVE  /\ conn' \in [Clients -> {"none", "backlog", "open", "closed"}]
         /\ s2c' \in [Clients -> Seq(Frames)] /\ c2s' \in [Clients -> Seq(Frames)]
         /\ chans' \in [Clients -> SUBSET {0, 1}] /\ sendQue' \in [Clients -> Seq(Frames)]
         /\ greeted' \in [Clients -> BOOLEAN] /\ closed' \in [Clients -> BOOLEAN]
         /\ sending' \in [Clients -> BOOLEAN]
         /\ \A d \in Clients : d \notin S => conn'[d] = conn[d]
<1>1. /\ conn \in [Clients -> {"none", "backlog", "open", "closed"}]
      /\ s2c \in [Clients -> Seq(Frames)] /\ c2s \in [Clients -> Seq(Frames)]
      /\ chans \in [Clients -> SUBSET {0, 1}] /\ sendQue \in [Clients -> Seq(Frames)]
      /\ <<>> \in Seq(Frames)
  BY DEF IInv, TypeOK
<1>2. conn' \in [Clients -> {"none", "backlog", "open", "closed"}]
  BY <1>1 DEF CloseSockets
<1>3. s2c' \in [Clients -> Seq(Frames)]
  BY <1>1 DEF CloseSockets
<1>4. c2s' \in [Clients -> Seq(Frames)] /\ sendQue' \in [Clients -> Seq(Frames)]
  BY <1>1 DEF CloseSockets
<1>5. chans' \in [Clients -> SUBSET {0, 1}]
  BY <1>1 DEF CloseSockets
<1> QED BY <1>2, <1>3, <1>4, <1>5 DEF CloseSockets, IInv, TypeOK

\* Sessions are removed from the list and aborted.
LEMMA RemoveInv ==
  ASSUME IInv, NEW S, S \subseteq Range(sessions), Abort(S), sessions' = Without(sessions, S),
         UNCHANGED <<clntVars, bRun, backlog, fdsetRD, got, handled, asked>>,
         todo' \in Seq(Range(sessions) \ S), Distinct(todo'), fdsetWR' \subseteq Clients,
         \/ lpc' = "select" /\ todo' = <<>> /\ lpc = "send"
         \/ lpc' = lpc /\ lpc = "serve"
  PROVE  IInv'
<1>1. /\ sessions' \in Seq(Clients) /\ Range(sessions') = Range(sessions) \ S
      /\ Distinct(sessions')
  <2>1. sessions \in Seq(Clients) /\ \A i, j \in 1 .. Len(sessions) : sessions[i] = sessions[j] => i = j
    BY ListFacts DEF Distinct
  <2>2. /\ Without(sessions, S) \in Seq(Clients)
        /\ Range(Without(sessions, S)) = Range(sessions) \ S
        /\ \A i, j \in 1 .. Len(Without(sessions, S)) :
              Without(sessions, S)[i] = Without(sessions, S)[j] => i = j
    BY <2>1, WithoutIs
  <2> QED BY <2>2 DEF Distinct
<1>2. \A d \in Clients : d \notin S => conn'[d] = conn[d]
  BY CloseTypes DEF Abort
<1>3. \A d \in Range(sessions) : d \in Clients /\ conn[d] = "open"
  BY ListFacts
<1>4. sessions' \in Seq({d \in Clients : conn'[d] = "open"})
  <2>1. Range(sessions') \subseteq {d \in Clients : conn'[d] = "open"}
    BY <1>1, <1>2, <1>3
  <2> QED BY <1>1, <2>1, ListOf
<1>5. backlog' \in Seq({d \in Clients : conn'[d] = "backlog"})
  <2>1. Range(backlog) \subseteq {d \in Clients : conn'[d] = "backlog"}
    <3>1. \A d \in Range(backlog) : d \in Clients /\ conn[d] = "backlog"
      BY ListFacts
    <3> QED BY <1>2, <1>3, <3>1
  <2> QED BY <2>1, ListFacts, ListOf
<1>6. TypeOK'
  <2>1. freed' \in BOOLEAN
    BY DEF Abort, IInv, TypeOK
  <2> QED BY <1>1, <1>4, <1>5, <2>1, CloseTypes DEF Abort, IInv, TypeOK, clntVars
<1>7. Lists'
  BY <1>1 DEF IInv, Lists
<1>8. \A d \in Clients : CInv(d)'
  BY <1>3, CloseInv DEF Abort
<1> QED BY <1>6, <1>7, <1>8 DEF IInv

\* Sessions whose channel 0 has been closed are removed.
LEMMA BuildFDSetsInv == ASSUME IInv, BuildFDSets PROVE IInv'
<1>. DEFINE gone == {c \in Range(sessions) : closed[c]}
<1>1. /\ lpc = "send" /\ todo = <<>> /\ lpc' = "select" /\ Abort(gone)
      /\ sessions' = Without(sessions, gone)
      /\ fdsetWR' = {c \in Range(sessions) \ gone : sendQue[c] # <<>>}
      /\ UNCHANGED <<clntVars, bRun, backlog, todo, fdsetRD, got, handled, asked>>
  BY DEF BuildFDSets
<1>2. gone \subseteq Range(sessions)
  OBVIOUS
<1>3. fdsetWR' \subseteq Clients
  BY <1>1, ListFacts
<1>4. todo' = <<>> /\ todo' \in Seq(Range(sessions) \ gone) /\ Distinct(todo')
  BY <1>1, DistinctEmpty
<1> HIDE DEF gone
<1>5. lpc' = "select" /\ todo' = <<>> /\ lpc = "send" /\ Abort(gone)
      /\ sessions' = Without(sessions, gone)
      /\ UNCHANGED <<clntVars, bRun, backlog, fdsetRD, got, handled, asked>>
  BY <1>1, <1>4
<1> QED BY <1>2, <1>3, <1>4, <1>5, RemoveInv, SMTT(30)

\* A session whose connection has ended is removed.
LEMMA SessionEndsInv == ASSUME IInv, SessionEnds PROVE IInv'
<1>. DEFINE c == Head(todo)
<1>1. /\ lpc = "serve" /\ lpc' = lpc /\ todo # <<>> /\ Abort({c}) /\ todo' = Tail(todo)
      /\ sessions' = Without(sessions, {c})
      /\ UNCHANGED <<clntVars, bRun, backlog, fdsetRD, fdsetWR, got, handled, asked>>
  BY DEF SessionEnds
<1>2. /\ {c} \subseteq Range(sessions) /\ Tail(todo) \in Seq(Range(sessions))
      /\ Distinct(Tail(todo)) /\ c \notin Range(Tail(todo))
  BY <1>1, ServedOne
<1> HIDE DEF c
<1>3. todo' \in Seq(Range(sessions) \ {c})
  <2>1. Range(Tail(todo)) \subseteq Range(sessions) \ {c}
    BY <1>2, RangeIdx
  <2> QED BY <1>1, <1>2, <2>1, ListOf
<1>4. fdsetWR' \subseteq Clients
  BY <1>1 DEF IInv, TypeOK
<1> QED BY <1>1, <1>2, <1>3, <1>4, RemoveInv

\* Nothing is left when the listener has stopped.
LEMMA StoppedInv ==
  ASSUME IInv, CloseSockets(Range(sessions) \union Range(backlog)), lpc' = "stopped",
         sessions' = <<>>, backlog' = <<>>, todo' = <<>>, freed' \in BOOLEAN,
         UNCHANGED <<clntVars, bRun, fdsetRD, fdsetWR, got, handled, asked>>
  PROVE  IInv'
<1>. DEFINE S == Range(sessions) \union Range(backlog)
<1>1. CloseSockets(S)
  OBVIOUS
<1>2. \A d \in S : d \in Clients /\ conn[d] \in {"open", "backlog"}
  BY ListFacts
<1> HIDE DEF S
<1>3. TypeOK'
  <2>1. todo' \in Seq(Range(sessions'))
    OBVIOUS
  <2>2. /\ sessions' \in Seq({d \in Clients : conn'[d] = "open"})
        /\ backlog' \in Seq({d \in Clients : conn'[d] = "backlog"})
    OBVIOUS
  <2>3. /\ UNCHANGED <<cpc, cup, cchans, rxq, sent, bRun, fdsetRD, fdsetWR, got, handled, asked>>
        /\ lpc' \in {"setup", "top", "send", "select", "accept", "serve", "stopped"}
    BY DEF clntVars
  <2> QED BY <1>1, <2>1, <2>2, <2>3, CloseTypes DEF IInv, TypeOK
<1>4. Lists'
  BY DistinctEmpty DEF Lists
<1>5. \A d \in Clients : CInv(d)'
  BY <1>1, <1>2, CloseInv
<1> QED BY <1>3, <1>4, <1>5 DEF IInv

\* The loop ends: every session and connection is aborted.
LEMMA LoopEndInv == ASSUME IInv, LoopEnd PROVE IInv'
<1>1. /\ lpc = "top" /\ lpc' = "stopped" /\ Abort(Range(sessions) \union Range(backlog))
      /\ sessions' = <<>> /\ backlog' = <<>>
      /\ UNCHANGED <<clntVars, bRun, todo, fdsetRD, fdsetWR, got, handled, asked>>
  BY DEF LoopEnd
<1>2. todo' = <<>>
  BY <1>1 DEF IInv, Lists
<1>3. CloseSockets(Range(sessions) \union Range(backlog)) /\ freed' \in BOOLEAN
  BY <1>1 DEF Abort, IInv, TypeOK
<1> QED BY <1>1, <1>2, <1>3, StoppedInv

\* The process is killed in a send: the system closes its sockets.
LEMMA KilledInv == ASSUME IInv, KilledBySend PROVE IInv'
<1>1. /\ lpc' = "stopped" /\ CloseSockets(Range(sessions) \union Range(backlog))
      /\ sessions' = <<>> /\ backlog' = <<>> /\ todo' = <<>>
      /\ UNCHANGED <<clntVars, bRun, fdsetRD, fdsetWR, got, handled, asked, freed>>
  BY DEF KilledBySend, histVars
<1>2. freed' \in BOOLEAN
  BY <1>1 DEF IInv, TypeOK
<1> QED BY <1>1, <1>2, StoppedInv
-----------------------------------------------------------------------------
\* What is known of the first frame the listener has to read.
LEMMA FirstFram ==
  ASSUME IInv, NEW c \in Clients, conn[c] = "open", c2s[c] # <<>>, NEW f, f = Head(c2s[c])
  PROVE  /\ f \in Frames /\ f.chan \in {0, 1}
         /\ f.kind \in {"greeting", "start", "iam", "log", "NUL", "close"}
         /\ f.chan = 1 <=> f.kind \in {"iam", "log", "NUL"}
         /\ f.chan = 1 => 1 \in chans[c]
         /\ f.kind = "start" => 1 \notin chans[c]
         /\ f.kind = "close" => f.arg \in {0, 1}
         /\ f.kind \in {"start", "close", "iam"} => Tail(c2s[c]) = <<>>
         /\ f.kind = "log" /\ c \notin RawClients => Tail(c2s[c]) = <<>>
         /\ cup[c] /\ f.kind = "start" => cpc[c] = "profile"
         /\ cup[c] /\ f.kind = "close" =>
              cpc[c] \in {"close0", "close1"} /\ (f.arg = 1 <=> cpc[c] = "close1")
         /\ cup[c] /\ f.kind \in {"iam", "log"} => cpc[c] \in {"iam", "log", "idle", "nul", "close1"}
         /\ cup[c] /\ f.kind \in {"iam", "log"} /\ c \notin RawClients => cpc[c] \in {"iam", "log"}
<1>1. /\ c2s[c] \in Seq(Frames) /\ Phase(c) /\ Served(c) /\ Talks(c)
      /\ cpc[c] \in {"new", "idle", "nul", "done", "unanswered", "failed", "greeting",
                     "profile", "goahead", "iam", "log", "close1", "close0"}
  BY TypeOf DEF IInv, CInv
<1>2. /\ f \in Frames /\ f \in Range(c2s[c]) /\ Tail(c2s[c]) \in Seq(Frames)
      /\ \A g \in Range(Tail(c2s[c])) : Fits(c, f, g)
  BY <1>1, RangeTail, OrderTail DEF Served
<1>3. /\ f.chan \in {0, 1}
      /\ f.kind \in {"greeting", "start", "iam", "log", "NUL", "close"}
      /\ f.chan = 1 <=> f.kind \in {"iam", "log", "NUL"}
      /\ f.chan = 1 => 1 \in chans[c]
      /\ f.kind = "start" => 1 \notin chans[c]
      /\ f.kind = "close" => f.arg \in {0, 1}
  BY <1>1, <1>2, FramType DEF Served, Formed
<1>4. /\ f.kind \in {"start", "close", "iam"} => Tail(c2s[c]) = <<>>
      /\ f.kind = "log" /\ c \notin RawClients => Tail(c2s[c]) = <<>>
  BY <1>2, NothingIn DEF Fits
<1>5. cup[c] => f.kind \in MayGo(c, cpc[c]) /\ (f.kind = "close" => (f.arg = 1 <=> cpc[c] = "close1"))
  BY <1>1, <1>2 DEF Talks
<1>6. cup[c] => cpc[c] \notin Ends /\ (cpc[c] = "nul" => c \in RawClients)
  BY <1>1 DEF Phase
<1>7. cup[c] /\ f.kind = "start" => cpc[c] = "profile"
  BY <1>5 DEF MayGo
<1>8. cup[c] /\ f.kind = "close" => cpc[c] \in {"close0", "close1"} /\ (f.arg = 1 <=> cpc[c] = "close1")
  BY <1>1, <1>5, <1>6 DEF MayGo, Ends
<1>9. cup[c] /\ f.kind \in {"iam", "log"} => cpc[c] \in {"iam", "log", "idle", "nul", "close1"}
  BY <1>1, <1>5, <1>6 DEF MayGo, Ends
<1>10. cup[c] /\ f.kind \in {"iam", "log"} /\ c \notin RawClients => cpc[c] \in {"iam", "log"}
  BY <1>1, <1>5, <1>6 DEF MayGo, Ends
<1> QED BY <1>2, <1>3, <1>4, <1>7, <1>8, <1>9, <1>10

\* What the listener queues for a frame answers it.
LEMMA OnFramRcvdInv ==
  ASSUME IInv, NEW c \in Clients, conn[c] = "open", c2s[c] # <<>>,
         OnFramRcvd(c, Head(c2s[c])), c2s' = [c2s EXCEPT ![c] = Tail(@)],
         UNCHANGED <<clntVars, s2c, conn>>
  PROVE  /\ CInv(c)' /\ \A d \in Clients : d # c => Unmoved(d)
         /\ sendQue' \in [Clients -> Seq(Frames)] /\ c2s' \in [Clients -> Seq(Frames)]
         /\ chans' \in [Clients -> SUBSET {0, 1}] /\ greeted' \in [Clients -> BOOLEAN]
         /\ handled' \in [Clients -> Seq(Nat)]
<1>. PICK f : f = Head(c2s[c])
  OBVIOUS
<1>. DEFINE Answer(N) ==
              /\ sendQue'[c] = sendQue[c] \o N
              /\ InOrder(c, N)
              /\ \A g \in Range(N) : /\ f.kind # "greeting"
                                     /\ (g.kind = "SEQ" \/ Tail(c2s[c]) = <<>>)
                                     /\ cup[c] => g.kind \in MayCome(c, cpc[c])
                                     /\ Formed(g) /\ g.chan \in chans'[c]
                                     /\ g.kind = "closeok" => f.kind = "close" /\ g.arg \in chans'[c]
                                     /\ g.kind = "closeok" /\ cpc[c] = "close1" => g.arg = 1
                                     /\ g.kind = "profile" => 1 \in chans'[c]
                                     /\ g.kind = "goahead" => \E h \in Range(N) : h.kind = "profile"
              /\ \/ chans'[c] = chans[c]
                 \/ f.kind = "start" /\ Tail(c2s[c]) = <<>> /\ chans'[c] = chans[c] \union {1}
              /\ handled'[c] = IF f.kind = "log" THEN Append(handled[c], f.arg) ELSE handled[c]
            Typed == /\ sendQue' \in [Clients -> Seq(Frames)]
                     /\ chans' \in [Clients -> SUBSET {0, 1}]
                     /\ greeted' \in [Clients -> BOOLEAN]
                     /\ handled' \in [Clients -> Seq(Nat)]
                     /\ \A d \in Clients : d # c =>
                           /\ sendQue'[d] = sendQue[d] /\ chans'[d] = chans[d]
                           /\ handled'[d] = handled[d]
            Goal == Typed /\ \E N \in Seq(Frames) : Answer(N)
<1>1. /\ c2s[c] \in Seq(Frames) /\ sendQue[c] \in Seq(Frames) /\ handled[c] \in Seq(Nat)
      /\ chans[c] \subseteq {0, 1}
      /\ sendQue \in [Clients -> Seq(Frames)] /\ chans \in [Clients -> SUBSET {0, 1}]
      /\ greeted \in [Clients -> BOOLEAN] /\ handled \in [Clients -> Seq(Nat)]
      /\ c2s \in [Clients -> Seq(Frames)]
  BY TypeOf DEF IInv, TypeOK
<1>2. /\ f \in Frames /\ f.chan \in {0, 1}
      /\ f.kind \in {"greeting", "start", "iam", "log", "NUL", "close"}
      /\ f.chan = 1 <=> f.kind \in {"iam", "log", "NUL"}
      /\ f.chan = 1 => 1 \in chans[c]
      /\ f.kind = "start" => 1 \notin chans[c]
      /\ f.kind = "close" => f.arg \in {0, 1}
      /\ f.kind \in {"start", "close", "iam"} => Tail(c2s[c]) = <<>>
      /\ f.kind = "log" /\ c \notin RawClients => Tail(c2s[c]) = <<>>
      /\ cup[c] /\ f.kind = "start" => cpc[c] = "profile"
      /\ cup[c] /\ f.kind = "close" =>
              cpc[c] \in {"close0", "close1"} /\ (f.arg = 1 <=> cpc[c] = "close1")
      /\ cup[c] /\ f.kind \in {"iam", "log"} => cpc[c] \in {"iam", "log", "idle", "nul", "close1"}
      /\ cup[c] /\ f.kind \in {"iam", "log"} /\ c \notin RawClients => cpc[c] \in {"iam", "log"}
  BY FirstFram
<1>3. f.arg \in Nat /\ Append(handled[c], f.arg) \in Seq(Nat)
  BY <1>1, <1>2, FramType
<1>4. OnFramRcvd(c, f)
  OBVIOUS
<1>5. /\ c2s' \in [Clients -> Seq(Frames)] /\ c2s'[c] = Tail(c2s[c])
      /\ \A d \in Clients : d # c => c2s'[d] = c2s[d]
  BY <1>1
<1> HIDE DEF Answer, Typed, Goal
\* Nothing is queued.
<1>6. /\ <<>> \in Seq(Frames) /\ Range(<<>>) = {} /\ InOrder(c, <<>>)
      /\ sendQue[c] \o <<>> = sendQue[c]
  BY <1>1, RangeEmpty, OrderEmpty
<1>7. ASSUME UNCHANGED <<chans, sendQue>>, greeted' \in [Clients -> BOOLEAN],
             UNCHANGED handled, f.kind # "log"
      PROVE  Goal
  <2>1. Answer(<<>>)
    BY <1>6, <1>7 DEF Answer
  <2> QED BY <1>1, <1>6, <1>7, <2>1 DEF Typed, Goal
<1>8. ASSUME NEW N \in Seq(Frames), Enqueue(c, N)
      PROVE  /\ sendQue' \in [Clients -> Seq(Frames)] /\ sendQue'[c] = sendQue[c] \o N
             /\ \A d \in Clients : d # c => sendQue'[d] = sendQue[d]
  <2>1. sendQue[c] \o N \in Seq(Frames)
    BY <1>1, RangeConcat
  <2> QED BY <1>1, <1>8, <2>1 DEF Enqueue
<1>9. ASSUME f.chan \notin chans[c] PROVE Goal
  <2>1. UNCHANGED <<chans, greeted, sendQue, handled>>
    BY <1>4, <1>9 DEF OnFramRcvd
  <2> QED BY <1>1, <1>2, <1>7, <1>9, <2>1
<1>10. ASSUME f.chan = 0, 0 \in chans[c] PROVE Goal
  <2>1. /\ greeted' = [greeted EXCEPT ![c] = @ \/ f.kind = "greeting"]
        /\ IF greeted[c] /\ f.kind = "start" THEN DoStartMesg(c)
           ELSE IF greeted[c] /\ f.kind = "close" THEN DoCloseMesg(c, f.arg)
           ELSE UNCHANGED <<chans, sendQue>>
        /\ UNCHANGED handled
    BY <1>4, <1>10 DEF OnFramRcvd, Chan0OnRecvMesg
  <2>2. greeted' \in [Clients -> BOOLEAN] /\ f.kind # "log"
    BY <1>1, <1>2, <1>10, <2>1
  <2>3. CASE greeted[c] /\ f.kind = "start"
    <3>. DEFINE p == Fram(0, "profile", 1)
                g == Fram(1, "goahead", 0)
                N == IF c \in RawClients THEN <<p, g>> ELSE <<p>>
    <3>1. 1 \notin chans[c] /\ Tail(c2s[c]) = <<>> /\ (cup[c] => cpc[c] = "profile")
      BY <1>2, <2>3
    <3>2. chans' = [chans EXCEPT ![c] = @ \union {1}] /\ Enqueue(c, N)
      BY <2>1, <2>3, <3>1 DEF DoStartMesg
    <3>3. /\ p \in Frames /\ p.chan = 0 /\ p.kind = "profile"
          /\ g \in Frames /\ g.chan = 1 /\ g.kind = "goahead"
      BY FramType
    <3> HIDE DEF p, g
    <3>4. /\ N \in Seq(Frames) /\ p \in Range(N)
          /\ \A h \in Range(N) : h = p \/ (h = g /\ c \in RawClients)
          /\ InOrder(c, N)
      <4>1. CASE c \in RawClients
        <5>1. N = <<p, g>> /\ N \in Seq(Frames) /\ Len(N) = 2 /\ N[1] = p /\ N[2] = g
          BY <3>3, <4>1
        <5> HIDE DEF N
        <5>2. /\ \A h \in Range(N) : h = p \/ h = g
              /\ p \in Range(N)
          <6>1. \A h \in Range(N) : \E i \in 1 .. 2 : N[i] = h
            BY <5>1, RangeIdx
          <6>2. N[1] \in Range(N)
            <7>1. 1 \in 1 .. Len(N) /\ N \in Seq(Frames)
              BY <5>1
            <7>2. \A i \in 1 .. Len(N) : N[i] \in Range(N)
              BY <7>1, RangeIdx
            <7> QED BY <7>1, <7>2
          <6> QED BY <5>1, <6>1, <6>2
        <5>3. InOrder(c, N)
          BY <3>3, <5>1 DEF InOrder, Fits
        <5> QED BY <4>1, <5>1, <5>2, <5>3
      <4>2. CASE c \notin RawClients
        <5>1. N = <<p>> /\ N \in Seq(Frames)
          BY <3>3, <4>2
        <5> QED BY <5>1, RangeOne, OrderOne
      <4> QED BY <4>1, <4>2
    <3> HIDE DEF N
    <3>5. /\ sendQue' \in [Clients -> Seq(Frames)] /\ sendQue'[c] = sendQue[c] \o N
          /\ \A d \in Clients : d # c => sendQue'[d] = sendQue[d]
      BY <1>8, <3>2, <3>4
    <3>6. /\ chans' \in [Clients -> SUBSET {0, 1}] /\ chans'[c] = chans[c] \union {1}
          /\ \A d \in Clients : d # c => chans'[d] = chans[d]
      BY <1>1, <3>2
    <3>7. \A h \in Range(N) : cup[c] => h.kind \in MayCome(c, cpc[c])
      BY <3>1, <3>3, <3>4 DEF MayCome
    <3>8. Answer(N)
      BY <1>10, <2>1, <2>3, <3>1, <3>3, <3>4, <3>5, <3>6, <3>7 DEF Answer, Formed
    <3>9. Typed
      BY <1>1, <2>1, <2>2, <3>5, <3>6 DEF Typed
    <3> QED BY <3>4, <3>8, <3>9 DEF Goal
  <2>4. CASE greeted[c] /\ f.kind = "close" /\ f.arg \in chans[c]
    <3>. DEFINE g == Fram(0, "closeok", f.arg)
    <3>1. /\ Tail(c2s[c]) = <<>>
          /\ cup[c] => cpc[c] \in {"close0", "close1"} /\ (f.arg = 1 <=> cpc[c] = "close1")
      BY <1>2, <2>4
    <3>2. UNCHANGED chans /\ Enqueue(c, <<g>>)
      BY <2>1, <2>4 DEF DoCloseMesg
    <3>3. g \in Frames /\ g.chan = 0 /\ g.kind = "closeok" /\ g.arg = f.arg
      BY <1>3, FramType
    <3> HIDE DEF g
    <3>4. <<g>> \in Seq(Frames) /\ Range(<<g>>) = {g} /\ InOrder(c, <<g>>)
      BY <3>3, RangeOne, OrderOne
    <3>5. /\ sendQue' \in [Clients -> Seq(Frames)] /\ sendQue'[c] = sendQue[c] \o <<g>>
          /\ \A d \in Clients : d # c => sendQue'[d] = sendQue[d]
      BY <1>8, <3>2, <3>4
    <3>6. cup[c] => g.kind \in MayCome(c, cpc[c])
      BY <3>1, <3>3 DEF MayCome
    <3>7. cup[c] \/ cpc[c] \in Ends
      BY DEF IInv, CInv, Phase
    <3>8. cpc[c] = "close1" => g.arg = 1
      BY <3>1, <3>3, <3>7 DEF Ends
    <3>9. Answer(<<g>>)
      BY <1>10, <2>1, <2>4, <3>1, <3>2, <3>3, <3>4, <3>5, <3>6, <3>8 DEF Answer, Formed
    <3>10. Typed
      BY <1>1, <2>1, <2>2, <3>2, <3>5 DEF Typed
    <3> QED BY <3>4, <3>9, <3>10 DEF Goal
  <2>5. CASE greeted[c] /\ f.kind = "close" /\ f.arg \notin chans[c]
    <3>1. UNCHANGED chans /\ Enqueue(c, <<>>)
      BY <2>1, <2>5 DEF DoCloseMesg
    <3>2. sendQue' = sendQue
      BY <1>1, <1>6, <3>1 DEF Enqueue
    <3> QED BY <1>7, <2>1, <2>2, <3>1, <3>2
  <2>6. CASE ~(greeted[c] /\ f.kind \in {"start", "close"})
    BY <1>7, <2>1, <2>2, <2>6
  <2> QED BY <2>3, <2>4, <2>5, <2>6
<1>11. ASSUME f.chan = 1 PROVE Goal
  <2>. DEFINE s == Fram(1, "SEQ", 0)
              k == Fram(1, "ok", 0)
  <2>1. 1 \in chans[c] /\ f.kind \in {"iam", "log", "NUL"}
    BY <1>2, <1>11
  <2>2. /\ handled' = IF f.kind = "log" THEN [handled EXCEPT ![c] = Append(@, f.arg)]
                      ELSE handled
        /\ Enqueue(c, IF f.kind = "NUL" THEN <<>>
                      ELSE IF c \in RawClients THEN <<s>> ELSE <<k, s>>)
        /\ UNCHANGED <<chans, greeted>>
    BY <1>4, <1>11, <2>1 DEF OnFramRcvd, LogChanOnRecvMesg
  <2>3. /\ s \in Frames /\ s.chan = 1 /\ s.kind = "SEQ"
        /\ k \in Frames /\ k.chan = 1 /\ k.kind = "ok"
    BY FramType
  <2> HIDE DEF s, k
  <2>4. /\ handled' \in [Clients -> Seq(Nat)]
        /\ handled'[c] = IF f.kind = "log" THEN Append(handled[c], f.arg) ELSE handled[c]
        /\ \A d \in Clients : d # c => handled'[d] = handled[d]
    BY <1>1, <1>3, <2>2
  <2>5. CASE f.kind = "NUL"
    <3>1. Enqueue(c, <<>>) /\ UNCHANGED handled
      BY <2>2, <2>5
    <3>2. sendQue' = sendQue
      BY <1>1, <1>6, <3>1 DEF Enqueue
    <3>3. UNCHANGED chans /\ greeted' \in [Clients -> BOOLEAN]
      BY <1>1, <2>2
    <3> QED BY <1>7, <2>5, <3>1, <3>2, <3>3
  <2>6. CASE f.kind # "NUL" /\ c \in RawClients
    <3>1. <<s>> \in Seq(Frames) /\ Range(<<s>>) = {s} /\ InOrder(c, <<s>>)
      BY <2>3, RangeOne, OrderOne
    <3>2. Enqueue(c, <<s>>)
      BY <2>2, <2>6
    <3>3. /\ sendQue' \in [Clients -> Seq(Frames)] /\ sendQue'[c] = sendQue[c] \o <<s>>
          /\ \A d \in Clients : d # c => sendQue'[d] = sendQue[d]
      BY <1>8, <3>1, <3>2
    <3>4. cup[c] => s.kind \in MayCome(c, cpc[c])
      <4>1. cup[c] => cpc[c] \in {"iam", "log", "idle", "nul", "close1"}
        BY <1>2, <2>1, <2>6
      <4> QED BY <2>3, <4>1 DEF MayCome
    <3>5. Answer(<<s>>)
      BY <1>11, <2>1, <2>2, <2>3, <2>4, <3>1, <3>3, <3>4 DEF Answer, Formed
    <3>6. Typed
      BY <1>1, <2>2, <2>4, <3>3 DEF Typed
    <3> QED BY <3>1, <3>5, <3>6 DEF Goal
  <2>7. CASE f.kind # "NUL" /\ c \notin RawClients
    <3>. DEFINE N == <<k, s>>
    <3>1. N \in Seq(Frames) /\ Len(N) = 2 /\ N[1] = k /\ N[2] = s
      BY <2>3
    <3>2. Enqueue(c, N)
      BY <2>2, <2>7
    <3> HIDE DEF N
    <3>3. /\ \A h \in Range(N) : h = k \/ h = s
          /\ InOrder(c, N)
      <4>1. \A h \in Range(N) : \E i \in 1 .. 2 : N[i] = h
        BY <3>1, RangeIdx
      <4> QED BY <2>3, <3>1, <4>1 DEF InOrder, Fits
    <3>4. /\ sendQue' \in [Clients -> Seq(Frames)] /\ sendQue'[c] = sendQue[c] \o N
          /\ \A d \in Clients : d # c => sendQue'[d] = sendQue[d]
      BY <1>8, <3>1, <3>2
    <3>5. cup[c] => s.kind \in MayCome(c, cpc[c]) /\ k.kind \in MayCome(c, cpc[c])
      <4>1. cup[c] => cpc[c] \in {"iam", "log"}
        BY <1>2, <2>1, <2>7
      <4> QED BY <2>3, <4>1 DEF MayCome
    <3>6. Tail(c2s[c]) = <<>>
      BY <1>2, <2>1, <2>7
    <3>7. Answer(N)
      BY <1>11, <2>1, <2>2, <2>3, <2>4, <3>1, <3>3, <3>4, <3>5, <3>6 DEF Answer, Formed
    <3>8. Typed
      BY <1>1, <2>2, <2>4, <3>4 DEF Typed
    <3> QED BY <3>1, <3>7, <3>8 DEF Goal
  <2> QED BY <2>5, <2>6, <2>7
<1>12. Typed /\ \E N \in Seq(Frames) : Answer(N)
  BY <1>2, <1>9, <1>10, <1>11 DEF Goal
<1>13. PICK N \in Seq(Frames) : Answer(N)
  BY <1>12
<1>14. chans'[c] \subseteq {0, 1}
  BY <1>12 DEF Typed
<1>15. CInv(c)'
  <2>1. /\ sendQue'[c] = sendQue[c] \o N /\ InOrder(c, N)
        /\ handled'[c] = IF f.kind = "log" THEN Append(handled[c], f.arg) ELSE handled[c]
    BY <1>13 DEF Answer
  <2>2. \A g \in Range(N) :
                             /\ f.kind # "greeting"
                             /\ (g.kind = "SEQ" \/ Tail(c2s[c]) = <<>>)
                             /\ cup[c] => g.kind \in MayCome(c, cpc[c])
                             /\ Formed(g) /\ g.chan \in chans'[c]
                             /\ g.kind = "closeok" => f.kind = "close" /\ g.arg \in chans'[c]
                             /\ g.kind = "closeok" /\ cpc[c] = "close1" => g.arg = 1
                             /\ g.kind = "profile" => 1 \in chans'[c]
                             /\ g.kind = "goahead" => \E h \in Range(N) : h.kind = "profile"
    BY <1>13 DEF Answer
  <2>3. \/ chans'[c] = chans[c]
        \/ f.kind = "start" /\ Tail(c2s[c]) = <<>> /\ chans'[c] = chans[c] \union {1}
    BY <1>13 DEF Answer
  <2>4. c2s'[c] = Tail(c2s[c])
    BY <1>5
  <2> QED BY <1>14, <2>1, <2>2, <2>3, <2>4, Answers, SMTT(30)
<1>16. \A d \in Clients : d # c => Unmoved(d)
  BY <1>5, <1>12 DEF Typed, Unmoved, clntVars
<1> QED BY <1>5, <1>12, <1>15, <1>16 DEF Typed

\* Phase 3, reading.
LEMMA DoIncomingDataInv == ASSUME IInv, DoIncomingData PROVE IInv'
<1>. PICK c : c = Head(todo)
  OBVIOUS
<1>1. /\ todo # <<>> /\ c2s[c] # <<>> /\ c2s' = [c2s EXCEPT ![c] = Tail(@)]
      /\ OnFramRcvd(c, Head(c2s[c])) /\ got' = TRUE
      /\ UNCHANGED <<clntVars, s2c, conn, lpc, bRun, backlog, sessions, todo, fdsetRD,
                     fdsetWR, closed, sending, asked, freed>>
  BY DEF DoIncomingData
<1>2. c \in Clients /\ conn[c] = "open"
  BY <1>1, ServedOne
<1>3. /\ CInv(c)' /\ \A d \in Clients : d # c => Unmoved(d)
      /\ sendQue' \in [Clients -> Seq(Frames)] /\ c2s' \in [Clients -> Seq(Frames)]
      /\ chans' \in [Clients -> SUBSET {0, 1}] /\ greeted' \in [Clients -> BOOLEAN]
      /\ handled' \in [Clients -> Seq(Nat)]
  BY <1>1, <1>2, OnFramRcvdInv
<1>4. TypeOK'
  BY <1>1, <1>3 DEF IInv, TypeOK, clntVars
<1>5. Lists'
  BY <1>1 DEF IInv, Lists, Distinct
<1> QED BY <1>3, <1>4, <1>5, UnmovedInv DEF IInv
-----------------------------------------------------------------------------
\* IInv is inductive.
LEMMA NextInv == IInv /\ [Next]_vars => IInv'
<1> SUFFICES ASSUME IInv, [Next]_vars PROVE IInv'
  OBVIOUS
<1>1. ASSUME NEW c \in Clients,
             \/ OpenSession(c) \/ LogMesg(c) \/ CloseLog(c) \/ CloseChan(c) \/ Die(c)
             \/ AwaitFram(c) \/ TakeGreeting(c) \/ TakeProfile(c) \/ TakeGoAhead(c)
             \/ TakeIamReply(c) \/ TakeLogReply(c) \/ TakeCloseReply(c)
             \/ TakeLastReply(c) \/ ConnLost(c)
      PROVE  IInv'
  BY <1>1, OpenSessionInv, LogMesgInv, CloseLogInv, CloseChanInv, DieInv, AwaitFramInv,
     TakeGreetingInv, TakeProfileInv, TakeGoAheadInv, TakeIamReplyInv, TakeLogReplyInv,
     TakeCloseReplyInv, TakeLastReplyInv, ConnLostInv
<1>2. ASSUME LstnRuns PROVE IInv'
  BY <1>2, LoopStepsInv, LoopEndInv, KilledInv, SendPhaseInv, BuildFDSetsInv, NewSessInv,
     DoIncomingDataInv, SessionEndsInv, ServeNextInv DEF LstnRuns
<1>3. ASSUME Shutdown PROVE IInv'
  BY <1>3, LoopStepsInv
<1>4. ASSUME UNCHANGED vars PROVE IInv'
  <2>1. /\ UNCHANGED <<clntVars, wireVars, backlog, sessions, sessVars, handled>>
        /\ UNCHANGED <<todo, lpc, bRun, got, asked, freed, fdsetRD, fdsetWR>>
    BY <1>4 DEF vars, loopVars, histVars
  <2>2. Lists'
    BY <2>1 DEF IInv, Lists, Distinct
  <2>3. /\ bRun' \in BOOLEAN /\ got' \in BOOLEAN /\ asked' \in BOOLEAN /\ freed' \in BOOLEAN
        /\ fdsetRD' \subseteq Clients /\ fdsetWR' \subseteq Clients
        /\ lpc' \in {"setup", "top", "send", "select", "accept", "serve", "stopped"}
    BY <2>1 DEF IInv, TypeOK
  <2> QED BY <2>1, <2>2, <2>3, LoopStep
<1> QED BY <1>1, <1>2, <1>3, <1>4 DEF Next

\* IInv holds of every state of every behaviour.
LEMMA Inductive == Spec => []IInv
  BY InitInv, NextInv, PTL DEF Spec
-----------------------------------------------------------------------------
\* Every variable keeps its type; the session list and what is left of it to
\* visit only ever name sessions whose socket the listener has not closed.
THEOREM SessionTypeCorrect == Spec => []TypeOK
<1>1. IInv => TypeOK
  BY DEF IInv
<1> QED BY <1>1, Inductive, PTL

\* In a session that is served each frame in pSendQue, and the callback it
\* carries, refer to a channel that exists, and nothing of a channel is queued
\* behind the <ok/> that will destroy it.
THEOREM QueuedFramesHaveChannels == Spec => []QueuedFrameHasChannel
<1>1. ASSUME IInv PROVE QueuedFrameHasChannel
  <2>1. SUFFICES ASSUME NEW c \in Range(sessions), NEW i \in DOMAIN sendQue[c]
                 PROVE  LET f == sendQue[c][i] IN
                          /\ f.chan \in chans[c]
                          /\ f.kind = "closeok" =>
                               /\ f.arg \in chans[c]
                               /\ \A j \in DOMAIN sendQue[c] :
                                     j > i => sendQue[c][j].chan # f.arg
    BY DEF QueuedFrameHasChannel
  <2>2. c \in Clients
    BY <1>1, ListFacts
  <2>3. /\ sendQue[c] \in Seq(Frames) /\ Served(c)
        /\ DOMAIN sendQue[c] = 1 .. Len(sendQue[c])
    BY <1>1, <2>2, TypeOf DEF IInv, CInv
  <2>4. sendQue[c][i] \in Range(sendQue[c])
    BY <2>3, RangeIdx
  <2>5. ASSUME sendQue[c][i].kind = "closeok", NEW j \in 1 .. Len(sendQue[c]), j > i
        PROVE  FALSE
    BY <2>3, <2>5 DEF Served, InOrder, Fits
  <2> QED BY <2>3, <2>4, <2>5 DEF Served
<1> QED BY <1>1, Inductive, PTL

\* No frame reaches a peer that does not, or no longer, know its channel.
THEOREM FramesFindTheirChannel == Spec => []NoOrphanFrames
<1>1. ASSUME IInv PROVE NoOrphanFrames
  <2>1. SUFFICES ASSUME NEW c \in Clients
                 PROVE  /\ cup[c] => \A i \in DOMAIN s2c[c] : s2c[c][i].chan \in cchans[c]
                        /\ conn[c] = "open" =>
                             \A i \in DOMAIN c2s[c] : c2s[c][i].chan = 1 => 1 \in chans[c]
    BY DEF NoOrphanFrames
  <2>2. /\ s2c[c] \in Seq(Frames) /\ c2s[c] \in Seq(Frames) /\ Served(c)
        /\ DOMAIN s2c[c] = 1 .. Len(s2c[c]) /\ DOMAIN c2s[c] = 1 .. Len(c2s[c])
    BY <1>1, TypeOf DEF IInv, CInv
  <2>3. /\ \A i \in DOMAIN s2c[c] : s2c[c][i] \in Range(s2c[c])
        /\ \A i \in DOMAIN c2s[c] : c2s[c][i] \in Range(c2s[c])
    BY <2>2, RangeIdx
  <2>4. cup[c] => \A f \in Range(s2c[c]) : f.chan \in cchans[c]
    BY <1>1, NoOrphan DEF Coming
  <2> QED BY <2>2, <2>3, <2>4 DEF Served
<1> QED BY <1>1, Inductive, PTL

\* sbSessRecvFram, which takes the first payload frame of any channel, hands
\* each blocking call the reply it waits for.
THEOREM ReplyIsTheRightOne == Spec => []RightReply
<1>1. ASSUME IInv PROVE RightReply
  <2>1. SUFFICES ASSUME NEW c \in Clients, Waiting(c)
                 PROVE  LET coming == rxq[c] \o s2c[c] \o sendQue[c] IN
                        \A i \in DOMAIN coming :
                          /\ coming[i].kind # "SEQ"
                          /\ \A j \in 1 .. i - 1 : coming[j].kind = "SEQ"
                          => coming[i].kind = Expected[cpc[c]]
    BY DEF RightReply
  <2>. DEFINE coming == rxq[c] \o s2c[c] \o sendQue[c]
  <2>2. /\ rxq[c] \in Seq(Frames) /\ s2c[c] \in Seq(Frames) /\ sendQue[c] \in Seq(Frames)
        /\ Phase(c) /\ Served(c) /\ Talks(c)
    BY <1>1, TypeOf DEF IInv, CInv
  <2>3. cpc[c] \in {"greeting", "profile", "goahead", "iam", "log", "close1", "close0"}
    BY <2>1, ExpectedIs DEF Waiting
  <2>4. cup[c]
    BY <2>2, <2>3 DEF Phase, Ends
  <2>5. /\ rxq[c] \o s2c[c] \in Seq(Frames)
        /\ Range(rxq[c] \o s2c[c]) = Range(rxq[c]) \union Range(s2c[c])
        /\ InOrder(c, rxq[c] \o s2c[c])
    BY <2>2, <2>4, RangeConcat, OrderConcat DEF Talks
  <2>6. Ahead(c, rxq[c] \o s2c[c], sendQue[c]) /\ InOrder(c, sendQue[c])
    BY <2>2, <2>4, <2>5 DEF Talks, Served, Ahead
  <2>7. /\ coming \in Seq(Frames) /\ Range(coming) = Coming(c)
        /\ InOrder(c, coming)
    <3>. DEFINE p == rxq[c] \o s2c[c]
    <3> HIDE DEF p
    <3>1. p \o sendQue[c] \in Seq(Frames) /\ InOrder(c, p \o sendQue[c])
      BY <2>2, <2>5, <2>6, RangeConcat, OrderConcat DEF p
    <3>2. p \in Seq(Frames) /\ Range(p) = Range(rxq[c]) \union Range(s2c[c])
      BY <2>5 DEF p
    <3>3. Range(p \o sendQue[c]) = Range(p) \union Range(sendQue[c])
      BY <2>2, <3>2, RangeConcat
    <3> QED BY <3>1, <3>2, <3>3 DEF Coming, p
  <2> HIDE DEF coming
  <2>8. ASSUME NEW i \in 1 .. Len(coming), coming[i].kind # "SEQ",
               \A j \in 1 .. i - 1 : coming[j].kind = "SEQ"
        PROVE  coming[i].kind = Expected[cpc[c]]
    <3>1. coming[i] \in Coming(c) /\ coming[i].kind \in MayCome(c, cpc[c])
      BY <2>2, <2>4, <2>7, RangeIdx DEF Talks
    <3>2. ASSUME cpc[c] = "profile", coming[i].kind = "goahead" PROVE FALSE
      <4>1. PICK g \in Coming(c) : g.kind = "profile"
        BY <2>2, <2>4, <3>1, <3>2 DEF Talks
      <4>2. PICK k \in 1 .. Len(coming) : coming[k].kind = "profile"
        BY <2>7, <4>1, RangeIdx
      <4>3. k > i
        BY <2>8, <3>2, <4>2
      <4> QED BY <2>7, <3>2, <4>2, <4>3 DEF InOrder, Fits
    <3> QED BY <2>3, <2>8, <3>1, <3>2, ExpectedIs DEF MayCome
  <2>9. DOMAIN coming = 1 .. Len(coming)
    BY <2>7
  <2> QED BY <2>8, <2>9 DEF coming
<1> QED BY <1>1, Inductive, PTL

\* When the listener has answered the close requests of a session, all that the
\* client has logged has been handed over, in the order it was logged.
THEOREM LoggedIsDelivered == Spec => []DeliveredWhenClosed
<1>1. ASSUME IInv PROVE DeliveredWhenClosed
  <2>1. SUFFICES ASSUME NEW c \in Clients, cpc[c] = "done"
                 PROVE  handled[c] = [i \in 1 .. sent[c] |-> i]
    BY DEF DeliveredWhenClosed
  <2>2. /\ handled[c] \in Seq(Nat) /\ Numbered(handled[c]) /\ Len(handled[c]) = sent[c]
    BY <1>1, <2>1, TypeOf DEF IInv, CInv, Tally
  <2>3. handled[c] = [i \in 1 .. Len(handled[c]) |-> handled[c][i]]
    BY <2>2
  <2> QED BY <2>2, <2>3 DEF Numbered
<1> QED BY <1>1, Inductive, PTL
-----------------------------------------------------------------------------
(***************************************************************************)
(* When a freed channel is touched.                                        *)
(***************************************************************************)
\* The listener has closed channel 0 of a session only when nothing is left to
\* be said; only then has its client been answered; and a client fails only
\* when it dies or when the listener has left it.
Ended(c) ==
  /\ closed[c] => /\ conn[c] \in {"open", "closed"}
                  /\ sendQue[c] = <<>> /\ c2s[c] = <<>>
                  /\ cup[c] => cpc[c] = "close0"
  /\ cpc[c] = "close0" =>
       \A f \in Range(rxq[c]) \union Range(s2c[c]) : f.kind = "closeok" => closed[c]
  /\ cpc[c] = "done" => closed[c]
  /\ cpc[c] = "unanswered" => conn[c] = "closed"
  /\ cpc[c] = "failed" => conn[c] = "closed" \/ c \in CanDie

\* A socket found readable has data, or its client is gone, until it is read.
Watched ==
  /\ lpc = "accept" =>
       \A c \in fdsetRD : c \in Range(sessions) /\ (c2s[c] # <<>> \/ ~cup[c])
  /\ lpc = "serve" =>
       \A c \in fdsetRD \intersect Range(todo) :
          (got /\ c = Head(todo)) \/ c2s[c] # <<>> \/ ~cup[c]

EInv == Watched /\ \A c \in Clients : Ended(c)

\* What both depend on.
Stays(c) ==
  /\ cpc'[c] = cpc[c] /\ cup'[c] = cup[c] /\ rxq'[c] = rxq[c] /\ c2s'[c] = c2s[c]
  /\ s2c'[c] = s2c[c] /\ conn'[c] = conn[c] /\ sendQue'[c] = sendQue[c]
  /\ closed'[c] = closed[c]

LEMMA StaysInv == ASSUME NEW c, Ended(c), Stays(c) PROVE Ended(c)'
  BY DEF Ended, Stays

\* A step of a client leaves the others and the loop alone.
LEMMA ClientStays ==
  ASSUME IInv, EInv, NEW c \in Clients, UNCHANGED <<loopVars, sessVars>>,
         \A d \in Clients : d # c => Unmoved(d),
         Ended(c)', c2s[c] # <<>> \/ ~cup[c] => c2s'[c] # <<>> \/ ~cup'[c]
  PROVE  EInv'
<1>1. UNCHANGED <<lpc, sessions, todo, fdsetRD, got, closed, sendQue>>
  BY DEF loopVars, sessVars
<1>2. \A d \in Clients : d # c => Stays(d)
  BY <1>1 DEF Unmoved, Stays
<1>3. \A d \in Clients : c2s[d] # <<>> \/ ~cup[d] => c2s'[d] # <<>> \/ ~cup'[d]
  BY <1>2 DEF Stays
<1>4. fdsetRD \subseteq Clients
  BY DEF IInv, TypeOK
<1>5. Watched'
  BY <1>1, <1>3, <1>4 DEF EInv, Watched
<1> QED BY <1>2, <1>5, StaysInv DEF EInv

\* What a client may have read when it has sent a frame was under way before.
LEMMA SendFramKeeps ==
  ASSUME TypeOK, NEW c \in Clients, NEW channels, NEW f \in Frames, NEW q \in Seq(Frames),
         SendFram(c, q, channels, f)
  PROVE  /\ Range(rxq'[c]) \union Range(s2c'[c]) \subseteq Range(q) \union Range(s2c[c])
         /\ conn[c] # "closed" => c2s'[c] # <<>>
         /\ conn[c] = "closed" => c2s'[c] = c2s[c]
         /\ \A d \in Clients : d # c =>
               rxq'[d] = rxq[d] /\ c2s'[d] = c2s[d] /\ s2c'[d] = s2c[d]
<1>1. /\ rxq \in [Clients -> Seq(Frames)] /\ s2c \in [Clients -> Seq(Frames)]
      /\ c2s \in [Clients -> Seq(Frames)]
  BY DEF TypeOK
<1>2. /\ \A d \in Clients : d # c => c2s'[d] = c2s[d]
      /\ c2s'[c] = IF conn[c] = "closed" THEN c2s[c] ELSE Append(c2s[c], f)
  BY <1>1 DEF SendFram
<1>3. Append(c2s[c], f) # <<>>
  BY <1>1, RangeAppend
<1>4. CASE DoReceive(c, q, channels)
  <2>. DEFINE g == Head(s2c[c])
              r == IF g.kind = "SEQ" \/ g.chan \notin channels THEN q ELSE Append(q, g)
  <2>1. s2c[c] # <<>> /\ s2c' = [s2c EXCEPT ![c] = Tail(@)] /\ rxq' = [rxq EXCEPT ![c] = r]
    BY <1>4 DEF DoReceive
  <2>2. g \in Frames /\ Range(s2c[c]) = {g} \union Range(Tail(s2c[c]))
    BY <1>1, <2>1, RangeTail
  <2>3. Range(r) \subseteq Range(q) \union {g}
    BY <2>2, RangeAppend
  <2> HIDE DEF g, r
  <2>4. rxq'[c] = r /\ s2c'[c] = Tail(s2c[c])
        /\ \A d \in Clients : d # c => rxq'[d] = rxq[d] /\ s2c'[d] = s2c[d]
    BY <1>1, <2>1
  <2> QED BY <1>2, <1>3, <2>2, <2>3, <2>4
<1>5. CASE rxq' = [rxq EXCEPT ![c] = q] /\ UNCHANGED s2c
  BY <1>1, <1>2, <1>3, <1>5
<1> QED BY <1>4, <1>5 DEF SendFram

\* A client in the middle of a session does not end it, whatever it does.
LEMMA GoesOn ==
  ASSUME IInv, EInv, NEW c \in Clients, cup[c], cpc[c] # "close0",
         UNCHANGED <<loopVars, sessVars>>, cup'[c],
         cpc'[c] \notin {"close0", "done", "unanswered", "failed"},
         \A d \in Clients : d # c => Unmoved(d), c2s[c] # <<>> => c2s'[c] # <<>>
  PROVE  EInv'
<1>1. ~closed[c] /\ closed' = closed
  BY DEF EInv, Ended, sessVars
<1>2. Ended(c)'
  BY <1>1 DEF Ended
<1> QED BY <1>2, ClientStays

\* What a client sends makes the queue of the listener no emptier.
LEMMA SendGoesOn ==
  ASSUME IInv, EInv, NEW c \in Clients, NEW pc, NEW channels, NEW f \in Frames,
         NEW q \in Seq(Frames), SendFram(c, q, channels, f), GoTo(c, pc),
         cup[c], cpc[c] # "close0", pc \notin {"done", "unanswered", "failed"},
         pc = "close0" => \A g \in Range(q) \union Range(s2c[c]) : g.kind # "closeok",
         UNCHANGED <<cup, conn, loopVars, sessVars, handled>>,
         \A d \in Clients : d # c => cchans'[d] = cchans[d] /\ sent'[d] = sent[d]
  PROVE  EInv'
<1>1. /\ Range(rxq'[c]) \union Range(s2c'[c]) \subseteq Range(q) \union Range(s2c[c])
      /\ conn[c] # "closed" => c2s'[c] # <<>>
      /\ conn[c] = "closed" => c2s'[c] = c2s[c]
      /\ \A d \in Clients : d # c =>
            rxq'[d] = rxq[d] /\ c2s'[d] = c2s[d] /\ s2c'[d] = s2c[d]
  BY SendFramKeeps DEF IInv
<1>2. cpc'[c] = pc /\ \A d \in Clients : d # c => cpc'[d] = cpc[d]
  BY DEF GoTo, IInv, TypeOK
<1>3. ~closed[c] /\ closed' = closed /\ UNCHANGED <<chans, sendQue>>
  BY DEF EInv, Ended, sessVars
<1>4. \A d \in Clients : d # c => Unmoved(d)
  BY <1>1, <1>2, <1>3 DEF Unmoved
<1>5. Ended(c)'
  BY <1>1, <1>2, <1>3 DEF Ended
<1>6. c2s[c] # <<>> \/ ~cup[c] => c2s'[c] # <<>> \/ ~cup'[c]
  BY <1>1
<1> QED BY <1>4, <1>5, <1>6, ClientStays

\* A client that has sent its last close has taken every answer before.
LEMMA TakeAndSendStays ==
  ASSUME IInv, EInv, NEW c \in Clients, NEW pc, NEW channels, NEW f \in Frames,
         TakeAndSend(c, channels, f, pc), cup[c], rxq[c] # <<>>, cpc[c] # "close0",
         pc \notin {"done", "unanswered", "failed"},
         pc = "close0" => cpc[c] \in {"greeting", "profile", "close1"}
  PROVE  EInv'
<1>1. /\ Tail(rxq[c]) \in Seq(Frames)
      /\ Reply(c).kind \in MayCome(c, cpc[c])
      /\ \A g \in Range(Tail(rxq[c])) \union Range(s2c[c]) \union Range(sendQue[c]) :
            Fits(c, Reply(c), g) /\ g.kind \in MayCome(c, cpc[c])
      /\ Reply(c).kind # "SEQ"
  BY ReplyFacts
<1>2. cpc[c] \in {"greeting", "profile", "close1"} =>
        \A g \in Range(Tail(rxq[c])) \union Range(s2c[c]) : g.kind # "closeok"
  BY <1>1 DEF MayCome, Fits
<1>3. cchans \in [Clients -> SUBSET {0, 1}]
  BY DEF IInv, TypeOK
<1>4. /\ SendFram(c, Tail(rxq[c]), channels, f) /\ GoTo(c, pc)
      /\ UNCHANGED <<cup, conn, loopVars, sessVars, handled>>
      /\ \A d \in Clients : d # c => cchans'[d] = cchans[d] /\ sent'[d] = sent[d]
  BY <1>3 DEF TakeAndSend, histVars
<1> QED BY <1>1, <1>2, <1>4, SendGoesOn

\* Taking a reply in the middle of a session.
LEMMA TakeOnlyStays ==
  ASSUME IInv, EInv, NEW c \in Clients, NEW pc, TakeOnly(c, pc), cup[c], cpc[c] # "close0",
         pc \notin {"close0", "done", "unanswered", "failed"}
  PROVE  EInv'
<1>1. /\ UNCHANGED <<cup, cchans, sent, c2s, s2c, conn, loopVars, sessVars, handled, chans, sendQue>>
      /\ cpc' = [cpc EXCEPT ![c] = pc] /\ rxq' = [rxq EXCEPT ![c] = Tail(@)]
  BY DEF TakeOnly, GoTo, wireVars, histVars, sessVars
<1>2. cpc'[c] = pc /\ \A d \in Clients : d # c => cpc'[d] = cpc[d] /\ rxq'[d] = rxq[d]
  BY <1>1 DEF IInv, TypeOK
<1>3. \A d \in Clients : d # c => Unmoved(d)
  BY <1>1, <1>2 DEF Unmoved
<1> QED BY <1>1, <1>2, <1>3, GoesOn
-----------------------------------------------------------------------------
\* The steps of a client.
LEMMA OpenSessionEnds ==
  ASSUME IInv, EInv, NEW c \in Clients, OpenSession(c)
  PROVE  EInv'
<1>. DEFINE f == Fram(0, "greeting", 0)
<1>1. /\ cpc[c] = "new" /\ cpc' = [cpc EXCEPT ![c] = "greeting"]
      /\ cup' = [cup EXCEPT ![c] = TRUE]
      /\ conn' = [conn EXCEPT ![c] = "backlog"] /\ c2s' = [c2s EXCEPT ![c] = <<f>>]
      /\ UNCHANGED <<rxq, s2c, lpc, sessions, todo, fdsetRD, got, closed, sendQue>>
  BY DEF OpenSession, GoTo, sessVars
<1>2. <<f>> # <<>>
  OBVIOUS
<1> HIDE DEF f
<1>3. /\ cpc'[c] = "greeting" /\ conn'[c] = "backlog" /\ c2s'[c] # <<>>
      /\ \A d \in Clients : d # c => cpc'[d] = cpc[d] /\ cup'[d] = cup[d]
                                     /\ conn'[d] = conn[d] /\ c2s'[d] = c2s[d]
  BY <1>1, <1>2 DEF IInv, TypeOK
<1>4. ~closed[c]
  BY <1>1 DEF EInv, Ended, IInv, CInv, Phase
<1>5. Ended(c)'
  BY <1>1, <1>3, <1>4 DEF Ended
<1>6. \A d \in Clients : d # c => Stays(d)
  BY <1>1, <1>3 DEF Stays
<1>7. fdsetRD \subseteq Clients
  BY DEF IInv, TypeOK
<1>8. Watched'
  BY <1>1, <1>3, <1>7 DEF EInv, Watched
<1> QED BY <1>5, <1>6, <1>8, StaysInv DEF EInv

\* Logging, and the two steps that begin to close a session.
LEMMA SendStepsEnd ==
  ASSUME IInv, EInv, NEW c \in Clients, LogMesg(c) \/ CloseLog(c) \/ CloseChan(c)
  PROVE  EInv'
<1>1. cup[c] /\ cpc[c] \in {"idle", "nul"} /\ rxq[c] \in Seq(Frames)
  BY IdleFacts DEF LogMesg, CloseLog, CloseChan
<1>2. CASE LogMesg(c)
  <2>. DEFINE f == Fram(1, "log", sent'[c])
              pc == IF c \in RawClients THEN "idle" ELSE "log"
  <2>1. sent[c] + 1 \in Nat /\ sent' = [sent EXCEPT ![c] = @ + 1]
        /\ sent \in [Clients -> 0 .. MaxLogs]
    BY <1>2, TypeOf DEF LogMesg, IInv, TypeOK
  <2>2. sent'[c] \in Nat /\ \A d \in Clients : d # c => sent'[d] = sent[d]
    BY <2>1
  <2>3. f \in Frames
    BY <2>2, FramType
  <2>4. /\ SendFram(c, rxq[c], cchans[c], f) /\ GoTo(c, pc)
        /\ UNCHANGED <<cup, cchans, conn, loopVars, sessVars, handled>>
    BY <1>2 DEF LogMesg, histVars
  <2>5. pc \in {"idle", "log"}
    OBVIOUS
  <2> HIDE DEF f, pc
  <2> QED BY <1>1, <2>2, <2>3, <2>4, <2>5, SendGoesOn
<1>3. CASE CloseLog(c)
  <2>1. Fram(1, "NUL", 0) \in Frames
    BY FramType
  <2>2. /\ SendFram(c, rxq[c], cchans[c], Fram(1, "NUL", 0)) /\ GoTo(c, "nul")
        /\ UNCHANGED <<cup, cchans, sent, conn, loopVars, sessVars, handled>>
    BY <1>3 DEF CloseLog, histVars
  <2> QED BY <1>1, <2>1, <2>2, SendGoesOn
<1>4. CASE CloseChan(c)
  <2>1. Fram(0, "close", 1) \in Frames
    BY FramType
  <2>2. /\ SendFram(c, rxq[c], cchans[c], Fram(0, "close", 1)) /\ GoTo(c, "close1")
        /\ UNCHANGED <<cup, cchans, sent, conn, loopVars, sessVars, handled>>
    BY <1>4 DEF CloseChan, histVars
  <2> QED BY <1>1, <2>1, <2>2, SendGoesOn
<1> QED BY <1>2, <1>3, <1>4

\* Replies within a session: none makes a client give up.
LEMMA RepliesEnd ==
  ASSUME IInv, EInv, NEW c \in Clients,
         \/ TakeGreeting(c) \/ TakeProfile(c) \/ TakeGoAhead(c) \/ TakeIamReply(c)
         \/ TakeLogReply(c) \/ TakeCloseReply(c)
  PROVE  EInv'
<1>1. /\ cpc[c] \in {"greeting", "profile", "goahead", "iam", "log", "close1"}
      /\ rxq[c] # <<>> /\ cup[c]
  BY DEF TakeGreeting, TakeProfile, TakeGoAhead, TakeIamReply, TakeLogReply, TakeCloseReply,
         Takes, IInv, CInv, Phase, Ends
<1>2. Reply(c).kind # "SEQ" /\ Reply(c).kind \in MayCome(c, cpc[c])
  BY <1>1, ReplyFacts
<1>3. /\ Fram(0, "start", 1) \in Frames /\ Fram(0, "close", 0) \in Frames
      /\ Fram(1, "iam", 0) \in Frames
  BY FramType
<1>4. CASE TakeGreeting(c)
  BY <1>1, <1>3, <1>4, TakeAndSendStays DEF TakeGreeting, Takes
<1>5. CASE TakeProfile(c)
  BY <1>1, <1>3, <1>5, TakeAndSendStays, TakeOnlyStays DEF TakeProfile, Takes
<1>6. CASE TakeGoAhead(c)
  BY <1>1, <1>2, <1>6, TakeOnlyStays DEF TakeGoAhead, Takes, MayCome
<1>7. CASE TakeIamReply(c)
  BY <1>1, <1>7, TakeOnlyStays DEF TakeIamReply
<1>8. CASE TakeLogReply(c)
  BY <1>1, <1>2, <1>8, TakeOnlyStays DEF TakeLogReply, Takes, MayCome
<1>9. CASE TakeCloseReply(c)
  BY <1>1, <1>3, <1>9, TakeAndSendStays DEF TakeCloseReply, Takes
<1> QED BY <1>4, <1>5, <1>6, <1>7, <1>8, <1>9

\* A client reads a frame.
LEMMA AwaitFramEnds ==
  ASSUME IInv, EInv, NEW c \in Clients, AwaitFram(c)
  PROVE  EInv'
<1>. DEFINE f == Head(s2c[c])
            r == IF f.kind = "SEQ" \/ f.chan \notin cchans[c] THEN rxq[c]
                 ELSE Append(rxq[c], f)
<1>1. /\ s2c[c] # <<>> /\ s2c' = [s2c EXCEPT ![c] = Tail(@)]
      /\ rxq' = [rxq EXCEPT ![c] = r]
      /\ UNCHANGED <<cpc, cup, cchans, sent, c2s, conn, loopVars, sessVars, handled, closed,
                     chans, sendQue>>
  BY DEF AwaitFram, DoReceive, histVars, sessVars
<1>2. /\ f \in Frames /\ Range(s2c[c]) = {f} \union Range(Tail(s2c[c]))
      /\ rxq[c] \in Seq(Frames)
  BY <1>1, TypeOf, RangeTail DEF IInv
<1>3. Range(r) \subseteq Range(rxq[c]) \union {f}
  BY <1>2, RangeAppend
<1> HIDE DEF f, r
<1>4. /\ rxq'[c] = r /\ s2c'[c] = Tail(s2c[c])
      /\ \A d \in Clients : d # c => rxq'[d] = rxq[d] /\ s2c'[d] = s2c[d]
  BY <1>1 DEF IInv, TypeOK
<1>5. Ended(c)'
  BY <1>1, <1>2, <1>3, <1>4 DEF EInv, Ended
<1>6. \A d \in Clients : d # c => Unmoved(d)
  BY <1>1, <1>4 DEF Unmoved
<1> QED BY <1>1, <1>5, <1>6, ClientStays

\* The last answer is the <ok/> to the close of channel 0.
LEMMA TakeLastReplyEnds ==
  ASSUME IInv, EInv, NEW c \in Clients, TakeLastReply(c)
  PROVE  EInv'
<1>1. /\ cpc[c] = "close0" /\ rxq[c] # <<>> /\ cpc' = [cpc EXCEPT ![c] = "done"]
      /\ cup' = [cup EXCEPT ![c] = FALSE] /\ cchans' = [cchans EXCEPT ![c] = {}]
      /\ rxq' = [rxq EXCEPT ![c] = Tail(@)]
      /\ UNCHANGED <<sent, c2s, s2c, conn, loopVars, sessVars, handled, closed, chans, sendQue>>
  BY DEF TakeLastReply, Takes, GoTo, wireVars, histVars, sessVars
<1>2. cup[c]
  BY <1>1 DEF IInv, CInv, Phase, Ends
<1>3. closed[c]
  <2>1. Reply(c) \in Range(rxq[c]) /\ Reply(c).kind = "closeok"
    BY <1>1, <1>2, ReplyFacts DEF MayCome
  <2> QED BY <1>1, <2>1 DEF EInv, Ended
<1>4. /\ cpc'[c] = "done" /\ ~cup'[c]
      /\ \A d \in Clients : d # c => /\ cpc'[d] = cpc[d] /\ cup'[d] = cup[d]
                                     /\ cchans'[d] = cchans[d] /\ rxq'[d] = rxq[d]
  BY <1>1 DEF IInv, TypeOK
<1>5. Ended(c)'
  BY <1>1, <1>3, <1>4 DEF EInv, Ended
<1>6. \A d \in Clients : d # c => Unmoved(d)
  BY <1>1, <1>4 DEF Unmoved
<1> QED BY <1>1, <1>4, <1>5, <1>6, ClientStays

\* A call fails only when the listener has left the session.
LEMMA ConnLostEnds ==
  ASSUME IInv, EInv, NEW c \in Clients, ConnLost(c)
  PROVE  EInv'
<1>1. /\ s2c[c] \in Seq(Frames) /\ Phase(c)
  BY TypeOf DEF IInv, CInv
<1>2. rxq[c] = <<>> /\ cup[c]
  BY <1>1, ExpectedIs DEF ConnLost, RecvFails, Waiting, Phase, Ends
<1>3. conn[c] = "closed"
  <2>1. ASSUME s2c[c] # <<>> PROVE FALSE
    <3>1. Head(s2c[c]) \in Coming(c)
      BY <1>1, <2>1, RangeTail DEF Coming
    <3> QED BY <1>2, <2>1, <3>1, NoOrphan DEF ConnLost, RecvFails
  <2> QED BY <2>1 DEF ConnLost, RecvFails
<1>4. c2s[c] = <<>>
  BY <1>1, <1>3 DEF Phase
<1>5. UNCHANGED <<cchans, rxq, sent, s2c, conn, sessVars, loopVars, handled, closed, chans,
                  sendQue>>
  BY DEF ConnLost, histVars, sessVars
<1>6. CASE cpc[c] = "iam"
  <2>1. /\ cpc'[c] = "idle" /\ UNCHANGED <<cup, c2s>>
        /\ \A d \in Clients : d # c => cpc'[d] = cpc[d]
    BY <1>6 DEF ConnLost, GoTo, IInv, TypeOK
  <2>2. \A d \in Clients : d # c => Unmoved(d)
    BY <1>5, <2>1 DEF Unmoved
  <2> QED BY <1>2, <1>5, <1>6, <2>1, <2>2, GoesOn
<1>7. CASE cpc[c] # "iam"
  <2>. DEFINE pc == IF cpc[c] \in {"close1", "close0"} THEN "unanswered" ELSE "failed"
  <2>1. /\ cpc' = [cpc EXCEPT ![c] = pc] /\ cup' = [cup EXCEPT ![c] = FALSE]
        /\ c2s' = [c2s EXCEPT ![c] = <<>>]
    BY <1>7 DEF ConnLost, GoTo
  <2>2. pc \in {"failed", "unanswered"}
    OBVIOUS
  <2> HIDE DEF pc
  <2>3. /\ cpc'[c] = pc /\ ~cup'[c] /\ c2s'[c] = <<>>
        /\ \A d \in Clients : d # c => /\ cpc'[d] = cpc[d] /\ cup'[d] = cup[d]
                                       /\ c2s'[d] = c2s[d]
    BY <2>1 DEF IInv, TypeOK
  <2>4. \A d \in Clients : d # c => Unmoved(d)
    BY <1>5, <2>3 DEF Unmoved
  <2>5. Ended(c)'
    BY <1>3, <1>5, <2>2, <2>3 DEF EInv, Ended
  <2> QED BY <1>5, <2>3, <2>4, <2>5, ClientStays
<1> QED BY <1>6, <1>7

\* A client dies.
LEMMA DieEnds ==
  ASSUME IInv, EInv, NEW c \in Clients, Die(c)
  PROVE  EInv'
<1>1. PICK n \in 0 .. Len(c2s[c]) : c2s' = [c2s EXCEPT ![c] = SubSeq(@, 1, n)]
  BY DEF Die, GiveUp
<1>2. /\ c \in CanDie /\ cpc' = [cpc EXCEPT ![c] = "failed"]
      /\ cup' = [cup EXCEPT ![c] = FALSE]
      /\ UNCHANGED <<cchans, rxq, sent, s2c, conn, loopVars, sessVars, handled, closed, chans,
                     sendQue>>
  BY DEF Die, GiveUp, GoTo, histVars, sessVars
<1>3. c2s[c] = <<>> => SubSeq(c2s[c], 1, n) = <<>>
  <2>1. c2s[c] \in Seq(Frames)
    BY TypeOf DEF IInv
  <2>2. SubSeq(c2s[c], 1, n) \in Seq(Frames) /\ Range(SubSeq(c2s[c], 1, n)) \subseteq Range(c2s[c])
    BY <2>1, RangeFront
  <2> QED BY <2>2, RangeEmpty, NothingIn
<1>4. /\ cpc'[c] = "failed" /\ ~cup'[c] /\ c2s'[c] = SubSeq(c2s[c], 1, n)
      /\ \A d \in Clients : d # c => /\ cpc'[d] = cpc[d] /\ cup'[d] = cup[d]
                                     /\ c2s'[d] = c2s[d]
  BY <1>1, <1>2 DEF IInv, TypeOK
<1>5. Ended(c)'
  BY <1>2, <1>3, <1>4 DEF EInv, Ended
<1>6. \A d \in Clients : d # c => Unmoved(d)
  BY <1>2, <1>4 DEF Unmoved
<1> QED BY <1>2, <1>4, <1>5, <1>6, ClientStays
-----------------------------------------------------------------------------
\* The steps of the listener.  When it sends a frame no freed channel is
\* touched; what has closed channel 0 was the last frame.
LEMMA LstnSendFramEnds ==
  ASSUME IInv, EInv, NEW c \in Clients, conn[c] = "open", sendQue[c] # <<>>, LstnSendFram(c),
         UNCHANGED <<clntVars, c2s, conn>>
  PROVE  Ended(c)' /\ (\A d \in Clients : d # c => Stays(d)) /\ freed' = freed
<1>. DEFINE f == Head(sendQue[c])
<1>1. /\ s2c[c] \in Seq(Frames) /\ sendQue[c] \in Seq(Frames) /\ cup[c] \in BOOLEAN
      /\ Phase(c) /\ Talks(c) /\ Served(c) /\ Ended(c)
      /\ cpc[c] \in {"new", "idle", "nul", "done", "unanswered", "failed", "greeting",
                        "profile", "goahead", "iam", "log", "close1", "close0"}
  BY TypeOf DEF IInv, CInv, EInv
<1>2. /\ Tail(sendQue[c]) \in Seq(Frames) /\ f \in Frames /\ f \in Range(sendQue[c])
      /\ \A g \in Range(Tail(sendQue[c])) : Fits(c, f, g)
  BY <1>1, RangeTail, OrderTail DEF Served
<1>3. ~closed[c]
  BY <1>1 DEF Ended
<1>4. freed' = freed
  <2>1. freed' = (freed \/ f.chan \notin chans[c] \/ (f.kind = "closeok" /\ f.arg \notin chans[c]))
    BY DEF LstnSendFram
  <2>2. f.chan \in chans[c] /\ (f.kind = "closeok" => f.arg \in chans[c])
    BY <1>1, <1>2 DEF Served
  <2>3. freed \in BOOLEAN
    BY DEF IInv, TypeOK
  <2> QED BY <2>1, <2>2, <2>3
<1>5. UNCHANGED <<cpc, cup, rxq>>
  BY DEF clntVars
<1>6. CASE UNCHANGED <<sendQue, s2c, closed>>
  <2>1. \A d \in Clients : Stays(d)
    BY <1>5, <1>6 DEF Stays
  <2> QED BY <1>1, <1>4, <2>1, StaysInv
<1>7. CASE /\ sendQue' = [sendQue EXCEPT ![c] = Tail(@)]
           /\ s2c' = IF cup[c] THEN [s2c EXCEPT ![c] = Append(@, f)] ELSE s2c
           /\ OnFramDestroy(c, f)
  <2> HIDE DEF f
  <2>1. /\ sendQue'[c] = Tail(sendQue[c])
        /\ s2c'[c] = IF cup[c] THEN Append(s2c[c], f) ELSE s2c[c]
        /\ \A d \in Clients : d # c => sendQue'[d] = sendQue[d] /\ s2c'[d] = s2c[d]
    BY <1>7 DEF IInv, TypeOK
  <2>2. Range(s2c'[c]) \subseteq Range(s2c[c]) \union {f} /\ (~cup[c] => s2c'[c] = s2c[c])
    BY <1>1, <1>2, <2>1, RangeAppend
  <2>3. /\ closed'[c] = (closed[c] \/ (f.kind = "closeok" /\ f.arg = 0))
        /\ \A d \in Clients : d # c => closed'[d] = closed[d]
    <3>1. CASE f.kind = "closeok"
      <4>1. closed' = [closed EXCEPT ![c] = @ \/ f.arg = 0]
        BY <1>7, <3>1 DEF OnFramDestroy
      <4> QED BY <1>3, <3>1, <4>1 DEF IInv, TypeOK
    <3>2. CASE f.kind # "closeok"
      BY <1>3, <1>7, <3>2 DEF OnFramDestroy, IInv, TypeOK
    <3> QED BY <3>1, <3>2
  <2>4. ASSUME f.kind = "closeok", f.arg = 0
        PROVE  Tail(sendQue[c]) = <<>> /\ c2s[c] = <<>> /\ (cup[c] => cpc[c] = "close0")
    <3>1. Tail(sendQue[c]) = <<>>
      BY <1>2, <2>4, NothingIn DEF Fits
    <3>2. c2s[c] = <<>>
      BY <1>1, <1>2, <2>4 DEF Served, Quiet
    <3>3. ASSUME cup[c] PROVE cpc[c] = "close0"
      <4>1. f \in Coming(c)
        BY <1>2 DEF Coming
      <4>2. f.kind \in MayCome(c, cpc[c]) /\ cpc[c] # "close1"
        BY <1>1, <2>4, <3>3, <4>1 DEF Talks
      <4> QED BY <1>1, <2>4, <3>3, <4>2 DEF MayCome, Phase, Ends
    <3> QED BY <3>1, <3>2, <3>3
  <2>5. ASSUME cpc[c] = "close0", f.kind = "closeok" PROVE f.arg = 0
    <3>1. f.arg \in chans[c] /\ chans[c] \subseteq {0, 1}
      BY <1>1, <1>2, <2>5, TypeOf DEF Served, IInv
    <3>2. 1 \notin chans[c]
      BY <1>1, <2>5 DEF Phase, Ends, Talks
    <3> QED BY <3>1, <3>2
  <2>6. Ended(c)'
    <3>1. closed'[c] => /\ conn'[c] \in {"open", "closed"} /\ sendQue'[c] = <<>> /\ c2s'[c] = <<>>
                        /\ cup'[c] => cpc'[c] = "close0"
      BY <1>3, <1>5, <2>1, <2>3, <2>4
    <3>2. cpc'[c] = "close0" =>
            \A g \in Range(rxq'[c]) \union Range(s2c'[c]) : g.kind = "closeok" => closed'[c]
      BY <1>1, <1>3, <1>5, <2>2, <2>3, <2>5 DEF Ended
    <3> QED BY <1>1, <1>3, <1>5, <3>1, <3>2 DEF Ended
  <2>7. \A d \in Clients : d # c => Stays(d)
    BY <1>5, <2>1, <2>3 DEF Stays
  <2> QED BY <1>4, <2>6, <2>7
<1>8. \/ UNCHANGED <<sendQue, s2c, closed>>
      \/ /\ sendQue' = [sendQue EXCEPT ![c] = Tail(@)]
         /\ s2c' = IF cup[c] THEN [s2c EXCEPT ![c] = Append(@, f)] ELSE s2c
         /\ OnFramDestroy(c, f)
  BY DEF LstnSendFram
<1> QED BY <1>6, <1>7, <1>8

\* The loop turns to the next session.
LEMMA ServeStepEnds ==
  ASSUME IInv, EInv, SendPhase \/ ServeNext
  PROVE  EInv' /\ freed' = freed
<1>. PICK c : c = Head(todo)
  OBVIOUS
<1>1. /\ todo # <<>> /\ todo' = Tail(todo) /\ lpc' = lpc
      /\ UNCHANGED <<clntVars, c2s, conn, fdsetRD>>
      /\ \/ sendQue[c] # <<>> /\ LstnSendFram(c)
         \/ UNCHANGED <<freed, sendQue, s2c, closed>>
  BY DEF SendPhase, ServeNext
<1>2. /\ c \in Clients /\ conn[c] = "open" /\ c \notin Range(Tail(todo))
      /\ Range(Tail(todo)) \subseteq Range(todo)
  BY <1>1, ServedOne, RangeTail DEF IInv, TypeOK
<1>3. UNCHANGED <<cpc, cup, rxq>>
  BY <1>1 DEF clntVars
<1>4. (\A d \in Clients : Ended(d)') /\ freed' = freed
  <2>1. CASE sendQue[c] # <<>> /\ LstnSendFram(c)
    BY <1>1, <1>2, <2>1, LstnSendFramEnds, StaysInv DEF EInv
  <2>2. CASE UNCHANGED <<freed, sendQue, s2c, closed>>
    <3>1. \A d \in Clients : Stays(d)
      BY <1>1, <1>3, <2>2 DEF Stays
    <3> QED BY <2>2, <3>1, StaysInv DEF EInv
  <2> QED BY <1>1, <2>1, <2>2
<1>5. Watched'
  <2>1. lpc' # "accept"
    BY <1>1 DEF SendPhase, ServeNext
  <2>2. ASSUME NEW d \in fdsetRD, d \in Range(Tail(todo)), lpc = "serve"
        PROVE  c2s[d] # <<>> \/ ~cup[d]
    BY <1>2, <2>2 DEF EInv, Watched
  <2> QED BY <1>1, <1>3, <2>1, <2>2 DEF Watched
<1> QED BY <1>4, <1>5 DEF EInv

\* The steps in which the loop only moves on: select() finds the sockets.
LEMMA LoopStepsEnd ==
  ASSUME IInv, EInv, Run \/ Shutdown \/ LoopTop \/ Select \/ SelectReturns \/ ServeDone
  PROVE  EInv' /\ freed' = freed
<1>1. UNCHANGED <<cpc, cup, rxq, c2s, s2c, conn, sendQue, closed, sessions, freed>>
  BY DEF Run, Shutdown, LoopTop, Select, SelectReturns, ServeDone, clntVars, wireVars,
         sessVars, histVars
<1>2. \A c \in Clients : Stays(c)
  BY <1>1 DEF Stays
<1>3. Watched'
  <2>1. CASE Run \/ LoopTop \/ SelectReturns \/ ServeDone
    BY <2>1 DEF Run, LoopTop, SelectReturns, ServeDone, Watched
  <2>2. CASE Shutdown
    BY <1>1, <2>2 DEF Shutdown, EInv, Watched
  <2>3. CASE Select
    BY <1>1, <2>3 DEF Select, Readable, Watched
  <2> QED BY <2>1, <2>2, <2>3
<1> QED BY <1>1, <1>2, <1>3, StaysInv DEF EInv

\* A connection is accepted.
LEMMA NewSessEnds ==
  ASSUME IInv, EInv, NewSess
  PROVE  EInv' /\ freed' = freed
<1>. PICK c : c = Head(backlog)
  OBVIOUS
<1>1. /\ lpc = "accept" /\ lpc' = "serve" /\ conn' = [conn EXCEPT ![c] = "open"]
      /\ sendQue' = [sendQue EXCEPT ![c] = @ \o <<Fram(0, "greeting", 0)>>]
      /\ UNCHANGED <<cpc, cup, rxq, c2s, s2c, fdsetRD, closed, freed>>
  BY DEF NewSess, Enqueue, clntVars, histVars
<1>2. c \in Clients /\ conn[c] = "backlog"
  <2>1. backlog # <<>> /\ backlog \in Seq(Clients)
    BY <1>1, ListFacts DEF IInv, Lists
  <2>2. Head(backlog) \in Range(backlog)
    BY <2>1, RangeTail
  <2> QED BY <2>2, ListFacts
<1>3. /\ conn'[c] = "open"
      /\ \A d \in Clients : d # c => conn'[d] = conn[d] /\ sendQue'[d] = sendQue[d]
  BY <1>1, <1>2 DEF IInv, TypeOK
<1>4. ~closed[c] /\ cpc[c] # "unanswered"
  BY <1>2 DEF EInv, Ended
<1>5. Ended(c)'
  BY <1>1, <1>2, <1>3, <1>4 DEF EInv, Ended
<1>6. \A d \in Clients : d # c => Stays(d)
  BY <1>1, <1>3 DEF Stays
<1>7. Watched'
  BY <1>1 DEF EInv, Watched
<1> QED BY <1>1, <1>5, <1>6, <1>7, StaysInv DEF EInv

\* A frame is read: its session is not closed.
LEMMA DoIncomingDataEnds ==
  ASSUME IInv, EInv, DoIncomingData
  PROVE  EInv' /\ freed' = freed
<1>. PICK c : c = Head(todo)
  OBVIOUS
<1>1. /\ todo # <<>> /\ c2s[c] # <<>> /\ c2s' = [c2s EXCEPT ![c] = Tail(@)]
      /\ OnFramRcvd(c, Head(c2s[c])) /\ got' = TRUE
      /\ UNCHANGED <<clntVars, s2c, conn, lpc, sessions, todo, fdsetRD, closed, freed>>
      /\ lpc = "serve"
  BY DEF DoIncomingData
<1>2. c \in Clients /\ conn[c] = "open"
  BY <1>1, ServedOne
<1>3. \A d \in Clients : d # c => Unmoved(d)
  BY <1>1, <1>2, OnFramRcvdInv
<1>4. UNCHANGED <<cpc, cup, rxq>>
  BY <1>1 DEF clntVars
<1>5. ~closed[c]
  BY <1>1, <1>2 DEF EInv, Ended
<1>6. Ended(c)'
  BY <1>1, <1>2, <1>4, <1>5 DEF EInv, Ended
<1>7. \A d \in Clients : d # c => Stays(d)
  BY <1>1, <1>3 DEF Unmoved, Stays
<1>8. Watched'
  <2>1. fdsetRD \subseteq Clients
    BY DEF IInv, TypeOK
  <2> QED BY <1>1, <1>4, <1>7, <2>1 DEF EInv, Watched, Stays
<1> QED BY <1>1, <1>6, <1>7, <1>8, StaysInv DEF EInv

\* Sockets are closed.
LEMMA CloseEnds ==
  ASSUME IInv, NEW S, CloseSockets(S), NEW c \in Clients, Ended(c), UNCHANGED clntVars
  PROVE  Ended(c)'
<1>1. UNCHANGED <<cpc, cup, rxq, closed>>
  BY DEF CloseSockets, clntVars
<1>2. CASE c \notin S
  BY <1>1, <1>2, StaysInv DEF CloseSockets, Stays
<1>3. CASE c \in S
  <2>1. /\ conn'[c] = "closed" /\ c2s'[c] = <<>> /\ sendQue'[c] = <<>>
        /\ (s2c'[c] = s2c[c] \/ s2c'[c] = <<>>)
    BY <1>3 DEF CloseSockets
  <2>2. Range(s2c'[c]) \subseteq Range(s2c[c])
    BY <2>1, RangeEmpty
  <2> QED BY <1>1, <2>1, <2>2 DEF Ended
<1> QED BY <1>2, <1>3

\* Sessions whose channel 0 is closed are removed: their queues are empty.
LEMMA BuildFDSetsEnds ==
  ASSUME IInv, EInv, BuildFDSets
  PROVE  EInv' /\ freed' = freed
<1>. DEFINE gone == {c \in Range(sessions) : closed[c]}
<1>1. lpc' = "select" /\ Abort(gone) /\ UNCHANGED clntVars
  BY DEF BuildFDSets
<1>2. \A c \in gone : sendQue[c] = <<>>
  BY ListFacts DEF EInv, Ended
<1>3. freed' = freed
  <2>1. \A c \in gone : DOMAIN sendQue[c] = {}
    BY <1>2
  <2>2. freed' = (freed \/ \E c \in gone : \E i \in DOMAIN sendQue[c] :
                              sendQue[c][i].kind = "closeok")
    BY <1>1 DEF Abort
  <2>3. freed \in BOOLEAN
    BY DEF IInv, TypeOK
  <2> QED BY <2>1, <2>2, <2>3
<1> HIDE DEF gone
<1> QED BY <1>1, <1>3, CloseEnds DEF Abort, EInv, Watched

\* A session ends whose client has gone: if it had not died, nothing was left
\* to be sent to it.
LEMMA SessionEndsEnds ==
  ASSUME IInv, EInv, SessionEnds
  PROVE  /\ EInv'
         /\ freed' # freed => \E c \in CanDie :
               cpc[c] = "failed" /\ c \in Range(sessions) \ Range(sessions')
<1>. PICK c : c = Head(todo)
  OBVIOUS
<1>1. /\ lpc = "serve" /\ lpc' = lpc /\ todo # <<>> /\ ~got /\ c \in fdsetRD /\ c2s[c] = <<>>
      /\ Abort({c}) /\ todo' = Tail(todo) /\ sessions' = Without(sessions, {c})
      /\ UNCHANGED <<clntVars, fdsetRD>>
  BY DEF SessionEnds
<1>2. /\ c \in Clients /\ conn[c] = "open" /\ c \in Range(sessions) /\ c \in Range(todo)
      /\ c \notin Range(Tail(todo)) /\ Range(Tail(todo)) \subseteq Range(todo)
  BY <1>1, ServedOne, RangeTail DEF IInv, TypeOK
<1>3. ~cup[c]
  BY <1>1, <1>2 DEF EInv, Watched
<1>4. cpc[c] \in {"done", "unanswered", "failed"}
  BY <1>2, <1>3 DEF IInv, CInv, Phase, Ends
<1>5. cpc[c] # "unanswered" /\ (cpc[c] = "failed" => c \in CanDie)
  BY <1>2 DEF EInv, Ended
<1>6. c \notin Range(sessions')
  BY <1>1, ListFacts, WithoutIs
<1>7. ASSUME sendQue[c] = <<>> PROVE freed' = freed
  <2>1. DOMAIN sendQue[c] = {}
    BY <1>7
  <2>2. freed' = (freed \/ \E d \in {c} : \E i \in DOMAIN sendQue[d] :
                              sendQue[d][i].kind = "closeok")
    BY <1>1 DEF Abort
  <2>3. freed \in BOOLEAN
    BY DEF IInv, TypeOK
  <2> QED BY <2>1, <2>2, <2>3
<1>8. cpc[c] = "done" => sendQue[c] = <<>>
  BY <1>2 DEF EInv, Ended
<1>9. Watched'
  <2>1. UNCHANGED cup
    BY <1>1 DEF clntVars
  <2>2. ASSUME NEW d \in fdsetRD, d \in Range(Tail(todo))
        PROVE  c2s'[d] # <<>> \/ ~cup[d]
    <3>1. d # c /\ d \in Clients /\ d \in Range(todo)
      BY <1>2, <2>2 DEF IInv, TypeOK
    <3>2. c2s'[d] = c2s[d]
      BY <1>1, <3>1 DEF Abort, CloseSockets
    <3> QED BY <1>1, <3>1, <3>2 DEF EInv, Watched
  <2> QED BY <1>1, <2>1, <2>2 DEF Watched
<1>10. \A d \in Clients : Ended(d)'
  BY <1>1, CloseEnds DEF Abort, EInv
<1> QED BY <1>2, <1>4, <1>5, <1>6, <1>7, <1>8, <1>9, <1>10 DEF EInv

\* The loop has ended, as it was told to.
LEMMA LoopEndEnds ==
  ASSUME IInv, EInv, LoopEnd
  PROVE  EInv' /\ lpc = "top" /\ ~bRun
<1>1. /\ lpc = "top" /\ ~bRun /\ lpc' = "stopped" /\ UNCHANGED clntVars
      /\ CloseSockets(Range(sessions) \union Range(backlog))
  BY DEF LoopEnd, Abort
<1> QED BY <1>1, CloseEnds DEF EInv, Watched

\* The process is killed.
LEMMA KilledEnds ==
  ASSUME IInv, EInv, KilledBySend
  PROVE  EInv' /\ freed' = freed
<1>1. /\ lpc' = "stopped" /\ UNCHANGED clntVars /\ freed' = freed
      /\ CloseSockets(Range(sessions) \union Range(backlog))
  BY DEF KilledBySend, histVars
<1> QED BY <1>1, CloseEnds DEF EInv, Watched
-----------------------------------------------------------------------------
\* The invariant, and what every step does to the flag.
LEMMA EndsInit == Init => EInv
  BY DEF Init, EInv, Watched, Ended

LEMMA EndsNext ==
  ASSUME IInv, EInv, [Next]_vars
  PROVE  /\ EInv'
         /\ freed' # freed =>
              \/ lpc = "top" /\ ~bRun
              \/ \E c \in CanDie :
                    cpc[c] = "failed" /\ c \in Range(sessions) \ Range(sessions')
<1>1. ASSUME NEW c \in Clients,
             \/ OpenSession(c) \/ LogMesg(c) \/ CloseLog(c) \/ CloseChan(c) \/ Die(c)
             \/ AwaitFram(c) \/ TakeGreeting(c) \/ TakeProfile(c) \/ TakeGoAhead(c)
             \/ TakeIamReply(c) \/ TakeLogReply(c) \/ TakeCloseReply(c)
             \/ TakeLastReply(c) \/ ConnLost(c)
      PROVE  EInv' /\ freed' = freed
  <2>1. EInv'
    BY <1>1, OpenSessionEnds, SendStepsEnd, RepliesEnd, AwaitFramEnds, TakeLastReplyEnds,
       ConnLostEnds, DieEnds
  <2>2. UNCHANGED histVars
    BY <1>1 DEF OpenSession, LogMesg, CloseLog, CloseChan, Die, GiveUp, AwaitFram,
                TakeGreeting, TakeProfile, TakeGoAhead, TakeIamReply, TakeLogReply,
                TakeCloseReply, TakeLastReply, ConnLost, TakeAndSend, TakeOnly
  <2> QED BY <2>1, <2>2 DEF histVars
<1>2. CASE LstnRuns
  BY <1>2, LoopStepsEnd, LoopEndEnds, KilledEnds, ServeStepEnds, BuildFDSetsEnds, NewSessEnds,
     DoIncomingDataEnds, SessionEndsEnds DEF LstnRuns
<1>3. CASE Shutdown
  BY <1>3, LoopStepsEnd
<1>4. CASE UNCHANGED vars
  <2>1. UNCHANGED <<cpc, cup, rxq, c2s, s2c, conn, sendQue, closed, lpc, sessions, todo,
                    fdsetRD, got, freed>>
    BY <1>4 DEF vars, clntVars, wireVars, loopVars, sessVars, histVars
  <2>2. \A c \in Clients : Stays(c)
    BY <2>1 DEF Stays
  <2>3. Watched'
    BY <2>1 DEF EInv, Watched
  <2> QED BY <2>1, <2>2, <2>3, StaysInv DEF EInv
<1> QED BY <1>1, <1>2, <1>3, <1>4 DEF Next

LEMMA EndsInductive == Spec => []EInv
<1>1. IInv /\ EInv /\ [Next]_vars => EInv'
  BY EndsNext
<1> QED BY <1>1, EndsInit, Inductive, PTL DEF Spec

\* A pointer to a freed channel is followed only when the loop is told to end, or when
\* the session of a client that died is removed: never as long as all clients live
\* and the listener runs.
FreedOnlyByAbort ==
  [][freed' # freed =>
       \/ lpc = "top" /\ ~bRun
       \/ \E c \in CanDie :
             cpc[c] = "failed" /\ c \in Range(sessions) \ Range(sessions')]_vars

\* sbSessAbort follows a pointer to a channel it has freed only when the loop
\* was told to end or when it removes the session of a client that died.
THEOREM FreedChannelsOnAbort == Spec => FreedOnlyByAbort
<1>1. IInv /\ EInv /\ [Next]_vars =>
        [freed' # freed =>
           \/ lpc = "top" /\ ~bRun
           \/ \E c \in CanDie :
                 cpc[c] = "failed" /\ c \in Range(sessions) \ Range(sessions')]_vars
  BY EndsNext
<1> QED BY <1>1, Inductive, EndsInductive, PTL DEF Spec, FreedOnlyByAbort

\* As long as the listener runs, it has not been told to stop.
Runs == lpc \notin {"setup", "stopped"} => bRun

\* If no client dies and nobody stops the running listener, no freed channel is
\* touched in any number of sessions: it takes one of the two to get there.
THEOREM NoneFreedInPeace ==
  ASSUME CanDie = {}, "running" \notin ShutdownIn
  PROVE  Spec => []NoFreedChannelTouched
<1>1. Init => Runs /\ ~freed
  BY DEF Init, Runs
<1>2. Runs /\ [Next]_vars => Runs'
  <2> SUFFICES ASSUME Runs, [Next]_vars PROVE Runs'
    OBVIOUS
  <2>1. ASSUME NEW c \in Clients,
               \/ OpenSession(c) \/ LogMesg(c) \/ CloseLog(c) \/ CloseChan(c) \/ Die(c)
               \/ AwaitFram(c) \/ TakeGreeting(c) \/ TakeProfile(c) \/ TakeGoAhead(c)
               \/ TakeIamReply(c) \/ TakeLogReply(c) \/ TakeCloseReply(c)
               \/ TakeLastReply(c) \/ ConnLost(c)
        PROVE  UNCHANGED <<lpc, bRun>>
    BY <2>1 DEF OpenSession, LogMesg, CloseLog, CloseChan, Die, GiveUp, AwaitFram,
                TakeGreeting, TakeProfile, TakeGoAhead, TakeIamReply, TakeLogReply,
                TakeCloseReply, TakeLastReply, ConnLost, TakeAndSend, TakeOnly, loopVars
  <2>2. CASE LstnRuns
    BY <2>2 DEF LstnRuns, Runs, Run, LoopTop, LoopEnd, SendPhase, BuildFDSets, Select,
                SelectReturns, NewSess, DoIncomingData, SessionEnds, ServeNext, KilledBySend,
                ServeDone
  <2>3. CASE Shutdown
    BY <2>3 DEF Shutdown, Runs
  <2>4. CASE UNCHANGED vars
    BY <2>4 DEF Runs, vars, loopVars
  <2> QED BY <2>1, <2>2, <2>3, <2>4 DEF Next, Runs
<1>3. IInv /\ EInv /\ Runs /\ ~freed /\ [Next]_vars => ~freed'
  <2> SUFFICES ASSUME IInv, EInv, Runs, ~freed, [Next]_vars PROVE ~freed'
    OBVIOUS
  <2>1. freed' = freed
    BY EndsNext DEF Runs
  <2> QED BY <2>1
<1> QED BY <1>1, <1>2, <1>3, Inductive, EndsInductive, PTL DEF Spec, NoFreedChannelTouched
=============================================================================
