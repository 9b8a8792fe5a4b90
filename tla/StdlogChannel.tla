--------------------------- MODULE StdlogChannel ---------------------------
(***************************************************************************)
(* The channels of liblogging-stdlog.  A channel is opened by stdlog_open, *)
(* the default channel by stdlog_init; the file or socket behind it is     *)
(* opened by the first message, without a lock, in whatever thread or      *)
(* signal handler logs it.                                                 *)
(*                                                                         *)
(* The application keeps to the manual page: one thread initialises, opens *)
(* and closes; the other threads run, and handlers are installed, between  *)
(* Start and Join.  What a line looks like is left out.                    *)
(***************************************************************************)
EXTENDS Naturals, FiniteSets

CONSTANTS
  Main,         \* the startup thread
  Threads,      \* the other threads
  Handlers,     \* signal handlers; they interrupt Main and run to their end
  FileChans,    \* channels of the file: driver
  UxsChans,     \* channels of the uxsock: and syslog: driver
  Dflt,         \* the one of them that stdlog_init opens
  Warm,         \* channels Main logs to before it starts the threads
  Uses,         \* who logs to which channel while the threads run
  Fds,          \* bound: the descriptors a process may have
  NoFd,         \* the descriptor -1
  MaxLogs,      \* bound: messages each thread logs
  MaxDowns      \* bound: how often a target becomes unavailable

Chans == FileChans \union UxsChans
Actors == {Main} \union Threads \union Handlers

ASSUME ChannelAssumption ==
  /\ Main \notin Threads \union Handlers /\ Threads \intersect Handlers = {}
  /\ FileChans \intersect UxsChans = {} /\ Dflt \in Chans /\ Warm \subseteq Chans
  /\ Uses \subseteq Actors \X Chans
  /\ NoFd \notin Fds
  /\ MaxLogs \in Nat /\ MaxDowns \in Nat

VARIABLES
  phase,        \* of the application: "setup", "threads", "joined", "over"
  state,        \* of each channel: "new", "open", "closed"
  fd, addr,     \* ch->d.file.fd or ch->d.uxs.sock; ch->d.uxs.addr is filled in
  descrs,       \* the descriptors the process holds
  pc, arg, n,   \* where each actor stands, its channel, messages it has logged
  rc, excuse,   \* result of its last call; something happened to that call
  up, downs,    \* is the file or the socket's reader there?
  target        \* the complete messages that have arrived, by channel

apiVars == <<phase, state>>
chanVars == <<fd, addr, descrs>>
callVars == <<pc, arg, n, rc, excuse>>
envVars == <<up, downs, target>>
vars == <<apiVars, chanVars, callVars, envVars>>

Init ==
  /\ phase = "setup"
  /\ state = [c \in Chans |-> "new"]
  /\ fd = [c \in Chans |-> NoFd] /\ addr = [c \in Chans |-> FALSE]
  /\ descrs = {}
  /\ pc = [t \in Actors |-> "idle"] /\ arg = [t \in Actors |-> Dflt]
  /\ n = [t \in Actors |-> 0] /\ rc = [t \in Actors |-> "ok"]
  /\ excuse = [t \in Actors |-> FALSE]
  /\ up = [c \in Chans |-> TRUE] /\ downs = 0
  /\ target = [c \in Chans |-> {}]
-----------------------------------------------------------------------------
(***************************************************************************)
(* The application.                                                        *)
(***************************************************************************)
\* Main waits for a handler that interrupts it.
MayRun(t) == t = Main => \A h \in Handlers : pc[h] = "idle"

\* stdlog_init for the default channel, stdlog_open for any other.
Open(c) ==
  /\ phase = "setup" /\ pc[Main] = "idle"
  /\ state[c] = "new"
  /\ state' = [state EXCEPT ![c] = "open"]
  /\ fd' = [fd EXCEPT ![c] = NoFd]
  /\ UNCHANGED <<phase, addr, descrs, callVars, envVars>>

\* The library is initialised before the threads start.
Start ==
  /\ phase = "setup" /\ pc[Main] = "idle"
  /\ state[Dflt] = "open"
  /\ \A c \in Warm : fd[c] # NoFd
  /\ phase' = "threads"
  /\ UNCHANGED <<state, chanVars, callVars, envVars>>

Join ==
  /\ phase = "threads"
  /\ \A t \in Actors : pc[t] = "idle"
  /\ phase' = "joined"
  /\ UNCHANGED <<state, chanVars, callVars, envVars>>

\* Mutant: the descriptor stays open.
Close_Leaks(c) ==
  /\ phase = "joined" /\ pc[Main] = "idle"
  /\ state[c] = "open" /\ c # Dflt
  /\ state' = [state EXCEPT ![c] = "closed"]
  /\ fd' = [fd EXCEPT ![c] = NoFd]
  /\ UNCHANGED <<phase, addr, descrs, callVars, envVars>>
\* stdlog_close; the default channel has no handle to close it by.
Close(c) ==
  /\ phase = "joined" /\ pc[Main] = "idle"
  /\ state[c] = "open" /\ c # Dflt
  /\ state' = [state EXCEPT ![c] = "closed"]
  /\ descrs' = descrs \ {fd[c]}
  /\ fd' = [fd EXCEPT ![c] = NoFd]
  /\ UNCHANGED <<phase, addr, callVars, envVars>>

\* stdlog_deinit, after which the library may not be called: it frees the
\* default specification and leaves the default channel as it is.
Deinit ==
  /\ phase = "joined" /\ pc[Main] = "idle"
  /\ \A c \in Chans \ {Dflt} : state[c] # "open"
  /\ phase' = "over"
  /\ UNCHANGED <<state, chanVars, callVars, envVars>>

\* The target of a channel goes away (a full disk, a log daemon restarted),
\* which is an excuse for every call in progress on it, and comes back.
GoDown(c) ==
  /\ up[c] /\ downs < MaxDowns
  /\ up' = [up EXCEPT ![c] = FALSE] /\ downs' = downs + 1
  /\ excuse' = [t \in Actors |-> excuse[t] \/ (pc[t] # "idle" /\ arg[t] = c)]
  /\ UNCHANGED <<apiVars, chanVars, pc, arg, n, rc, target>>
ComeUp(c) ==
  /\ ~up[c]
  /\ up' = [up EXCEPT ![c] = TRUE]
  /\ UNCHANGED <<apiVars, chanVars, callVars, downs, target>>
-----------------------------------------------------------------------------
(***************************************************************************)
(* stdlog_log and the drivers.                                             *)
(***************************************************************************)
\* A handler may cut short the system call Main is in.
Call(t, c) ==
  /\ pc[t] = "idle" /\ n[t] < MaxLogs
  /\ IF phase = "threads" THEN <<t, c>> \in Uses ELSE t = Main /\ phase # "over"
  /\ MayRun(t)
  /\ state[c] = "open"
  /\ pc' = [pc EXCEPT ![t] = "log"]
  /\ arg' = [arg EXCEPT ![t] = c]
  /\ n' = [n EXCEPT ![t] = @ + 1]
  /\ excuse' = [u \in Actors |->
                  IF u = t THEN ~up[c]
                  ELSE excuse[u] \/ (u = Main /\ t \in Handlers /\ pc[u] = "write")]
  /\ UNCHANGED <<apiVars, chanVars, rc, envVars>>

At(t, label) == pc[t] = label /\ MayRun(t)
GoTo(t, label) == pc' = [pc EXCEPT ![t] = label]
Return(t, r) == GoTo(t, "idle") /\ rc' = [rc EXCEPT ![t] = r]

\* Mutant: the address is filled in anew for every message.
Log_Readdresses(t) ==
  /\ At(t, "log")
  /\ GoTo(t, IF fd[arg[t]] = NoFd THEN "open"
             ELSE IF arg[t] \in UxsChans THEN "clear" ELSE "write")
  /\ UNCHANGED <<apiVars, chanVars, arg, n, rc, excuse, envVars>>
\* file_log, uxs_log: is the descriptor there?
Log(t) ==
  /\ At(t, "log")
  /\ GoTo(t, IF fd[arg[t]] = NoFd THEN "open" ELSE "write")
  /\ UNCHANGED <<apiVars, chanVars, arg, n, rc, excuse, envVars>>

\* file_open, uxs_open look again,
DrvrOpen(t) ==
  /\ At(t, "open")
  /\ GoTo(t, IF fd[arg[t]] = NoFd THEN "sys" ELSE "check")
  /\ UNCHANGED <<apiVars, chanVars, arg, n, rc, excuse, envVars>>

\* call open() or socket() and store the result, be it -1,
SysOpen(t) ==
  /\ At(t, "sys")
  /\ LET c == arg[t] IN
     \/ \E d \in Fds \ descrs :
          /\ c \in FileChans => up[c]
          /\ descrs' = descrs \union {d}
          /\ fd' = [fd EXCEPT ![c] = d]
          /\ GoTo(t, IF c \in FileChans THEN "check" ELSE "clear")
          /\ UNCHANGED excuse
     \/ /\ Fds \subseteq descrs \/ (c \in FileChans /\ ~up[c])
        /\ fd' = [fd EXCEPT ![c] = NoFd]
        /\ GoTo(t, "check")
        /\ excuse' = [excuse EXCEPT ![t] = TRUE]
        /\ UNCHANGED descrs
  /\ UNCHANGED <<apiVars, addr, arg, n, rc, envVars>>

\* and the address of a socket is cleared and then filled in.
ClearAddr(t) ==
  /\ At(t, "clear")
  /\ addr' = [addr EXCEPT ![arg[t]] = FALSE]
  /\ GoTo(t, "fill")
  /\ UNCHANGED <<apiVars, fd, descrs, arg, n, rc, excuse, envVars>>
FillAddr(t) ==
  /\ At(t, "fill")
  /\ addr' = [addr EXCEPT ![arg[t]] = TRUE]
  /\ GoTo(t, "check")
  /\ UNCHANGED <<apiVars, fd, descrs, arg, n, rc, excuse, envVars>>

Check(t) ==
  /\ At(t, "check")
  /\ IF fd[arg[t]] = NoFd THEN Return(t, "failed")
     ELSE GoTo(t, "write") /\ UNCHANGED rc
  /\ UNCHANGED <<apiVars, chanVars, arg, n, excuse, envVars>>

Arrives(t) == target' = [target EXCEPT ![arg[t]] = @ \union {<<t, n[t]>>}]

\* Mutant: a short write counts as success.
Write_Short(t) ==
  /\ At(t, "write")
  /\ \/ /\ fd[arg[t]] # NoFd /\ up[arg[t]] /\ (arg[t] \in UxsChans => addr[arg[t]])
        /\ Arrives(t)
        /\ Return(t, "ok")
     \/ /\ \/ fd[arg[t]] = NoFd \/ ~up[arg[t]] \/ excuse[t]
           \/ arg[t] \in UxsChans /\ ~addr[arg[t]]
        /\ Return(t, IF arg[t] \in FileChans THEN "ok" ELSE "failed")
        /\ UNCHANGED target
  /\ UNCHANGED <<apiVars, chanVars, arg, n, excuse, up, downs>>
\* write() and sendto() on the descriptor the channel has now, be it -1 again:
\* the whole message arrives, or the call fails, is cut short or is interrupted;
\* an address that is not complete reaches nobody.
Write(t) ==
  /\ At(t, "write")
  /\ \/ /\ fd[arg[t]] # NoFd /\ up[arg[t]] /\ (arg[t] \in UxsChans => addr[arg[t]])
        /\ Arrives(t)
        /\ Return(t, "ok")
     \/ /\ \/ fd[arg[t]] = NoFd \/ ~up[arg[t]] \/ excuse[t]
           \/ arg[t] \in UxsChans /\ ~addr[arg[t]]
        /\ Return(t, "failed")
        /\ UNCHANGED target
  /\ UNCHANGED <<apiVars, chanVars, arg, n, excuse, up, downs>>

Step(t) == Log(t) \/ DrvrOpen(t) \/ SysOpen(t) \/ ClearAddr(t) \/ FillAddr(t)
             \/ Check(t) \/ Write(t)

Next ==
  \/ Start \/ Join \/ Deinit
  \/ \E c \in Chans : Open(c) \/ Close(c) \/ GoDown(c) \/ ComeUp(c)
  \/ \E t \in Actors, c \in Chans : Call(t, c)
  \/ \E t \in Actors : Step(t)

Spec == Init /\ [][Next]_vars
-----------------------------------------------------------------------------
Labels == {"idle", "log", "open", "sys", "clear", "fill", "check", "write"}

TypeOK ==
  /\ phase \in {"setup", "threads", "joined", "over"}
  /\ state \in [Chans -> {"new", "open", "closed"}]
  /\ fd \in [Chans -> Fds \union {NoFd}] /\ addr \in [Chans -> BOOLEAN]
  /\ descrs \subseteq Fds
  /\ pc \in [Actors -> Labels] /\ arg \in [Actors -> Chans]
  /\ n \in [Actors -> 0 .. MaxLogs] /\ rc \in [Actors -> {"ok", "failed"}]
  /\ excuse \in [Actors -> BOOLEAN]
  /\ up \in [Chans -> BOOLEAN] /\ downs \in 0 .. MaxDowns
  /\ target \in [Chans -> SUBSET (Actors \X (0 .. MaxLogs))]

\* Every descriptor of the process is held by exactly one channel that is open,
\* and every channel's descriptor is open: none is leaked, none used after it
\* was closed, none shared.
DescriptorsOwned ==
  /\ descrs = {fd[c] : c \in Chans} \ {NoFd}
  /\ \A c \in Chans : fd[c] # NoFd => state[c] = "open"
  /\ \A c, d \in Chans : fd[c] = fd[d] /\ c # d => fd[c] = NoFd

\* stdlog_log is thread- and signal-safe: a call fails only if its target was
\* unavailable at some time while it ran, descriptors ran out or a signal
\* interrupted it, never because of what another thread does to the channel.
FailsOnlyForCause ==
  \A t \in Actors : pc[t] = "idle" /\ rc[t] = "failed" => excuse[t]

\* The result says whether the message has arrived, and it arrives where it was
\* sent to.
ReturnIsTrue ==
  \A t \in Actors : pc[t] = "idle" /\ n[t] > 0 =>
    \A c \in Chans : <<t, n[t]>> \in target[c] <=> (c = arg[t] /\ rc[t] = "ok")

\* stdlog_deinit closes file handles: after it the process holds none.
NoneOpenAtEnd == phase = "over" => descrs = {}
=============================================================================
