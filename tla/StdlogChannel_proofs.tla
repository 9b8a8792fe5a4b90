----------------------- MODULE StdlogChannel_proofs -----------------------
(***************************************************************************)
(* Proofs about StdlogChannel, for any number of threads, handlers,        *)
(* channels and descriptors.                                               *)
(*                                                                         *)
(* What a call returns is true in every program (Truthful).  That threads  *)
(* do not disturb each other needs a discipline: while they run, a channel *)
(* that Main has not logged to before is used by one of them only.  Then   *)
(* no descriptor is ever opened by two actors at once (DisciplineHolds).   *)
(* Two users of one such channel suffice to lose a descriptor or a call.   *)
(***************************************************************************)
EXTENDS StdlogChannel, TLAPS

\* Messages arrive once they are logged, and not while the call is on its way.
ArrivesOnce ==
  \A t \in Actors, c \in Chans : \A i \in 0 .. MaxLogs :
    <<t, i>> \in target[c] => i <= n[t] /\ (pc[t] # "idle" => i # n[t])

\* The discipline of an application: a channel that is opened while the threads
\* run belongs to one of them.
Disciplined ==
  \A c \in Chans \ Warm : \A t, u \in Actors :
    <<t, c>> \in Uses /\ <<u, c>> \in Uses => t = u

Opening == {"open", "sys", "clear", "fill", "check"}

\* The address of a socket is complete, unless somebody is about to complete it.
AddrComplete ==
  \A c \in UxsChans :
    \/ fd[c] = NoFd \/ addr[c]
    \/ \E t \in Actors : pc[t] \in {"clear", "fill"} /\ arg[t] = c

\* Only Main runs before Start and after Join.  Between them everybody keeps to
\* its channels, and those that are warm stay open.
Discipline ==
  /\ phase # "threads" => \A t \in Actors : t # Main => pc[t] = "idle"
  /\ phase = "threads" =>
       /\ \A t \in Actors : pc[t] # "idle" => <<t, arg[t]>> \in Uses
       /\ \A t \in Actors : pc[t] \in Opening => arg[t] \notin Warm
       /\ \A c \in Warm : fd[c] # NoFd

\* Nobody else is in a call on a channel that is being opened.
Alone ==
  \A t, u \in Actors :
    t # u /\ pc[t] \in Opening /\ pc[u] # "idle" => arg[u] # arg[t]

\* What an actor in the middle of a call knows of its channel.
CallInProgress ==
  \A t \in Actors : pc[t] # "idle" =>
    /\ state[arg[t]] = "open"
    /\ pc[t] \in {"open", "sys"} => fd[arg[t]] = NoFd
    /\ pc[t] \in {"clear", "fill", "write"} => fd[arg[t]] # NoFd
    /\ pc[t] = "check" => fd[arg[t]] # NoFd \/ excuse[t]
    /\ ~up[arg[t]] => excuse[t]

IInv == TypeOK /\ DescriptorsOwned /\ AddrComplete /\ Discipline /\ Alone
          /\ CallInProgress /\ FailsOnlyForCause
-----------------------------------------------------------------------------
\* Every variable keeps its type, for any set of actors and channels.
LEMMA TypeStep == TypeOK /\ [Next]_vars => TypeOK'
<1> SUFFICES ASSUME TypeOK, [Next]_vars
             PROVE  TypeOK'
  OBVIOUS
<1> USE DEF TypeOK
<1>1. CASE Start
  BY <1>1 DEF Start, chanVars, callVars, envVars
<1>2. CASE Join \/ Deinit
  BY <1>2 DEF Join, Deinit, chanVars, callVars, envVars
<1>3. ASSUME NEW c \in Chans, Open(c)
      PROVE  TypeOK'
  BY <1>3 DEF Open, callVars, envVars
<1>4. ASSUME NEW c \in Chans, Close(c)
      PROVE  TypeOK'
  BY <1>4 DEF Close, callVars, envVars
<1>5. ASSUME NEW c \in Chans, GoDown(c)
      PROVE  TypeOK'
  BY <1>5, ChannelAssumption DEF GoDown, apiVars, chanVars
<1>6. ASSUME NEW c \in Chans, ComeUp(c)
      PROVE  TypeOK'
  BY <1>6 DEF ComeUp, apiVars, chanVars, callVars
<1>7. ASSUME NEW t \in Actors, NEW c \in Chans, Call(t, c)
      PROVE  TypeOK'
  <2>1. n' \in [Actors -> 0 .. MaxLogs]
    BY <1>7, ChannelAssumption DEF Call
  <2>2. excuse' \in [Actors -> BOOLEAN]
    BY <1>7 DEF Call
  <2>3. pc' \in [Actors -> Labels] /\ arg' \in [Actors -> Chans]
    BY <1>7 DEF Call, Labels
  <2> QED
    BY <1>7, <2>1, <2>2, <2>3 DEF Call, apiVars, chanVars, envVars
<1>8. ASSUME NEW t \in Actors, Step(t)
      PROVE  TypeOK'
  <2> USE DEF At, GoTo, Return, Labels, apiVars, chanVars, envVars
  <2>1. CASE Log(t)
    BY <2>1 DEF Log
  <2>2. CASE DrvrOpen(t)
    BY <2>2 DEF DrvrOpen
  <2>3. CASE SysOpen(t)
    <3> DEFINE c == arg[t]
    <3>1. ASSUME NEW d \in Fds, descrs' = descrs \union {d},
                 fd' = [fd EXCEPT ![c] = d],
                 GoTo(t, IF c \in FileChans THEN "check" ELSE "clear"),
                 UNCHANGED excuse
          PROVE  TypeOK'
      BY <2>3, <3>1 DEF SysOpen
    <3>2. ASSUME fd' = [fd EXCEPT ![c] = NoFd], GoTo(t, "check"),
                 excuse' = [excuse EXCEPT ![t] = TRUE], UNCHANGED descrs
          PROVE  TypeOK'
      BY <2>3, <3>2 DEF SysOpen
    <3> QED
      BY <2>3, <3>1, <3>2 DEF SysOpen
  <2>4. CASE ClearAddr(t)
    BY <2>4 DEF ClearAddr
  <2>5. CASE FillAddr(t)
    BY <2>5 DEF FillAddr
  <2>6. CASE Check(t)
    BY <2>6 DEF Check
  <2>7. CASE Write(t)
    BY <2>7 DEF Write, Arrives
  <2> QED
    BY <1>8, <2>1, <2>2, <2>3, <2>4, <2>5, <2>6, <2>7 DEF Step
<1>9. CASE UNCHANGED vars
  BY <1>9 DEF vars, apiVars, chanVars, callVars, envVars
<1> QED
  BY <1>1, <1>2, <1>3, <1>4, <1>5, <1>6, <1>7, <1>8, <1>9 DEF Next

\* A message is in a target only after it was logged there.
LEMMA ArrivesStep ==
  TypeOK /\ ArrivesOnce /\ ReturnIsTrue /\ [Next]_vars
    => ArrivesOnce' /\ ReturnIsTrue'
<1> SUFFICES ASSUME TypeOK, ArrivesOnce, ReturnIsTrue, [Next]_vars
             PROVE  ArrivesOnce' /\ ReturnIsTrue'
  OBVIOUS
<1>t. TypeOK'
  BY TypeStep
<1>1. CASE UNCHANGED <<pc, arg, n, rc, target>>
  BY <1>1 DEF ArrivesOnce, ReturnIsTrue
<1>2. ASSUME NEW t \in Actors, NEW c \in Chans, Call(t, c)
      PROVE  ArrivesOnce' /\ ReturnIsTrue'
  <2>1. /\ pc[t] = "idle" /\ pc' = [pc EXCEPT ![t] = "log"]
        /\ arg' = [arg EXCEPT ![t] = c] /\ n' = [n EXCEPT ![t] = @ + 1]
        /\ n[t] \in 0 .. MaxLogs /\ UNCHANGED <<rc, target>>
    BY <1>2 DEF Call, envVars, TypeOK
  <2>2. ArrivesOnce'
    <3> SUFFICES ASSUME NEW u \in Actors, NEW d \in Chans, NEW i \in 0 .. MaxLogs,
                        <<u, i>> \in target[d]
                 PROVE  i <= n'[u] /\ (pc'[u] # "idle" => i # n'[u])
      BY <2>1 DEF ArrivesOnce
    <3>1. i <= n[u] /\ (pc[u] # "idle" => i # n[u])
      BY DEF ArrivesOnce
    <3>2. CASE u = t
      BY <2>1, <3>1, <3>2, ChannelAssumption DEF TypeOK
    <3>3. CASE u # t
      BY <2>1, <3>1, <3>3 DEF TypeOK
    <3> QED
      BY <3>2, <3>3
  <2>3. ReturnIsTrue'
    BY <2>1 DEF ReturnIsTrue, TypeOK
  <2> QED
    BY <2>2, <2>3
<1>3. ASSUME NEW t \in Actors, NEW l, GoTo(t, l), pc[t] # "idle", l # "idle",
             UNCHANGED <<arg, n, rc, target>>
      PROVE  ArrivesOnce' /\ ReturnIsTrue'
  BY <1>3 DEF GoTo, ArrivesOnce, ReturnIsTrue, TypeOK
<1>4. ASSUME NEW t \in Actors, Return(t, "failed"), pc[t] # "idle",
             UNCHANGED <<arg, n, target>>
      PROVE  ArrivesOnce' /\ ReturnIsTrue'
  BY <1>4 DEF GoTo, Return, ArrivesOnce, ReturnIsTrue, TypeOK
<1>5. ASSUME NEW t \in Actors, Return(t, "ok"), pc[t] # "idle", Arrives(t),
             UNCHANGED <<arg, n>>
      PROVE  ArrivesOnce' /\ ReturnIsTrue'
  <2> USE DEF GoTo, Return, Arrives, TypeOK
  <2>1. ASSUME NEW u \in Actors, NEW d \in Chans, NEW i \in 0 .. MaxLogs
        PROVE  <<u, i>> \in target'[d]
                 <=> <<u, i>> \in target[d] \/ (u = t /\ i = n[t] /\ d = arg[t])
    BY <1>5
  <2>2. ArrivesOnce'
    <3> SUFFICES ASSUME NEW u \in Actors, NEW d \in Chans, NEW i \in 0 .. MaxLogs,
                        <<u, i>> \in target'[d]
                 PROVE  i <= n'[u] /\ (pc'[u] # "idle" => i # n'[u])
      BY DEF ArrivesOnce
    <3> QED
      BY <1>5, <2>1 DEF ArrivesOnce
  <2>3. ReturnIsTrue'
    <3> SUFFICES ASSUME NEW u \in Actors, pc'[u] = "idle", n'[u] > 0,
                        NEW d \in Chans
                 PROVE  <<u, n'[u]>> \in target'[d] <=> (d = arg'[u] /\ rc'[u] = "ok")
      BY DEF ReturnIsTrue
    <3>1. n[u] \in 0 .. MaxLogs /\ n'[u] = n[u] /\ arg'[u] = arg[u]
      BY <1>5
    <3>2. CASE u = t
      BY <1>5, <2>1, <3>1, <3>2 DEF ArrivesOnce
    <3>3. CASE u # t
      BY <1>5, <2>1, <3>1, <3>3 DEF ReturnIsTrue
    <3> QED
      BY <3>2, <3>3
  <2> QED
    BY <2>2, <2>3
<1>6. ASSUME NEW t \in Actors, Step(t)
      PROVE  ArrivesOnce' /\ ReturnIsTrue'
  <2> USE DEF At, envVars
  <2>1. CASE Log(t)
    BY <1>3, <2>1 DEF Log
  <2>2. CASE DrvrOpen(t)
    BY <1>3, <2>2 DEF DrvrOpen
  <2>3. CASE SysOpen(t)
    BY <1>3, <2>3 DEF SysOpen
  <2>4. CASE ClearAddr(t)
    BY <1>3, <2>4 DEF ClearAddr
  <2>5. CASE FillAddr(t)
    BY <1>3, <2>5 DEF FillAddr
  <2>6. CASE Check(t)
    BY <1>3, <1>4, <2>6 DEF Check
  <2>7. CASE Write(t)
    BY <1>4, <1>5, <2>7 DEF Write
  <2> QED
    BY <1>6, <2>1, <2>2, <2>3, <2>4, <2>5, <2>6, <2>7 DEF Step
<1>7. ASSUME NEW c \in Chans, Open(c) \/ Close(c) \/ GoDown(c) \/ ComeUp(c)
      PROVE  ArrivesOnce' /\ ReturnIsTrue'
  BY <1>1, <1>7 DEF Open, Close, GoDown, ComeUp, callVars, envVars
<1>8. CASE Start \/ Join \/ Deinit \/ UNCHANGED vars
  BY <1>1, <1>8 DEF Start, Join, Deinit, vars, callVars, envVars
<1> QED
  BY <1>2, <1>6, <1>7, <1>8 DEF Next

\* stdlog_log tells the truth, however threads and handlers interleave: it
\* returns 0 if and only if the message is where it was sent to.
THEOREM Truthful == Spec => []ReturnIsTrue
<1>1. Init => TypeOK /\ ArrivesOnce /\ ReturnIsTrue
  BY ChannelAssumption
  DEF Init, TypeOK, ArrivesOnce, ReturnIsTrue, Actors, Chans, Labels
<1>2. TypeOK /\ ArrivesOnce /\ ReturnIsTrue /\ [Next]_vars
        => (TypeOK /\ ArrivesOnce /\ ReturnIsTrue)'
  BY TypeStep, ArrivesStep
<1> QED
  BY <1>1, <1>2, PTL DEF Spec
-----------------------------------------------------------------------------
\* The steps of the application.
LEMMA ApplicationStep ==
  ASSUME IInv, TypeOK',
         \/ Start \/ Join \/ Deinit
         \/ \E c \in Chans : Open(c) \/ Close(c) \/ GoDown(c) \/ ComeUp(c)
  PROVE  IInv'
<1> USE DEF IInv
<1>1. CASE Start
  <2> USE <1>1 DEF Start, chanVars, callVars, envVars
  <2>1. \A t \in Actors : pc[t] = "idle"
    BY DEF Discipline
  <2>2. DescriptorsOwned' /\ FailsOnlyForCause' /\ CallInProgress'
    BY DEF DescriptorsOwned, FailsOnlyForCause, CallInProgress
  <2>3. AddrComplete' /\ Alone'
    BY DEF AddrComplete, Alone
  <2>4. Discipline'
    BY <2>1 DEF Discipline, Opening
  <2> QED
    BY <2>2, <2>3, <2>4
<1>2. CASE Join \/ Deinit
  <2> USE <1>2 DEF Join, Deinit, chanVars, callVars, envVars
  <2>1. DescriptorsOwned' /\ FailsOnlyForCause' /\ CallInProgress'
    BY DEF DescriptorsOwned, FailsOnlyForCause, CallInProgress
  <2>2. AddrComplete' /\ Alone'
    BY DEF AddrComplete, Alone
  <2>3. Discipline'
    BY DEF Discipline
  <2> QED
    BY <2>1, <2>2, <2>3
<1>3. ASSUME NEW c \in Chans, Open(c)
      PROVE  IInv'
  <2> USE <1>3 DEF Open, callVars, envVars
  <2>1. fd[c] = NoFd /\ fd' = fd
    BY DEF DescriptorsOwned, TypeOK
  <2>2. DescriptorsOwned' /\ FailsOnlyForCause' /\ AddrComplete' /\ Alone'
    BY <2>1 DEF DescriptorsOwned, FailsOnlyForCause, AddrComplete, Alone, TypeOK
  <2>3. Discipline' /\ CallInProgress'
    BY <2>1 DEF Discipline, CallInProgress, TypeOK
  <2> QED
    BY <2>2, <2>3
<1>4. ASSUME NEW c \in Chans, Close(c)
      PROVE  IInv'
  <2> USE <1>4 DEF Close, callVars, envVars
  <2>1. \A t \in Actors : pc[t] = "idle"
    BY DEF Discipline
  <2>2. DescriptorsOwned'
    <3>1. \A d \in Chans : fd'[d] = IF d = c THEN NoFd ELSE fd[d]
      BY DEF TypeOK
    <3>2. fd[c] # NoFd => \A d \in Chans : d # c => fd[d] # fd[c]
      BY DEF DescriptorsOwned
    <3>3. descrs' = {fd'[d] : d \in Chans} \ {NoFd}
      <4>1. CASE fd[c] = NoFd
        BY <3>1, <4>1 DEF DescriptorsOwned
      <4>2. CASE fd[c] # NoFd
        BY <3>1, <3>2, <4>2 DEF DescriptorsOwned
      <4> QED
        BY <4>1, <4>2
    <3> QED
      BY <3>1, <3>3 DEF DescriptorsOwned, TypeOK
  <2>3. FailsOnlyForCause' /\ AddrComplete' /\ Discipline' /\ Alone'
    BY <2>1 DEF FailsOnlyForCause, AddrComplete, Discipline, Alone, TypeOK
  <2>4. CallInProgress'
    BY <2>1 DEF CallInProgress
  <2> QED
    BY <2>2, <2>3, <2>4
<1>5. ASSUME NEW c \in Chans, GoDown(c)
      PROVE  IInv'
  <2> USE <1>5 DEF GoDown, apiVars, chanVars
  <2>1. DescriptorsOwned' /\ AddrComplete' /\ Discipline' /\ Alone'
    BY DEF DescriptorsOwned, AddrComplete, Discipline, Alone
  <2>2. FailsOnlyForCause' /\ CallInProgress'
    BY DEF FailsOnlyForCause, CallInProgress, TypeOK
  <2> QED
    BY <2>1, <2>2
<1>6. ASSUME NEW c \in Chans, ComeUp(c)
      PROVE  IInv'
  <2> USE <1>6 DEF ComeUp, apiVars, chanVars, callVars
  <2>1. DescriptorsOwned' /\ AddrComplete' /\ Discipline' /\ FailsOnlyForCause'
    BY DEF DescriptorsOwned, AddrComplete, Discipline, FailsOnlyForCause
  <2>2. CallInProgress' /\ Alone'
    BY DEF CallInProgress, Alone, TypeOK
  <2> QED
    BY <2>1, <2>2
<1> QED
  BY <1>1, <1>2, <1>3, <1>4, <1>5, <1>6

\* The steps of stdlog_log and the drivers.
LEMMA LoggingStep ==
  ASSUME Disciplined, IInv, TypeOK', NEW t \in Actors,
         (\E c \in Chans : Call(t, c)) \/ Step(t)
  PROVE  IInv'
<1> USE DEF IInv
<1>m. Main \in Actors
  BY DEF Actors
<1>1. ASSUME NEW c \in Chans, Call(t, c)
      PROVE  IInv'
  <2> USE <1>1 DEF Call, apiVars, chanVars, envVars
  <2>1. DescriptorsOwned' /\ AddrComplete'
    BY DEF DescriptorsOwned, AddrComplete, TypeOK
  <2>2. Discipline'
    BY DEF Discipline, Opening, TypeOK
  <2>3. FailsOnlyForCause' /\ CallInProgress'
    BY DEF FailsOnlyForCause, CallInProgress, TypeOK
  <2>4. ASSUME NEW u \in Actors, u # t, pc[u] \in Opening
        PROVE  arg[u] # c
    <3>1. phase = "threads"
      BY <2>4 DEF Discipline, Opening
    <3>2. <<t, c>> \in Uses /\ <<u, arg[u]>> \in Uses /\ arg[u] \in Chans \ Warm
      BY <2>4, <3>1 DEF Discipline, Opening, TypeOK
    <3> QED
      BY <2>4, <3>2 DEF Disciplined
  <2>5. Alone'
    BY <2>4 DEF Alone, Opening, TypeOK
  <2> QED
    BY <2>1, <2>2, <2>3, <2>5
<1>2. CASE Log(t)
  <2> USE <1>2 DEF Log, At, GoTo, apiVars, chanVars, envVars
  <2>1. DescriptorsOwned' /\ FailsOnlyForCause' /\ AddrComplete'
    BY DEF DescriptorsOwned, FailsOnlyForCause, AddrComplete, TypeOK
  <2>2. Discipline' /\ CallInProgress'
    BY DEF Discipline, CallInProgress, Opening, TypeOK
  <2>3. ASSUME fd[arg[t]] = NoFd, NEW u \in Actors, u # t, pc[u] # "idle"
        PROVE  arg[u] # arg[t]
    <3>1. phase = "threads"
      BY <2>3 DEF Discipline
    <3>2. <<t, arg[t]>> \in Uses /\ <<u, arg[u]>> \in Uses /\ arg[t] \in Chans \ Warm
      BY <2>3, <3>1 DEF Discipline, TypeOK
    <3> QED
      BY <2>3, <3>2 DEF Disciplined
  <2>4. Alone'
    BY <2>3 DEF Alone, Opening, TypeOK
  <2> QED
    BY <2>1, <2>2, <2>4
<1>3. CASE DrvrOpen(t)
  <2> USE <1>3 DEF DrvrOpen, At, GoTo, apiVars, chanVars, envVars
  <2>1. DescriptorsOwned' /\ FailsOnlyForCause' /\ AddrComplete'
    BY DEF DescriptorsOwned, FailsOnlyForCause, AddrComplete, TypeOK
  <2>2. Discipline' /\ CallInProgress' /\ Alone'
    BY DEF Discipline, CallInProgress, Alone, Opening, TypeOK
  <2> QED
    BY <2>1, <2>2
<1>4. CASE SysOpen(t)
  <2> DEFINE c == arg[t]
  <2>1. c \in Chans /\ fd[c] = NoFd /\ state[c] = "open" /\ pc[t] = "sys"
    BY <1>4 DEF SysOpen, At, CallInProgress, TypeOK
  <2>2. \A u \in Actors : u # t /\ pc[u] # "idle" => arg[u] # c
    BY <2>1 DEF Alone, Opening
  <2>3. ASSUME NEW d \in Fds \ descrs, descrs' = descrs \union {d},
               fd' = [fd EXCEPT ![c] = d],
               GoTo(t, IF c \in FileChans THEN "check" ELSE "clear"),
               UNCHANGED <<apiVars, addr, arg, n, rc, excuse, envVars>>
        PROVE  IInv'
    <3> USE <2>3 DEF GoTo, apiVars, envVars
    <3>1. \A e \in Chans : fd'[e] = IF e = c THEN d ELSE fd[e]
      BY <2>1 DEF TypeOK
    <3>2. \A e \in Chans : fd[e] # d
      BY ChannelAssumption DEF DescriptorsOwned
    <3>3. DescriptorsOwned'
      <4>1. descrs' = {fd'[e] : e \in Chans} \ {NoFd}
        BY <2>1, <3>1, ChannelAssumption DEF DescriptorsOwned
      <4> QED
        BY <2>1, <3>1, <3>2, <4>1 DEF DescriptorsOwned
    <3>4. AddrComplete'
      <4> SUFFICES ASSUME NEW e \in UxsChans, fd'[e] # NoFd, ~addr[e]
                   PROVE  \E u \in Actors : pc'[u] \in {"clear", "fill"} /\ arg[u] = e
        BY DEF AddrComplete
      <4>1. CASE e = c
        BY <2>1, <4>1, ChannelAssumption DEF TypeOK
      <4>2. CASE e # c
        <5>1. PICK u \in Actors : pc[u] \in {"clear", "fill"} /\ arg[u] = e
          BY <3>1, <4>2 DEF AddrComplete, Chans
        <5> QED
          BY <4>2, <5>1 DEF TypeOK
      <4> QED
        BY <4>1, <4>2
    <3>5. Discipline' /\ FailsOnlyForCause' /\ Alone'
      BY <2>1, <2>2, <3>1, ChannelAssumption
      DEF Discipline, FailsOnlyForCause, Alone, Opening, TypeOK
    <3>6. CallInProgress'
      BY <2>1, <2>2, <3>1, ChannelAssumption DEF CallInProgress, TypeOK
    <3> QED
      BY <3>3, <3>4, <3>5, <3>6
  <2>4. ASSUME fd' = [fd EXCEPT ![c] = NoFd], GoTo(t, "check"),
               excuse' = [excuse EXCEPT ![t] = TRUE],
               UNCHANGED <<apiVars, addr, descrs, arg, n, rc, envVars>>
        PROVE  IInv'
    <3> USE <2>4 DEF GoTo, apiVars, envVars
    <3>1. fd' = fd
      BY <2>1 DEF TypeOK
    <3>2. DescriptorsOwned' /\ AddrComplete'
      BY <2>1, <3>1 DEF DescriptorsOwned, AddrComplete, TypeOK
    <3>3. Discipline' /\ FailsOnlyForCause' /\ Alone'
      BY <2>1, <2>2, <3>1 DEF Discipline, FailsOnlyForCause, Alone, Opening, TypeOK
    <3>4. CallInProgress'
      BY <2>1, <2>2, <3>1 DEF CallInProgress, TypeOK
    <3> QED
      BY <3>2, <3>3, <3>4
  <2> QED
    BY <1>4, <2>3, <2>4 DEF SysOpen
<1>5. CASE ClearAddr(t) \/ FillAddr(t)
  <2> USE <1>5 DEF ClearAddr, FillAddr, At, GoTo, apiVars, envVars
  <2>1. arg[t] \in Chans /\ pc[t] \in {"clear", "fill"} /\ pc'[t] \in {"fill", "check"}
    BY DEF TypeOK
  <2>2. DescriptorsOwned' /\ FailsOnlyForCause'
    BY DEF DescriptorsOwned, FailsOnlyForCause, TypeOK
  <2>3. Discipline' /\ Alone' /\ CallInProgress'
    BY <2>1 DEF Discipline, Alone, CallInProgress, Opening, TypeOK
  <2>4. AddrComplete'
    <3> SUFFICES ASSUME NEW e \in UxsChans, fd[e] # NoFd, ~addr'[e]
                 PROVE  \E u \in Actors : pc'[u] \in {"clear", "fill"} /\ arg[u] = e
      BY DEF AddrComplete
    <3>1. CASE e = arg[t]
      BY <2>1, <3>1 DEF TypeOK, Chans
    <3>2. CASE e # arg[t]
      <4>1. ~addr[e]
        BY <3>2 DEF TypeOK, Chans
      <4>2. PICK u \in Actors : pc[u] \in {"clear", "fill"} /\ arg[u] = e
        BY <4>1 DEF AddrComplete
      <4> QED
        BY <3>2, <4>2 DEF TypeOK
    <3> QED
      BY <3>1, <3>2
  <2> QED
    BY <2>2, <2>3, <2>4
<1>6. CASE Check(t)
  <2> USE <1>6 DEF Check, At, GoTo, Return, apiVars, chanVars, envVars
  <2>1. DescriptorsOwned' /\ AddrComplete'
    BY DEF DescriptorsOwned, AddrComplete, TypeOK
  <2>2. Discipline' /\ Alone'
    BY DEF Discipline, Alone, Opening, TypeOK
  <2>3. FailsOnlyForCause' /\ CallInProgress'
    BY DEF FailsOnlyForCause, CallInProgress, TypeOK
  <2> QED
    BY <2>1, <2>2, <2>3
<1>7. CASE Write(t)
  <2> USE <1>7 DEF Write, At, GoTo, Return, apiVars, chanVars
  <2>1. DescriptorsOwned' /\ AddrComplete'
    BY DEF DescriptorsOwned, AddrComplete, TypeOK
  <2>2. Discipline' /\ Alone'
    BY DEF Discipline, Alone, Opening, TypeOK
  <2>3. excuse[t] \/ Return(t, "ok")
    <3>1. fd[arg[t]] # NoFd /\ (~up[arg[t]] => excuse[t])
      BY DEF CallInProgress
    <3>2. arg[t] \in UxsChans => addr[arg[t]]
      <4> SUFFICES ASSUME arg[t] \in UxsChans, ~addr[arg[t]]
                   PROVE  FALSE
        OBVIOUS
      <4>1. PICK u \in Actors : pc[u] \in {"clear", "fill"} /\ arg[u] = arg[t]
        BY <3>1 DEF AddrComplete
      <4> QED
        BY <4>1 DEF Alone, Opening
    <3> QED
      BY <3>1, <3>2
  <2>4. FailsOnlyForCause'
    BY <2>3 DEF FailsOnlyForCause, TypeOK
  <2>5. CallInProgress'
    BY DEF CallInProgress, TypeOK
  <2> QED
    BY <2>1, <2>2, <2>4, <2>5
<1> QED
  BY <1>1, <1>2, <1>3, <1>4, <1>5, <1>6, <1>7 DEF Step

\* In a disciplined application the invariant holds, for every set of threads,
\* handlers, channels and descriptors.
THEOREM DisciplineHolds == ASSUME Disciplined PROVE Spec => []IInv
<1>1. Init => IInv
  BY ChannelAssumption
  DEF Init, IInv, TypeOK, Labels, DescriptorsOwned, AddrComplete, Discipline,
      Alone, Opening, CallInProgress, FailsOnlyForCause, Actors, Chans
<1>2. IInv /\ [Next]_vars => IInv'
  <2> SUFFICES ASSUME IInv, [Next]_vars
               PROVE  IInv'
    OBVIOUS
  <2>1. TypeOK'
    BY TypeStep DEF IInv
  <2>2. CASE UNCHANGED vars
    BY <2>2 DEF vars, apiVars, chanVars, callVars, envVars, IInv, TypeOK,
      DescriptorsOwned, AddrComplete, Discipline, Alone, CallInProgress,
      FailsOnlyForCause
  <2> QED
    BY <2>1, <2>2, ApplicationStep, LoggingStep DEF Next
<1> QED
  BY <1>1, <1>2, PTL DEF Spec

\* No descriptor is leaked, shared or used after it was closed, although
\* channels are opened while the threads run, each by the one that uses it.
THEOREM NoneLeaked == ASSUME Disciplined PROVE Spec => []DescriptorsOwned
<1>1. IInv => DescriptorsOwned
  BY DEF IInv
<1> QED
  BY <1>1, DisciplineHolds, PTL

\* A call of stdlog_log never fails because of another thread or handler.
THEOREM ThreadSafe == ASSUME Disciplined PROVE Spec => []FailsOnlyForCause
<1>1. IInv => FailsOnlyForCause
  BY DEF IInv
<1> QED
  BY <1>1, DisciplineHolds, PTL
=============================================================================
