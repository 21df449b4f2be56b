-------------------------- MODULE ConnectionProofs --------------------------
(***************************************************************************)
(* The connection lifecycle of one client, for any number of sockets,      *)
(* timers and callers: every variable keeps its type, no open socket is    *)
(* forgotten, a close is charged to the side that began it, no caller      *)
(* leaves connect() stuck, something always goes on until disconnect(),    *)
(* and the published state of a client that nobody else reconnects is      *)
(* true.                                                                   *)
(***************************************************************************)
EXTENDS Connection, TLAPS

USE IdentitiesAssumption DEF Actors

----------------------------------------------------------------------------
(* Type correctness: one lemma for each operator that several actions share,
   one step for each action. *)

\* A new client has the types of TypeOK.
LEMMA TypeInit == Init => TypeOK
BY OptionsAssumption
   DEF Init, TypeOK, Clients, Tasks, Watches, PCs, Resting, Unwatched, NothingOwned, NoVerdict, Ended

\* A call returns to a program counter of its caller.
LEMMA TypeReturn ==
    ASSUME TypeOK, NEW a \in Actors
    PROVE  Return(a) \in Tasks
BY DEF TypeOK, Tasks, PCs, Return, Resting

\* A task that moves on, or back to rest, keeps its type.
LEMMA TypeMoved ==
    ASSUME NEW f \in [Actors -> Tasks], NEW b, NEW p \in PCs
    PROVE  [f EXCEPT ![b].pc = p] \in [Actors -> Tasks]
BY DEF Tasks

\* A watchdog that is set or turned off keeps its type.
LEMMA TypeWatched ==
    ASSUME NEW w \in Watches, NEW h \in {"off", "armed", "erring"},
           NEW l \in {"off", "armed", "erring"}
    PROVE  [w EXCEPT !.hs = h, !.lv = l] \in Watches
BY DEF Watches

\* An attempt of connect() keeps the types of the client and of the tasks.
LEMMA TypeAttempt ==
    ASSUME TypeOK, NEW a \in Actors, NEW then \in {"idle", "noticing", "backing", "judging"},
           Attempt(a, then)
    PROVE  client' \in Clients /\ task' \in [Actors -> Tasks]
BY DEF TypeOK, Clients, Tasks, PCs, Attempt, Resting

\* So does _schedule_reconnect.
LEMMA TypeBackoff ==
    ASSUME TypeOK, NEW a \in Actors, Backoff(a)
    PROVE  client' \in Clients /\ task' \in [Actors -> Tasks]
<1>1. Return(a) \in Tasks /\ client \in Clients /\ task \in [Actors -> Tasks]
  BY TypeReturn DEF TypeOK
<1>2. CASE client' \in {client, [client EXCEPT !.state = IF @ = "blocked" THEN @ ELSE "idle"]}
           /\ task' = [task EXCEPT ![a] = Return(a)]
  BY <1>1, <1>2 DEF Clients
<1>3. ASSUME NEW t \in Timers, Arm(a, t)
      PROVE  client' \in Clients /\ task' \in [Actors -> Tasks]
  BY ZenonT(60), <1>1, <1>3 DEF Arm, Clients, Tasks, PCs
<1>4. CASE client' = [client EXCEPT !.state = "backoff"] /\ task' = [task EXCEPT ![a].pc = "backing"]
  BY <1>1, <1>4 DEF Clients, Tasks, PCs
<1> QED  BY <1>2, <1>3, <1>4 DEF Backoff, IdleTimers

\* _close_socket keeps the types of what it writes.
LEMMA TypeClose ==
    ASSUME TypeOK, NEW s \in Socks, Close(s)
    PROVE  /\ sock' \in [Socks -> {"open"} \cup Ended]
           /\ begun' \subseteq Socks /\ helloed' \subseteq Socks
           /\ cut' \subseteq Socks /\ halted' \subseteq Socks
BY DEF TypeOK, Close, Ended

(* Type correctness is not inductive alone: the HELLO's failure closes the
   socket the connecting task holds, so that task has to hold one. *)

\* A task that has opened a socket and not yet handed it over holds it.
Carries == \A a \in Actors : task[a].pc \in {"sending", "unsent"} => task[a].s \in Socks

IInv == TypeOK /\ Carries

\* The steps of connect() and of the timer keep every type.
LEMMA TypeConnectStep ==
    ASSUME TypeOK, Carries, NEW a \in Actors, ConnectStep(a)
    PROVE  TypeOK'
<1>1. CASE OpenFails(a)
  <2>1. client' \in Clients
    BY <1>1 DEF OpenFails, TypeOK, Clients
  <2>2. task' \in [Actors -> Tasks]
    BY <1>1, TypeMoved DEF OpenFails, TypeOK, PCs
  <2> QED  BY <1>1, <2>1, <2>2 DEF OpenFails, TypeOK, history
<1>2. ASSUME NEW s \in Socks, OpenSucceeds(a, s)  PROVE TypeOK'
  <2>0. opts' \in Options /\ watch' \in [Socks -> Watches] /\ UNCHANGED <<verdict, owned>>
    BY <1>2 DEF OpenSucceeds, TypeOK
  <2>1. CASE Adopt(a, s)
    <3>1. client' \in Clients
      BY <2>1 DEF Adopt, Adopted, TypeOK, Clients
    <3>2. task' \in [Actors -> Tasks]
      <4> DEFINE moved == [task EXCEPT ![a].pc = "sending"]
      <4>1. moved \in [Actors -> Tasks]
        BY TypeMoved DEF TypeOK, PCs
      <4>2. task' = [moved EXCEPT ![a].s = s]
        BY <2>1 DEF Adopt
      <4> HIDE DEF moved
      <4> QED  BY <4>1, <4>2 DEF Tasks
    <3>3. /\ sock' \in [Socks -> {"open"} \cup Ended]
          /\ begun' \subseteq Socks /\ helloed' \subseteq Socks
          /\ cut' \subseteq Socks /\ halted' \subseteq Socks
      BY <2>1 DEF Adopt, TypeOK
    <3> QED  BY <2>0, <3>1, <3>2, <3>3 DEF TypeOK
  <2>2. CASE client' = [client EXCEPT !.connecting = FALSE]
              /\ task' = [task EXCEPT ![a] = Return(a)] /\ UNCHANGED <<sock, history>>
    BY <2>0, <2>2, TypeReturn DEF TypeOK, Clients, history
  <2> QED  BY <1>2, <2>1, <2>2 DEF OpenSucceeds, AdoptOrDrop
<1>3. CASE HelloSent(a)
  <2> DEFINE s == task[a].s
  <2>1. s \in Socks
    BY <1>3 DEF HelloSent, At, Carries
  <2>2. client' \in Clients
    BY <1>3, <2>1 DEF HelloSent, TypeOK, Clients
  <2>4. watch' \in [Socks -> Watches]
    <3>1. watch' = [watch EXCEPT ![s].hs = "armed"]
      BY <1>3 DEF HelloSent
    <3>2. watch \in [Socks -> Watches]
      BY DEF TypeOK
    <3> HIDE DEF s
    <3> QED  BY <3>1, <3>2 DEF Watches
  <2>3. task' \in [Actors -> Tasks]
    <3>1. [task EXCEPT ![a] = Return(a)] \in [Actors -> Tasks]
      BY TypeReturn DEF TypeOK
    <3>2. task' = [[task EXCEPT ![a] = Return(a)] EXCEPT ![s].pc = "starting"]
      BY <1>3 DEF HelloSent
    <3> QED  BY <3>1, <3>2, TypeMoved DEF PCs
  <2> QED  BY <1>3, <2>2, <2>3, <2>4 DEF HelloSent, TypeOK, history
<1>4. CASE HelloFails(a)
  <2>1. task' \in [Actors -> Tasks]
    BY <1>4, TypeMoved DEF HelloFails, TypeOK, PCs
  <2> QED  BY <1>4, <2>1 DEF HelloFails, TypeOK, history
<1>5. CASE GiveUp(a)
  <2>1. task[a].s \in Socks
    BY <1>5 DEF GiveUp, At, Carries
  <2>2. /\ sock' \in [Socks -> {"open"} \cup Ended]
        /\ begun' \subseteq Socks /\ helloed' \subseteq Socks
        /\ cut' \subseteq Socks /\ halted' \subseteq Socks
    BY <1>5, <2>1, TypeClose DEF GiveUp
  <2>3. client' \in Clients /\ task' \in [Actors -> Tasks]
    <3>1. client' \in Clients
      BY <1>5 DEF GiveUp, TypeOK, Clients
    <3>2. task' \in [Actors -> Tasks]
      BY <1>5, TypeMoved DEF GiveUp, TypeOK, PCs
    <3> QED  BY <3>1, <3>2
  <2> QED  BY <1>5, <2>2, <2>3 DEF GiveUp, TypeOK
<1>6. CASE BackOff(a)
  BY <1>6, TypeBackoff DEF BackOff, TypeOK, history
<1>7. CASE Armed(a)
  <2>1. Return(a) \in Tasks
    BY TypeReturn
  <2>2. CASE task' = [task EXCEPT ![a] = Return(a)] /\ client' = client
    BY <1>7, <2>1, <2>2 DEF Armed, TypeOK, history
  <2>3. ASSUME NEW t \in IdleTimers, client' = [client EXCEPT !.timer = t],
               task' = [task EXCEPT ![a] = Return(a), ![t].pc = "sleeping"]
        PROVE  TypeOK'
    <3>1. client' \in Clients
      BY <2>3 DEF TypeOK, Clients, IdleTimers
    <3>2. task' \in [Actors -> Tasks]
      <4>1. [task EXCEPT ![a] = Return(a)] \in [Actors -> Tasks]
        BY <2>1 DEF TypeOK
      <4>2. task' = [[task EXCEPT ![a] = Return(a)] EXCEPT ![t].pc = "sleeping"]
        BY <2>3
      <4> QED  BY <4>1, <4>2, TypeMoved DEF PCs
    <3> QED  BY <1>7, <3>1, <3>2 DEF Armed, TypeOK, history
  <2> QED  BY <1>7, <2>2, <2>3 DEF Armed
<1> QED  BY <1>1, <1>2, <1>3, <1>4, <1>5, <1>6, <1>7 DEF ConnectStep

\* The steps of a recv loop keep every type.
LEMMA TypeRecvStep ==
    ASSUME TypeOK, NEW s \in Socks, RecvStep(s)
    PROVE  TypeOK'
<1>0. s \in Actors
  OBVIOUS
<1>1. CASE RecvStarts(s)
  <2>1. task' \in [Actors -> Tasks]
    <3> DEFINE p == IF client.ws = None THEN "idle" ELSE "reading"
    <3>1. p \in PCs
      BY DEF PCs
    <3>2. task' = [task EXCEPT ![s].pc = p]
      BY <1>1 DEF RecvStarts
    <3> HIDE DEF p
    <3> QED  BY <3>1, <3>2, TypeMoved DEF TypeOK
  <2> QED  BY <1>1, <2>1 DEF RecvStarts, TypeOK, history
<1>2. CASE SocketErrs(s)
  <2>1. task' \in [Actors -> Tasks]
    BY <1>2, TypeMoved DEF SocketErrs, TypeOK, PCs
  <2> QED  BY <1>2, <2>1 DEF SocketErrs, TypeOK, history
<1>3. CASE SocketEnds(s)
  <2>1. client' \in Clients
    BY ZenonT(60), <1>3 DEF SocketEnds, AfterClose, TypeOK, Clients
  <2>2. verdict' \in [Socks -> [ours : BOOLEAN, early : BOOLEAN]]
    BY <1>3 DEF SocketEnds, TypeOK, Clients
  <2>3. watch' \in [Socks -> Watches]
    <3>1. ASSUME NEW r \in Socks  PROVE watch'[r] \in Watches
      <4>1. watch'[r] = [watch[r] EXCEPT !.hs = IF r = client.hs THEN "off" ELSE @,
                                         !.lv = IF r = client.lv THEN "off" ELSE @]
        BY <1>3 DEF SocketEnds
      <4>2. watch[r] \in Watches
        BY DEF TypeOK
      <4>3. /\ watch[r].hs \in {"off", "armed", "erring"}
            /\ watch[r].lv \in {"off", "armed", "erring"}
        BY <4>2 DEF Watches
      <4> DEFINE h == IF r = client.hs THEN "off" ELSE watch[r].hs
                 l == IF r = client.lv THEN "off" ELSE watch[r].lv
      <4>4. h \in {"off", "armed", "erring"} /\ l \in {"off", "armed", "erring"}
        BY <4>3
      <4>5. watch'[r] = [watch[r] EXCEPT !.hs = h, !.lv = l]
        BY <4>1
      <4> HIDE DEF h, l
      <4>6. [watch[r] EXCEPT !.hs = h, !.lv = l] \in Watches
        BY <4>2, <4>4, TypeWatched
      <4> QED  BY <4>5, <4>6
    <3> QED  BY <1>3, <3>1 DEF SocketEnds
  <2>4. task' \in [Actors -> Tasks]
    BY <1>3, TypeMoved DEF SocketEnds, TypeOK, PCs
  <2> QED  BY <1>3, <2>1, <2>2, <2>3, <2>4 DEF SocketEnds, TypeOK, history
<1>4. CASE Greeted(s)
  <2>1. client' \in Clients
    BY <1>4 DEF Greeted, TypeOK, Clients
  <2>2. watch' \in [Socks -> Watches]
    <3> DEFINE Guarded(r) ==
                 CASE r = s -> [watch[r] EXCEPT !.lv = "armed"]
                   [] r = client.lv /\ r # s -> [watch[r] EXCEPT !.lv = "off"]
                   [] OTHER -> watch[r]
    <3>1. ASSUME NEW r \in Socks  PROVE Guarded(r) \in Watches
      <4>1. watch[r] \in Watches
        BY DEF TypeOK
      <4>2. /\ [watch[r] EXCEPT !.lv = "armed"] \in Watches
            /\ [watch[r] EXCEPT !.lv = "off"] \in Watches
        BY <4>1 DEF Watches
      <4> QED  BY <4>1, <4>2
    <3>2. watch' = [r \in Socks |-> Guarded(r)]
      BY <1>4 DEF Greeted
    <3> HIDE DEF Guarded
    <3> QED  BY <3>1, <3>2
  <2>3. task' \in [Actors -> Tasks]
    BY <1>4, TypeMoved DEF Greeted, TypeOK, PCs
  <2> QED  BY <1>4, <2>1, <2>2, <2>3 DEF Greeted, TypeOK, history
<1>5. CASE Closed(s)
  <2>0. UNCHANGED <<opts, watch, owned>>
    BY <1>5 DEF Closed
  <2>1. client' \in Clients /\ task' \in [Actors -> Tasks]
    <3>1. CASE client' = client /\ task' = [task EXCEPT ![s] = Return(s)]
      BY <1>0, <3>1, TypeReturn DEF TypeOK
    <3>2. CASE EnterBlocked(s)
      <4>1. client' \in Clients
        BY <3>2 DEF EnterBlocked, TypeOK, Clients
      <4>2. task' \in [Actors -> Tasks]
        BY <3>2, TypeMoved DEF EnterBlocked, TypeOK, PCs
      <4> QED  BY <4>1, <4>2
    <3>3. CASE Backoff(s)
      BY <1>0, <3>3, TypeBackoff
    <3> QED  BY <1>5, <3>1, <3>2, <3>3 DEF Closed, FlushMisses, Concludes
  <2>2. verdict' \in [Socks -> [ours : BOOLEAN, early : BOOLEAN]]
    BY <1>5 DEF Closed, NoVerdict, TypeOK
  <2>3. /\ sock' \in [Socks -> {"open"} \cup Ended]
        /\ begun' \subseteq Socks /\ helloed' \subseteq Socks
        /\ cut' \subseteq Socks /\ halted' \subseteq Socks
    BY <1>5 DEF Closed, FlushMisses, Concludes, TypeOK, Ended
  <2> QED  BY <1>5, <2>1, <2>2, <2>3 DEF Closed, TypeOK
<1>6. CASE RetryArmed(s)
  <2>1. Return(s) \in Tasks /\ Resting \in Tasks /\ [Resting EXCEPT !.pc = "sleeping"] \in Tasks
    BY <1>0, TypeReturn DEF Resting, Tasks, PCs
  <2>2. CASE client' = client /\ task' = [task EXCEPT ![s] = Return(s)]
    BY <1>0, <1>6, <2>1, <2>2 DEF RetryArmed, TypeOK, history
  <2>3. ASSUME NEW t \in IdleTimers \cup ({client.timer} \ {None}),
               client' = [client EXCEPT !.timer = t],
               task' = [b \in Actors |->
                          CASE b = s -> Return(s)
                            [] b = t -> [Resting EXCEPT !.pc = "sleeping"]
                            [] b = client.timer /\ b # t -> Resting
                            [] OTHER -> task[b]]
        PROVE  TypeOK'
    <3>1. client' \in Clients
      BY <2>3 DEF TypeOK, Clients, IdleTimers
    <3>2. task' \in [Actors -> Tasks]
      <4>1. ASSUME NEW b \in Actors  PROVE task'[b] \in Tasks
        BY <2>1, <2>3 DEF TypeOK
      <4> QED  BY <2>3, <4>1
    <3> QED  BY <1>6, <3>1, <3>2 DEF RetryArmed, TypeOK, history
  <2> QED  BY <1>6, <2>2, <2>3 DEF RetryArmed
<1> QED  BY <1>1, <1>2, <1>3, <1>4, <1>5, <1>6 DEF RecvStep

\* The steps of disconnect() keep every type.
LEMMA TypeStopStep ==
    ASSUME TypeOK, StopStep
    PROVE  TypeOK'
<1>1. CASE StopCollects
  <2>1. owned' \in [timer : Timers \cup {None}, hs : Socks \cup {None},
                    lv : Socks \cup {None}, closers : SUBSET Socks]
    BY <1>1 DEF StopCollects, TypeOK, Clients
  <2>2. client' \in Clients /\ task' \in [Actors -> Tasks]
    <3>1. client' \in Clients
      BY <1>1 DEF StopCollects, TypeOK, Clients
    <3>2. task' \in [Actors -> Tasks]
      BY <1>1, TypeMoved DEF StopCollects, TypeOK, PCs
    <3> QED  BY <3>1, <3>2
  <2> QED  BY <1>1, <2>1, <2>2 DEF StopCollects, TypeOK, history
<1>5. CASE StopFails
  <2>1. task' \in [Actors -> Tasks]
    BY <1>5, TypeMoved DEF StopFails, TypeOK, PCs
  <2>2. owned' \in [timer : Timers \cup {None}, hs : Socks \cup {None},
                    lv : Socks \cup {None}, closers : SUBSET Socks]
    BY <1>5 DEF StopFails, NothingOwned
  <2> QED  BY <1>5, <2>1, <2>2 DEF StopFails, TypeOK, history
<1>2. CASE StopCloses
  <2>1. client' \in Clients /\ task' \in [Actors -> Tasks]
    <3>1. client' \in Clients
      BY ZenonT(60), <1>2 DEF StopCloses, TypeOK, Clients
    <3>2. task' \in [Actors -> Tasks]
      BY <1>2, TypeMoved DEF StopCloses, TypeOK, PCs
    <3> QED  BY <3>1, <3>2
  <2>2. /\ sock' \in [Socks -> {"open"} \cup Ended]
        /\ begun' \subseteq Socks /\ helloed' \subseteq Socks
        /\ cut' \subseteq Socks /\ halted' \subseteq Socks
    <3>1. CASE client.ws = None
      BY <1>2, <3>1 DEF StopCloses, TypeOK, history
    <3>2. CASE client.ws # None
      BY <1>2, <3>2, TypeClose DEF StopCloses, TypeOK, Clients
    <3> QED  BY <3>1, <3>2
  <2> QED  BY <1>2, <2>1, <2>2 DEF StopCloses, TypeOK
<1>3. CASE StopClosed
  <2>1. client' \in Clients
    BY <1>3 DEF StopClosed, TypeOK, Clients
  <2>2. task' \in [Actors -> Tasks]
    <3> DEFINE moved == [task EXCEPT !["stop"].pc = "awaiting"]
    <3>1. moved \in [Actors -> Tasks]
      BY TypeMoved DEF TypeOK, PCs
    <3>2. task' = [moved EXCEPT !["stop"].s = client.recv]
      BY <1>3 DEF StopClosed
    <3>3. client.recv \in Socks \cup {None}
      BY DEF TypeOK, Clients
    <3> HIDE DEF moved
    <3> QED  BY <3>1, <3>2, <3>3 DEF Tasks
  <2> QED  BY <1>3, <2>1, <2>2 DEF StopClosed, TypeOK, history
<1>4. CASE StopReleases
  <2>1. client' \in Clients
    BY <1>4 DEF StopReleases, TypeOK, Clients
  <2>2. task' \in [Actors -> Tasks]
    <3>1. Resting \in Tasks /\ [Resting EXCEPT !.pc = "done"] \in Tasks
      BY DEF Resting, Tasks, PCs
    <3> QED  BY <1>4, <3>1 DEF StopReleases, TypeOK
  <2>3. watch' \in [Socks -> Watches]
    BY <1>4 DEF StopReleases, TypeOK, Watches
  <2>4. owned' \in [timer : Timers \cup {None}, hs : Socks \cup {None},
                    lv : Socks \cup {None}, closers : SUBSET Socks]
    BY <1>4 DEF StopReleases, NothingOwned
  <2> QED  BY <1>4, <2>1, <2>2, <2>3, <2>4 DEF StopReleases, TypeOK, history
<1> QED  BY <1>1, <1>2, <1>3, <1>4, <1>5 DEF StopStep

\* The steps of a watchdog, of the close it spawns and of the server keep
\* every type.
LEMMA TypeWatchStep ==
    ASSUME TypeOK, NEW s \in Socks,
           \/ HandshakeExpires(s) \/ HandshakeTrips(s) \/ LivenessExpires(s)
           \/ LivenessTrips(s) \/ CloserStarts(s) \/ ServerCloses(s)
    PROVE  TypeOK'
<1>0. watch \in [Socks -> Watches]
  BY DEF TypeOK
<1>1. CASE HandshakeExpires(s)
  <2> DEFINE h == IF client.auth \/ client.disposed \/ client.ws # s THEN "off" ELSE "erring"
  <2>1. h \in {"off", "erring"} /\ watch' = [watch EXCEPT ![s].hs = h]
    BY <1>1 DEF HandshakeExpires
  <2> HIDE DEF h
  <2>2. watch' \in [Socks -> Watches]
    BY <1>0, <2>1 DEF Watches
  <2> QED  BY <1>1, <2>2 DEF HandshakeExpires, TypeOK, history
<1>2. CASE LivenessExpires(s)
  <2> DEFINE l == IF client.disposed \/ client.ws # s THEN "off" ELSE "erring"
  <2>1. l \in {"off", "erring"} /\ watch' = [watch EXCEPT ![s].lv = l]
    BY <1>2 DEF LivenessExpires
  <2> HIDE DEF l
  <2>2. watch' \in [Socks -> Watches]
    BY <1>0, <2>1 DEF Watches
  <2> QED  BY <1>2, <2>2 DEF LivenessExpires, TypeOK, history
<1>3. CASE HandshakeTrips(s) \/ LivenessTrips(s)
  <2>1. client' \in Clients /\ begun' \subseteq Socks
    BY ZenonT(60), <1>3 DEF HandshakeTrips, LivenessTrips, TypeOK, Clients
  <2>2. watch' \in [Socks -> Watches]
    <3>1. [watch EXCEPT ![s].hs = "off"] \in [Socks -> Watches]
      BY <1>0 DEF Watches
    <3>2. [watch EXCEPT ![s].lv = "off"] \in [Socks -> Watches]
      BY <1>0 DEF Watches
    <3>3. ASSUME NEW w \in [Socks -> Watches]
          PROVE  [w EXCEPT ![s].closer = TRUE] \in [Socks -> Watches]
      BY DEF Watches
    <3>4. \/ watch' = [[watch EXCEPT ![s].hs = "off"] EXCEPT ![s].closer = TRUE]
          \/ watch' = [[watch EXCEPT ![s].lv = "off"] EXCEPT ![s].closer = TRUE]
      BY <1>3 DEF HandshakeTrips, LivenessTrips
    <3> QED  BY <3>1, <3>2, <3>3, <3>4
  <2> QED  BY <1>3, <2>1, <2>2 DEF HandshakeTrips, LivenessTrips, TypeOK
<1>4. CASE CloserStarts(s)
  <2>1. client' \in Clients
    BY <1>4 DEF CloserStarts, TypeOK, Clients
  <2>2. watch' \in [Socks -> Watches]
    BY <1>0, <1>4 DEF CloserStarts, Watches
  <2>3. /\ sock' \in [Socks -> {"open"} \cup Ended]
        /\ begun' \subseteq Socks /\ helloed' \subseteq Socks
        /\ cut' \subseteq Socks /\ halted' \subseteq Socks
    BY <1>4, TypeClose DEF CloserStarts
  <2> QED  BY <1>4, <2>1, <2>2, <2>3 DEF CloserStarts, TypeOK
<1>5. CASE ServerCloses(s)
  BY <1>5 DEF ServerCloses, TypeOK, Ended, history
<1> QED  BY <1>1, <1>2, <1>3, <1>4, <1>5

\* A hello.ok keeps every type.
LEMMA TypeHelloOk ==
    ASSUME TypeOK, NEW s \in Socks, HelloOk(s)
    PROVE  TypeOK'
<1>1. client' \in Clients
  BY DEF HelloOk, Welcomed, TypeOK, Clients
<1>2. watch' \in [Socks -> Watches]
  <2> DEFINE Greeting(r) == IF r = client.hs THEN [watch[r] EXCEPT !.hs = "off"] ELSE watch[r]
  <2>1. ASSUME NEW r \in Socks  PROVE Greeting(r) \in Watches
    BY SMTT(30) DEF TypeOK, Watches
  <2>2. watch' = [r \in Socks |-> Greeting(r)]
    BY DEF HelloOk
  <2> HIDE DEF Greeting
  <2> QED  BY <2>1, <2>2
<1>3. task' \in [Actors -> Tasks]
  BY TypeMoved DEF HelloOk, TypeOK, PCs
<1> QED  BY <1>1, <1>2, <1>3 DEF HelloOk, TypeOK

\* So does a sweep that misses a frame.
LEMMA TypeSweepMisses ==
    ASSUME TypeOK, NEW s \in Socks, SweepMisses(s)
    PROVE  TypeOK'
<1>1. task' \in [Actors -> Tasks]
  BY TypeMoved DEF SweepMisses, TypeOK, PCs
<1> QED  BY <1>1 DEF SweepMisses, TypeOK

\* A call that is cancelled leaves every type as it is.
LEMMA TypeCancelled ==
    ASSUME TypeOK, CallerCancelled
    PROVE  TypeOK'
<1>1. client' \in Clients
  BY ZenonT(60) DEF CallerCancelled, TypeOK, Clients
<1>2. task' \in [Actors -> Tasks]
  BY DEF CallerCancelled, TypeOK, Tasks, PCs, Resting
<1> QED  BY <1>1, <1>2 DEF CallerCancelled, TypeOK, history

\* Every step keeps every type.
LEMMA TypeNext == IInv /\ [Next]_vars => TypeOK'
<1> SUFFICES ASSUME TypeOK, Carries, [Next]_vars  PROVE TypeOK'
  BY DEF IInv
<1>1. CASE ConnectCall
  <2>1. client' \in Clients /\ task' \in [Actors -> Tasks]
    BY <1>1, TypeAttempt DEF ConnectCall
  <2> QED  BY <1>1, <2>1 DEF ConnectCall, TypeOK, history
<1>2. CASE StopBegins
  <2>1. client' \in Clients
    BY <1>2 DEF StopBegins, TypeOK, Clients
  <2>2. task' \in [Actors -> Tasks]
    BY <1>2, TypeMoved DEF StopBegins, TypeOK, PCs
  <2> QED  BY <1>2, <2>1, <2>2 DEF StopBegins, TypeOK, history
<1>3. CASE StopStep
  BY <1>3, TypeStopStep
<1>4. ASSUME NEW a \in Actors, ConnectStep(a)  PROVE TypeOK'
  BY <1>4, TypeConnectStep
<1>5. ASSUME NEW t \in Timers, TimerFires(t)  PROVE TypeOK'
  <2>1. client' \in Clients /\ task' \in [Actors -> Tasks]
    <3>1. CASE Attempt(t, "idle")
      BY <3>1, TypeAttempt
    <3>2. CASE client' = [client EXCEPT !.timer = None] /\ task' = [task EXCEPT ![t] = Resting]
      BY <3>2 DEF TypeOK, Clients, Tasks, PCs, Resting
    <3> QED  BY <1>5, <3>1, <3>2 DEF TimerFires
  <2> QED  BY <1>5, <2>1 DEF TimerFires, TypeOK, history
<1>6. ASSUME NEW s \in Socks, RecvStep(s)  PROVE TypeOK'
  BY <1>6, TypeRecvStep
<1>7. ASSUME NEW s \in Socks, HelloOk(s)  PROVE TypeOK'
  BY <1>7, TypeHelloOk
<1>8. ASSUME NEW s \in Socks, HandlerConnects(s)  PROVE TypeOK'
  <2>1. client' \in Clients /\ task' \in [Actors -> Tasks]
    BY <1>8, TypeAttempt DEF HandlerConnects
  <2> QED  BY <1>8, <2>1 DEF HandlerConnects, TypeOK, history
<1>9. ASSUME NEW s \in Socks,
             \/ HandshakeExpires(s) \/ HandshakeTrips(s) \/ LivenessExpires(s)
             \/ LivenessTrips(s) \/ CloserStarts(s) \/ ServerCloses(s)
      PROVE  TypeOK'
  BY <1>9, TypeWatchStep
<1>10. CASE CallerCancelled
  BY <1>10, TypeCancelled
<1>11. CASE UNCHANGED vars
  BY <1>11 DEF TypeOK, vars, history
<1>12. ASSUME NEW s \in Socks, SweepMisses(s)  PROVE TypeOK'
  BY <1>12, TypeSweepMisses
<1> QED
  BY <1>1, <1>2, <1>3, <1>4, <1>5, <1>6, <1>7, <1>8, <1>9, <1>10, <1>11, <1>12 DEF Next

\* Moves to any other program counter, or to rest, keep Carries.
LEMMA CarriesMoved ==
    ASSUME TypeOK, Carries, NEW b, NEW p \in PCs \ {"sending", "unsent"},
           task' = [task EXCEPT ![b].pc = p]
    PROVE  Carries'
BY DEF TypeOK, Tasks, Carries

\* A call that returns holds no socket and its caller is not connecting.
LEMMA CarriesReturn ==
    ASSUME TypeOK, NEW a \in Actors
    PROVE  Return(a).pc \notin {"sending", "unsent"}
BY DEF TypeOK, Tasks, Return, Resting

\* An attempt begins in the opening.
LEMMA CarriesAttempt ==
    ASSUME TypeOK, Carries, NEW a \in Actors, NEW then, Attempt(a, then)
    PROVE  Carries'
BY DEF TypeOK, Tasks, Carries, Attempt, Resting

\* _schedule_reconnect opens nothing.
LEMMA CarriesBackoff ==
    ASSUME TypeOK, Carries, NEW a \in Actors, Backoff(a)
    PROVE  Carries'
<1>1. Return(a).pc \notin {"sending", "unsent"}
  BY CarriesReturn
<1>2. CASE task' = [task EXCEPT ![a] = Return(a)]
  BY <1>1, <1>2 DEF TypeOK, Carries
<1>3. ASSUME NEW t \in Timers, task' = [task EXCEPT ![a] = Return(a), ![t].pc = "sleeping"]
      PROVE  Carries'
  BY <1>1, <1>3 DEF TypeOK, Tasks, Carries
<1>4. CASE task' = [task EXCEPT ![a].pc = "backing"]
  BY <1>4, CarriesMoved DEF PCs
<1> QED  BY <1>2, <1>3, <1>4 DEF Backoff, Arm, IdleTimers

\* Every step keeps Carries.
LEMMA CarriesNext == IInv /\ [Next]_vars => Carries'
<1> SUFFICES ASSUME TypeOK, Carries, [Next]_vars  PROVE Carries'
  BY DEF IInv
<1>1. CASE ConnectCall
  BY <1>1, CarriesAttempt DEF ConnectCall
<1>2. CASE StopBegins
  BY <1>2, CarriesMoved DEF StopBegins, PCs
<1>3. CASE StopStep
  <2>1. CASE StopCollects \/ StopFails \/ StopCloses
    BY <2>1, CarriesMoved DEF StopCollects, StopFails, StopCloses, PCs
  <2>2. CASE StopClosed
    BY <2>2 DEF StopClosed, TypeOK, Tasks, Carries
  <2>3. CASE StopReleases
    BY <2>3 DEF StopReleases, TypeOK, Tasks, Carries, Resting
  <2> QED  BY <1>3, <2>1, <2>2, <2>3 DEF StopStep
<1>4. ASSUME NEW a \in Actors, ConnectStep(a)  PROVE Carries'
  <2>1. CASE OpenFails(a) \/ GiveUp(a)
    BY <2>1, CarriesMoved DEF OpenFails, GiveUp, PCs
  <2>2. ASSUME NEW s \in Socks, OpenSucceeds(a, s)  PROVE Carries'
    <3>1. CASE Adopt(a, s)
      BY <3>1 DEF Adopt, TypeOK, Tasks, Carries
    <3>2. CASE task' = [task EXCEPT ![a] = Return(a)]
      BY <3>2, CarriesReturn DEF TypeOK, Carries
    <3> QED  BY <2>2, <3>1, <3>2 DEF OpenSucceeds, AdoptOrDrop
  <2>3. CASE HelloSent(a)
    BY <2>3, CarriesReturn DEF HelloSent, TypeOK, Tasks, Carries
  <2>4. CASE HelloFails(a)
    BY <2>4 DEF HelloFails, At, TypeOK, Tasks, Carries
  <2>5. CASE BackOff(a)
    BY <2>5, CarriesBackoff DEF BackOff
  <2>6. CASE Armed(a)
    BY SMTT(30), <2>6, CarriesReturn DEF Armed, IdleTimers, TypeOK, Tasks, Carries
  <2> QED  BY <1>4, <2>1, <2>2, <2>3, <2>4, <2>5, <2>6 DEF ConnectStep
<1>5. ASSUME NEW t \in Timers, TimerFires(t)  PROVE Carries'
  <2>1. CASE Attempt(t, "idle")
    BY <2>1, CarriesAttempt
  <2>2. CASE task' = [task EXCEPT ![t] = Resting]
    BY <2>2 DEF TypeOK, Carries, Resting
  <2> QED  BY <1>5, <2>1, <2>2 DEF TimerFires
<1>6. ASSUME NEW s \in Socks, RecvStep(s)  PROVE Carries'
  <2>1. CASE RecvStarts(s)
    BY <2>1 DEF RecvStarts, TypeOK, Tasks, Carries
  <2>2. CASE SocketErrs(s) \/ SocketEnds(s) \/ Greeted(s)
    BY <2>2, CarriesMoved DEF SocketErrs, SocketEnds, Greeted, PCs
  <2>3. CASE Closed(s)
    <3>1. CASE task' = [task EXCEPT ![s] = Return(s)]
      BY <3>1, CarriesReturn DEF TypeOK, Carries
    <3>2. CASE EnterBlocked(s)
      BY <3>2, CarriesMoved DEF EnterBlocked, PCs
    <3>3. CASE Backoff(s)
      BY <3>3, CarriesBackoff
    <3> QED  BY <2>3, <3>1, <3>2, <3>3 DEF Closed, FlushMisses, Concludes
  <2>4. CASE RetryArmed(s)
    <3>1. CASE task' = [task EXCEPT ![s] = Return(s)]
      BY <3>1, CarriesReturn DEF TypeOK, Carries
    <3>2. ASSUME NEW t,
                 task' = [b \in Actors |->
                            CASE b = s -> Return(s)
                              [] b = t -> [Resting EXCEPT !.pc = "sleeping"]
                              [] b = client.timer /\ b # t -> Resting
                              [] OTHER -> task[b]]
          PROVE  Carries'
      <4>1. ASSUME NEW b \in Actors
            PROVE  task'[b] = task[b] \/ task'[b].pc \notin {"sending", "unsent"}
        BY <3>2, CarriesReturn DEF Resting
      <4> QED  BY <4>1 DEF Carries
    <3> QED  BY SMTT(30), <2>4, <3>1, <3>2 DEF RetryArmed
  <2> QED  BY <1>6, <2>1, <2>2, <2>3, <2>4 DEF RecvStep
<1>7. ASSUME NEW s \in Socks, HelloOk(s) \/ SweepMisses(s)  PROVE Carries'
  BY <1>7, CarriesMoved DEF HelloOk, SweepMisses, PCs
<1>8. ASSUME NEW s \in Socks, HandlerConnects(s)  PROVE Carries'
  BY <1>8, CarriesAttempt DEF HandlerConnects
<1>9. CASE UNCHANGED task
  BY <1>9 DEF Carries
<1>10. CASE CallerCancelled
  BY <1>10 DEF CallerCancelled, TypeOK, Carries, Resting
<1> QED
  BY <1>1, <1>2, <1>3, <1>4, <1>5, <1>6, <1>7, <1>8, <1>9, <1>10
     DEF Next, vars, HandshakeExpires, HandshakeTrips, LivenessExpires, LivenessTrips,
         CloserStarts, ServerCloses

\* Every variable of the client, of its tasks and of its sockets keeps its
\* type, whatever the sockets, the timers and the options are.
THEOREM TypeCorrect == Spec => []TypeOK
<1>1. Init => IInv
  BY TypeInit DEF Init, IInv, Carries, Resting
<1>2. IInv /\ [Next]_vars => IInv'
  BY TypeNext, CarriesNext DEF IInv
<1>3. IInv => TypeOK
  BY DEF IInv
<1> QED  BY <1>1, <1>2, <1>3, PTL DEF Spec

----------------------------------------------------------------------------
(* No stray socket.  connect() may suspend three times and three other tasks
   write the current socket meanwhile; what rules out a second open socket is
   that one connect() at a time is past its guard, and that its socket stays
   the current one until its recv loop is started or disconnect() takes it. *)

\* Where connect() is past its guard and has not started a recv loop
InConnect == {"opening", "sending", "unsent"}

SoleConnect ==
    \A a, b \in Actors : task[a].pc \in InConnect /\ task[b].pc \in InConnect => a = b

OpenerOwns == \A a \in Actors : At(a, "opening") => client.connecting

OpensUnused == client.connecting => client.ws = None

HandsOver ==
    \A a \in Actors : task[a].pc \in {"sending", "unsent"} =>
        /\ At(task[a].s, "idle")
        /\ client.ws = task[a].s \/ (client.disposed /\ client.ws = None)

StopRole ==
    /\ task["stop"].pc \in
          {"idle", "stopping", "flushing", "failed", "closing", "awaiting", "done"}
    /\ ~At("stop", "idle") => client.disposed
    /\ task["stop"].pc \in {"closing", "awaiting", "done"} => client.ws = None

Exclusive == SoleConnect /\ OpenerOwns /\ OpensUnused /\ HandsOver /\ StopRole

\* A recv loop that goes to its end left an ended socket, or missed a frame.
Cuts ==
    \A s \in Socks : At(s, "erring") => sock[s] # "open" \/ (opts.suspends /\ s \in cut)

SInv == IInv /\ Exclusive /\ Cuts /\ NoStraySocket

\* A step opens no socket and forgets no open one that was cut.
NoneOpens ==
    /\ opts' = opts
    /\ \A r \in Socks : sock'[r] = "open" => sock[r] = "open" /\ (r \in cut => r \in cut')

\* Any step that leaves the sockets alone.
LEMMA StrayAlike ==
    ASSUME UNCHANGED <<opts, sock>>, cut' \in {cut} \/ \E s : cut' = cut \cup {s}
    PROVE  NoneOpens
BY DEF NoneOpens

\* A step leaves connect() and disconnect() where they are, except that a
\* connect() may fail to send, and starts no recv loop.
Steady ==
    /\ \A a \in Actors : task'[a].pc \in InConnect =>
          /\ task[a].pc \in InConnect /\ task'[a].s = task[a].s
          /\ task'[a].pc = "opening" <=> task[a].pc = "opening"
    /\ \A s \in Socks : task[s].pc = "idle" => task'[s].pc = "idle"
    /\ task'["stop"].pc = task["stop"].pc

\* A step that is steady, opens no socket and leaves the fields of connect()
\* alone keeps the invariant.
LEMMA StrayFrame ==
    ASSUME SInv, Steady,
           client'.ws = client.ws, client'.connecting = client.connecting,
           client'.disposed = client.disposed, NoneOpens
    PROVE  Exclusive' /\ NoStraySocket'
<1> USE DEF SInv, Exclusive
<1>1. SoleConnect'
  BY DEF SoleConnect, Steady
<1>2. OpenerOwns'
  BY DEF OpenerOwns, Steady, At, InConnect
<1>3. OpensUnused'
  BY DEF OpensUnused
<1>4. HandsOver'
  <2> SUFFICES ASSUME NEW a \in Actors, task'[a].pc \in {"sending", "unsent"}
               PROVE  /\ task'[task'[a].s].pc = "idle"
                      /\ \/ client'.ws = task'[a].s
                         \/ client'.disposed /\ client'.ws = None
    BY DEF HandsOver, At
  <2>1. task[a].pc \in {"sending", "unsent"} /\ task'[a].s = task[a].s
    BY DEF Steady, InConnect
  <2>2. task[a].s \in Socks
    BY <2>1 DEF IInv, Carries
  <2> QED  BY <2>1, <2>2 DEF HandsOver, At, Steady
<1>5. StopRole'
  BY DEF StopRole, Steady, At
<1>6. NoStraySocket'
  BY DEF NoStraySocket, NoneOpens, Steady, At
<1> QED  BY <1>1, <1>2, <1>3, <1>4, <1>5, <1>6

\* A task that moves on within its own role is steady.
LEMMA SteadyMoved ==
    ASSUME TypeOK, NEW b \in Actors \ {"stop"}, NEW p \in PCs \ InConnect,
           b \in Socks => task[b].pc # "idle",
           task' = [task EXCEPT ![b].pc = p]
    PROVE  Steady
BY DEF TypeOK, Tasks, Steady

\* So is a call that returns,
LEMMA SteadyReturn ==
    ASSUME TypeOK, NEW a \in Actors \ {"stop"}, a \in Socks => task[a].pc # "idle",
           task' = [task EXCEPT ![a] = Return(a)]
    PROVE  Steady
<1>1. Return(a).pc \notin InConnect
  BY DEF TypeOK, Tasks, Return, Resting, InConnect
<1> QED  BY <1>1 DEF TypeOK, Steady

\* one that starts a timer as it returns,
LEMMA SteadyArm ==
    ASSUME TypeOK, NEW a \in Actors \ {"stop"}, a \in Socks => task[a].pc # "idle",
           NEW t \in Timers,
           task' = [task EXCEPT ![a] = Return(a), ![t].pc = "sleeping"]
    PROVE  Steady
<1>1. Return(a).pc \notin InConnect
  BY DEF TypeOK, Tasks, Return, Resting, InConnect
<1>2. t \notin Socks \cup {"stop"} /\ t \in Actors
  OBVIOUS
<1>3. \A b \in Actors \ {a, t} : task'[b] = task[b]
  BY DEF TypeOK
<1>4. task'[t].pc = "sleeping"
  BY <1>2 DEF TypeOK, Tasks
<1>5. a # t => task'[a] = Return(a)
  BY DEF TypeOK
<1> QED  BY <1>1, <1>2, <1>3, <1>4, <1>5 DEF Steady, InConnect

\* and _schedule_reconnect as a whole.
LEMMA SteadyBackoff ==
    ASSUME TypeOK, NEW a \in Actors \ {"stop"}, a \in Socks => task[a].pc # "idle", Backoff(a)
    PROVE  /\ Steady
           /\ client'.ws = client.ws /\ client'.connecting = client.connecting
           /\ client'.disposed = client.disposed
<1>1. /\ client'.ws = client.ws /\ client'.connecting = client.connecting
      /\ client'.disposed = client.disposed
  <2>1. \/ client' = client
        \/ \E x : client' = [client EXCEPT !.state = x]
        \/ \E x, t : client' = [client EXCEPT !.timer = t, !.state = x]
    BY DEF Backoff, Arm
  <2> QED  BY ZenonT(60), <2>1 DEF TypeOK, Clients
<1>2. CASE task' = [task EXCEPT ![a] = Return(a)]
  BY <1>1, <1>2, SteadyReturn
<1>3. ASSUME NEW t \in Timers, task' = [task EXCEPT ![a] = Return(a), ![t].pc = "sleeping"]
      PROVE  Steady
  BY <1>3, SteadyArm
<1>4. CASE task' = [task EXCEPT ![a].pc = "backing"]
  BY <1>1, <1>4, SteadyMoved DEF PCs, InConnect
<1> QED  BY <1>1, <1>2, <1>3, <1>4 DEF Backoff, Arm, IdleTimers

\* The guard of connect() lets a second call in only when the first is done.
LEMMA StrayAttempt ==
    ASSUME SInv, NEW a \in Actors \ {"stop"}, NEW then, Attempt(a, then),
           a \in Socks => task[a].pc # "idle", UNCHANGED <<opts, sock, cut>>
    PROVE  Exclusive' /\ NoStraySocket'
<1> USE DEF SInv, Exclusive
<1>1. ~client.connecting /\ ~client.disposed /\ client.ws = None
  BY DEF Attempt, CanConnect
<1>2. \A b \in Actors : task[b].pc \notin InConnect
  BY <1>1 DEF OpenerOwns, HandsOver, At, InConnect, IInv, Carries
<1>3. client'.ws = None /\ client'.connecting /\ client'.disposed = client.disposed
  BY <1>1 DEF Attempt, IInv, TypeOK, Clients
<1>4. \A b \in Actors \ {a} : task'[b] = task[b] \/ task'[b].pc = "idle"
  BY DEF Attempt, Resting
<1>5. task'[a].pc = "opening"
  BY DEF Attempt
<1>6. SoleConnect' /\ OpenerOwns' /\ OpensUnused' /\ HandsOver'
  BY <1>2, <1>3, <1>4, <1>5 DEF SoleConnect, OpenerOwns, OpensUnused, HandsOver, At, InConnect
<1>7. task'["stop"] = task["stop"]
  BY DEF Attempt, IInv, TypeOK, Clients
<1>8. StopRole'
  BY <1>3, <1>7 DEF StopRole, At
<1>9. NoStraySocket'
  BY <1>1, <1>3 DEF NoStraySocket
<1> QED  BY <1>6, <1>8, <1>9

\* The steps of connect() past its guard keep the invariant.
LEMMA StrayConnectStep ==
    ASSUME SInv, NEW a \in Actors, ConnectStep(a)
    PROVE  Exclusive' /\ NoStraySocket'
<1> USE DEF SInv, Exclusive
<1>0. TypeOK /\ Carries
  BY DEF IInv
<1>1. a # "stop"
  BY DEF StopRole, ConnectStep, OpenFails, OpenSucceeds, HelloSent, HelloFails, GiveUp,
         BackOff, Armed, At
<1>2. CASE OpenFails(a)
  <2>1. task'[a].pc = "failing" /\ \A b \in Actors \ {a} : task'[b] = task[b]
    BY <1>0, <1>2 DEF OpenFails, TypeOK, Tasks
  <2>2. ~client'.connecting /\ client'.ws = client.ws /\ client'.disposed = client.disposed
    BY <1>0, <1>2 DEF OpenFails, TypeOK, Clients
  <2>3. At(a, "opening") /\ client.ws = None /\ UNCHANGED <<opts, sock, cut>>
    BY <1>2 DEF OpenFails, OpenerOwns, OpensUnused, history
  <2>4. \A b \in Actors : task'[b].pc \notin InConnect
    BY <2>1, <2>3 DEF SoleConnect, At, InConnect
  <2>5. SoleConnect' /\ OpenerOwns' /\ OpensUnused' /\ HandsOver'
    BY <2>2, <2>4 DEF SoleConnect, OpenerOwns, OpensUnused, HandsOver, At, InConnect
  <2>6. StopRole'
    BY <1>1, <2>1, <2>2 DEF StopRole, At
  <2>7. NoStraySocket'
    BY <2>2, <2>3 DEF NoStraySocket
  <2> QED  BY <2>5, <2>6, <2>7
<1>3. ASSUME NEW s \in Socks, OpenSucceeds(a, s)  PROVE Exclusive' /\ NoStraySocket'
  <2>1. At(a, "opening") /\ client.ws = None /\ At(s, "idle") /\ s # a /\ opts' = opts
    BY <1>3 DEF OpenSucceeds, FreeSock, OpenerOwns, OpensUnused, At
  <2>2. \A b \in Actors \ {a} : task[b].pc \notin InConnect
    BY <2>1 DEF SoleConnect, At, InConnect
  <2>3. \A r \in Socks : sock[r] = "open" => opts.suspends /\ r \in cut
    BY <2>1 DEF NoStraySocket
  <2>4. CASE ~client.disposed /\ Adopt(a, s)
    <3>1. task'[a].pc = "sending" /\ task'[a].s = s /\ \A b \in Actors \ {a} : task'[b] = task[b]
      BY <1>0, <2>4 DEF Adopt, TypeOK, Tasks
    <3>2. client'.ws = s /\ ~client'.connecting /\ client'.disposed = client.disposed
      BY <1>0, <2>4 DEF Adopt, Adopted, TypeOK, Clients
    <3>3. SoleConnect' /\ OpenerOwns' /\ OpensUnused'
      BY <2>2, <3>1, <3>2 DEF SoleConnect, OpenerOwns, OpensUnused, At, InConnect
    <3>4. HandsOver'
      <4>1. \A b \in Actors : task'[b].pc \in {"sending", "unsent"} => b = a
        BY <2>2, <3>1 DEF InConnect
      <4>2. task'[s].pc = "idle"
        BY <2>1, <3>1 DEF At
      <4> QED  BY <3>1, <3>2, <4>1, <4>2 DEF HandsOver, At
    <3>5. At("stop", "idle") /\ task'["stop"] = task["stop"]
      BY <1>1, <2>4, <3>1 DEF StopRole
    <3>6. StopRole'
      BY <3>5 DEF StopRole, At
    <3>7. NoStraySocket'
      BY <1>0, <2>1, <2>3, <2>4, <3>2, <3>5 DEF NoStraySocket, Adopt, At, TypeOK
    <3> QED  BY <3>3, <3>4, <3>6, <3>7
  <2>5. CASE /\ client.disposed
             /\ client' = [client EXCEPT !.connecting = FALSE]
             /\ task' = [task EXCEPT ![a] = Return(a)]
             /\ UNCHANGED <<sock, cut>>
    <3>1. task'[a].pc \notin InConnect /\ \A b \in Actors \ {a} : task'[b] = task[b]
      BY <1>0, <2>5 DEF TypeOK, Tasks, Return, Resting, InConnect
    <3>2. client'.ws = None /\ ~client'.connecting /\ client'.disposed = client.disposed
      BY <1>0, <2>1, <2>5 DEF TypeOK, Clients
    <3>3. \A b \in Actors : task'[b].pc \notin InConnect
      BY <2>2, <3>1
    <3>4. SoleConnect' /\ OpenerOwns' /\ OpensUnused' /\ HandsOver'
      BY <3>2, <3>3 DEF SoleConnect, OpenerOwns, OpensUnused, HandsOver, At, InConnect
    <3>5. StopRole'
      BY <1>1, <3>1, <3>2 DEF StopRole, At
    <3>6. NoStraySocket'
      BY <1>1, <2>1, <2>3, <2>5, <3>1, <3>2 DEF NoStraySocket, At
    <3> QED  BY <3>4, <3>5, <3>6
  <2> QED  BY <1>3, <2>4, <2>5 DEF OpenSucceeds, AdoptOrDrop, history
<1>4. CASE HelloSent(a)
  <2>1. At(a, "sending") /\ task[a].s \in Socks
    BY <1>0, <1>4 DEF HelloSent, Carries, At
  <2>2. At(task[a].s, "idle") /\ task[a].s # a
    BY <2>1 DEF HandsOver, At
  <2>3. client'.ws = client.ws /\ client'.connecting = client.connecting
        /\ client'.disposed = client.disposed
    BY <1>0, <1>4 DEF HelloSent, TypeOK, Clients
  <2>4. /\ task'[a].pc \notin InConnect /\ task'[task[a].s].pc = "starting"
        /\ \A b \in Actors \ {a, task[a].s} : task'[b] = task[b]
    <3>1. task' = [task EXCEPT ![a] = Return(a), ![task[a].s].pc = "starting"]
      BY <1>4 DEF HelloSent
    <3>2. Return(a).pc \notin InConnect
      BY <1>0 DEF TypeOK, Tasks, Return, Resting, InConnect
    <3>3. task'[a] = Return(a) /\ \A b \in Actors \ {a, task[a].s} : task'[b] = task[b]
      BY <1>0, <2>2, <3>1 DEF TypeOK
    <3>4. task'[task[a].s].pc = "starting"
      BY <1>0, <2>1, <2>2, <3>1 DEF TypeOK, Tasks
    <3> QED  BY <3>2, <3>3, <3>4
  <2>5. \A b \in Actors : task'[b].pc \notin InConnect
    BY <2>1, <2>4 DEF SoleConnect, At, InConnect
  <2>6. SoleConnect' /\ OpenerOwns' /\ HandsOver'
    BY <2>5 DEF SoleConnect, OpenerOwns, HandsOver, At, InConnect
  <2>7. OpensUnused' /\ NoStraySocket' /\ StopRole'
    BY <1>1, <1>4, <2>1, <2>3, <2>4
       DEF OpensUnused, NoStraySocket, StopRole, HelloSent, At, history
  <2> QED  BY <2>6, <2>7
<1>5. CASE HelloFails(a)
  <2>1. Steady
    BY <1>0, <1>1, <1>5 DEF HelloFails, Steady, TypeOK, Tasks, At, InConnect
  <2> QED  BY <1>5, <2>1, StrayFrame, StrayAlike DEF HelloFails, history
<1>6. CASE GiveUp(a)
  <2>1. At(a, "unsent") /\ task[a].s \in Socks
    BY <1>0, <1>6 DEF GiveUp, Carries, At
  <2>2. client.ws \in {task[a].s, None}
    BY <2>1 DEF HandsOver, At
  <2>3. client'.ws = None /\ client'.connecting = client.connecting
        /\ client'.disposed = client.disposed
    BY <1>0, <1>6 DEF GiveUp, TypeOK, Clients
  <2>4. task'[a].pc = "discarding" /\ \A b \in Actors \ {a} : task'[b] = task[b]
    <3>1. task' = [task EXCEPT ![a].pc = "discarding"]
      BY <1>6 DEF GiveUp
    <3> QED  BY <1>0, <3>1 DEF TypeOK, Tasks
  <2>5. \A b \in Actors : task'[b].pc \notin InConnect
    BY <2>1, <2>4 DEF SoleConnect, At, InConnect
  <2>6. SoleConnect' /\ OpenerOwns' /\ OpensUnused' /\ HandsOver'
    BY <2>3, <2>5 DEF SoleConnect, OpenerOwns, OpensUnused, HandsOver, At, InConnect
  <2>7. \A r \in Socks : sock'[r] = "open" => opts'.suspends /\ r \in cut'
    BY <1>0, <1>6, <2>1, <2>2 DEF GiveUp, Close, TypeOK, NoStraySocket
  <2>8. StopRole' /\ NoStraySocket'
    BY <1>1, <2>3, <2>4, <2>7 DEF StopRole, NoStraySocket, At
  <2> QED  BY <2>6, <2>8
<1>7. CASE BackOff(a)
  <2>1. a \in Socks => task[a].pc # "idle"
    BY <1>7 DEF BackOff
  <2> QED  BY <1>0, <1>1, <1>7, <2>1, SteadyBackoff, StrayFrame, StrayAlike DEF BackOff, history
<1>8. CASE Armed(a)
  <2>1. a \in Socks => task[a].pc # "idle"
    BY <1>8 DEF Armed, At
  <2>2. Steady
    BY <1>0, <1>1, <1>8, <2>1, SteadyReturn, SteadyArm DEF Armed, IdleTimers
  <2>3. client' = client \/ \E t : client' = [client EXCEPT !.timer = t]
    BY <1>8 DEF Armed
  <2>4. client'.ws = client.ws /\ client'.connecting = client.connecting
        /\ client'.disposed = client.disposed
    BY <1>0, <2>3 DEF TypeOK, Clients
  <2> QED  BY <1>8, <2>2, <2>4, StrayFrame, StrayAlike DEF Armed, history
<1> QED  BY <1>2, <1>3, <1>4, <1>5, <1>6, <1>7, <1>8 DEF ConnectStep

\* The steps of a recv loop keep the invariant: it lets go of no socket but
\* its own, and only when that has ended or a frame was missed.
LEMMA StrayRecvStep ==
    ASSUME SInv, NEW s \in Socks, RecvStep(s)
    PROVE  Exclusive' /\ NoStraySocket'
<1> USE DEF SInv, Exclusive
<1>0. TypeOK /\ Carries /\ s \in Actors \ {"stop"}
  BY DEF IInv
<1>1. CASE RecvStarts(s)
  <2> DEFINE p == IF client.ws = None THEN "idle" ELSE "reading"
  <2>1. p \in PCs \ InConnect
    BY DEF PCs, InConnect
  <2>2. task' = [task EXCEPT ![s].pc = p] /\ task[s].pc # "idle"
    BY <1>1 DEF RecvStarts, At
  <2> HIDE DEF p
  <2>3. Steady
    BY <1>0, <2>1, <2>2, SteadyMoved
  <2> QED  BY <1>1, <2>3, StrayFrame, StrayAlike DEF RecvStarts, history
<1>2. CASE SocketErrs(s)
  <2>1. Steady
    BY <1>0, <1>2, SteadyMoved DEF SocketErrs, PCs, InConnect, At
  <2> QED  BY <1>2, <2>1, StrayFrame, StrayAlike DEF SocketErrs, history
<1>3. CASE Greeted(s)
  <2>1. Steady
    BY <1>0, <1>3, SteadyMoved DEF Greeted, PCs, InConnect, At
  <2>2. client'.ws = client.ws /\ client'.connecting = client.connecting
        /\ client'.disposed = client.disposed
    BY <1>0, <1>3 DEF Greeted, TypeOK, Clients
  <2> QED  BY <1>3, <2>1, <2>2, StrayFrame, StrayAlike DEF Greeted, history
<1>4. CASE SocketEnds(s)
  <2>1. Steady
    BY <1>0, <1>4, SteadyMoved DEF SocketEnds, PCs, InConnect, At
  <2>2. client'.connecting = client.connecting /\ client'.disposed = client.disposed
    BY <1>0, <1>4 DEF SocketEnds, AfterClose, TypeOK, Clients
  <2>3. client'.ws = IF client.ws = s THEN None ELSE client.ws
    BY <1>0, <1>4 DEF SocketEnds, AfterClose, TypeOK, Clients
  <2>4. SoleConnect' /\ OpenerOwns' /\ OpensUnused'
    BY <2>1, <2>2, <2>3 DEF SoleConnect, OpenerOwns, OpensUnused, Steady, At, InConnect
  <2>5. HandsOver'
    <3> SUFFICES ASSUME NEW a \in Actors, task'[a].pc \in {"sending", "unsent"}
                 PROVE  /\ task'[task'[a].s].pc = "idle"
                        /\ \/ client'.ws = task'[a].s
                           \/ client'.disposed /\ client'.ws = None
      BY DEF HandsOver, At
    <3>1. task[a].pc \in {"sending", "unsent"} /\ task'[a].s = task[a].s
      BY <2>1 DEF Steady, InConnect
    <3>2. task[a].s \in Socks /\ At(task[a].s, "idle")
      BY <1>0, <3>1 DEF Carries, HandsOver
    <3>3. task[a].s # s
      BY <1>4, <3>2 DEF SocketEnds, At
    <3> QED  BY <2>1, <2>2, <2>3, <3>1, <3>2, <3>3 DEF HandsOver, Steady, At
  <2>6. StopRole'
    BY <2>1, <2>2, <2>3 DEF StopRole, Steady, At
  <2>7. /\ sock[s] # "open" \/ (opts.suspends /\ s \in cut)
        /\ UNCHANGED <<opts, sock, cut>>
    BY <1>4 DEF SocketEnds, Ended, Cuts, history
  <2>8. NoStraySocket'
    BY <2>1, <2>3, <2>7 DEF NoStraySocket, Steady, At
  <2> QED  BY <2>4, <2>5, <2>6, <2>8
<1>5. CASE Closed(s)
  <2>1. task[s].pc # "idle" /\ NoneOpens
    BY <1>0, <1>5 DEF Closed, At, TypeOK, NoneOpens
  <2>2. CASE client' = client /\ task' = [task EXCEPT ![s] = Return(s)]
    BY <1>0, <2>1, <2>2, SteadyReturn, StrayFrame
  <2>3. CASE EnterBlocked(s)
    <3>1. Steady
      BY <1>0, <2>1, <2>3, SteadyMoved DEF EnterBlocked, PCs, InConnect
    <3>2. client'.ws = client.ws /\ client'.connecting = client.connecting
          /\ client'.disposed = client.disposed
      BY <1>0, <2>3 DEF EnterBlocked, TypeOK, Clients
    <3> QED  BY <2>1, <3>1, <3>2, StrayFrame
  <2>4. CASE Backoff(s)
    BY <1>0, <2>1, <2>4, SteadyBackoff, StrayFrame
  <2> QED  BY <1>5, <2>2, <2>3, <2>4 DEF Closed, FlushMisses, Concludes
<1>6. CASE RetryArmed(s)
  <2>1. Steady
    <3>1. CASE task' = [task EXCEPT ![s] = Return(s)]
      BY <1>0, <1>6, <3>1, SteadyReturn DEF RetryArmed, At
    <3>2. ASSUME NEW t \in IdleTimers \cup ({client.timer} \ {None}),
                 task' = [b \in Actors |->
                            CASE b = s -> Return(s)
                              [] b = t -> [Resting EXCEPT !.pc = "sleeping"]
                              [] b = client.timer /\ b # t -> Resting
                              [] OTHER -> task[b]]
          PROVE  Steady
      <4>1. t \in Timers /\ client.timer \in Timers \cup {None}
        BY <1>0 DEF TypeOK, Clients, IdleTimers
      <4>2. \A b \in Actors : task'[b] = task[b] \/ task'[b].pc \notin InConnect
        BY <1>0, <3>2 DEF TypeOK, Tasks, Return, Resting, InConnect
      <4>3. task'["stop"] = task["stop"]
        BY <3>2, <4>1
      <4>4. \A r \in Socks \ {s} : task'[r] = task[r]
        BY <3>2, <4>1
      <4> QED  BY <1>6, <4>2, <4>3, <4>4 DEF Steady, RetryArmed, At
    <3> QED  BY <1>6, <3>1, <3>2 DEF RetryArmed
  <2>2. client' = client \/ \E t : client' = [client EXCEPT !.timer = t]
    BY <1>6 DEF RetryArmed
  <2>3. client'.ws = client.ws /\ client'.connecting = client.connecting
        /\ client'.disposed = client.disposed
    BY <1>0, <2>2 DEF TypeOK, Clients
  <2> QED  BY <1>6, <2>1, <2>3, StrayFrame, StrayAlike DEF RetryArmed, history
<1> QED  BY <1>1, <1>2, <1>3, <1>4, <1>5, <1>6 DEF RecvStep

\* The steps of disconnect() keep the invariant: it closes the current socket
\* once no connect() can make another one current.
LEMMA StrayStopStep ==
    ASSUME SInv, StopStep
    PROVE  Exclusive' /\ NoStraySocket'
<1> USE DEF SInv, Exclusive
<1>0. TypeOK /\ Carries /\ client.disposed
  BY DEF IInv, StopRole, StopStep, StopCollects, StopFails, StopCloses, StopClosed, StopReleases, At
<1>1. /\ client'.connecting = client.connecting /\ client'.disposed = client.disposed
      /\ client'.ws = client.ws \/ StopCloses
  <2>1. client \in Clients
    BY <1>0 DEF TypeOK
  <2>2. CASE StopCollects
    BY <2>1, <2>2 DEF StopCollects, Clients
  <2>3. CASE StopCloses
    BY <2>1, <2>3 DEF StopCloses, Clients
  <2>4. CASE StopClosed
    BY <2>1, <2>4 DEF StopClosed, Clients
  <2>5. CASE StopReleases
    BY <2>1, <2>5 DEF StopReleases, Clients
  <2>6. CASE StopFails
    BY <2>6 DEF StopFails
  <2> QED  BY <2>2, <2>3, <2>4, <2>5, <2>6 DEF StopStep
<1>2. StopCloses => client'.ws = None
  BY <1>0 DEF StopCloses, TypeOK, Clients
<1>3. /\ task'["stop"].pc \in {"flushing", "failed", "closing", "awaiting", "done"}
      /\ \A b \in Actors \ {"stop"} : task'[b] = task[b] \/ (b \in Timers /\ task'[b].pc = "idle")
  <2>1. CASE StopCollects \/ StopFails \/ StopCloses
    BY <1>0, <2>1 DEF StopCollects, StopFails, StopCloses, TypeOK, Tasks
  <2>2. CASE StopClosed
    BY <1>0, <2>2 DEF StopClosed, TypeOK, Tasks
  <2>3. CASE StopReleases
    <3>1. owned.timer \in Timers \cup {None}
      BY <1>0 DEF TypeOK
    <3> QED  BY <2>3, <3>1 DEF StopReleases, Resting
  <2> QED  BY <2>1, <2>2, <2>3 DEF StopStep
<1>4. SoleConnect' /\ OpenerOwns' /\ OpensUnused'
  BY <1>1, <1>2, <1>3 DEF SoleConnect, OpenerOwns, OpensUnused, At, InConnect
<1>5. HandsOver'
  <2> SUFFICES ASSUME NEW a \in Actors, task'[a].pc \in {"sending", "unsent"}
               PROVE  /\ task'[task'[a].s].pc = "idle"
                      /\ \/ client'.ws = task'[a].s
                         \/ client'.disposed /\ client'.ws = None
    BY DEF HandsOver, At
  <2>1. task'[a] = task[a]
    BY <1>3
  <2>2. task[a].s \in Socks
    BY <1>0, <2>1 DEF Carries
  <2>3. task'[task[a].s] = task[task[a].s]
    BY <1>3, <2>2
  <2> QED  BY <1>0, <1>1, <1>2, <2>1, <2>2, <2>3 DEF HandsOver, At
<1>6. client'.ws = None \/ task'["stop"].pc \in {"flushing", "failed"}
  <2>1. CASE StopCollects \/ StopFails
    BY <1>0, <2>1 DEF StopCollects, StopFails, TypeOK, Tasks
  <2>2. CASE StopClosed \/ StopReleases
    <3>1. client.ws = None
      BY <2>2 DEF StopRole, StopClosed, StopReleases, At
    <3>2. client'.ws = client.ws
      BY <1>0, <2>2 DEF StopClosed, StopReleases, TypeOK, Clients
    <3> QED  BY <3>1, <3>2
  <2> QED  BY <1>2, <2>1, <2>2 DEF StopStep
<1>7. StopRole'
  BY <1>0, <1>1, <1>3, <1>6 DEF StopRole, At
<1>8. NoStraySocket'
  <2>0. opts' = opts /\ cut' = cut
    BY DEF StopStep, StopCollects, StopFails, StopCloses, StopClosed, StopReleases, Close, history
  <2>1. \A r \in Socks : sock'[r] = "open" =>
            sock[r] = "open" /\ (client'.ws = client.ws \/ (opts.suspends /\ r \in cut))
    <3>1. CASE StopCloses
      <4>1. CASE client.ws = None
        BY <3>1, <4>1, <1>2 DEF StopCloses
      <4>2. CASE client.ws # None
        BY <1>0, <3>1, <4>2 DEF StopCloses, Close, TypeOK, Clients, NoStraySocket
      <4> QED  BY <4>1, <4>2
    <3>2. CASE ~StopCloses
      BY <1>1, <3>2 DEF StopStep, StopCollects, StopFails, StopClosed, StopReleases
    <3> QED  BY <3>1, <3>2
  <2> QED  BY <1>6, <2>0, <2>1 DEF NoStraySocket, At
<1> QED  BY <1>4, <1>5, <1>7, <1>8

\* The steps of a watchdog, of the close it spawns and of the server move no
\* task and open nothing.
LEMMA StrayWatchStep ==
    ASSUME SInv, NEW s \in Socks,
           \/ HandshakeExpires(s) \/ HandshakeTrips(s) \/ LivenessExpires(s)
           \/ LivenessTrips(s) \/ CloserStarts(s) \/ ServerCloses(s)
    PROVE  Exclusive' /\ NoStraySocket'
<1>0. TypeOK
  BY DEF SInv, IInv
<1>1. UNCHANGED task
  BY DEF HandshakeExpires, HandshakeTrips, LivenessExpires, LivenessTrips, CloserStarts,
         ServerCloses
<1>2. Steady
  BY <1>1 DEF Steady
<1>3. client' = client \/ client' = [client EXCEPT !.flag = TRUE]
  BY DEF HandshakeExpires, HandshakeTrips, LivenessExpires, LivenessTrips, CloserStarts,
         ServerCloses
<1>4. client'.ws = client.ws /\ client'.connecting = client.connecting
      /\ client'.disposed = client.disposed
  BY <1>0, <1>3 DEF TypeOK, Clients
<1>5. NoneOpens
  <2>0. opts' = opts /\ cut' = cut
    BY DEF HandshakeExpires, HandshakeTrips, LivenessExpires, LivenessTrips, CloserStarts,
           ServerCloses, Close, history
  <2>1. CASE UNCHANGED sock
    BY <2>0, <2>1, StrayAlike
  <2>2. CASE CloserStarts(s)
    BY <1>0, <2>0, <2>2 DEF CloserStarts, Close, TypeOK, NoneOpens
  <2>3. CASE ServerCloses(s)
    BY <1>0, <2>0, <2>3 DEF ServerCloses, TypeOK, NoneOpens
  <2> QED  BY <2>1, <2>2, <2>3 DEF HandshakeExpires, HandshakeTrips, LivenessExpires, LivenessTrips
<1> QED  BY <1>2, <1>4, <1>5, StrayFrame

\* A call that is cancelled lets go of nothing that is open: its socket stays
\* the current one.
LEMMA StrayCancelled ==
    ASSUME SInv, CallerCancelled
    PROVE  Exclusive' /\ NoStraySocket'
<1> USE DEF SInv, Exclusive
<1>0. TypeOK /\ Carries
  BY DEF IInv
<1>1. task'["app"].pc = "idle" /\ \A b \in Actors \ {"app"} : task'[b] = task[b]
  BY <1>0 DEF CallerCancelled, TypeOK, Resting
<1>2. UNCHANGED <<opts, sock, cut>> /\ "app" \notin Socks \cup {"stop"}
  BY DEF CallerCancelled, history
<1>3. CASE client' = client
  <2>1. Steady
    BY <1>1, <1>2 DEF Steady, InConnect
  <2> QED  BY <1>2, <1>3, <2>1, StrayFrame, StrayAlike
<1>4. CASE At("app", "opening") /\ client' = [client EXCEPT !.connecting = FALSE]
  <2>1. client'.ws = client.ws /\ ~client'.connecting /\ client'.disposed = client.disposed
    BY <1>0, <1>4 DEF TypeOK, Clients
  <2>2. \A b \in Actors : task'[b].pc \notin InConnect
    BY <1>1, <1>4 DEF SoleConnect, At, InConnect
  <2>3. SoleConnect' /\ OpenerOwns' /\ OpensUnused' /\ HandsOver'
    BY <2>1, <2>2 DEF SoleConnect, OpenerOwns, OpensUnused, HandsOver, At, InConnect
  <2>4. StopRole' /\ NoStraySocket'
    BY <1>1, <1>2, <2>1 DEF StopRole, NoStraySocket, At
  <2> QED  BY <2>3, <2>4
<1> QED  BY <1>3, <1>4 DEF CallerCancelled

\* Only a broken socket or a missed frame lets a recv loop come to its end.
LEMMA ErringBegins ==
    ASSUME TypeOK, [Next]_vars, NEW s \in Socks,
           task'[s].pc = "erring", task[s].pc # "erring"
    PROVE  SocketErrs(s) \/ SweepMisses(s)
<1>0. s \in Actors \ {"app", "stop"} /\ task'[s] # task[s] /\ task \in [Actors -> Tasks]
  BY DEF TypeOK
<1>1. \A a \in Actors : Return(a).pc # "erring"
  BY DEF TypeOK, Tasks, Return, Resting
<1>2. ASSUME NEW a, NEW then, Attempt(a, then)  PROVE FALSE
  BY <1>0, <1>2 DEF Attempt, Resting
<1>3. ASSUME NEW b, NEW p \in PCs \ {"erring"}, task' = [task EXCEPT ![b].pc = p]  PROVE FALSE
  BY <1>0, <1>3 DEF Tasks
<1>4. ASSUME NEW a \in Actors, task' = [task EXCEPT ![a] = Return(a)]  PROVE FALSE
  BY <1>0, <1>1, <1>4
<1>5. ASSUME NEW a \in Actors, NEW t, task' = [task EXCEPT ![a] = Return(a), ![t].pc = "sleeping"]
      PROVE  FALSE
  <2>1. [task EXCEPT ![a] = Return(a)] \in [Actors -> Tasks]
    BY TypeReturn, <1>0
  <2>2. task'[s] \in {task[s], Return(a)} \/ task'[s].pc = "sleeping"
    BY <1>0, <1>5, <2>1 DEF Tasks
  <2> QED  BY <1>0, <1>1, <2>2
<1>6. ASSUME NEW a \in Actors, Backoff(a)  PROVE FALSE
  BY <1>3, <1>4, <1>5, <1>6 DEF Backoff, Arm, PCs
<1>7. ASSUME ConnectCall \/ CallerCancelled \/ StopBegins \/ StopStep  PROVE FALSE
  <2>1. CASE ConnectCall
    BY <1>2, <2>1 DEF ConnectCall
  <2>2. CASE CallerCancelled
    BY <1>0, <2>2 DEF CallerCancelled
  <2>3. CASE StopBegins \/ StopCollects \/ StopFails \/ StopCloses
    BY <1>3, <2>3 DEF StopBegins, StopCollects, StopFails, StopCloses, PCs
  <2>4. CASE StopClosed \/ StopReleases
    BY <1>0, <2>4 DEF StopClosed, StopReleases, Resting
  <2> QED  BY <1>7, <2>1, <2>2, <2>3, <2>4 DEF StopStep
<1>8. ASSUME NEW a \in Actors, ConnectStep(a)  PROVE FALSE
  <2>1. CASE OpenFails(a) \/ HelloFails(a) \/ GiveUp(a)
    BY <1>3, <2>1 DEF OpenFails, HelloFails, GiveUp, PCs
  <2>2. ASSUME NEW r \in Socks, OpenSucceeds(a, r)  PROVE FALSE
    <3>1. CASE task' = [task EXCEPT ![a].pc = "sending", ![a].s = r]
      BY <1>0, <3>1 DEF Tasks
    <3> QED  BY <1>4, <2>2, <3>1 DEF OpenSucceeds, AdoptOrDrop, Adopt
  <2>3. CASE HelloSent(a)
    <3>1. task' = [task EXCEPT ![a] = Return(a), ![task[a].s].pc = "starting"]
      BY <2>3 DEF HelloSent
    <3>2. [task EXCEPT ![a] = Return(a)] \in [Actors -> Tasks]
      BY TypeReturn, <1>0
    <3>3. task'[s] \in {task[s], Return(a)} \/ task'[s].pc = "starting"
      BY <1>0, <3>1, <3>2 DEF Tasks
    <3> QED  BY <1>0, <1>1, <3>3
  <2>4. CASE BackOff(a) \/ Armed(a)
    BY <1>4, <1>5, <1>6, <2>4 DEF BackOff, Armed
  <2> QED  BY <1>8, <2>1, <2>2, <2>3, <2>4 DEF ConnectStep
<1>9. ASSUME NEW t \in Timers, TimerFires(t)  PROVE FALSE
  BY <1>0, <1>2, <1>9 DEF TimerFires
<1>10. ASSUME NEW r \in Socks, RecvStep(r), ~SocketErrs(r)  PROVE FALSE
  <2>1. CASE RecvStarts(r)
    <3>1. (IF client.ws = None THEN "idle" ELSE "reading") \in PCs \ {"erring"}
      BY DEF PCs
    <3> QED  BY <1>3, <2>1, <3>1 DEF RecvStarts
  <2>2. CASE SocketEnds(r) \/ Greeted(r)
    BY <1>3, <2>2 DEF SocketEnds, Greeted, PCs
  <2>3. CASE Closed(r)
    BY <1>3, <1>4, <1>6, <2>3 DEF Closed, FlushMisses, Concludes, EnterBlocked, PCs
  <2>4. CASE RetryArmed(r)
    <3>1. CASE task' = [task EXCEPT ![r] = Return(r)]
      BY <1>4, <3>1
    <3>2. ASSUME NEW t,
                 task' = [b \in Actors |->
                            CASE b = r -> Return(r)
                              [] b = t -> [Resting EXCEPT !.pc = "sleeping"]
                              [] b = client.timer /\ b # t -> Resting
                              [] OTHER -> task[b]]
          PROVE  FALSE
      BY <1>0, <1>1, <3>2 DEF Resting
    <3> QED  BY <2>4, <3>1, <3>2 DEF RetryArmed
  <2> QED  BY <1>10, <2>1, <2>2, <2>3, <2>4 DEF RecvStep
<1>11. ASSUME NEW r \in Socks, SocketErrs(r) \/ SweepMisses(r)  PROVE r = s
  BY <1>0, <1>11 DEF SocketErrs, SweepMisses
<1>12. ASSUME NEW r \in Socks, HelloOk(r)  PROVE FALSE
  BY <1>3, <1>12 DEF HelloOk, PCs
<1>13. ASSUME NEW r \in Socks, HandlerConnects(r)  PROVE FALSE
  BY <1>2, <1>13 DEF HandlerConnects
<1>14. UNCHANGED task => FALSE
  BY <1>0
<1>15. CASE UNCHANGED vars
  BY <1>14, <1>15 DEF vars
<1>16. ASSUME NEW r \in Socks,
              \/ ServerCloses(r) \/ HandshakeExpires(r) \/ HandshakeTrips(r)
              \/ LivenessExpires(r) \/ LivenessTrips(r) \/ CloserStarts(r)
       PROVE  FALSE
  BY <1>14, <1>16 DEF ServerCloses, HandshakeExpires, HandshakeTrips, LivenessExpires,
                      LivenessTrips, CloserStarts
<1> QED
  BY <1>7, <1>8, <1>9, <1>10, <1>11, <1>12, <1>13, <1>15, <1>16 DEF Next

\* A socket whose recv loop comes to its end does not open, and that the loop
\* was cut is remembered as long as it is open.
LEMMA ErringStays ==
    ASSUME TypeOK, [Next]_vars, NEW s \in Socks, task[s].pc = "erring", sock'[s] = "open"
    PROVE  sock[s] = "open" /\ (s \in cut => s \in cut')
<1>0. sock \in [Socks -> {"open"} \cup Ended]
  BY DEF TypeOK
<1>2. ASSUME UNCHANGED sock, cut' = cut \/ \E r : cut' = cut \cup {r}
      PROVE  sock[s] = "open" /\ (s \in cut => s \in cut')
  BY <1>2
<1>3. ASSUME NEW r, Close(r)  PROVE sock[s] = "open" /\ (s \in cut => s \in cut')
  BY <1>0, <1>3 DEF Close
<1>4. CASE \E a \in Actors, r \in Socks : OpenSucceeds(a, r)
  <2>1. PICK a \in Actors, r \in Socks : OpenSucceeds(a, r)
    BY <1>4
  <2>2. r # s
    BY <2>1 DEF OpenSucceeds, FreeSock, At
  <2> QED  BY <1>0, <2>1, <2>2 DEF OpenSucceeds, AdoptOrDrop, Adopt, history
<1>5. CASE \E a \in Actors : ConnectStep(a) /\ ~\E r \in Socks : OpenSucceeds(a, r)
  BY <1>2, <1>3, <1>5 DEF ConnectStep, OpenFails, HelloSent, HelloFails, GiveUp, BackOff, Armed,
                          history
<1>6. CASE StopStep
  BY <1>2, <1>3, <1>6 DEF StopStep, StopCollects, StopFails, StopCloses, StopClosed, StopReleases,
                          history
<1>7. ASSUME NEW r \in Socks, RecvStep(r)
      PROVE  sock[s] = "open" /\ (s \in cut => s \in cut')
  <2>1. CASE Closed(r)
    BY <1>0, <2>1 DEF Closed
  <2> QED  BY <1>2, <1>7, <2>1 DEF RecvStep, RecvStarts, SocketErrs, SocketEnds, Greeted, RetryArmed,
                                   history
<1>8. ASSUME NEW r \in Socks,
             \/ HelloOk(r) \/ SweepMisses(r) \/ HandlerConnects(r) \/ ServerCloses(r)
             \/ HandshakeExpires(r) \/ HandshakeTrips(r) \/ LivenessExpires(r)
             \/ LivenessTrips(r) \/ CloserStarts(r)
      PROVE  sock[s] = "open" /\ (s \in cut => s \in cut')
  <2>1. CASE ServerCloses(r)
    BY <1>0, <2>1 DEF ServerCloses, history
  <2>2. CASE CloserStarts(r)
    BY <1>3, <2>2 DEF CloserStarts
  <2> QED  BY <1>2, <1>8, <2>1, <2>2
              DEF HelloOk, SweepMisses, HandlerConnects, HandshakeExpires, HandshakeTrips,
                  LivenessExpires, LivenessTrips, history
<1>9. CASE ConnectCall \/ CallerCancelled \/ StopBegins \/ \E t \in Timers : TimerFires(t)
  BY <1>2, <1>9 DEF ConnectCall, CallerCancelled, StopBegins, TimerFires, history
<1>10. CASE UNCHANGED vars
  BY <1>2, <1>10 DEF vars, history
<1> QED  BY <1>4, <1>5, <1>6, <1>7, <1>8, <1>9, <1>10 DEF Next

\* A recv loop comes to its end by an ended socket or a missed frame, and what
\* is open was open before unless its loop is at rest.
LEMMA CutsNext == SInv /\ [Next]_vars => Cuts'
<1> SUFFICES ASSUME SInv, [Next]_vars, NEW s \in Socks, At(s, "erring")', sock'[s] = "open"
             PROVE  opts'.suspends /\ s \in cut'
  BY DEF Cuts
<1> USE DEF SInv
<1>0. TypeOK /\ Cuts /\ s \in Actors \ {"app", "stop"}
  BY DEF IInv
<1>1. opts' = opts /\ task'[s].pc = "erring"
  BY DEF Next, ConnectCall, CallerCancelled, StopBegins, StopStep, ConnectStep, TimerFires,
         RecvStep, HelloOk, SweepMisses, HandlerConnects, ServerCloses, HandshakeExpires,
         HandshakeTrips, LivenessExpires, LivenessTrips, CloserStarts, vars, At,
         StopCollects, StopFails, StopCloses, StopClosed, StopReleases,
         OpenFails, OpenSucceeds, HelloSent, HelloFails, GiveUp, BackOff, Armed,
         RecvStarts, SocketErrs, SocketEnds, Greeted, Closed, RetryArmed
<1>2. CASE task[s].pc = "erring"
  <2>1. (opts.suspends /\ s \in cut) \/ sock[s] # "open"
    BY <1>0, <1>2 DEF Cuts, At
  <2>2. sock[s] = "open" /\ (s \in cut => s \in cut')
    BY <1>0, <1>2, ErringStays
  <2> QED  BY <1>1, <2>1, <2>2
<1>3. CASE task[s].pc # "erring"
  <2>1. SweepMisses(s) \/ SocketErrs(s)
    BY <1>0, <1>1, <1>3, ErringBegins
  <2>2. ~SocketErrs(s)
    BY DEF SocketErrs, Ended
  <2> QED  BY <1>1, <2>1, <2>2 DEF SweepMisses
<1> QED  BY <1>2, <1>3

\* Every step keeps the invariant.
LEMMA StrayNext == SInv /\ [Next]_vars => SInv'
<1> SUFFICES ASSUME SInv, [Next]_vars  PROVE Exclusive' /\ NoStraySocket'
  BY TypeNext, CarriesNext, CutsNext DEF SInv, IInv
<1>0. TypeOK
  BY DEF SInv, IInv
<1>1. CASE ConnectCall
  BY <1>1, StrayAttempt DEF ConnectCall, history
<1>2. CASE StopBegins
  <2>1. task'["stop"].pc = "stopping" /\ \A a \in Actors \ {"stop"} : task'[a] = task[a]
    BY <1>0, <1>2 DEF StopBegins, TypeOK, Tasks
  <2>2. client'.ws = client.ws /\ client'.connecting = client.connecting /\ client'.disposed
    BY <1>0, <1>2 DEF StopBegins, TypeOK, Clients
  <2>3. SoleConnect' /\ OpenerOwns' /\ OpensUnused'
    BY <2>1, <2>2 DEF SInv, Exclusive, SoleConnect, OpenerOwns, OpensUnused, At, InConnect
  <2>4. HandsOver'
    <3> SUFFICES ASSUME NEW a \in Actors, task'[a].pc \in {"sending", "unsent"}
                 PROVE  /\ task'[task'[a].s].pc = "idle"
                        /\ \/ client'.ws = task'[a].s
                           \/ client'.disposed /\ client'.ws = None
      BY DEF HandsOver, At
    <3>1. task'[a] = task[a]
      BY <2>1
    <3>2. task[a].s \in Socks
      BY <3>1 DEF SInv, IInv, Carries
    <3>3. /\ task[task[a].s].pc = "idle"
          /\ \/ client.ws = task[a].s
             \/ client.disposed /\ client.ws = None
      BY <3>1 DEF SInv, Exclusive, HandsOver, At
    <3>4. task'[task[a].s] = task[task[a].s]
      BY <2>1, <3>2, IdentitiesAssumption DEF Actors
    <3> QED  BY <2>2, <3>1, <3>3, <3>4
  <2>5. StopRole' /\ NoStraySocket'
    BY <1>2, <2>1, <2>2 DEF SInv, StopRole, NoStraySocket, StopBegins, At, history
  <2> QED  BY <2>3, <2>4, <2>5 DEF Exclusive
<1>3. CASE StopStep
  BY <1>3, StrayStopStep
<1>4. ASSUME NEW a \in Actors, ConnectStep(a)  PROVE Exclusive' /\ NoStraySocket'
  BY <1>4, StrayConnectStep
<1>5. ASSUME NEW t \in Timers, TimerFires(t)  PROVE Exclusive' /\ NoStraySocket'
  <2>1. CASE Attempt(t, "idle")
    BY <1>5, <2>1, StrayAttempt DEF TimerFires, history
  <2>2. CASE client' = [client EXCEPT !.timer = None] /\ task' = [task EXCEPT ![t] = Resting]
    <3>1. Steady
      BY <1>0, <2>2 DEF Steady, TypeOK, Resting, InConnect
    <3>2. client'.ws = client.ws /\ client'.connecting = client.connecting
          /\ client'.disposed = client.disposed
      BY <1>0, <2>2 DEF TypeOK, Clients
    <3> QED  BY <1>5, <3>1, <3>2, StrayFrame, StrayAlike DEF TimerFires, history
  <2> QED  BY <1>5, <2>1, <2>2 DEF TimerFires
<1>6. ASSUME NEW s \in Socks, RecvStep(s)  PROVE Exclusive' /\ NoStraySocket'
  BY <1>6, StrayRecvStep
<1>7. ASSUME NEW s \in Socks, HelloOk(s)  PROVE Exclusive' /\ NoStraySocket'
  <2>1. Steady
    BY <1>0, <1>7, SteadyMoved DEF HelloOk, PCs, InConnect, At
  <2>2. client'.ws = client.ws /\ client'.connecting = client.connecting
        /\ client'.disposed = client.disposed
    BY <1>0, <1>7 DEF HelloOk, Welcomed, TypeOK, Clients
  <2> QED  BY <1>7, <2>1, <2>2, StrayFrame, StrayAlike DEF HelloOk
<1>8. ASSUME NEW s \in Socks, HandlerConnects(s)  PROVE Exclusive' /\ NoStraySocket'
  BY <1>8, StrayAttempt DEF HandlerConnects, history
<1>9. ASSUME NEW s \in Socks,
             \/ HandshakeExpires(s) \/ HandshakeTrips(s) \/ LivenessExpires(s)
             \/ LivenessTrips(s) \/ CloserStarts(s) \/ ServerCloses(s)
      PROVE  Exclusive' /\ NoStraySocket'
  BY <1>9, StrayWatchStep
<1>10. CASE CallerCancelled
  BY <1>10, StrayCancelled
<1>11. CASE UNCHANGED vars
  BY <1>11, StrayFrame, StrayAlike DEF vars, Steady, history
<1>12. ASSUME NEW s \in Socks, SweepMisses(s)  PROVE Exclusive' /\ NoStraySocket'
  <2>1. Steady
    BY <1>0, <1>12, SteadyMoved DEF SweepMisses, PCs, InConnect, At
  <2> QED  BY <1>12, <2>1, StrayFrame, StrayAlike DEF SweepMisses
<1> QED
  BY <1>1, <1>2, <1>3, <1>4, <1>5, <1>6, <1>7, <1>8, <1>9, <1>10, <1>11, <1>12 DEF Next

\* A new client has nothing to hand over.
LEMMA StrayInit == Init => SInv
<1> SUFFICES ASSUME Init  PROVE SInv
  OBVIOUS
<1>1. TypeOK /\ Carries
  BY TypeInit DEF Init, Carries, Resting
<1>2. Exclusive
  BY DEF Init, Exclusive, SoleConnect, OpenerOwns, OpensUnused, HandsOver, StopRole, Resting,
         InConnect, At
<1>3. NoStraySocket
  BY DEF Init, NoStraySocket, Resting, At
<1>4. Cuts
  BY DEF Init, Cuts, Resting, At
<1> QED  BY <1>1, <1>2, <1>3, <1>4 DEF SInv, IInv

\* An open socket is the client's current one, in every interleaving of
\* connect(), the recv loops, the watchdogs and disconnect(), and a
\* disconnect() that returns has let go of it, unless a missed frame ended its
\* recv loop: for any number of sockets, timers and options.
THEOREM NoSocketIsStray == Spec => []NoStraySocket
<1>1. Init => SInv
  BY StrayInit
<1>2. SInv /\ [Next]_vars => SInv'
  BY StrayNext
<1>3. SInv => NoStraySocket
  BY DEF SInv
<1> QED  BY <1>1, <1>2, <1>3, PTL DEF Spec
----------------------------------------------------------------------------
(* The verdict of a close.  Its two flags belong to the client; they speak of
   the right socket because at most one socket at a time is being brought up
   or read, and every watchdog and close that writes the flags is of it. *)

\* The recv loop before its close handling, and connect() with its socket
LoopPcs == {"starting", "reading", "greeting", "erring"}
InLoop(s) == task[s].pc \in LoopPcs
Carrying(a) == task[a].pc \in {"sending", "unsent"}
Current(s) == InLoop(s) \/ \E a \in Actors : Carrying(a) /\ task[a].s = s

\* The recv loop reads the client's socket, unless disconnect() has taken it.
LoopOwns ==
    \A s \in Socks : InLoop(s) => client.ws = s \/ (client.disposed /\ client.ws = None)

OneCurrent == \A s, r \in Socks : Current(s) /\ Current(r) => s = r

OnGuard(r) == watch[r].hs # "off" \/ watch[r].lv # "off" \/ watch[r].closer

GuardsCurrent == \A r, s \in Socks : OnGuard(r) /\ Current(s) => s = r

\* Before disconnect() a watchdog that runs is the one in its slot.
SlotsHold ==
    ~client.disposed =>
        \A r \in Socks : /\ watch[r].hs # "off" => client.hs = r /\ InLoop(r)
                         /\ watch[r].lv # "off" => client.lv = r /\ InLoop(r)

FlagsAreOwn ==
    \A s \in Socks : Current(s) =>
        /\ client.flag <=> s \in begun
        /\ client.auth <=> s \in helloed
        /\ s \in helloed => InLoop(s) /\ ~At(s, "starting")

\* disconnect() awaits the recv loop, unless that has not begun to read.
LoopIsKnown ==
    \A s \in Socks : InLoop(s) =>
        \/ task["stop"].pc \notin {"awaiting", "done"} /\ client.recv = s
        \/ task["stop"].pc = "awaiting" /\ task["stop"].s = s
        \/ task["stop"].pc \in {"awaiting", "done"} /\ At(s, "starting")

LInv ==
    /\ SInv
    /\ LoopOwns /\ OneCurrent /\ GuardsCurrent /\ SlotsHold /\ FlagsAreOwn /\ LoopIsKnown

\* What a step has to do to the tasks to be no business of the recv loop
SameLoops ==
    /\ \A b \in Actors : Carrying(b)' => Carrying(b) /\ task'[b].s = task[b].s
    /\ \A s \in Socks : InLoop(s)' <=> InLoop(s)
    /\ \A s \in Socks : InLoop(s) => (At(s, "starting")' <=> At(s, "starting"))
    /\ \A s \in Socks : InLoop(s) => (At(s, "greeting")' <=> At(s, "greeting"))
    /\ \/ task'["stop"] = task["stop"]
       \/ {task["stop"].pc, task'["stop"].pc} \cap {"awaiting", "done"} = {}

\* and to the client, the watchdogs and what is remembered of the sockets.
SameFlags ==
    /\ client'.ws = client.ws /\ client'.recv = client.recv
    /\ client'.flag = client.flag /\ client'.auth = client.auth
    /\ client.disposed => client'.disposed
    /\ client'.disposed \/ (client'.hs = client.hs /\ client'.lv = client.lv)

OnlyGoOff ==
    \A r \in Socks : /\ watch'[r].hs # "off" => watch[r].hs # "off"
                     /\ watch'[r].lv # "off" => watch[r].lv # "off"
                     /\ watch'[r].closer => watch[r].closer

SameHistory ==
    \A s \in Socks : Current(s) => /\ s \in begun' <=> s \in begun
                                   /\ s \in helloed' <=> s \in helloed

\* A step that is no business of the recv loop keeps what is known of it.
LEMMA LoopFrame ==
    ASSUME LInv, SInv', SameLoops, SameFlags, OnlyGoOff, SameHistory
    PROVE  LInv'
<1> USE DEF LInv
<1>1. \A s \in Socks : Current(s)' => Current(s)
  BY DEF SameLoops, Current
<1>2. LoopOwns'
  BY DEF LoopOwns, SameLoops, SameFlags
<1>3. OneCurrent'
  BY <1>1 DEF OneCurrent
<1>4. GuardsCurrent'
  BY <1>1 DEF GuardsCurrent, OnGuard, OnlyGoOff
<1>5. SlotsHold'
  BY DEF SlotsHold, SameFlags, SameLoops, OnlyGoOff
<1>6. FlagsAreOwn'
  <2> SUFFICES ASSUME NEW s \in Socks, Current(s)'
               PROVE  /\ client'.flag <=> s \in begun'
                      /\ client'.auth <=> s \in helloed'
                      /\ s \in helloed' => InLoop(s)' /\ ~At(s, "starting")'
    BY DEF FlagsAreOwn
  <2>1. Current(s)
    BY <1>1
  <2>2. client.flag <=> s \in begun
    BY <2>1 DEF FlagsAreOwn
  <2>3. client.auth <=> s \in helloed
    BY <2>1 DEF FlagsAreOwn
  <2>4. s \in helloed => InLoop(s) /\ ~At(s, "starting")
    BY <2>1 DEF FlagsAreOwn
  <2>5. (s \in begun' <=> s \in begun) /\ (s \in helloed' <=> s \in helloed)
    BY <2>1 DEF SameHistory
  <2>6. client'.flag = client.flag /\ client'.auth = client.auth
    BY DEF SameFlags
  <2>7. s \in helloed' => InLoop(s)' /\ ~At(s, "starting")'
    BY <2>4, <2>5 DEF SameLoops
  <2> QED  BY <2>2, <2>3, <2>5, <2>6, <2>7
<1>7. LoopIsKnown'
  <2> SUFFICES ASSUME NEW s \in Socks, InLoop(s)'
               PROVE  \/ task'["stop"].pc \notin {"awaiting", "done"} /\ client'.recv = s
                      \/ task'["stop"].pc = "awaiting" /\ task'["stop"].s = s
                      \/ task'["stop"].pc \in {"awaiting", "done"} /\ At(s, "starting")'
    BY DEF LoopIsKnown
  <2>1. InLoop(s) /\ (At(s, "starting")' <=> At(s, "starting"))
    BY DEF SameLoops
  <2>2. client'.recv = client.recv
    BY DEF SameFlags
  <2> QED  BY <2>1, <2>2 DEF LoopIsKnown, SameLoops
<1> QED  BY <1>2, <1>3, <1>4, <1>5, <1>6, <1>7

\* The tasks of a step apart: each is as before, or was neither a recv loop in
\* its reading nor becomes one, nor a connect() with a socket.
LEMMA SameLoopsTasks ==
    ASSUME \A b \in Actors :
              \/ task'[b] = task[b]
              \/ /\ task'[b].pc \notin LoopPcs \cup {"sending", "unsent"}
                 /\ b \in Socks => task[b].pc \notin LoopPcs,
           \/ task'["stop"] = task["stop"]
           \/ {task["stop"].pc, task'["stop"].pc} \cap {"awaiting", "done"} = {}
    PROVE  SameLoops
BY DEF SameLoops, Carrying, InLoop, LoopPcs, At

\* The socket a connect() holds has no recv loop yet.
LEMMA HeldIsIdle ==
    ASSUME SInv, NEW a \in Actors, Carrying(a)
    PROVE  /\ task[a].s \in Socks /\ At(task[a].s, "idle") /\ ~InLoop(task[a].s)
           /\ client.ws = task[a].s \/ (client.disposed /\ client.ws = None)
           /\ \A b \in Actors : Carrying(b) => b = a
BY DEF SInv, IInv, Exclusive, Carries, Carrying, HandsOver, SoleConnect, InConnect, InLoop, LoopPcs, At
\* A step after which nothing is current leaves nothing to know.
LEMMA NoneCurrent ==
    ASSUME SInv', \A r \in Socks : ~Current(r)', SlotsHold'
    PROVE  LInv'
<1>1. \A r \in Socks : ~InLoop(r)'
  BY DEF Current
<1>2. LoopOwns' /\ LoopIsKnown'
  BY <1>1 DEF LoopOwns, LoopIsKnown
<1>3. OneCurrent'
  BY DEF OneCurrent
<1>4. GuardsCurrent'
  BY DEF GuardsCurrent
<1>5. FlagsAreOwn'
  BY DEF FlagsAreOwn
<1> QED  BY <1>2, <1>3, <1>4, <1>5 DEF LInv

\* What connect() adopts is the only current socket, with flags of its own.
LEMMA LoopAdopt ==
    ASSUME LInv, SInv', NEW a \in Actors, NEW s \in Socks, OpenSucceeds(a, s),
           ~client.disposed, Adopt(a, s)
    PROVE  LInv'
<1> USE DEF LInv
<1>0. TypeOK /\ a # s /\ At(s, "idle") /\ At(a, "opening") /\ client.ws = None
  BY DEF SInv, IInv, Exclusive, OpenSucceeds, FreeSock, OpenerOwns, OpensUnused, At
<1>1. \A r \in Socks : ~InLoop(r)
  BY <1>0 DEF LoopOwns
<1>2. \A b \in Actors : ~Carrying(b)
  BY <1>0 DEF SInv, Exclusive, SoleConnect, InConnect, Carrying, At
<1>3. task'[a].pc = "sending" /\ task'[a].s = s /\ \A b \in Actors \ {a} : task'[b] = task[b]
  BY <1>0 DEF Adopt, TypeOK, Tasks
<1>4. \A r \in Socks : ~InLoop(r)'
  BY <1>1, <1>3 DEF InLoop, LoopPcs
<1>5. \A b \in Actors : Carrying(b)' => b = a
  BY <1>2, <1>3 DEF Carrying
<1>6. \A r \in Socks : Current(r)' <=> r = s
  BY <1>3, <1>4, <1>5 DEF Current, Carrying
<1>7. \A r \in Socks : ~OnGuard(r)'
  <2>1. UNCHANGED watch /\ \A r \in Socks : ~watch[r].closer
    BY DEF OpenSucceeds
  <2>2. \A r \in Socks : watch[r].hs = "off" /\ watch[r].lv = "off"
    BY <1>1 DEF SlotsHold
  <2> QED  BY <2>1, <2>2 DEF OnGuard
<1>8. ~client'.flag /\ ~client'.auth /\ s \notin begun' /\ s \notin helloed'
  BY <1>0 DEF Adopt, Adopted, TypeOK, Clients
<1>9. LoopOwns' /\ LoopIsKnown'
  BY <1>4 DEF LoopOwns, LoopIsKnown
<1>10. OneCurrent' /\ GuardsCurrent'
  BY <1>6, <1>7 DEF OneCurrent, GuardsCurrent
<1>11. SlotsHold'
  BY <1>7 DEF SlotsHold, OnGuard
<1>12. FlagsAreOwn'
  BY <1>6, <1>8 DEF FlagsAreOwn
<1> QED  BY <1>9, <1>10, <1>11, <1>12

\* The recv loop it starts inherits the socket and the flags.
LEMMA LoopHelloSent ==
    ASSUME LInv, SInv', NEW a \in Actors, HelloSent(a)
    PROVE  LInv'
<1> USE DEF LInv
<1> DEFINE s == task[a].s
<1>0. TypeOK /\ Carrying(a) /\ a # "stop"
  BY DEF SInv, IInv, HelloSent, Carrying, At, Exclusive, StopRole
<1>1. /\ s \in Socks /\ At(s, "idle") /\ ~InLoop(s)
      /\ client.ws = s \/ (client.disposed /\ client.ws = None)
      /\ \A b \in Actors : Carrying(b) => b = a
  BY <1>0, HeldIsIdle
<1>2. Current(s) /\ s # a
  BY <1>0, <1>1 DEF Current, Carrying, At
<1>3. \A r \in Socks : Current(r) <=> r = s
  BY <1>1, <1>2 DEF OneCurrent
<1>4. /\ task'[s].pc = "starting" /\ task'[a].pc \notin LoopPcs \cup {"sending", "unsent"}
      /\ \A b \in Actors \ {a, s} : task'[b] = task[b]
  <2>1. task' = [task EXCEPT ![a] = Return(a), ![s].pc = "starting"]
    BY DEF HelloSent
  <2>2. Return(a).pc \notin LoopPcs \cup {"sending", "unsent"}
    BY <1>0 DEF TypeOK, Tasks, Return, Resting, LoopPcs
  <2>3. task'[a] = Return(a) /\ \A b \in Actors \ {a, s} : task'[b] = task[b]
    BY <1>0, <1>2, <2>1 DEF TypeOK
  <2>4. task'[s].pc = "starting"
    BY <1>0, <1>1, <1>2, <2>1 DEF TypeOK, Tasks
  <2> QED  BY <2>2, <2>3, <2>4
<1>5. \A b \in Actors : ~Carrying(b)'
  BY <1>1, <1>4 DEF Carrying
<1>6. \A r \in Socks : InLoop(r)' <=> r = s
  <2> SUFFICES ASSUME NEW r \in Socks, r # s  PROVE ~InLoop(r)'
    BY <1>4 DEF InLoop, LoopPcs
  <2>1. ~InLoop(r)
    BY <1>3 DEF Current
  <2> QED  BY <1>4, <2>1 DEF InLoop, LoopPcs
<1>7. \A r \in Socks : Current(r)' <=> r = s
  BY <1>5, <1>6 DEF Current
<1>8. /\ client'.ws = client.ws /\ client'.recv = s /\ client'.hs = s /\ client'.lv = client.lv
      /\ client'.disposed = client.disposed
      /\ client'.flag = client.flag /\ client'.auth = client.auth
  BY <1>0 DEF HelloSent, TypeOK, Clients
<1>9. \A r \in Socks \ {s} : watch'[r] = watch[r]
  BY <1>0 DEF HelloSent, TypeOK
<1>10. LoopOwns' /\ OneCurrent'
  BY <1>1, <1>6, <1>7, <1>8 DEF LoopOwns, OneCurrent
<1>11. GuardsCurrent'
  BY <1>2, <1>7, <1>9 DEF GuardsCurrent, OnGuard
<1>12. SlotsHold'
  <2> SUFFICES ASSUME ~client.disposed, NEW r \in Socks
               PROVE  /\ watch'[r].hs # "off" => s = r /\ InLoop(r)'
                      /\ watch'[r].lv # "off" => client.lv = r /\ InLoop(r)'
    BY <1>8 DEF SlotsHold
  <2>1. \A q \in Socks : watch[q].hs = "off" /\ watch[q].lv = "off"
    BY <1>1, <1>3 DEF SlotsHold, Current
  <2>2. watch'[s].lv = "off"
    BY <1>0, <1>1, <2>1 DEF HelloSent, TypeOK, Watches
  <2> QED  BY <1>6, <1>9, <2>1, <2>2
<1>13. FlagsAreOwn'
  <2>1. (client.flag <=> s \in begun) /\ (client.auth <=> s \in helloed) /\ s \notin helloed
    BY <1>1, <1>2 DEF FlagsAreOwn
  <2>2. begun' = begun /\ helloed' = helloed
    BY DEF HelloSent, history
  <2> QED  BY <1>7, <1>8, <2>1, <2>2 DEF FlagsAreOwn
<1>14. LoopIsKnown'
  BY <1>4, <1>6, <1>8 DEF LoopIsKnown, At
<1> QED  BY <1>10, <1>11, <1>12, <1>13, <1>14

\* A failed HELLO leaves nothing current.
LEMMA LoopGiveUp ==
    ASSUME LInv, SInv', NEW a \in Actors, GiveUp(a)
    PROVE  LInv'
<1> USE DEF LInv
<1>0. TypeOK /\ Carrying(a)
  BY DEF SInv, IInv, GiveUp, Carrying, At
<1>1. /\ task[a].s \in Socks /\ ~InLoop(task[a].s)
      /\ \A b \in Actors : Carrying(b) => b = a
  BY <1>0, HeldIsIdle
<1>2. Current(task[a].s)
  BY <1>0, <1>1 DEF Current
<1>3. \A r \in Socks : ~InLoop(r)
  BY <1>1, <1>2 DEF OneCurrent, Current
<1>4. task'[a].pc = "discarding" /\ \A b \in Actors \ {a} : task'[b] = task[b]
  <2>1. task' = [task EXCEPT ![a].pc = "discarding"]
    BY DEF GiveUp
  <2> QED  BY <1>0, <2>1 DEF TypeOK
<1>5. \A r \in Socks : ~Current(r)'
  BY <1>1, <1>3, <1>4 DEF Current, Carrying, InLoop, LoopPcs
<1>6. SlotsHold'
  <2>1. client'.disposed = client.disposed /\ watch' = watch
    BY <1>0 DEF GiveUp, TypeOK, Clients
  <2> QED  BY <1>3, <2>1 DEF SlotsHold
<1> QED  BY <1>5, <1>6, NoneCurrent
\* A current socket that has a recv loop is the only one.
LEMMA LoopIsSole ==
    ASSUME LInv, NEW s \in Socks, InLoop(s)
    PROVE  /\ \A r \in Socks : Current(r) => r = s
           /\ \A b \in Actors : ~Carrying(b)
<1>1. Current(s)
  BY DEF Current
<1>2. \A r \in Socks : Current(r) => r = s
  BY <1>1 DEF LInv, OneCurrent
<1>3. ASSUME NEW b \in Actors, Carrying(b)  PROVE FALSE
  <2>1. task[b].s \in Socks /\ ~InLoop(task[b].s)
    BY <1>3, HeldIsIdle DEF LInv
  <2>2. task[b].s = s
    BY <1>2, <1>3, <2>1 DEF Current
  <2> QED  BY <2>1, <2>2
<1> QED  BY <1>2, <1>3

\* A recv loop that starts reads the socket that is current, or none.
LEMMA LoopRecvStarts ==
    ASSUME LInv, SInv', NEW s \in Socks, RecvStarts(s)
    PROVE  LInv'
<1> USE DEF LInv
<1>0. TypeOK /\ InLoop(s) /\ At(s, "starting")
  BY DEF SInv, IInv, RecvStarts, InLoop, LoopPcs, At
<1>1. /\ task'[s].pc = IF client.ws = None THEN "idle" ELSE "reading"
      /\ \A b \in Actors \ {s} : task'[b] = task[b]
  <2>1. task' = [task EXCEPT ![s].pc = IF client.ws = None THEN "idle" ELSE "reading"]
    BY DEF RecvStarts
  <2> QED  BY <1>0, <2>1 DEF TypeOK
<1>2. (\A r \in Socks : Current(r) => r = s) /\ \A b \in Actors : ~Carrying(b)
  BY <1>0, LoopIsSole
<1>3. client' = client /\ watch' = watch /\ begun' = begun /\ helloed' = helloed
  BY DEF RecvStarts, history
<1>4. \A b \in Actors : ~Carrying(b)'
  BY <1>1, <1>2 DEF Carrying
<1>5. CASE client.ws = None
  <2>1. \A r \in Socks : ~InLoop(r)'
    BY <1>1, <1>2, <1>5 DEF InLoop, LoopPcs, Current
  <2>2. client.disposed
    BY <1>0, <1>5 DEF LoopOwns
  <2> QED  BY <1>3, <1>4, <2>1, <2>2, NoneCurrent DEF Current, SlotsHold
<1>6. CASE client.ws # None
  <2>0. task'[s].pc = "reading"
    BY <1>1, <1>6
  <2>1. InLoop(s)'
    BY <2>0 DEF InLoop, LoopPcs
  <2>2. \A r \in Socks : InLoop(r)' <=> InLoop(r)
    BY <1>0, <1>1, <2>1 DEF InLoop
  <2>3. \A r \in Socks : Current(r)' <=> r = s
    BY <1>2, <1>4, <2>1, <2>2 DEF Current
  <2>4. LoopOwns' /\ OneCurrent'
    BY <1>3, <2>2, <2>3 DEF LoopOwns, OneCurrent
  <2>5. Current(s)
    BY <1>0 DEF Current
  <2>6. GuardsCurrent' /\ SlotsHold'
    BY <1>3, <2>2, <2>3, <2>5 DEF GuardsCurrent, OnGuard, SlotsHold
  <2>7. FlagsAreOwn'
    <3>1. (client.flag <=> s \in begun) /\ (client.auth <=> s \in helloed) /\ s \notin helloed
      BY <1>0, <2>5 DEF FlagsAreOwn
    <3> QED  BY <1>3, <2>3, <3>1 DEF FlagsAreOwn
  <2>8. LoopIsKnown'
    <3>1. task["stop"].pc \notin {"awaiting", "done"}
      BY <1>6 DEF SInv, Exclusive, StopRole
    <3>2. client.recv = s
      BY <1>0, <3>1 DEF LoopIsKnown
    <3>3. \A r \in Socks : InLoop(r)' => r = s
      BY <2>3 DEF Current
    <3> QED  BY <1>1, <1>3, <3>1, <3>2, <3>3 DEF LoopIsKnown
  <2> QED  BY <2>4, <2>6, <2>7, <2>8
<1> QED  BY <1>5, <1>6

\* A recv loop that goes on reading, and the flags it leaves or sets
LEMMA LoopReads ==
    ASSUME LInv, SInv', NEW s \in Socks, InLoop(s), ~At(s, "starting"),
           NEW p \in {"reading", "greeting", "erring"},
           task' = [task EXCEPT ![s].pc = p],
           client'.ws = client.ws, client'.recv = client.recv,
           client'.disposed = client.disposed, client'.flag = client.flag,
           begun' = begun, client'.auth <=> s \in helloed',
           GuardsCurrent', SlotsHold'
    PROVE  LInv'
<1> USE DEF LInv
<1>0. TypeOK
  BY DEF SInv, IInv
<1>1. task'[s].pc = p /\ \A b \in Actors \ {s} : task'[b] = task[b]
  BY <1>0 DEF TypeOK
<1>2. (\A r \in Socks : Current(r) => r = s) /\ \A b \in Actors : ~Carrying(b)
  BY LoopIsSole
<1>3. InLoop(s)' /\ ~At(s, "starting")'
  BY <1>1 DEF InLoop, LoopPcs, At
<1>4. \A r \in Socks : InLoop(r)' <=> r = s
  <2> SUFFICES ASSUME NEW r \in Socks, r # s  PROVE ~InLoop(r)'
    BY <1>3
  <2>1. ~InLoop(r)
    BY <1>2 DEF Current
  <2> QED  BY <1>1, <2>1 DEF InLoop
<1>5. \A r \in Socks : Current(r)' <=> r = s
  <2>1. \A b \in Actors : ~Carrying(b)'
    BY <1>1, <1>2 DEF Carrying
  <2> QED  BY <1>4, <2>1 DEF Current
<1>6. LoopOwns' /\ OneCurrent'
  BY <1>4, <1>5 DEF LoopOwns, OneCurrent
<1>7. FlagsAreOwn'
  <2>1. Current(s)
    BY DEF Current
  <2>2. client.flag <=> s \in begun
    BY <2>1 DEF FlagsAreOwn
  <2>3. client'.flag <=> s \in begun'
    BY <2>2
  <2> QED  BY <1>3, <1>5, <2>3 DEF FlagsAreOwn
<1>8. LoopIsKnown'
  <2>1. \/ task["stop"].pc \notin {"awaiting", "done"} /\ client.recv = s
        \/ task["stop"].pc = "awaiting" /\ task["stop"].s = s
    BY DEF LoopIsKnown
  <2>2. task'["stop"] = task["stop"]
    BY <1>1
  <2> QED  BY <1>4, <2>1, <2>2 DEF LoopIsKnown
<1> QED  BY <1>6, <1>7, <1>8

\* hello.ok and the liveness watchdog it starts are of the current socket.
LEMMA LoopWelcomed ==
    ASSUME LInv, SInv', NEW s \in Socks, HelloOk(s) \/ Greeted(s)
    PROVE  LInv'
<1> USE DEF LInv
<1>0. TypeOK /\ InLoop(s) /\ ~At(s, "starting")
  BY DEF SInv, IInv, HelloOk, Greeted, InLoop, LoopPcs, At
<1>1. Current(s) /\ \A r \in Socks : Current(r) => r = s
  BY <1>0, LoopIsSole DEF Current
<1>2. /\ task'[s].pc \in LoopPcs /\ \A b \in Actors \ {s} : task'[b] = task[b]
      /\ begun' = begun
  <2>1. begun' = begun /\ \E p \in {"greeting", "reading"} : task' = [task EXCEPT ![s].pc = p]
    BY DEF HelloOk, Greeted, history
  <2> QED  BY <1>0, <2>1 DEF TypeOK, LoopPcs
<1>3. \A r \in Socks : InLoop(r)' <=> InLoop(r)
  BY <1>0, <1>2 DEF InLoop
<1>4. \A r \in Socks : Current(r)' => r = s
  <2>1. \A b \in Actors : ~Carrying(b)
    BY <1>0, LoopIsSole
  <2>2. \A b \in Actors : ~Carrying(b)'
    BY <1>2, <2>1 DEF Carrying, LoopPcs
  <2> QED  BY <1>1, <1>3, <2>2 DEF Current
<1>5. CASE HelloOk(s)
  <2>1. /\ client'.ws = client.ws /\ client'.recv = client.recv
        /\ client'.disposed = client.disposed /\ client'.flag = client.flag
        /\ client'.auth /\ client'.hs = None /\ client'.lv = client.lv
    BY <1>0, <1>5 DEF HelloOk, Welcomed, TypeOK, Clients
  <2>2. \A r \in Socks : /\ watch'[r].hs # "off" => watch[r].hs # "off" /\ r # client.hs
                         /\ watch'[r].lv = watch[r].lv /\ watch'[r].closer = watch[r].closer
    BY <1>0, <1>5 DEF HelloOk, TypeOK, Watches
  <2>3. GuardsCurrent'
    BY <1>1, <1>4, <2>2 DEF GuardsCurrent, OnGuard
  <2>4. SlotsHold'
    BY <1>3, <2>1, <2>2 DEF SlotsHold
  <2>5. s \in helloed' /\ task' = [task EXCEPT ![s].pc = "greeting"]
    BY <1>5 DEF HelloOk
  <2> QED  BY <1>0, <1>2, <2>1, <2>3, <2>4, <2>5, LoopReads
<1>6. CASE Greeted(s)
  <2>1. /\ client'.ws = client.ws /\ client'.recv = client.recv
        /\ client'.disposed = client.disposed /\ client'.flag = client.flag
        /\ client'.auth = client.auth /\ client'.hs = client.hs /\ client'.lv = s
    BY <1>0, <1>6 DEF Greeted, TypeOK, Clients
  <2>2. \A r \in Socks \ {s} : /\ watch'[r].lv # "off" => watch[r].lv # "off" /\ r # client.lv
                               /\ watch'[r].hs = watch[r].hs /\ watch'[r].closer = watch[r].closer
    BY <1>0, <1>6 DEF Greeted, TypeOK, Watches
  <2>3. watch'[s].hs = watch[s].hs
    BY <1>0, <1>6 DEF Greeted, TypeOK, Watches
  <2>4. GuardsCurrent'
    BY <1>1, <1>4, <2>2 DEF GuardsCurrent, OnGuard
  <2>5. SlotsHold'
    BY <1>0, <1>3, <2>1, <2>2, <2>3 DEF SlotsHold
  <2>6. helloed' = helloed /\ task' = [task EXCEPT ![s].pc = "reading"]
    BY <1>6 DEF Greeted, history
  <2>7. client'.auth <=> s \in helloed'
    BY <1>1, <2>1, <2>6 DEF FlagsAreOwn
  <2> QED  BY <1>0, <1>2, <2>1, <2>4, <2>5, <2>6, <2>7, LoopReads
<1> QED  BY <1>5, <1>6

\* The close handling takes the flags with it, and nothing is current after.
LEMMA LoopSocketEnds ==
    ASSUME LInv, SInv', NEW s \in Socks, SocketEnds(s)
    PROVE  LInv'
<1> USE DEF LInv
<1>0. TypeOK /\ InLoop(s)
  BY DEF SInv, IInv, SocketEnds, InLoop, LoopPcs, At
<1>1. (\A r \in Socks : Current(r) => r = s) /\ \A b \in Actors : ~Carrying(b)
  BY <1>0, LoopIsSole
<1>2. task'[s].pc = "noticing" /\ \A b \in Actors \ {s} : task'[b] = task[b]
  <2>1. task' = [task EXCEPT ![s].pc = "noticing"]
    BY DEF SocketEnds
  <2> QED  BY <1>0, <2>1 DEF TypeOK
<1>3. \A r \in Socks : ~Current(r)'
  BY <1>1, <1>2 DEF Current, Carrying, InLoop, LoopPcs
<1>4. SlotsHold'
  <2>1. client'.disposed = client.disposed
    BY <1>0 DEF SocketEnds, AfterClose, TypeOK, Clients
  <2>2. \A r \in Socks : /\ watch'[r].hs # "off" => watch[r].hs # "off" /\ r # client.hs
                         /\ watch'[r].lv # "off" => watch[r].lv # "off" /\ r # client.lv
    <3> SUFFICES ASSUME NEW r \in Socks
                 PROVE  /\ watch'[r].hs = IF r = client.hs THEN "off" ELSE watch[r].hs
                        /\ watch'[r].lv = IF r = client.lv THEN "off" ELSE watch[r].lv
      OBVIOUS
    <3>1. watch'[r] = [watch[r] EXCEPT !.hs = IF r = client.hs THEN "off" ELSE @,
                                       !.lv = IF r = client.lv THEN "off" ELSE @]
      BY DEF SocketEnds
    <3>2. watch[r] \in Watches
      BY <1>0 DEF TypeOK
    <3> QED  BY <3>1, <3>2 DEF Watches
  <2> QED  BY <2>1, <2>2 DEF SlotsHold
<1> QED  BY <1>3, <1>4, NoneCurrent
\* A socket of which a close is announced, by its watchdog or by the task
\* that was spawned, is the current one if any is.
LEMMA LoopAnnounced ==
    ASSUME LInv, SInv', NEW s \in Socks, OnGuard(s),
           UNCHANGED task, client' = [client EXCEPT !.flag = TRUE],
           begun' = begun \cup {s}, helloed' = helloed,
           \A r \in Socks : /\ OnGuard(r)' => OnGuard(r)
                            /\ watch'[r].hs # "off" => watch[r].hs # "off"
                            /\ watch'[r].lv # "off" => watch[r].lv # "off"
    PROVE  LInv'
<1> USE DEF LInv
<1>0. /\ client'.ws = client.ws /\ client'.recv = client.recv /\ client'.hs = client.hs
      /\ client'.lv = client.lv /\ client'.disposed = client.disposed
      /\ client'.auth = client.auth /\ client'.flag
  BY DEF SInv, IInv, TypeOK, Clients
<1>1. \A r \in Socks : (InLoop(r)' <=> InLoop(r)) /\ (Current(r)' <=> Current(r))
                       /\ (At(r, "starting")' <=> At(r, "starting"))
  BY DEF InLoop, Current, Carrying, At
<1>2. LoopOwns' /\ OneCurrent'
  BY <1>0, <1>1 DEF LoopOwns, OneCurrent
<1>3. GuardsCurrent'
  BY <1>1 DEF GuardsCurrent
<1>4. SlotsHold'
  BY <1>0, <1>1 DEF SlotsHold
<1>5. FlagsAreOwn'
  <2> SUFFICES ASSUME NEW r \in Socks, Current(r)
               PROVE  /\ client'.flag <=> r \in begun'
                      /\ client'.auth <=> r \in helloed'
                      /\ r \in helloed' => InLoop(r)' /\ ~At(r, "starting")'
    BY <1>1 DEF FlagsAreOwn
  <2>1. r = s
    BY DEF GuardsCurrent
  <2>2. client'.flag <=> r \in begun'
    BY <1>0, <2>1
  <2>3. client'.auth <=> r \in helloed'
    <3>1. client.auth <=> r \in helloed
      BY DEF FlagsAreOwn
    <3> QED  BY <1>0, <3>1
  <2>4. r \in helloed' => InLoop(r)' /\ ~At(r, "starting")'
    BY <1>1 DEF FlagsAreOwn
  <2> QED  BY <2>2, <2>3, <2>4
<1>6. LoopIsKnown'
  BY <1>0, <1>1 DEF LoopIsKnown
<1> QED  BY <1>2, <1>3, <1>4, <1>5, <1>6

\* The steps of a watchdog, of the close it spawns and of the server
LEMMA LoopWatchStep ==
    ASSUME LInv, SInv', NEW s \in Socks,
           \/ HandshakeExpires(s) \/ HandshakeTrips(s) \/ LivenessExpires(s)
           \/ LivenessTrips(s) \/ CloserStarts(s) \/ ServerCloses(s)
    PROVE  LInv'
<1>0. TypeOK /\ watch \in [Socks -> Watches]
  BY DEF LInv, SInv, IInv, TypeOK
<1>1. CASE HandshakeExpires(s) \/ LivenessExpires(s)
  <2>1. UNCHANGED <<client, task, begun, helloed>>
    BY <1>1 DEF HandshakeExpires, LivenessExpires, history
  <2>2. OnlyGoOff
    BY <1>0, <1>1 DEF HandshakeExpires, LivenessExpires, OnlyGoOff, Watches
  <2> QED  BY <2>1, <2>2, LoopFrame DEF SameLoops, SameFlags, SameHistory, Carrying, InLoop, At
<1>2. CASE HandshakeTrips(s)
  <2>1. \A r \in Socks : watch'[r] = IF r = s THEN [watch[s] EXCEPT !.hs = "off", !.closer = TRUE]
                                     ELSE watch[r]
    BY <1>0, <1>2 DEF HandshakeTrips
  <2>2. /\ OnGuard(s)
        /\ \A r \in Socks : /\ OnGuard(r)' => OnGuard(r)
                            /\ watch'[r].hs # "off" => watch[r].hs # "off"
                            /\ watch'[r].lv # "off" => watch[r].lv # "off"
    BY <1>0, <1>2, <2>1 DEF HandshakeTrips, OnGuard, Watches
  <2> QED  BY <1>2, <2>2, LoopAnnounced DEF HandshakeTrips
<1>3. CASE LivenessTrips(s)
  <2>1. \A r \in Socks : watch'[r] = IF r = s THEN [watch[s] EXCEPT !.lv = "off", !.closer = TRUE]
                                     ELSE watch[r]
    BY <1>0, <1>3 DEF LivenessTrips
  <2>2. /\ OnGuard(s)
        /\ \A r \in Socks : /\ OnGuard(r)' => OnGuard(r)
                            /\ watch'[r].hs # "off" => watch[r].hs # "off"
                            /\ watch'[r].lv # "off" => watch[r].lv # "off"
    BY <1>0, <1>3, <2>1 DEF LivenessTrips, OnGuard, Watches
  <2> QED  BY <1>3, <2>2, LoopAnnounced DEF LivenessTrips
<1>4. CASE CloserStarts(s)
  <2>1. \A r \in Socks : watch'[r] = IF r = s THEN [watch[s] EXCEPT !.closer = FALSE]
                                     ELSE watch[r]
    BY <1>0, <1>4 DEF CloserStarts
  <2>2. /\ OnGuard(s)
        /\ \A r \in Socks : /\ OnGuard(r)' => OnGuard(r)
                            /\ watch'[r].hs # "off" => watch[r].hs # "off"
                            /\ watch'[r].lv # "off" => watch[r].lv # "off"
    BY <1>0, <1>4, <2>1 DEF CloserStarts, OnGuard, Watches
  <2> QED  BY <1>4, <2>2, LoopAnnounced DEF CloserStarts, Close
<1>5. CASE ServerCloses(s)
  <2>1. UNCHANGED <<client, task, watch, begun, helloed>>
    BY <1>5 DEF ServerCloses, history
  <2> QED
    BY <2>1, LoopFrame DEF SameLoops, SameFlags, OnlyGoOff, SameHistory, Carrying, InLoop, At
<1> QED  BY <1>1, <1>2, <1>3, <1>4, <1>5

\* The steps of disconnect(): what it closes is what is current, and it ends
\* when the recv loop has.
LEMMA LoopStopStep ==
    ASSUME LInv, SInv', StopBegins \/ StopStep
    PROVE  LInv'
<1>0. TypeOK
  BY DEF LInv, SInv, IInv
<1>1. ASSUME StopBegins \/ StopCollects \/ StopFails  PROVE LInv'
  <2>1. /\ \A b \in Actors \ {"stop"} : task'[b] = task[b]
        /\ {task["stop"].pc, task'["stop"].pc} \cap {"awaiting", "done"} = {}
        /\ task'["stop"].pc \in {"stopping", "flushing", "failed"}
    <3>1. /\ task["stop"].pc \in {"idle", "stopping", "flushing"}
          /\ \E p \in {"stopping", "flushing", "failed"} : task' = [task EXCEPT !["stop"].pc = p]
      BY <1>1 DEF StopBegins, StopCollects, StopFails, At
    <3> QED  BY <1>0, <3>1 DEF TypeOK
  <2>2. SameLoops
    BY <2>1, SameLoopsTasks DEF LoopPcs
  <2>3. SameFlags
    <3>1. CASE StopBegins
      BY <1>0, <3>1 DEF StopBegins, SameFlags, TypeOK, Clients
    <3>2. CASE StopCollects
      <4>1. client.disposed
        BY <3>2 DEF LInv, SInv, Exclusive, StopRole, StopCollects, At
      <4> QED  BY <1>0, <3>2, <4>1 DEF StopCollects, SameFlags, TypeOK, Clients
    <3>3. CASE StopFails
      BY <3>3 DEF StopFails, SameFlags
    <3> QED  BY <1>1, <3>1, <3>2, <3>3
  <2>4. UNCHANGED <<watch, begun, helloed>>
    BY <1>1 DEF StopBegins, StopCollects, StopFails, history
  <2> QED  BY <2>2, <2>3, <2>4, LoopFrame DEF OnlyGoOff, SameHistory
<1>2. ASSUME StopStep  PROVE client.disposed
  BY <1>2
     DEF LInv, SInv, Exclusive, StopRole, StopStep, StopCollects, StopFails, StopCloses, StopClosed,
         StopReleases, At
<1>3. ASSUME StopCloses  PROVE LInv'
  <2>1. /\ client'.ws = None /\ client'.recv = client.recv
        /\ client'.disposed /\ client'.auth = client.auth
        /\ client'.flag = (client.flag \/ client.ws # None)
    BY <1>0, <1>2, <1>3 DEF StopCloses, StopStep, TypeOK, Clients
  <2>2. \A b \in Actors \ {"stop"} : task'[b] = task[b]
    BY <1>0, <1>3 DEF StopCloses, TypeOK
  <2>3. task["stop"].pc = "flushing" /\ task'["stop"].pc = "closing"
    BY <1>0, <1>3 DEF StopCloses, At, TypeOK
  <2>4. SameLoops
    BY <2>2, <2>3, SameLoopsTasks DEF LoopPcs
  <2>5. \A s \in Socks : Current(s)' => Current(s)
    BY <2>4 DEF SameLoops, Current
  <2>6. LoopOwns' /\ OneCurrent' /\ GuardsCurrent' /\ SlotsHold'
    <3>1. watch' = watch
      BY <1>3 DEF StopCloses
    <3> QED
      BY <2>1, <2>5, <3>1 DEF LInv, LoopOwns, OneCurrent, GuardsCurrent, OnGuard, SlotsHold
  <2>7. LoopIsKnown'
    BY <2>1, <2>3, <2>4 DEF LInv, SameLoops, LoopIsKnown
  <2>8. FlagsAreOwn'
    <3> SUFFICES ASSUME NEW s \in Socks, Current(s)'
                 PROVE  /\ client'.flag <=> s \in begun'
                        /\ client'.auth <=> s \in helloed'
                        /\ s \in helloed' => InLoop(s)' /\ ~At(s, "starting")'
      BY DEF FlagsAreOwn
    <3>1. Current(s) /\ helloed' = helloed
      BY <1>3, <2>5 DEF StopCloses, Close, history
    <3>2. client.ws \in {s, None}
      <4>1. CASE InLoop(s)
        BY <4>1 DEF LInv, LoopOwns
      <4>2. ASSUME NEW a \in Actors, Carrying(a), task[a].s = s  PROVE client.ws \in {s, None}
        BY <4>2, HeldIsIdle DEF LInv
      <4> QED  BY <3>1, <4>1, <4>2 DEF Current
    <3>3. client.flag <=> s \in begun
      BY <3>1 DEF LInv, FlagsAreOwn
    <3>4. client'.flag <=> s \in begun'
      <4>1. CASE client.ws = None
        <5>1. client'.flag = client.flag /\ begun' = begun
          BY <1>0, <1>3, <2>1, <4>1 DEF StopCloses, history, TypeOK, Clients
        <5> QED  BY <3>3, <5>1
      <4>2. CASE client.ws = s
        BY <1>3, <2>1, <4>2 DEF StopCloses, Close
      <4> QED  BY <3>2, <4>1, <4>2
    <3>5. client.auth <=> s \in helloed
      BY <3>1 DEF LInv, FlagsAreOwn
    <3>6. s \in helloed => InLoop(s) /\ ~At(s, "starting")
      BY <3>1 DEF LInv, FlagsAreOwn
    <3>7. InLoop(s) => InLoop(s)' /\ (At(s, "starting")' <=> At(s, "starting"))
      BY <2>4 DEF SameLoops
    <3> QED  BY <2>1, <3>1, <3>4, <3>5, <3>6, <3>7
  <2> QED  BY <2>6, <2>7, <2>8 DEF LInv
<1>4. ASSUME StopClosed  PROVE LInv'
  <2>1. /\ client'.ws = client.ws /\ client'.recv = None /\ client'.disposed
        /\ client'.auth = client.auth /\ client'.flag = client.flag
    BY <1>0, <1>2, <1>4 DEF StopClosed, StopStep, TypeOK, Clients
  <2>2. \A b \in Actors \ {"stop"} : task'[b] = task[b]
    BY <1>0, <1>4 DEF StopClosed, TypeOK
  <2>3. task["stop"].pc = "closing" /\ task'["stop"].pc = "awaiting" /\ task'["stop"].s = client.recv
    <3>1. task' = [task EXCEPT !["stop"].pc = "awaiting", !["stop"].s = client.recv]
      BY <1>4 DEF StopClosed
    <3> QED  BY <1>0, <1>4, <3>1 DEF StopClosed, At, TypeOK, Tasks
  <2>4. \A s \in Socks : /\ InLoop(s)' <=> InLoop(s)
                         /\ Current(s)' <=> Current(s)
                         /\ At(s, "starting")' <=> At(s, "starting")
    BY <2>2, <2>3 DEF InLoop, Current, Carrying, At
  <2>5. UNCHANGED <<watch, begun, helloed>>
    BY <1>4 DEF StopClosed, history
  <2>6. LoopOwns' /\ OneCurrent' /\ GuardsCurrent' /\ SlotsHold'
    BY <1>2, <1>4, <2>1, <2>4, <2>5
       DEF LInv, LoopOwns, OneCurrent, GuardsCurrent, OnGuard, SlotsHold, StopStep
  <2>7. LoopIsKnown'
    BY <2>3, <2>4 DEF LInv, LoopIsKnown
  <2>8. FlagsAreOwn'
    BY <2>1, <2>4, <2>5 DEF LInv, FlagsAreOwn
  <2> QED  BY <2>6, <2>7, <2>8 DEF LInv
<1>5. ASSUME StopReleases  PROVE LInv'
  <2>1. /\ client'.ws = client.ws /\ client'.recv = client.recv /\ client'.disposed
        /\ client'.flag = client.flag /\ ~client'.auth
    BY <1>0, <1>2, <1>5 DEF StopReleases, StopStep, TypeOK, Clients
  <2>2. task["stop"].pc = "awaiting" /\ task'["stop"].pc = "done"
    BY <1>5 DEF StopReleases, At
  <2>3. \A b \in Actors \ {"stop"} :
           \/ task'[b] = task[b]
           \/ task[b].pc = "sleeping" /\ task'[b].pc = "idle"
    BY <1>5 DEF StopReleases, At, Resting
  <2>4. \A b \in Actors : Carrying(b)' => Carrying(b) /\ task'[b].s = task[b].s
    BY <2>2, <2>3 DEF Carrying
  <2>5. \A s \in Socks : /\ InLoop(s)' <=> InLoop(s)
                         /\ InLoop(s) => (At(s, "starting")' <=> At(s, "starting"))
    BY <2>2, <2>3 DEF InLoop, LoopPcs, At
  <2>6. \A s \in Socks : Current(s)' => Current(s)
    BY <2>4, <2>5 DEF Current
  <2>7. \A s \in Socks : InLoop(s) => At(s, "starting")
    <3> SUFFICES ASSUME NEW s \in Socks, InLoop(s), ~At(s, "starting")  PROVE FALSE
      OBVIOUS
    <3>1. task["stop"].s = s
      BY <2>2 DEF LInv, LoopIsKnown
    <3>2. ~At(s, "idle")
      BY DEF InLoop, LoopPcs, At
    <3> QED  BY <1>5, <3>1, <3>2 DEF StopReleases
  <2>8. \A s \in Socks : Current(s) => s \notin helloed
    BY <2>7 DEF LInv, FlagsAreOwn
  <2>9. OnlyGoOff
    BY <1>5 DEF StopReleases, OnlyGoOff
  <2>10. UNCHANGED <<begun, helloed>>
    BY <1>5 DEF StopReleases, history
  <2>11. LoopOwns' /\ OneCurrent'
    BY <2>1, <2>5, <2>6 DEF LInv, LoopOwns, OneCurrent, SInv, Exclusive, StopRole
  <2>12. GuardsCurrent' /\ SlotsHold'
    BY <2>1, <2>6, <2>9 DEF LInv, GuardsCurrent, OnGuard, SlotsHold, OnlyGoOff
  <2>13. FlagsAreOwn'
    BY <2>1, <2>6, <2>8, <2>10 DEF LInv, FlagsAreOwn
  <2>14. LoopIsKnown'
    BY <2>2, <2>5, <2>7 DEF LoopIsKnown, LInv
  <2> QED  BY <2>11, <2>12, <2>13, <2>14 DEF LInv
<1> QED  BY <1>1, <1>3, <1>4, <1>5 DEF StopStep
\* Such a step leaves the watchdogs alone too, and opens no socket.
Apart ==
    /\ SameLoops /\ SameFlags /\ SameHistory
    /\ opts' = opts /\ watch' = watch
    /\ \A s \in Socks : sock'[s] = "open" => sock[s] = "open"

\* An attempt of connect(), _schedule_reconnect and the retry of a blocked
\* client are apart from every recv loop that reads.
LEMMA ApartAttempt ==
    ASSUME SInv, NEW a \in Actors \ {"stop"}, NEW then, Attempt(a, then),
           a \in Socks => task[a].pc \notin LoopPcs
    PROVE  SameLoops /\ SameFlags
<1>0. TypeOK /\ client.timer \in Timers \cup {None}
  BY DEF SInv, IInv, TypeOK, Clients
<1>1. \A b \in Actors :
         \/ task'[b] = task[b]
         \/ /\ task'[b].pc \notin LoopPcs \cup {"sending", "unsent"}
            /\ b \in Socks => task[b].pc \notin LoopPcs
  BY <1>0 DEF Attempt, Resting, LoopPcs
<1>2. task'["stop"] = task["stop"]
  BY <1>0 DEF Attempt
<1>3. SameFlags
  BY <1>0 DEF Attempt, SameFlags, TypeOK, Clients
<1> QED  BY <1>1, <1>2, <1>3, SameLoopsTasks

LEMMA SameLoopsReturn ==
    ASSUME TypeOK, NEW a \in Actors \ {"stop"}, a \in Socks => task[a].pc \notin LoopPcs,
           \/ task' = [task EXCEPT ![a] = Return(a)]
           \/ \E t \in Timers : task' = [task EXCEPT ![a] = Return(a), ![t].pc = "sleeping"]
           \/ \E p \in PCs \ (LoopPcs \cup {"sending", "unsent"}) : task' = [task EXCEPT ![a].pc = p]
    PROVE  SameLoops
<1>0. Return(a).pc \notin LoopPcs \cup {"sending", "unsent"}
  BY DEF TypeOK, Tasks, Return, Resting, LoopPcs
<1>1. CASE task' = [task EXCEPT ![a] = Return(a)]
  BY <1>0, <1>1, SameLoopsTasks DEF TypeOK
<1>2. ASSUME NEW t \in Timers, task' = [task EXCEPT ![a] = Return(a), ![t].pc = "sleeping"]
      PROVE  SameLoops
  <2>1. /\ task'[t].pc = "sleeping"
        /\ a # t => task'[a] = Return(a)
        /\ \A b \in Actors \ {a, t} : task'[b] = task[b]
    BY <1>2 DEF TypeOK, Tasks
  <2>2. \A b \in Actors :
         \/ task'[b] = task[b]
         \/ /\ task'[b].pc \notin LoopPcs \cup {"sending", "unsent"}
            /\ b \in Socks => task[b].pc \notin LoopPcs
    BY <1>0, <2>1 DEF LoopPcs
  <2> QED  BY <2>1, <2>2, SameLoopsTasks
<1>3. ASSUME NEW p \in PCs \ (LoopPcs \cup {"sending", "unsent"}), task' = [task EXCEPT ![a].pc = p]
      PROVE  SameLoops
  BY <1>3, SameLoopsTasks DEF TypeOK
<1> QED  BY <1>1, <1>2, <1>3

LEMMA ApartBackoff ==
    ASSUME SInv, NEW a \in Actors \ {"stop"}, a \in Socks => task[a].pc \notin LoopPcs, Backoff(a)
    PROVE  SameLoops /\ SameFlags
<1>0. TypeOK /\ IdleTimers \subseteq Timers
  BY DEF SInv, IInv, IdleTimers
<1>1. SameLoops
  <2>1. "backing" \in PCs \ (LoopPcs \cup {"sending", "unsent"})
    BY DEF PCs, LoopPcs
  <2>2. \/ task' = [task EXCEPT ![a] = Return(a)]
        \/ \E t \in Timers : task' = [task EXCEPT ![a] = Return(a), ![t].pc = "sleeping"]
        \/ task' = [task EXCEPT ![a].pc = "backing"]
    BY <1>0 DEF Backoff, Arm
  <2> QED  BY <1>0, <2>1, <2>2, SameLoopsReturn
<1>2. SameFlags
  <2>1. \/ client' = client
        \/ \E x : client' = [client EXCEPT !.state = x]
        \/ \E x, t : client' = [client EXCEPT !.timer = t, !.state = x]
    BY DEF Backoff, Arm
  <2>2. /\ client'.ws = client.ws /\ client'.recv = client.recv
        /\ client'.flag = client.flag /\ client'.auth = client.auth
        /\ client'.disposed = client.disposed
        /\ client'.hs = client.hs /\ client'.lv = client.lv
    BY ZenonT(60), <1>0, <2>1 DEF TypeOK, Clients
  <2> QED  BY <2>2 DEF SameFlags
<1> QED  BY <1>1, <1>2

LEMMA ApartRetry ==
    ASSUME SInv, NEW s \in Socks, RetryArmed(s)
    PROVE  SameLoops /\ SameFlags
<1>0. TypeOK /\ IdleTimers \subseteq Timers /\ client.timer \in Timers \cup {None}
  BY DEF SInv, IInv, TypeOK, Clients, IdleTimers
<1>1. task[s].pc \notin LoopPcs /\ Return(s).pc \notin LoopPcs \cup {"sending", "unsent"}
  BY <1>0 DEF RetryArmed, At, LoopPcs, TypeOK, Tasks, Return, Resting
<1>2. CASE client' = client /\ task' = [task EXCEPT ![s] = Return(s)]
  BY <1>0, <1>1, <1>2, SameLoopsReturn DEF SameFlags
<1>3. ASSUME NEW t \in IdleTimers \cup ({client.timer} \ {None}),
             client' = [client EXCEPT !.timer = t],
             task' = [b \in Actors |->
                        CASE b = s -> Return(s)
                          [] b = t -> [Resting EXCEPT !.pc = "sleeping"]
                          [] b = client.timer /\ b # t -> Resting
                          [] OTHER -> task[b]]
      PROVE  SameLoops /\ SameFlags
  <2>1. t \in Timers
    BY <1>0
  <2>2. \A b \in Actors :
         \/ task'[b] = task[b]
         \/ /\ task'[b].pc \notin LoopPcs \cup {"sending", "unsent"}
            /\ b \in Socks => task[b].pc \notin LoopPcs
    BY <1>0, <1>1, <1>3, <2>1 DEF Resting, LoopPcs
  <2>3. task'["stop"] = task["stop"]
    BY <1>0, <1>3, <2>1
  <2>4. SameFlags
    BY <1>0, <1>3 DEF SameFlags, TypeOK, Clients
  <2> QED  BY <2>2, <2>3, <2>4, SameLoopsTasks
<1> QED  BY <1>2, <1>3 DEF RetryArmed

\* The steps that are not apart from the recv loop
Adopts(a) == \E s \in Socks : ~client.disposed /\ OpenSucceeds(a, s) /\ Adopt(a, s)

Touches ==
    \/ \E a \in Actors : Adopts(a) \/ HelloSent(a) \/ GiveUp(a)
    \/ \E s \in Socks : \/ RecvStarts(s) \/ HelloOk(s) \/ Greeted(s) \/ SocketEnds(s)
                       \/ HandshakeExpires(s) \/ HandshakeTrips(s) \/ LivenessExpires(s)
                       \/ LivenessTrips(s) \/ CloserStarts(s) \/ ServerCloses(s)
    \/ StopBegins \/ StopStep

\* The steps of connect()
LEMMA ApartConnectStep ==
    ASSUME LInv, NEW a \in Actors, ConnectStep(a)
    PROVE  Apart \/ Touches
<1>0. TypeOK /\ SInv /\ a # "stop"
  BY DEF LInv, SInv, IInv, Exclusive, StopRole, ConnectStep, OpenFails, OpenSucceeds, HelloSent,
         HelloFails, GiveUp, BackOff, Armed, At
<1>1. ASSUME OpenFails(a) \/ BackOff(a) \/ Armed(a)  PROVE Apart \/ Touches
  <2>1. UNCHANGED <<opts, watch, sock, begun, helloed>>
    BY <1>1 DEF OpenFails, BackOff, Armed, history
  <2>2. task[a].pc \notin LoopPcs
    BY <1>1 DEF OpenFails, BackOff, Armed, At, LoopPcs
  <2>3. SameLoops /\ SameFlags
    <3>1. CASE OpenFails(a)
      <4>1. SameLoops
        BY <1>0, <2>2, <3>1, SameLoopsReturn DEF OpenFails, PCs, LoopPcs
      <4> QED  BY <1>0, <3>1, <4>1 DEF OpenFails, SameFlags, TypeOK, Clients
    <3>2. CASE BackOff(a)
      BY <1>0, <2>2, <3>2, ApartBackoff DEF BackOff
    <3>3. CASE Armed(a)
      <4>1. SameLoops
        BY <1>0, <2>2, <3>3, SameLoopsReturn DEF Armed, IdleTimers
      <4>2. client' = client \/ \E t : client' = [client EXCEPT !.timer = t]
        BY <3>3 DEF Armed
      <4> QED  BY <1>0, <4>1, <4>2 DEF SameFlags, TypeOK, Clients
    <3> QED  BY <1>1, <3>1, <3>2, <3>3
  <2> QED  BY <2>1, <2>3 DEF Apart, SameHistory
<1>2. ASSUME HelloFails(a)  PROVE Apart \/ Touches
  <2>1. UNCHANGED <<opts, client, watch, sock, begun, helloed>>
    BY <1>2 DEF HelloFails, history
  <2>2. task' = [task EXCEPT ![a].pc = "unsent"] /\ task[a].pc = "sending"
    BY <1>2 DEF HelloFails, At
  <2>3. SameLoops
    <3>1. task'[a].pc = "unsent" /\ task'[a].s = task[a].s /\ \A b \in Actors \ {a} : task'[b] = task[b]
      BY <1>0, <2>2 DEF TypeOK, Tasks
    <3> QED  BY <1>0, <2>2, <3>1 DEF SameLoops, Carrying, InLoop, LoopPcs, At
  <2> QED  BY <2>1, <2>3 DEF Apart, SameFlags, SameHistory
<1>3. ASSUME NEW s \in Socks, OpenSucceeds(a, s)  PROVE Apart \/ Touches
  <2>1. CASE ~client.disposed /\ Adopt(a, s)
    BY <1>3, <2>1 DEF Touches, Adopts
  <2>2. CASE /\ client' = [client EXCEPT !.connecting = FALSE]
             /\ task' = [task EXCEPT ![a] = Return(a)] /\ UNCHANGED <<sock, history>>
    <3>1. task[a].pc \notin LoopPcs
      BY <1>3 DEF OpenSucceeds, At, LoopPcs
    <3>2. SameLoops
      BY <1>0, <2>2, <3>1, SameLoopsReturn
    <3>3. SameFlags
      BY <1>0, <2>2 DEF SameFlags, TypeOK, Clients
    <3> QED  BY <1>3, <2>2, <3>2, <3>3 DEF Apart, SameHistory, OpenSucceeds, history
  <2> QED  BY <1>3, <2>1, <2>2 DEF OpenSucceeds, AdoptOrDrop
<1> QED  BY <1>1, <1>2, <1>3 DEF ConnectStep, Touches

\* A broken socket and a missed frame only move the recv loop on.
LEMMA ApartErrs ==
    ASSUME LInv, NEW s \in Socks, SocketErrs(s) \/ SweepMisses(s)
    PROVE  Apart
<1>0. TypeOK /\ SInv /\ s \in Actors \ {"stop"}
  BY DEF LInv, SInv, IInv
<1>1. UNCHANGED <<opts, client, watch, sock, begun, helloed>>
  BY DEF SocketErrs, SweepMisses, history
<1>2. task' = [task EXCEPT ![s].pc = "erring"] /\ task[s].pc = "reading"
  BY DEF SocketErrs, SweepMisses, At
<1>3. SameLoops
  <2>1. task'[s].pc = "erring" /\ \A b \in Actors \ {s} : task'[b] = task[b]
    BY <1>0, <1>2 DEF TypeOK, Tasks
  <2> QED  BY <1>0, <1>2, <2>1 DEF SameLoops, Carrying, InLoop, LoopPcs, At
<1> QED  BY <1>1, <1>3 DEF Apart, SameFlags, SameHistory

\* The steps of a recv loop
LEMMA ApartRecvStep ==
    ASSUME LInv, NEW s \in Socks, RecvStep(s)
    PROVE  Apart \/ Touches
<1>0. TypeOK /\ SInv /\ s \in Actors \ {"stop"}
  BY DEF LInv, SInv, IInv
<1>1. ASSUME SocketErrs(s)  PROVE Apart \/ Touches
  BY <1>1, ApartErrs
<1>2. ASSUME Closed(s)  PROVE Apart \/ Touches
  <2>1. task[s].pc = "noticing"
    BY <1>2 DEF Closed, At
  <2>2. SameLoops /\ SameFlags
    <3>1. CASE client' = client /\ task' = [task EXCEPT ![s] = Return(s)]
      BY <1>0, <2>1, <3>1, SameLoopsReturn DEF SameFlags, LoopPcs
    <3>2. CASE EnterBlocked(s)
      <4>1. SameLoops
        BY <1>0, <2>1, <3>2, SameLoopsReturn DEF EnterBlocked, PCs, LoopPcs
      <4> QED  BY <1>0, <3>2, <4>1 DEF EnterBlocked, SameFlags, TypeOK, Clients
    <3>3. CASE Backoff(s)
      BY <1>0, <2>1, <3>3, ApartBackoff DEF LoopPcs
    <3> QED  BY <1>2, <3>1, <3>2, <3>3 DEF Closed, FlushMisses, Concludes
  <2>3. SameHistory
    <3>1. ~Current(s)
      <4>1. ~InLoop(s)
        BY <2>1 DEF InLoop, LoopPcs
      <4>2. ASSUME NEW b \in Actors, Carrying(b), task[b].s = s  PROVE FALSE
        BY <1>0, <2>1, <4>2, HeldIsIdle DEF At
      <4> QED  BY <4>1, <4>2 DEF Current
    <3> QED  BY <1>2, <3>1 DEF Closed, SameHistory
  <2>4. /\ opts' = opts /\ watch' = watch
        /\ \A r \in Socks : sock'[r] = "open" => sock[r] = "open"
    BY <1>0, <1>2 DEF Closed, TypeOK
  <2> QED  BY <2>2, <2>3, <2>4 DEF Apart
<1>3. ASSUME RetryArmed(s)  PROVE Apart \/ Touches
  <2>1. UNCHANGED <<opts, watch, sock, begun, helloed>>
    BY <1>3 DEF RetryArmed, history
  <2> QED  BY <1>0, <1>3, <2>1, ApartRetry DEF Apart, SameHistory
<1> QED  BY <1>1, <1>2, <1>3 DEF RecvStep, Touches

\* Every other step is apart from the recv loop.
LEMMA ApartNext == LInv /\ [Next]_vars => Apart \/ Touches
<1> SUFFICES ASSUME LInv, [Next]_vars  PROVE Apart \/ Touches
  OBVIOUS
<1>0. TypeOK /\ SInv
  BY DEF LInv, SInv, IInv
<1>1. ASSUME NEW a \in Actors \ {"stop"}, NEW then, Attempt(a, then),
             a \in Socks => task[a].pc \notin LoopPcs,
             UNCHANGED <<opts, watch, sock, begun, helloed>>
      PROVE  Apart \/ Touches
  BY <1>0, <1>1, ApartAttempt DEF Apart, SameHistory
<1>2. CASE ConnectCall
  BY <1>1, <1>2 DEF ConnectCall, history
<1>3. CASE StopBegins \/ StopStep
  BY <1>3 DEF Touches
<1>4. ASSUME NEW a \in Actors, ConnectStep(a)  PROVE Apart \/ Touches
  BY <1>4, ApartConnectStep
<1>5. ASSUME NEW t \in Timers, TimerFires(t)  PROVE Apart \/ Touches
  <2>0. t \in Actors \ {"stop"} /\ t \notin Socks /\ UNCHANGED <<opts, watch, sock, begun, helloed>>
    BY <1>5 DEF TimerFires, history
  <2>1. CASE Attempt(t, "idle")
    BY <1>1, <2>0, <2>1
  <2>2. CASE client' = [client EXCEPT !.timer = None] /\ task' = [task EXCEPT ![t] = Resting]
    <3>1. SameLoops
      <4>1. \A b \in Actors :
              \/ task'[b] = task[b]
              \/ /\ task'[b].pc \notin LoopPcs \cup {"sending", "unsent"}
                 /\ b \in Socks => task[b].pc \notin LoopPcs
        BY <1>0, <2>0, <2>2 DEF TypeOK, Resting, LoopPcs
      <4>2. task'["stop"] = task["stop"]
        BY <1>0, <2>0, <2>2 DEF TypeOK
      <4> QED  BY <4>1, <4>2, SameLoopsTasks
    <3>2. SameFlags
      BY <1>0, <2>2 DEF SameFlags, TypeOK, Clients
    <3> QED  BY <1>0, <2>0, <3>1, <3>2 DEF Apart, SameHistory
  <2> QED  BY <1>5, <2>1, <2>2 DEF TimerFires
<1>6. ASSUME NEW s \in Socks, RecvStep(s)  PROVE Apart \/ Touches
  BY <1>6, ApartRecvStep
<1>7. ASSUME NEW s \in Socks, HelloOk(s)  PROVE Apart \/ Touches
  BY <1>7 DEF Touches
<1>8. ASSUME NEW s \in Socks, HandlerConnects(s)  PROVE Apart \/ Touches
  BY <1>1, <1>8 DEF HandlerConnects, history, LoopPcs
<1>9. ASSUME NEW s \in Socks,
             \/ HandshakeExpires(s) \/ HandshakeTrips(s) \/ LivenessExpires(s)
             \/ LivenessTrips(s) \/ CloserStarts(s) \/ ServerCloses(s)
      PROVE  Apart \/ Touches
  BY <1>9 DEF Touches
<1>10. CASE CallerCancelled
  <2>1. UNCHANGED <<opts, watch, sock, begun, helloed>>
    BY <1>10 DEF CallerCancelled, history
  <2>2. SameFlags
    BY <1>0, <1>10 DEF CallerCancelled, SameFlags, TypeOK, Clients
  <2>3. SameLoops
    <3>1. task'["app"] = Resting /\ \A b \in Actors \ {"app"} : task'[b] = task[b]
      BY <1>0, <1>10 DEF CallerCancelled, TypeOK
    <3> QED  BY <3>1, SameLoopsTasks DEF Resting, LoopPcs
  <2> QED  BY <1>0, <2>1, <2>2, <2>3 DEF Apart, SameHistory
<1>11. CASE UNCHANGED vars
  BY <1>0, <1>11
     DEF vars, history, Apart, SameLoops, SameFlags, SameHistory, Carrying, InLoop, At
<1>12. ASSUME NEW s \in Socks, SweepMisses(s)  PROVE Apart \/ Touches
  BY <1>12, ApartErrs
<1> QED  BY <1>2, <1>3, <1>4, <1>5, <1>6, <1>7, <1>8, <1>9, <1>10, <1>11, <1>12 DEF Next

\* Every step keeps the invariant.
LEMMA LoopNext == LInv /\ [Next]_vars => LInv'
<1> SUFFICES ASSUME LInv, [Next]_vars  PROVE LInv'
  OBVIOUS
<1>0. SInv'
  BY StrayNext DEF LInv
<1>1. CASE Apart
  BY <1>0, <1>1, LoopFrame DEF Apart, OnlyGoOff
<1>2. CASE Touches
  BY <1>0, <1>2, LoopAdopt, LoopHelloSent, LoopGiveUp, LoopRecvStarts, LoopWelcomed,
     LoopSocketEnds, LoopWatchStep, LoopStopStep
     DEF Touches, Adopts
<1> QED  BY <1>1, <1>2, ApartNext

\* The invariant holds of every behaviour.
LEMMA LoopInvariant == Spec => []LInv
<1>1. Init => LInv
  <2> SUFFICES ASSUME Init  PROVE LInv
    OBVIOUS
  <2>1. SInv
    BY StrayInit
  <2>2. (\A s \in Socks : ~Current(s)) /\ \A s \in Socks : ~InLoop(s) /\ ~OnGuard(s)
    BY DEF Init, Current, InLoop, LoopPcs, Carrying, Resting, OnGuard, Unwatched
  <2> QED
    BY <2>1, <2>2
       DEF LInv, LoopOwns, OneCurrent, GuardsCurrent, SlotsHold, FlagsAreOwn, LoopIsKnown, OnGuard
<1>2. LInv /\ [Next]_vars => LInv'
  BY LoopNext
<1> QED  BY <1>1, <1>2, PTL DEF Spec

\* A recv loop leaves its reading for on_disconnect by SocketEnds alone.
LEMMA OnlyCloseEnds ==
    ASSUME LInv, [Next]_vars, NEW s \in Socks, task[s].pc \in {"reading", "erring"},
           task'[s].pc = "noticing"
    PROVE  SocketEnds(s)
<1>0. TypeOK /\ s \in Actors \ {"stop"}
  BY DEF LInv, SInv, IInv
<1>1. ~Apart
  BY DEF Apart, SameLoops, InLoop, LoopPcs
<1>2. SUFFICES ASSUME task'[s] # task[s], Touches  PROVE SocketEnds(s)
  BY <1>1, ApartNext
<1>3. ASSUME NEW a \in Actors, Adopts(a) \/ HelloSent(a) \/ GiveUp(a)  PROVE FALSE
  <2>1. task[a].pc \in {"opening", "sending", "unsent"} /\ a # s
    BY <1>3 DEF Adopts, OpenSucceeds, HelloSent, GiveUp, At
  <2>2. CASE Adopts(a) \/ GiveUp(a)
    BY <1>0, <1>2, <2>1, <2>2 DEF Adopts, Adopt, GiveUp, TypeOK
  <2>3. CASE HelloSent(a)
    <3>1. task[a].s # s
      BY <2>3, HeldIsIdle DEF LInv, HelloSent, Carrying, At
    <3>2. task'[s] = task[s]
      BY <1>0, <2>1, <2>3, <3>1 DEF HelloSent, TypeOK
    <3> QED  BY <1>2, <3>2
  <2> QED  BY <1>3, <2>2, <2>3
<1>4. ASSUME NEW r \in Socks, RecvStarts(r) \/ HelloOk(r) \/ Greeted(r)  PROVE FALSE
  <2>1. \E p \in PCs \ {"noticing"} : task' = [task EXCEPT ![r].pc = p]
    BY <1>4 DEF RecvStarts, HelloOk, Greeted, PCs
  <2> QED  BY <1>0, <1>2, <2>1 DEF TypeOK, Tasks
<1>5. ASSUME NEW r \in Socks, SocketEnds(r)  PROVE SocketEnds(s)
  <2>1. r = s
    BY <1>0, <1>2, <1>5 DEF SocketEnds, TypeOK
  <2> QED  BY <1>5, <2>1
<1>6. ASSUME StopBegins \/ StopStep  PROVE FALSE
  BY <1>0, <1>2, <1>6
     DEF StopBegins, StopStep, StopCollects, StopFails, StopCloses, StopClosed, StopReleases, TypeOK,
         At, Resting
<1>7. ASSUME UNCHANGED task  PROVE FALSE
  BY <1>2, <1>7
<1> QED
  BY <1>2, <1>3, <1>4, <1>5, <1>6, <1>7
     DEF Touches, HandshakeExpires, HandshakeTrips, LivenessExpires, LivenessTrips, CloserStarts,
         ServerCloses

\* Every close is judged by the history of its own socket, though the two
\* flags it is judged by belong to the client and connect(), the watchdogs,
\* the recv loops and disconnect() all write them.
THEOREM VerdictsAreSound == Spec => VerdictIsSound
<1>1. LInv /\ [Next]_vars =>
        [\A s \in Socks : task[s].pc \in {"reading", "erring"} /\ task'[s].pc = "noticing" =>
            /\ verdict'[s].ours <=> s \in begun
            /\ verdict'[s].early <=> s \notin helloed]_vars
  <2> SUFFICES ASSUME LInv, [Next]_vars,
                      NEW s \in Socks, task[s].pc \in {"reading", "erring"},
                      task'[s].pc = "noticing"
               PROVE  /\ verdict'[s].ours <=> s \in begun
                      /\ verdict'[s].early <=> s \notin helloed
    OBVIOUS
  <2>0. TypeOK
    BY DEF LInv, SInv, IInv
  <2>1. SocketEnds(s)
    BY <2>0, OnlyCloseEnds
  <2>2. Current(s)
    BY DEF Current, InLoop, LoopPcs
  <2>3. verdict'[s] = [ours |-> client.flag, early |-> ~client.auth]
    BY <2>0, <2>1 DEF SocketEnds, TypeOK
  <2>4. client.flag <=> s \in begun
    BY <2>2 DEF LInv, FlagsAreOwn
  <2>5. client.auth <=> s \in helloed
    BY <2>2 DEF LInv, FlagsAreOwn
  <2>6. verdict'[s].ours <=> s \in begun
    BY <2>3, <2>4
  <2>7. verdict'[s].early <=> s \notin helloed
    <3>1. verdict'[s].early = ~client.auth
      BY <2>3
    <3> QED  BY <2>5, <3>1
  <2> QED  BY <2>6, <2>7
<1> QED  BY <1>1, LoopInvariant, PTL DEF VerdictIsSound, Spec
----------------------------------------------------------------------------
(* A client that is not told to stop neither dies nor hangs.  Who keeps it
   going changes hands all the time: a connect() in flight, its socket, the
   recv loop, a close handling under way, a timer; there is always one. *)

SockPcs == LoopPcs \cup {"idle", "opening", "failing", "sending", "unsent", "discarding",
                         "backing", "noticing", "judging"}

\* Somebody is on the way to an attempt or to a backoff.  A close handling
\* that is not the last recv loop's cannot be relied on: its flush may miss a
\* frame, and that of the last loop alone is remembered by FlushMissed.
Busy ==
    \E a \in Actors :
        \/ task[a].pc \in {"opening", "failing", "discarding", "backing", "judging"}
        \/ At(a, "noticing") /\ client.recv = a

\* The flag of connect() is set by a call that is still there to clear it.
Opens ==
    ~client.disposed /\ ~opts.cancels /\ client.connecting => \E a \in Actors : At(a, "opening")

\* The client's socket is being brought up or read.
Owned ==
    ~client.disposed /\ ~opts.cancels /\ client.ws # None => Current(client.ws)

\* The timer in the slot has not rung, and each task keeps to its role.
Roles ==
    /\ ~client.disposed /\ client.timer # None => At(client.timer, "sleeping")
    /\ \A s \in Socks : task[s].pc \in SockPcs

\* A client that was used, reconnects and has no socket has a timer or is
\* busy, unless the close handling that would see to it missed a frame.
Lively ==
    opts.reconnect /\ ~opts.cancels /\ ~client.disposed /\ client.state # "idle" /\ client.ws = None
        => client.timer # None \/ Busy \/ FlushMissed

Heart == Opens /\ Owned /\ Roles /\ Lively

\* After disconnect() only the roles are left.
LEMMA HeartStopped ==
    ASSUME client'.disposed, \A s \in Socks : task'[s].pc \in SockPcs
    PROVE  Heart'
BY DEF Heart, Opens, Owned, Roles, Lively

\* A step in which one task moves, that is neither a timer asleep nor
\* disconnect(), and the timer slot stays as it is
LEMMA RolesMoved ==
    ASSUME TypeOK, Roles, NEW a \in Actors, task[a].pc # "sleeping",
           task'[a].pc \in SockPcs,
           \A b \in Actors \ {a} : task'[b] = task[b],
           client'.timer = client.timer, client.disposed => client'.disposed
    PROVE  Roles'
<1>1. client.timer \in Actors \cup {None}
  BY DEF TypeOK, Clients
<1>2. \A s \in Socks : task'[s].pc \in SockPcs
  BY DEF Roles
<1>3. ~client'.disposed /\ client'.timer # None => At(client.timer, "sleeping")'
  BY <1>1 DEF Roles, At
<1> QED  BY <1>2, <1>3 DEF Roles

\* An attempt is under way itself.
LEMMA HeartAttempt ==
    ASSUME SInv, Heart, NEW a \in Actors \ {"stop"}, NEW then, Attempt(a, then)
    PROVE  Heart'
<1>0. TypeOK /\ client.timer \in Timers \cup {None}
  BY DEF SInv, IInv, TypeOK, Clients
<1>1. client'.ws = None /\ client'.timer = None
  BY <1>0 DEF Attempt, CanConnect, TypeOK, Clients
<1>2. task'[a].pc = "opening"
  BY DEF Attempt
<1>3. \A s \in Socks : task'[s].pc \in SockPcs
  BY <1>0 DEF Heart, Roles, Attempt, SockPcs
<1>4. Opens'
  BY <1>2 DEF Opens, At
<1>5. Owned'
  BY <1>1 DEF Owned
<1>6. Roles'
  BY <1>1, <1>3 DEF Roles
<1>7. Lively'
  BY <1>2 DEF Lively, Busy
<1> QED  BY <1>4, <1>5, <1>6, <1>7 DEF Heart

\* A task that backs off returns because somebody else sees to the client,
\* goes on with it, or leaves a timer.
Backs(a) ==
    /\ opts' = opts /\ client'.ws = client.ws /\ client'.connecting = client.connecting
    /\ client'.disposed = client.disposed
    /\ task[a].pc \in {"failing", "discarding", "backing", "noticing", "judging"}
    /\ \/ /\ client'.timer = client.timer
          /\ \A b \in Actors \ {a} : task'[b] = task[b]
          /\ task'[a].pc \in {"idle", "backing", "noticing", "judging"}
          /\ Superseded \/ ~opts.reconnect \/ client.timer # None \/ task'[a].pc \in {"backing", "judging"}
       \/ /\ ~Superseded
          /\ client'.timer \in Timers
          /\ task'[client'.timer].pc = "sleeping"
          /\ \A s \in Socks \ {a} : task'[s] = task[s]
          /\ a \in Socks => task'[a].pc \in {"idle", "backing", "noticing", "judging"}

LEMMA HeartBacks ==
    ASSUME SInv, Heart, NEW a \in Actors \ {"stop"}, Backs(a)
    PROVE  Heart'
<1>0. TypeOK
  BY DEF SInv, IInv
<1>1. CASE /\ client'.timer = client.timer
           /\ \A b \in Actors \ {a} : task'[b] = task[b]
           /\ task'[a].pc \in {"idle", "backing", "noticing", "judging"}
           /\ \/ Superseded \/ ~opts.reconnect \/ client.timer # None
              \/ task'[a].pc \in {"backing", "judging"}
  <2>1. Opens'
    BY <1>1 DEF Heart, Opens, Backs, At
  <2>2. Owned'
    <3> SUFFICES ASSUME ~client.disposed, ~opts.cancels, client.ws # None
                 PROVE  Current(client.ws)'
      BY DEF Owned, Backs
    <3>1. Current(client.ws) /\ client'.ws = client.ws /\ client.ws \in Socks
      BY <1>0 DEF Heart, Owned, Backs, TypeOK, Clients
    <3>2. CASE InLoop(client.ws)
      <4>1. client.ws # a
        BY <3>2 DEF Backs, InLoop, LoopPcs
      <4>2. task'[client.ws] = task[client.ws]
        BY <1>1, <3>1, <4>1
      <4> QED  BY <3>1, <3>2, <4>2 DEF Current, InLoop
    <3>3. ASSUME NEW b \in Actors, Carrying(b), task[b].s = client.ws  PROVE Current(client.ws)'
      <4>1. b # a
        BY <3>3 DEF Backs, Carrying
      <4>2. task'[b] = task[b]
        BY <1>1, <4>1
      <4> QED  BY <3>1, <3>3, <4>2 DEF Current, Carrying
    <3> QED  BY <3>1, <3>2, <3>3 DEF Current
  <2>3. Roles'
    BY <1>0, <1>1, RolesMoved DEF Heart, Backs, SockPcs
  <2>4. Lively'
    <3> SUFFICES ASSUME opts.reconnect, ~opts.cancels, ~client.disposed, client.ws = None,
                        client.timer = None, task'[a].pc \notin {"backing", "judging"}
                 PROVE  Busy'
      BY <1>1 DEF Lively, Backs, Busy
    <3>1. client.connecting
      BY <1>1 DEF Superseded
    <3> QED  BY <2>1, <3>1 DEF Opens, Backs, Busy, At
  <2> QED  BY <2>1, <2>2, <2>3, <2>4 DEF Heart
<1>2. CASE /\ ~Superseded
           /\ client'.timer \in Timers
           /\ task'[client'.timer].pc = "sleeping"
           /\ \A s \in Socks \ {a} : task'[s] = task[s]
           /\ a \in Socks => task'[a].pc \in {"idle", "backing", "noticing", "judging"}
  <2>1. Opens' /\ Owned'
    BY <1>2 DEF Opens, Owned, Superseded, Backs
  <2>2. Roles'
    BY <1>2 DEF Heart, Roles, SockPcs, At
  <2>3. Lively'
    BY <1>2 DEF Lively
  <2> QED  BY <2>1, <2>2, <2>3 DEF Heart
<1> QED  BY <1>1, <1>2 DEF Backs

\* _schedule_reconnect backs off,
LEMMA BacksBackoff ==
    ASSUME SInv, NEW a \in Actors \ {"stop"}, Backoff(a), opts' = opts,
           task[a].pc \in {"failing", "discarding", "noticing"}
    PROVE  Backs(a)
<1>0. TypeOK /\ IdleTimers \subseteq Timers /\ client.timer \in Timers \cup {None}
  BY DEF SInv, IInv, TypeOK, Clients, IdleTimers
<1>1. Return(a).pc \in {"idle", "backing", "noticing", "judging"}
  BY <1>0 DEF TypeOK, Tasks, Return, Resting
<1>2. CASE /\ Superseded \/ (opts.reconnect /\ client.timer # None)
           /\ client' = client
           /\ task' = [task EXCEPT ![a] = Return(a)]
  BY <1>0, <1>1, <1>2 DEF Backs, TypeOK
<1>3. CASE /\ ~opts.reconnect
           /\ client' = [client EXCEPT !.state = IF @ = "blocked" THEN @ ELSE "idle"]
           /\ task' = [task EXCEPT ![a] = Return(a)]
  <2>1. /\ client'.ws = client.ws /\ client'.connecting = client.connecting
        /\ client'.disposed = client.disposed /\ client'.timer = client.timer
    BY <1>0, <1>3 DEF TypeOK, Clients
  <2> QED  BY <1>0, <1>1, <1>3, <2>1 DEF Backs, TypeOK
<1>4. ASSUME ~Superseded, NEW t \in IdleTimers, Arm(a, t)  PROVE Backs(a)
  <2>1. /\ client'.ws = client.ws /\ client'.connecting = client.connecting
        /\ client'.disposed = client.disposed /\ client'.timer = t
    BY <1>0, <1>4 DEF Arm, TypeOK, Clients
  <2>2. t \in Timers /\ t # a
    BY <1>0, <1>4 DEF IdleTimers, At
  <2>3. /\ task'[t].pc = "sleeping" /\ task'[a] = Return(a)
        /\ \A b \in Actors \ {a, t} : task'[b] = task[b]
    BY <1>0, <1>4, <2>2 DEF Arm, TypeOK, Tasks
  <2> QED  BY <1>1, <1>4, <2>1, <2>2, <2>3 DEF Backs
<1>5. CASE /\ client' = [client EXCEPT !.state = "backoff"]
           /\ task' = [task EXCEPT ![a].pc = "backing"]
  <2>1. /\ client'.ws = client.ws /\ client'.connecting = client.connecting
        /\ client'.disposed = client.disposed /\ client'.timer = client.timer
    BY <1>0, <1>5 DEF TypeOK, Clients
  <2>2. task'[a].pc = "backing" /\ \A b \in Actors \ {a} : task'[b] = task[b]
    BY <1>0, <1>5 DEF TypeOK, Tasks
  <2> QED  BY <2>1, <2>2 DEF Backs
<1> QED  BY <1>2, <1>3, <1>4, <1>5 DEF Backoff

\* and so do the end of its notification and the blocked retry.
LEMMA BacksArmed ==
    ASSUME SInv, NEW a \in Actors \ {"stop"}, Armed(a)
    PROVE  Backs(a)
<1>0. TypeOK /\ IdleTimers \subseteq Timers /\ task[a].pc = "backing" /\ opts' = opts
  BY DEF SInv, IInv, IdleTimers, Armed, At
<1>1. Return(a).pc \in {"idle", "backing", "noticing", "judging"}
  BY <1>0 DEF TypeOK, Tasks, Return, Resting
<1>2. CASE Superseded /\ task' = [task EXCEPT ![a] = Return(a)] /\ client' = client
  BY <1>0, <1>1, <1>2 DEF Backs, TypeOK
<1>3. ASSUME ~Superseded, NEW t \in IdleTimers, client' = [client EXCEPT !.timer = t],
             task' = [task EXCEPT ![a] = Return(a), ![t].pc = "sleeping"]
      PROVE  Backs(a)
  <2>1. /\ client'.ws = client.ws /\ client'.connecting = client.connecting
        /\ client'.disposed = client.disposed /\ client'.timer = t
    BY <1>0, <1>3 DEF TypeOK, Clients
  <2>2. t \in Timers /\ t # a
    BY <1>0, <1>3 DEF IdleTimers, At
  <2>3. /\ task'[t].pc = "sleeping" /\ task'[a] = Return(a)
        /\ \A b \in Actors \ {a, t} : task'[b] = task[b]
    BY <1>0, <1>3, <2>2 DEF TypeOK, Tasks
  <2> QED  BY <1>0, <1>1, <1>3, <2>1, <2>2, <2>3 DEF Backs
<1> QED  BY <1>2, <1>3 DEF Armed

LEMMA BacksRetry ==
    ASSUME SInv, NEW s \in Socks, RetryArmed(s)
    PROVE  Backs(s)
<1>0. /\ TypeOK /\ IdleTimers \subseteq Timers /\ client.timer \in Timers \cup {None}
      /\ task[s].pc = "judging" /\ opts' = opts
  BY DEF SInv, IInv, TypeOK, Clients, IdleTimers, RetryArmed, At
<1>1. Return(s).pc \in {"idle", "backing", "noticing", "judging"}
  BY <1>0 DEF TypeOK, Tasks, Return, Resting
<1>2. CASE /\ Superseded \/ ~opts.reconnect
           /\ client' = client /\ task' = [task EXCEPT ![s] = Return(s)]
  BY <1>0, <1>1, <1>2 DEF Backs, TypeOK
<1>3. ASSUME ~Superseded, NEW t \in IdleTimers \cup ({client.timer} \ {None}),
             client' = [client EXCEPT !.timer = t],
             task' = [b \in Actors |->
                        CASE b = s -> Return(s)
                          [] b = t -> [Resting EXCEPT !.pc = "sleeping"]
                          [] b = client.timer /\ b # t -> Resting
                          [] OTHER -> task[b]]
      PROVE  Backs(s)
  <2>1. /\ client'.ws = client.ws /\ client'.connecting = client.connecting
        /\ client'.disposed = client.disposed /\ client'.timer = t
    BY <1>0, <1>3 DEF TypeOK, Clients
  <2>2. t \in Timers /\ t # s
    BY <1>0
  <2>3. /\ task'[t].pc = "sleeping" /\ task'[s] = Return(s)
        /\ \A b \in Socks \ {s} : task'[b] = task[b]
    BY <1>0, <1>3, <2>2 DEF Resting
  <2> QED  BY <1>0, <1>1, <1>3, <2>1, <2>2, <2>3 DEF Backs
<1> QED  BY <1>2, <1>3 DEF RetryArmed
\* The steps of connect() hand the client from one keeper to the next.
LEMMA HeartConnectStep ==
    ASSUME SInv, Heart, NEW a \in Actors, ConnectStep(a)
    PROVE  Heart'
<1>0. TypeOK /\ a # "stop" /\ Roles /\ \A s \in Socks : task[s].pc \in SockPcs
  BY DEF SInv, IInv, Exclusive, StopRole, Heart, Roles, ConnectStep, OpenFails, OpenSucceeds,
         HelloSent, HelloFails, GiveUp, BackOff, Armed, At
<1>1. CASE OpenFails(a)
  <2>1. task'[a].pc = "failing" /\ \A b \in Actors \ {a} : task'[b] = task[b]
    BY <1>0, <1>1 DEF OpenFails, TypeOK, Tasks
  <2>2. /\ ~client'.connecting /\ client'.ws = client.ws /\ client'.disposed = client.disposed
        /\ client'.timer = client.timer
    BY <1>0, <1>1 DEF OpenFails, TypeOK, Clients
  <2>3. task[a].pc = "opening" /\ client.ws = None
    BY <1>1 DEF OpenFails, At, SInv, Exclusive, OpenerOwns, OpensUnused
  <2>4. Roles'
    BY <1>0, <2>1, <2>2, <2>3, RolesMoved DEF SockPcs
  <2> QED  BY <2>1, <2>2, <2>3, <2>4 DEF Heart, Opens, Owned, Lively, Busy
<1>2. ASSUME NEW s \in Socks, OpenSucceeds(a, s)  PROVE Heart'
  <2>1. CASE Adopt(a, s) /\ ~client.disposed
    <3>1. task'[a].pc = "sending" /\ task'[a].s = s /\ \A b \in Actors \ {a} : task'[b] = task[b]
      BY <1>0, <2>1 DEF Adopt, TypeOK, Tasks
    <3>2. /\ ~client'.connecting /\ client'.ws = s /\ client'.disposed = client.disposed
          /\ client'.timer = client.timer
      BY <1>0, <2>1 DEF Adopt, Adopted, TypeOK, Clients
    <3>3. task[a].pc = "opening"
      BY <1>2 DEF OpenSucceeds, At
    <3>4. Roles'
      BY <1>0, <3>1, <3>2, <3>3, RolesMoved DEF SockPcs
    <3>5. Current(s)'
      BY <3>1 DEF Current, Carrying
    <3>6. Owned'
      BY <3>2, <3>5 DEF Owned
    <3> QED  BY <3>2, <3>4, <3>6 DEF Heart, Opens, Lively
  <2>2. CASE /\ client.disposed /\ client' = [client EXCEPT !.connecting = FALSE]
             /\ task' = [task EXCEPT ![a] = Return(a)]
    <3>1. client'.disposed /\ Return(a).pc \in SockPcs
      BY <1>0, <2>2 DEF TypeOK, Clients, Tasks, Return, Resting, SockPcs
    <3>2. \A r \in Socks : task'[r].pc \in SockPcs
      BY <1>0, <2>2, <3>1 DEF TypeOK
    <3> QED  BY <3>1, <3>2, HeartStopped
  <2> QED  BY <1>2, <2>1, <2>2 DEF OpenSucceeds, AdoptOrDrop
<1>3. ASSUME Carrying(a)
      PROVE  \E s \in Socks : /\ s = task[a].s /\ s # a /\ At(s, "idle")
                              /\ ~client.disposed => client.ws = s /\ ~client.connecting
  <2>1. /\ task[a].s \in Socks /\ At(task[a].s, "idle")
        /\ client.ws = task[a].s \/ (client.disposed /\ client.ws = None)
    BY <1>3, HeldIsIdle
  <2>2. task[a].s # a
    BY <1>3, <2>1 DEF Carrying, At
  <2> QED  BY <2>1, <2>2 DEF SInv, Exclusive, OpensUnused
<1>4. CASE HelloSent(a)
  <2>1. Carrying(a)
    BY <1>4 DEF HelloSent, Carrying, At
  <2>2. PICK s \in Socks : /\ s = task[a].s /\ s # a /\ At(s, "idle")
                           /\ ~client.disposed => client.ws = s /\ ~client.connecting
    BY <1>3, <2>1
  <2>3. /\ task'[s].pc = "starting" /\ task'[a].pc \in SockPcs
        /\ \A b \in Actors \ {a, s} : task'[b] = task[b]
    <3>1. task' = [task EXCEPT ![a] = Return(a), ![s].pc = "starting"]
      BY <1>4, <2>2 DEF HelloSent
    <3>2. Return(a).pc \in SockPcs
      BY <1>0 DEF TypeOK, Tasks, Return, Resting, SockPcs
    <3>3. task'[a] = Return(a) /\ \A b \in Actors \ {a, s} : task'[b] = task[b]
      BY <1>0, <2>2, <3>1 DEF TypeOK
    <3>4. task'[s].pc = "starting"
      BY <1>0, <2>2, <3>1 DEF TypeOK, Tasks
    <3> QED  BY <3>2, <3>3, <3>4
  <2>4. /\ client'.connecting = client.connecting /\ client'.ws = client.ws
        /\ client'.disposed = client.disposed /\ client'.timer = client.timer
    BY <1>0, <1>4 DEF HelloSent, TypeOK, Clients
  <2>5. \A r \in Socks : task'[r].pc \in SockPcs
    BY <1>0, <2>3 DEF SockPcs, LoopPcs
  <2>6. CASE ~client.disposed
    <3>1. Current(s)'
      BY <2>3 DEF Current, InLoop, LoopPcs
    <3>2. Owned'
      BY <2>2, <2>4, <2>6, <3>1 DEF Owned
    <3>3. client.timer # None => client.timer \notin {a, s} /\ client.timer \in Actors
      BY <1>0, <2>1, <2>6 DEF Roles, At, Carrying, TypeOK, Clients
    <3>4. Roles'
      BY <1>0, <2>3, <2>4, <2>5, <3>3 DEF Roles, At
    <3> QED  BY <2>2, <2>4, <2>6, <3>2, <3>4 DEF Heart, Opens, Lively
  <2> QED  BY <2>4, <2>5, <2>6, HeartStopped
<1>5. CASE HelloFails(a)
  <2>1. Carrying(a)
    BY <1>5 DEF HelloFails, Carrying, At
  <2>2. PICK s \in Socks : /\ s = task[a].s /\ s # a /\ At(s, "idle")
                           /\ ~client.disposed => client.ws = s /\ ~client.connecting
    BY <1>3, <2>1
  <2>3. task'[a].pc = "unsent" /\ task'[a].s = s /\ \A b \in Actors \ {a} : task'[b] = task[b]
    BY <1>0, <1>5, <2>2 DEF HelloFails, TypeOK, Tasks
  <2>4. client' = client
    BY <1>5 DEF HelloFails
  <2>5. Roles'
    BY <1>0, <2>1, <2>3, <2>4, RolesMoved DEF SockPcs, Carrying
  <2>6. CASE ~client.disposed
    <3>1. Current(s)'
      BY <2>3 DEF Current, Carrying
    <3>2. Owned'
      BY <2>2, <2>4, <2>6, <3>1 DEF Owned
    <3> QED  BY <2>2, <2>4, <2>5, <2>6, <3>2 DEF Heart, Opens, Lively
  <2> QED  BY <2>4, <2>5, <2>6, HeartStopped DEF Roles
<1>6. CASE GiveUp(a)
  <2>1. Carrying(a)
    BY <1>6 DEF GiveUp, Carrying, At
  <2>2. PICK s \in Socks : /\ s = task[a].s /\ s # a /\ At(s, "idle")
                           /\ ~client.disposed => client.ws = s /\ ~client.connecting
    BY <1>3, <2>1
  <2>3. task'[a].pc = "discarding" /\ \A b \in Actors \ {a} : task'[b] = task[b]
    <3>1. task' = [task EXCEPT ![a].pc = "discarding"]
      BY <1>6 DEF GiveUp
    <3> QED  BY <1>0, <3>1 DEF TypeOK, Tasks
  <2>4. /\ client'.connecting = client.connecting /\ client'.ws = None
        /\ client'.disposed = client.disposed /\ client'.timer = client.timer
    BY <1>0, <1>6 DEF GiveUp, TypeOK, Clients
  <2>5. Roles'
    BY <1>0, <2>1, <2>3, <2>4, RolesMoved DEF SockPcs, Carrying
  <2> QED  BY <2>2, <2>3, <2>4, <2>5 DEF Heart, Opens, Owned, Lively, Busy
<1>7. CASE BackOff(a)
  BY <1>0, <1>7, BacksBackoff, HeartBacks DEF BackOff
<1>8. CASE Armed(a)
  BY <1>0, <1>8, BacksArmed, HeartBacks
<1> QED  BY <1>1, <1>2, <1>4, <1>5, <1>6, <1>7, <1>8 DEF ConnectStep

\* The flush at the end of a recv loop misses a frame.  Was it the last loop,
\* that is remembered; was it another, somebody else keeps the client going.
LEMMA HeartFlushMisses ==
    ASSUME SInv, Heart, NEW s \in Socks, Closed(s), FlushMisses(s)
    PROVE  Heart'
<1>0. TypeOK /\ Roles /\ s \in Actors /\ opts' = opts /\ client' = client /\ At(s, "noticing")
  BY DEF SInv, IInv, Heart, Closed, FlushMisses
<1>1. task'[s].pc \in {"idle", "noticing", "backing", "judging"}
      /\ \A b \in Actors \ {s} : task'[b] = task[b]
  <2>1. Return(s).pc \in {"idle", "noticing", "backing", "judging"}
    BY <1>0 DEF TypeOK, Tasks, Return, Resting
  <2> QED  BY <1>0, <2>1 DEF FlushMisses, TypeOK
<1>2. Roles'
  BY <1>0, <1>1, RolesMoved DEF SockPcs, At
<1>3. Opens'
  BY <1>0, <1>1 DEF Heart, Opens, At
<1>4. Owned'
  <2> SUFFICES ASSUME ~client.disposed, ~opts.cancels, client.ws # None
               PROVE  Current(client.ws)'
    BY <1>0 DEF Owned
  <2>1. Current(client.ws) /\ client.ws \in Socks
    BY <1>0 DEF Heart, Owned, TypeOK, Clients
  <2>2. CASE InLoop(client.ws)
    <3>1. client.ws # s
      BY <1>0, <2>2 DEF InLoop, LoopPcs, At
    <3>2. task'[client.ws] = task[client.ws]
      BY <1>1, <2>1, <3>1
    <3> QED  BY <1>0, <2>2, <3>2 DEF Current, InLoop
  <2>3. ASSUME NEW b \in Actors, Carrying(b), task[b].s = client.ws  PROVE Current(client.ws)'
    <3>1. b # s
      BY <1>0, <2>3 DEF Carrying, At
    <3>2. task'[b] = task[b]
      BY <1>1, <3>1
    <3> QED  BY <1>0, <2>3, <3>2 DEF Current, Carrying
  <2> QED  BY <2>1, <2>2, <2>3 DEF Current
<1>5. Lively'
  <2>1. halted' = halted \cup {s} /\ opts.suspends /\ opts.receipt
    BY DEF FlushMisses
  <2>2. CASE client.recv = s
    BY <1>0, <2>1, <2>2 DEF Lively, FlushMissed
  <2>3. CASE client.recv # s
    <3>1. Busy => Busy'
      <4> SUFFICES ASSUME NEW a \in Actors,
                          \/ task[a].pc \in {"opening", "failing", "discarding", "backing", "judging"}
                          \/ At(a, "noticing") /\ client.recv = a
                   PROVE  Busy'
        BY DEF Busy
      <4>1. a # s
        BY <1>0, <2>3 DEF At
      <4>2. task'[a] = task[a]
        BY <1>1, <4>1
      <4> QED  BY <1>0, <4>2 DEF Busy, At
    <3>2. FlushMissed => FlushMissed'
      BY <1>0, <2>1 DEF FlushMissed
    <3> QED  BY <1>0, <3>1, <3>2 DEF Heart, Lively
  <2> QED  BY <2>2, <2>3
<1> QED  BY <1>2, <1>3, <1>4, <1>5 DEF Heart

\* The steps of a recv loop.  A socket that ends is followed by its close
\* handling, which backs off.
LEMMA HeartRecvStep ==
    ASSUME LInv, Heart, NEW s \in Socks, RecvStep(s) \/ HelloOk(s) \/ SweepMisses(s)
    PROVE  Heart'
<1>0. TypeOK /\ SInv /\ Roles /\ s \in Actors \ {"stop"}
  BY DEF LInv, SInv, IInv, Heart
<1>1. ASSUME InLoop(s), ~client.disposed
      PROVE  client.ws = s /\ ~client.connecting /\ client.ws # None
  BY <1>0, <1>1 DEF LInv, LoopOwns, SInv, Exclusive, OpensUnused
<1>2. CASE RecvStarts(s) \/ HelloOk(s) \/ Greeted(s) \/ SocketErrs(s) \/ SweepMisses(s)
  <2>1. InLoop(s) /\ task[s].pc # "sleeping"
    BY <1>2 DEF RecvStarts, HelloOk, Greeted, SocketErrs, SweepMisses, InLoop, LoopPcs, At
  <2>2. /\ \A b \in Actors \ {s} : task'[b] = task[b]
        /\ task'[s].pc \in LoopPcs \/ (client.ws = None /\ task'[s].pc = "idle")
    <3>1. CASE RecvStarts(s)
      <4>1. task' = [task EXCEPT ![s].pc = IF client.ws = None THEN "idle" ELSE "reading"]
        BY <3>1 DEF RecvStarts
      <4>2. /\ \A b \in Actors \ {s} : task'[b] = task[b]
            /\ task'[s].pc = IF client.ws = None THEN "idle" ELSE "reading"
        BY <1>0, <4>1 DEF TypeOK, Tasks
      <4> QED  BY <4>2 DEF LoopPcs
    <3>2. CASE HelloOk(s) \/ Greeted(s) \/ SocketErrs(s) \/ SweepMisses(s)
      <4>1. \E p \in LoopPcs : task' = [task EXCEPT ![s].pc = p]
        BY <3>2 DEF HelloOk, Greeted, SocketErrs, SweepMisses, LoopPcs
      <4> QED  BY <1>0, <4>1 DEF TypeOK
    <3> QED  BY <1>2, <3>1, <3>2
  <2>3. /\ client'.connecting = client.connecting /\ client'.ws = client.ws
        /\ client'.disposed = client.disposed /\ client'.timer = client.timer
    <3>1. \/ client' = client \/ client' = Welcomed
          \/ client' = [client EXCEPT !.lv = s]
      BY <1>2 DEF RecvStarts, HelloOk, Greeted, SocketErrs, SweepMisses
    <3> QED  BY ZenonT(60), <1>0, <3>1 DEF Welcomed, TypeOK, Clients
  <2>4. Roles'
    <3>1. task'[s].pc \in SockPcs
      BY <2>2 DEF SockPcs
    <3> QED  BY <1>0, <2>1, <2>2, <2>3, <3>1, RolesMoved
  <2>5. CASE ~client.disposed
    <3>1. InLoop(s)'
      BY <1>1, <2>1, <2>2, <2>5 DEF InLoop
    <3>2. Owned'
      BY <1>1, <2>1, <2>3, <2>5, <3>1 DEF Owned, Current
    <3> QED  BY <1>1, <2>1, <2>3, <2>4, <2>5, <3>2 DEF Heart, Opens, Lively
  <2> QED  BY <2>3, <2>4, <2>5, HeartStopped DEF Roles
<1>3. CASE SocketEnds(s)
  <2>1. InLoop(s) /\ task[s].pc # "sleeping"
    BY <1>3 DEF SocketEnds, InLoop, LoopPcs, At
  <2>2. task'[s].pc = "noticing" /\ \A b \in Actors \ {s} : task'[b] = task[b]
    <3>1. task' = [task EXCEPT ![s].pc = "noticing"]
      BY <1>3 DEF SocketEnds
    <3> QED  BY <1>0, <3>1 DEF TypeOK, Tasks
  <2>3. /\ client'.connecting = client.connecting
        /\ client'.disposed = client.disposed /\ client'.timer = client.timer
        /\ client'.ws = IF client.ws = s THEN None ELSE client.ws
        /\ client'.recv = client.recv
    BY <1>0, <1>3 DEF SocketEnds, AfterClose, TypeOK, Clients
  <2>4. Roles'
    BY <1>0, <2>1, <2>2, <2>3, RolesMoved DEF SockPcs
  <2>5. ~client.disposed => client'.ws = None /\ ~client'.connecting
    BY <1>1, <2>1, <2>3
  <2>6. ~client.disposed => Busy'
    <3>1. ~client.disposed => client.recv = s
      BY <1>0, <2>1 DEF LInv, LoopIsKnown, SInv, Exclusive, StopRole, At
    <3> QED  BY <2>2, <2>3, <3>1 DEF Busy, At
  <2> QED  BY <2>2, <2>3, <2>4, <2>5, <2>6 DEF Heart, Opens, Owned, Lively
<1>4. CASE Closed(s)
  <2>1. task[s].pc = "noticing" /\ opts' = opts
    BY <1>4 DEF Closed, At
  <2>2. CASE client.disposed /\ client' = client /\ task' = [task EXCEPT ![s] = Return(s)]
    <3>1. Return(s).pc \in {"idle", "backing", "noticing", "judging"}
      BY <1>0 DEF TypeOK, Tasks, Return, Resting
    <3>2. Backs(s)
      BY <1>0, <2>1, <2>2, <3>1 DEF Backs, Superseded, TypeOK
    <3> QED  BY <1>0, <3>2, HeartBacks
  <2>3. CASE EnterBlocked(s)
    <3>1. /\ client'.connecting = client.connecting /\ client'.ws = client.ws
          /\ client'.disposed = client.disposed /\ client'.timer = client.timer
      BY <1>0, <2>3 DEF EnterBlocked, TypeOK, Clients
    <3>2. task'[s].pc = "judging" /\ \A b \in Actors \ {s} : task'[b] = task[b]
      BY <1>0, <2>3 DEF EnterBlocked, TypeOK, Tasks
    <3>3. Backs(s)
      BY <2>1, <3>1, <3>2 DEF Backs
    <3> QED  BY <1>0, <3>3, HeartBacks
  <2>4. CASE Backoff(s)
    BY <1>0, <2>1, <2>4, BacksBackoff, HeartBacks
  <2>5. CASE FlushMisses(s)
    BY <1>0, <1>4, <2>5, HeartFlushMisses
  <2> QED  BY <1>4, <2>2, <2>3, <2>4, <2>5 DEF Closed, Concludes
<1>5. CASE RetryArmed(s)
  BY <1>0, <1>5, BacksRetry, HeartBacks
<1> QED  BY <1>2, <1>3, <1>4, <1>5 DEF RecvStep
\* A timer that rings attempts, or finds somebody who will.
LEMMA HeartTimerFires ==
    ASSUME LInv, Heart, NEW t \in Timers, TimerFires(t)
    PROVE  Heart'
<1>0. TypeOK /\ SInv /\ Roles /\ t \in Actors \ {"stop"} /\ t \notin Socks /\ opts' = opts
  BY DEF LInv, SInv, IInv, Heart, TimerFires
<1>1. CASE Attempt(t, "idle")
  BY <1>0, <1>1, HeartAttempt
<1>2. CASE ~CanConnect(t) /\ client' = [client EXCEPT !.timer = None] /\ task' = [task EXCEPT ![t] = Resting]
  <2>1. /\ client'.connecting = client.connecting /\ client'.ws = client.ws
        /\ client'.disposed = client.disposed /\ client'.timer = None
        /\ client'.recv = client.recv
    BY <1>0, <1>2 DEF TypeOK, Clients
  <2>2. task[t].pc = "sleeping" /\ \A b \in Actors \ {t} : task'[b] = task[b]
    BY <1>0, <1>2 DEF TimerFires, At, TypeOK
  <2>3. Roles'
    BY <1>0, <2>1, <2>2 DEF Roles
  <2>4. Opens'
    BY <1>0, <2>1, <2>2 DEF Heart, Opens, At
  <2>5. Owned'
    <3> SUFFICES ASSUME ~client.disposed, ~opts.cancels, client.ws # None
                 PROVE  Current(client.ws)'
      BY <1>0, <2>1 DEF Owned
    <3>1. PICK s \in Socks : s = client.ws
      BY <1>0 DEF TypeOK, Clients
    <3>2. Current(s)
      BY <1>0, <3>1 DEF Heart, Owned
    <3>3. Current(s)'
      BY <1>0, <2>2, <3>2 DEF Current, InLoop, Carrying
    <3> QED  BY <2>1, <3>1, <3>3
  <2>6. Lively'
    <3> SUFFICES ASSUME ~opts.cancels, ~client.disposed, client.ws = None
                 PROVE  Busy'
      BY <1>0, <2>1 DEF Lively
    <3>1. CASE client.connecting
      BY <1>0, <2>1, <2>4, <3>1 DEF Opens, Busy, At
    <3>2. CASE ~client.connecting
      <4>1. PICK r \in Socks : r = client.recv /\ ~At(r, "idle")
        BY <1>0, <1>2, <3>2 DEF CanConnect, TypeOK, Clients
      <4>2. ~InLoop(r)
        BY <4>1 DEF LInv, LoopOwns
      <4>3. ~Carrying(r)
        BY <1>0, HeldIsIdle
      <4>4. task[r].pc \in {"opening", "failing", "discarding", "backing", "noticing", "judging"}
        BY <1>0, <4>1, <4>2, <4>3 DEF Roles, SockPcs, InLoop, Carrying, At
      <4>5. task'[r] = task[r] /\ r \in Actors
        BY <1>0, <2>2
      <4> QED  BY <2>1, <4>1, <4>4, <4>5 DEF Busy, At
    <3> QED  BY <3>1, <3>2
  <2> QED  BY <2>3, <2>4, <2>5, <2>6 DEF Heart
<1> QED  BY <1>1, <1>2 DEF TimerFires

\* A step that moves no task and leaves the client's whereabouts alone
LEMMA HeartFrame ==
    ASSUME Heart, task' = task, opts' = opts, client'.ws = client.ws,
           client'.connecting = client.connecting, client'.disposed = client.disposed,
           client'.timer = client.timer, client'.state = client.state,
           client'.recv = client.recv, halted' = halted
    PROVE  Heart'
<1>1. Opens' /\ Roles' /\ Lively'
  BY DEF Heart, Opens, Roles, Lively, Busy, FlushMissed, At
<1>2. Owned'
  BY DEF Heart, Owned, Current, InLoop, Carrying
<1> QED  BY <1>1, <1>2 DEF Heart

\* Every step keeps a client that is not told to stop going.
LEMMA HeartNext == LInv /\ Heart /\ [Next]_vars => Heart'
<1> SUFFICES ASSUME LInv, Heart, [Next]_vars  PROVE Heart'
  OBVIOUS
<1>0. TypeOK /\ SInv /\ Roles
  BY DEF LInv, SInv, IInv, Heart
<1>1. CASE ConnectCall
  BY <1>0, <1>1, HeartAttempt DEF ConnectCall
<1>2. CASE StopBegins
  <2>1. client'.disposed /\ \A s \in Socks : task'[s] = task[s]
    BY <1>0, <1>2 DEF StopBegins, TypeOK, Clients
  <2> QED  BY <1>0, <2>1, HeartStopped DEF Roles
<1>3. CASE StopStep
  <2>0. client.disposed
    BY <1>0, <1>3
       DEF SInv, Exclusive, StopRole, StopStep, StopCollects, StopFails, StopCloses, StopClosed,
           StopReleases, At
  <2>1. client'.disposed
    BY ZenonT(60), <1>0, <1>3, <2>0
       DEF StopStep, StopCollects, StopFails, StopCloses, StopClosed, StopReleases, TypeOK, Clients
  <2>2. \A s \in Socks : task'[s] = task[s] \/ task'[s].pc = "idle"
    BY <1>0, <1>3
       DEF StopStep, StopCollects, StopFails, StopCloses, StopClosed, StopReleases, TypeOK, Resting
  <2>3. \A s \in Socks : task'[s].pc \in SockPcs
    BY <1>0, <2>2 DEF Roles, SockPcs
  <2> QED  BY <2>1, <2>3, HeartStopped
<1>4. ASSUME NEW a \in Actors, ConnectStep(a)  PROVE Heart'
  BY <1>0, <1>4, HeartConnectStep
<1>5. ASSUME NEW t \in Timers, TimerFires(t)  PROVE Heart'
  BY <1>5, HeartTimerFires
<1>6. ASSUME NEW s \in Socks, RecvStep(s) \/ HelloOk(s) \/ SweepMisses(s)  PROVE Heart'
  BY <1>6, HeartRecvStep
<1>7. ASSUME NEW s \in Socks, HandlerConnects(s)  PROVE Heart'
  BY <1>0, <1>7, HeartAttempt DEF HandlerConnects
<1>8. ASSUME NEW s \in Socks,
             \/ HandshakeExpires(s) \/ HandshakeTrips(s) \/ LivenessExpires(s)
             \/ LivenessTrips(s) \/ CloserStarts(s) \/ ServerCloses(s)
      PROVE  Heart'
  <2>1. /\ task' = task /\ opts' = opts /\ halted' = halted
        /\ client' = client \/ client' = [client EXCEPT !.flag = TRUE]
    BY <1>8
       DEF HandshakeExpires, HandshakeTrips, LivenessExpires, LivenessTrips, CloserStarts,
           ServerCloses, Close, history
  <2>2. /\ client'.ws = client.ws /\ client'.connecting = client.connecting
        /\ client'.disposed = client.disposed /\ client'.timer = client.timer
        /\ client'.state = client.state /\ client'.recv = client.recv
    BY <1>0, <2>1 DEF TypeOK, Clients
  <2> QED  BY <2>1, <2>2, HeartFrame
<1>9. CASE CallerCancelled
  <2>1. opts' = opts /\ opts.cancels
    BY <1>9 DEF CallerCancelled
  <2>2. client'.timer = client.timer /\ client'.disposed = client.disposed
    BY <1>0, <1>9 DEF CallerCancelled, TypeOK, Clients
  <2>3. /\ task["app"].pc # "sleeping" /\ task'["app"].pc \in SockPcs
        /\ \A b \in Actors \ {"app"} : task'[b] = task[b]
    BY <1>0, <1>9 DEF CallerCancelled, TypeOK, Resting, SockPcs
  <2>4. Roles'
    BY <1>0, <2>2, <2>3, RolesMoved
  <2> QED  BY <2>1, <2>4 DEF Heart, Opens, Owned, Lively
<1>10. CASE UNCHANGED vars
  BY <1>10, HeartFrame DEF vars, history
<1> QED  BY <1>1, <1>2, <1>3, <1>4, <1>5, <1>6, <1>7, <1>8, <1>9, <1>10 DEF Next

(* The watchdogs: whoever reads the current socket has the one of its phase,
   or that has seen to it that the socket ends. *)

Guarded(s) ==
    IF client.auth
    THEN client.lv = s /\ (watch[s].lv # "off" \/ watch[s].closer \/ sock[s] # "open")
    ELSE client.hs = s /\ (watch[s].hs # "off" \/ watch[s].closer \/ sock[s] # "open")

GuardsUp ==
    ~client.disposed =>
        \A s \in Socks : InLoop(s) => IF At(s, "greeting") THEN client.auth ELSE Guarded(s)

LEMMA GuardsNext == LInv /\ GuardsUp /\ [Next]_vars => GuardsUp'
<1> SUFFICES ASSUME LInv, GuardsUp, [Next]_vars, LInv',
                    ~client'.disposed, NEW s \in Socks, InLoop(s)'
             PROVE  IF At(s, "greeting")' THEN client'.auth ELSE Guarded(s)'
  BY LoopNext DEF GuardsUp
<1>0. TypeOK /\ SInv /\ watch \in [Socks -> Watches]
  BY DEF LInv, SInv, IInv, TypeOK
<1>1. client'.ws = s /\ s # None
  BY DEF LInv, LoopOwns
<1>2. CASE Apart
  <2>1. InLoop(s) /\ (At(s, "greeting")' <=> At(s, "greeting")) /\ ~client.disposed
    BY <1>2 DEF Apart, SameLoops, SameFlags
  <2>2. IF At(s, "greeting") THEN client.auth ELSE Guarded(s)
    BY <2>1 DEF GuardsUp
  <2>3. client'.auth = client.auth /\ client'.hs = client.hs /\ client'.lv = client.lv
    BY <1>2 DEF Apart, SameFlags
  <2>4. watch' = watch /\ (sock'[s] = "open" => sock[s] = "open")
    BY <1>2 DEF Apart
  <2>5. Guarded(s) => Guarded(s)'
    BY <2>3, <2>4 DEF Guarded
  <2> QED  BY <2>1, <2>2, <2>3, <2>5
<1>3. ASSUME NEW a \in Actors, Adopts(a)  PROVE FALSE
  <2>1. PICK r \in Socks : ~client.disposed /\ OpenSucceeds(a, r) /\ Adopt(a, r)
    BY <1>3 DEF Adopts
  <2>2. client'.ws = r
    BY <1>0, <2>1 DEF Adopt, Adopted, TypeOK, Clients
  <2>3. At(s, "idle") /\ At(a, "opening")
    BY <1>1, <2>1, <2>2 DEF OpenSucceeds, FreeSock
  <2>4. task'[s] = task[s]
    BY <1>0, <2>1, <2>3 DEF Adopt, TypeOK, At
  <2> QED  BY <2>3, <2>4 DEF InLoop, LoopPcs, At
<1>4. ASSUME NEW a \in Actors, GiveUp(a)  PROVE FALSE
  BY <1>0, <1>1, <1>4 DEF GiveUp, TypeOK, Clients
<1>5. ASSUME NEW a \in Actors, HelloSent(a)  PROVE ~At(s, "greeting")' /\ Guarded(s)'
  <2>1. Carrying(a)
    BY <1>5 DEF HelloSent, Carrying, At
  <2>2. client'.ws = client.ws /\ client'.disposed = client.disposed /\ client'.auth = client.auth
        /\ client'.hs = task[a].s
    BY <1>0, <1>5 DEF HelloSent, TypeOK, Clients
  <2>3. task[a].s = s /\ At(s, "idle") /\ s # a
    BY <1>0, <1>1, <2>1, <2>2, HeldIsIdle DEF Carrying, At
  <2>4. Current(s) /\ ~InLoop(s)
    BY <2>1, <2>3 DEF Current, InLoop, LoopPcs, At
  <2>5. s \notin helloed
    BY <2>4 DEF LInv, FlagsAreOwn
  <2>6. ~client.auth
    BY <2>4, <2>5 DEF LInv, FlagsAreOwn
  <2>7. watch'[s].hs = "armed"
    BY <1>0, <1>5, <2>3 DEF HelloSent, Watches
  <2>8. task'[s].pc = "starting"
    <3>1. task' = [task EXCEPT ![a] = Return(a), ![s].pc = "starting"]
      BY <1>5, <2>3 DEF HelloSent
    <3> QED  BY <1>0, <2>3, <3>1 DEF TypeOK, Tasks
  <2> QED  BY <2>2, <2>3, <2>6, <2>7, <2>8 DEF Guarded, At
<1>6. ASSUME NEW r \in Socks, RecvStarts(r)
      PROVE  IF At(s, "greeting")' THEN client'.auth ELSE Guarded(s)'
  <2>1. client' = client /\ watch' = watch /\ sock' = sock
    BY <1>6 DEF RecvStarts
  <2>2. InLoop(r)
    BY <1>6 DEF RecvStarts, InLoop, LoopPcs, At
  <2>3. r = s
    BY <1>1, <2>1, <2>2 DEF LInv, LoopOwns
  <2>4. ~At(s, "greeting")'
    <3>1. task' = [task EXCEPT ![s].pc = "reading"]
      BY <1>1, <1>6, <2>1, <2>3 DEF RecvStarts
    <3> QED  BY <1>0, <3>1 DEF TypeOK, Tasks, At
  <2>5. Guarded(s)
    BY <1>6, <2>1, <2>2, <2>3 DEF GuardsUp, RecvStarts, At
  <2>6. Guarded(s)'
    BY <2>1, <2>5 DEF Guarded
  <2> QED  BY <2>4, <2>6
<1>7. ASSUME NEW r \in Socks, HelloOk(r)
      PROVE  At(s, "greeting")' /\ client'.auth
  <2>1. client'.ws = client.ws /\ client'.disposed = client.disposed /\ client'.auth
    BY <1>0, <1>7 DEF HelloOk, Welcomed, TypeOK, Clients
  <2>2. InLoop(r)
    BY <1>7 DEF HelloOk, InLoop, LoopPcs, At
  <2>3. r = s
    BY <1>1, <2>1, <2>2 DEF LInv, LoopOwns
  <2>4. task' = [task EXCEPT ![s].pc = "greeting"]
    BY <1>7, <2>3 DEF HelloOk
  <2> QED  BY <1>0, <2>1, <2>4 DEF TypeOK, Tasks, At
<1>8. ASSUME NEW r \in Socks, Greeted(r)
      PROVE  ~At(s, "greeting")' /\ Guarded(s)'
  <2>1. client'.ws = client.ws /\ client'.disposed = client.disposed
        /\ client'.auth = client.auth /\ client'.lv = r
    BY <1>0, <1>8 DEF Greeted, TypeOK, Clients
  <2>2. InLoop(r) /\ At(r, "greeting")
    BY <1>8 DEF Greeted, InLoop, LoopPcs, At
  <2>3. r = s
    BY <1>1, <2>1, <2>2 DEF LInv, LoopOwns
  <2>4. client.auth
    BY <2>1, <2>2 DEF GuardsUp
  <2>5. watch'[s].lv = "armed"
    BY <1>0, <1>8, <2>3 DEF Greeted, Watches
  <2>6. task' = [task EXCEPT ![s].pc = "reading"]
    BY <1>8, <2>3 DEF Greeted
  <2>7. ~At(s, "greeting")'
    BY <1>0, <2>6 DEF TypeOK, Tasks, At
  <2> QED  BY <2>1, <2>3, <2>4, <2>5, <2>7 DEF Guarded
<1>9. ASSUME NEW r \in Socks, SocketEnds(r)  PROVE FALSE
  <2>1. /\ client'.disposed = client.disposed
        /\ client'.ws = IF client.ws = r THEN None ELSE client.ws
    BY <1>0, <1>9 DEF SocketEnds, AfterClose, TypeOK, Clients
  <2>2. InLoop(r)
    BY <1>9 DEF SocketEnds, InLoop, LoopPcs, At
  <2> QED  BY <1>1, <2>1, <2>2 DEF LInv, LoopOwns
<1>10. ASSUME NEW r \in Socks,
              \/ HandshakeExpires(r) \/ HandshakeTrips(r) \/ LivenessExpires(r)
              \/ LivenessTrips(r) \/ CloserStarts(r) \/ ServerCloses(r)
       PROVE  IF At(s, "greeting")' THEN client'.auth ELSE Guarded(s)'
  <2>1. task' = task /\ (client' = client \/ client' = [client EXCEPT !.flag = TRUE])
    BY <1>10 DEF HandshakeExpires, HandshakeTrips, LivenessExpires, LivenessTrips, CloserStarts, ServerCloses
  <2>2. /\ client'.ws = client.ws /\ client'.disposed = client.disposed
        /\ client'.auth = client.auth /\ client'.hs = client.hs /\ client'.lv = client.lv
    BY <1>0, <2>1 DEF TypeOK, Clients
  <2>3. IF At(s, "greeting") THEN client.auth ELSE Guarded(s)
    BY <2>1, <2>2 DEF GuardsUp, InLoop
  <2>4. (At(s, "greeting")' <=> At(s, "greeting")) /\ client.ws = s /\ ~client.disposed
    BY <1>1, <2>1, <2>2 DEF At
  <2>5. Guarded(s) => Guarded(s)'
    <3>1. CASE HandshakeExpires(r)
      <4>1. watch'[s].lv = watch[s].lv /\ watch'[s].closer = watch[s].closer /\ sock' = sock
        BY <1>0, <3>1 DEF HandshakeExpires, Watches
      <4>2. ~client.auth /\ watch[s].hs # "off" => watch'[s].hs # "off"
        BY <1>0, <2>4, <3>1 DEF HandshakeExpires, Watches
      <4> QED  BY <2>2, <4>1, <4>2 DEF Guarded
    <3>2. CASE LivenessExpires(r)
      <4>1. watch'[s].hs = watch[s].hs /\ watch'[s].closer = watch[s].closer /\ sock' = sock
        BY <1>0, <3>2 DEF LivenessExpires, Watches
      <4>2. watch[s].lv # "off" => watch'[s].lv # "off"
        BY <1>0, <2>4, <3>2 DEF LivenessExpires, Watches
      <4> QED  BY <2>2, <4>1, <4>2 DEF Guarded
    <3>3. CASE HandshakeTrips(r)
      <4>1. s # r => watch'[s] = watch[s]
        BY <1>0, <3>3 DEF HandshakeTrips
      <4>2. s = r => watch'[s].closer
        BY <1>0, <3>3 DEF HandshakeTrips, Watches
      <4>3. sock' = sock
        BY <3>3 DEF HandshakeTrips
      <4> QED  BY <2>2, <4>1, <4>2, <4>3 DEF Guarded
    <3>4. CASE LivenessTrips(r)
      <4>1. s # r => watch'[s] = watch[s]
        BY <1>0, <3>4 DEF LivenessTrips
      <4>2. s = r => watch'[s].closer
        BY <1>0, <3>4 DEF LivenessTrips, Watches
      <4>3. sock' = sock
        BY <3>4 DEF LivenessTrips
      <4> QED  BY <2>2, <4>1, <4>2, <4>3 DEF Guarded
    <3>5. CASE CloserStarts(r)
      <4>1. s # r => watch'[s] = watch[s] /\ sock'[s] = sock[s]
        BY <1>0, <3>5 DEF CloserStarts, Close
      <4>2. s = r => sock'[s] # "open"
        BY <1>0, <3>5 DEF CloserStarts, Close, TypeOK
      <4> QED  BY <2>2, <4>1, <4>2 DEF Guarded
    <3>6. CASE ServerCloses(r)
      <4>1. watch' = watch /\ (sock[s] # "open" => sock'[s] # "open")
        BY <1>0, <3>6 DEF ServerCloses, TypeOK
      <4> QED  BY <2>2, <4>1 DEF Guarded
    <3> QED  BY <1>10, <3>1, <3>2, <3>3, <3>4, <3>5, <3>6
  <2> QED  BY <2>2, <2>3, <2>4, <2>5
<1>11. ASSUME StopBegins \/ StopStep  PROVE FALSE
  <2>1. CASE StopBegins
    BY <1>0, <2>1 DEF StopBegins, TypeOK, Clients
  <2>2. CASE StopStep
    <3>1. client.disposed
      BY <1>0, <2>2
         DEF SInv, Exclusive, StopRole, StopStep, StopCollects, StopFails, StopCloses, StopClosed,
             StopReleases, At
    <3> QED
      BY ZenonT(60), <1>0, <2>2, <3>1
         DEF StopStep, StopCollects, StopFails, StopCloses, StopClosed, StopReleases, TypeOK, Clients
  <2> QED  BY <1>11, <2>1, <2>2
<1> QED
  BY <1>2, <1>3, <1>4, <1>5, <1>6, <1>7, <1>8, <1>9, <1>10, <1>11, ApartNext DEF Touches

AInv == LInv /\ Heart /\ GuardsUp

LEMMA AliveInvariant == Spec => []AInv
<1>1. Init => Heart /\ GuardsUp
  <2> SUFFICES ASSUME Init  PROVE Heart /\ GuardsUp
    OBVIOUS
  <2>1. \A a \in Actors : task[a].pc = "idle"
    BY DEF Init, Resting
  <2>2. /\ ~client.connecting /\ client.ws = None /\ client.timer = None /\ client.state = "idle"
    BY DEF Init
  <2>3. Heart
    BY <2>1, <2>2 DEF Heart, Opens, Owned, Roles, Lively, SockPcs
  <2>4. GuardsUp
    BY <2>1 DEF GuardsUp, InLoop, LoopPcs
  <2> QED  BY <2>3, <2>4
<1>2. LInv /\ Heart /\ GuardsUp /\ [Next]_vars => Heart' /\ GuardsUp'
  BY HeartNext, GuardsNext
<1> QED  BY <1>1, <1>2, LoopInvariant, PTL DEF AInv, Spec

\* The current socket of a client at rest is read and guarded.
LEMMA QuietIsWatched ==
    ASSUME AInv, Quiet, ~client.disposed, ~opts.cancels, client.ws # None
    PROVE  Watched
<1>0. TypeOK /\ watch \in [Socks -> Watches]
  BY DEF AInv, LInv, SInv, IInv, TypeOK
<1>1. PICK s \in Socks : s = client.ws
  BY <1>0 DEF TypeOK, Clients
<1>2. Current(s)
  BY <1>1 DEF AInv, Heart, Owned
<1>3. InLoop(s) /\ At(s, "reading")
  BY <1>2 DEF Quiet, Current, InLoop, LoopPcs, Carrying, At
<1>4. client.recv = s
  <2>1. At("stop", "idle")
    BY DEF AInv, LInv, SInv, Exclusive, StopRole
  <2> QED  BY <1>3, <2>1 DEF AInv, LInv, LoopIsKnown, At
<1>5. Guarded(s)
  BY <1>3 DEF AInv, GuardsUp, At
<1>6. /\ sock[s] = "open" /\ ~watch[s].closer /\ watch[s].hs # "erring" /\ watch[s].lv # "erring"
  BY <1>3 DEF Quiet
<1>7. watch[s].hs \in {"off", "armed", "erring"} /\ watch[s].lv \in {"off", "armed", "erring"}
  BY <1>0 DEF Watches
<1> QED  BY <1>1, <1>3, <1>4, <1>5, <1>6, <1>7 DEF Watched, Guarded

\* connect() is a no-op at rest only when the socket that makes it one is
\* read and guarded: no flag or slot that a call or a close left behind
\* turns connect() away for good, unless a call of it was cancelled.
THEOREM ConnectIsNeverStuck == Spec => []NeverStuck
<1>1. AInv => NeverStuck
  <2> SUFFICES ASSUME AInv, ~opts.cancels, Quiet, ~client.disposed,
                      client.connecting \/ client.ws # None
               PROVE  Watched
    BY DEF NeverStuck, IgnoredOnlyIfLive
  <2>1. ~client.connecting
    BY DEF AInv, Heart, Opens, Quiet, At
  <2> QED  BY <2>1, QuietIsWatched
<1> QED  BY <1>1, AliveInvariant, PTL

\* Rule 1 of the module's docstring: a client that was used, reconnects and
\* was not told to stop has a timer that will bring an attempt, or a socket
\* that is read and guarded, whenever nothing is under way.  The exception is
\* stated: with ack_on_receipt and message handlers that suspend, the flush of
\* the last recv loop may have missed a frame.
THEOREM NoDeadState == Spec => []AliveUntilStopped
<1>1. AInv => AliveUntilStopped
  <2> SUFFICES ASSUME AInv, Quiet, opts.reconnect, ~opts.cancels, ~client.disposed,
                      client.state # "idle", client.ws = None, ~FlushMissed
               PROVE  TimerPending
    BY QuietIsWatched DEF AliveUntilStopped
  <2>1. ~Busy
    BY DEF Busy, Quiet, At
  <2>2. client.timer # None
    BY <2>1 DEF AInv, Heart, Lively
  <2>3. client.timer \in Timers /\ At(client.timer, "sleeping")
    BY <2>2 DEF AInv, Heart, Roles, LInv, SInv, IInv, TypeOK, Clients
  <2> QED  BY <2>3 DEF TimerPending
<1> QED  BY <1>1, AliveInvariant, PTL
----------------------------------------------------------------------------
(* What the client publishes.  As long as nobody but the client itself calls
   connect(), one task at a time acts for it, and the published state says
   what that task is about, until a flush that misses a frame leaves none. *)

Plain == ~client.disposed /\ ~opts.recalls /\ ~opts.cancels /\ ~opts.reopens

\* The published state while c acts, or while nobody does
Says(c) ==
    /\ task[c].pc \in SockPcs \cup {"sleeping"}
    /\ client.connecting <=> At(c, "opening")
    /\ ~At(c, "sleeping") => client.timer = None
    /\ ~InLoop(c) /\ ~Carrying(c) => client.ws = None
    /\ InLoop(c) => /\ client.ws = c
                    /\ client.state = IF client.auth THEN "ready" ELSE "connecting"
                    /\ client.auth => ~client.blocked
    /\ Carrying(c) => client.ws = task[c].s
    /\ task[c].pc \in {"opening", "failing", "sending", "unsent", "discarding"}
          => client.state = "connecting"
    /\ At(c, "backing") => client.state = "backoff"
    /\ At(c, "noticing") => client.state \in {"connecting", "ready"} /\ client.recv = c
    /\ At(c, "judging") => client.state = "blocked" /\ client.blocked
    /\ At(c, "sleeping") => /\ client.timer = c
                            /\ \/ client.state = "backoff"
                               \/ client.state = "blocked" /\ client.blocked
    /\ At(c, "idle") => \/ client.state = "idle"
                        \/ client.state = "blocked" /\ client.blocked /\ ~opts.reconnect

SoleActor(c) == \A b \in Actors \ {c} : At(b, "idle")

\* Nobody will ever act again.
Left == FlushMissed /\ client.state # "idle" /\ \A a \in Actors : At(a, "idle")

Told ==
    Plain => /\ \A a \in Actors : task[a].then = "idle"
             /\ Left \/ \E c \in Actors : SoleActor(c) /\ Says(c)

\* The task that acts is the one whose step it is.
LEMMA ActsAlone ==
    ASSUME Told, Plain, NEW a \in Actors, ~At(a, "idle")
    PROVE  SoleActor(a) /\ Says(a)
BY DEF Told, Left, SoleActor

\* A return is to rest.
LEMMA ToldReturn ==
    ASSUME Told, Plain, NEW a \in Actors
    PROVE  Return(a) = Resting
BY DEF Told, Return, Resting

\* One task moves on, and the state it publishes is the truth.
LEMMA ToldMoved ==
    ASSUME Told, Plain, TypeOK, NEW a \in Actors, SoleActor(a), NEW p \in PCs,
           task' = [task EXCEPT ![a].pc = p], Says(a)'
    PROVE  Told'
<1>1. /\ \A b \in Actors \ {a} : task'[b] = task[b]
      /\ task'[a].then = task[a].then
  BY DEF TypeOK, Tasks
<1>2. SoleActor(a)'
  BY <1>1 DEF SoleActor, At
<1>3. \A b \in Actors : task'[b].then = "idle"
  BY <1>1 DEF Told
<1> QED  BY <1>2, <1>3 DEF Told

\* An attempt of connect() is published by the state "connecting".
LEMMA ToldAttempt ==
    ASSUME Told, Plain, SInv, opts' = opts, NEW a \in Actors \ {"stop"}, SoleActor(a),
           client.timer \in {None, a}, Attempt(a, "idle")
    PROVE  Told'
<1>0. TypeOK
  BY DEF SInv, IInv
<1>1. \A b \in Actors \ {a} : task'[b] = task[b]
  BY <1>0 DEF Attempt
<1>2. task'[a].pc = "opening" /\ task'[a].then = "idle"
  BY DEF Attempt
<1>3. /\ client'.ws = None /\ client'.timer = None /\ client'.state = "connecting"
      /\ client'.connecting
  BY <1>0 DEF Attempt, CanConnect, TypeOK, Clients
<1>4. Says(a)'
  BY <1>2, <1>3 DEF Says, At, InLoop, LoopPcs, Carrying, SockPcs
<1>5. SoleActor(a)'
  BY <1>1 DEF SoleActor, At
<1>6. \A b \in Actors : task'[b].then = "idle"
  BY <1>1, <1>2 DEF Told
<1> QED  BY <1>4, <1>5, <1>6 DEF Told

\* A timer takes over, and the state is the one it was armed with.
LEMMA ToldArmed ==
    ASSUME Told, Plain, TypeOK, NEW a \in Actors, SoleActor(a), ~At(a, "idle"),
           ~client.connecting, client.ws = None,
           NEW t \in IdleTimers, task' = [task EXCEPT ![a] = Return(a), ![t].pc = "sleeping"],
           client'.connecting = client.connecting, client'.ws = client.ws, client'.timer = t,
           client'.state = "backoff" \/ (client'.state = "blocked" /\ client'.blocked)
    PROVE  Told'
<1>1. t \in Actors /\ t # a
  BY DEF IdleTimers
<1>2. /\ task'[a] = Resting /\ task'[t].pc = "sleeping" /\ task'[t].then = "idle"
      /\ \A b \in Actors \ {a, t} : task'[b] = task[b]
  <2>1. task' = [task EXCEPT ![a] = Resting, ![t].pc = "sleeping"]
    BY ToldReturn
  <2> QED  BY <1>1, <2>1 DEF TypeOK, Tasks, Told
<1>3. SoleActor(t)'
  <2>1. ASSUME NEW b \in Actors \ {t}  PROVE task'[b].pc = "idle"
    <3>1. CASE b = a
      <4>1. Resting.pc = "idle"
        BY DEF Resting
      <4> QED  BY <1>2, <3>1, <4>1
    <3>2. CASE b # a
      <4>1. At(b, "idle")
        BY <3>2 DEF SoleActor
      <4>2. task'[b] = task[b]
        BY <1>2, <3>2
      <4> QED  BY <4>1, <4>2 DEF At
    <3> QED  BY <3>1, <3>2
  <2> QED  BY <2>1 DEF SoleActor, At
<1>4. Says(t)'
  BY <1>2 DEF Says, At, InLoop, LoopPcs, Carrying, SockPcs
<1>5. ASSUME NEW b \in Actors  PROVE task'[b].then = "idle"
  <2>1. CASE b = a
    BY <1>2, <2>1 DEF Resting
  <2>2. CASE b # a
    BY <1>2, <2>2 DEF Told
  <2> QED  BY <2>1, <2>2
<1> QED  BY <1>1, <1>3, <1>4, <1>5 DEF Told

\* A task that returns leaves the client at rest.
LEMMA ToldReturned ==
    ASSUME Told, Plain, TypeOK, NEW a \in Actors, SoleActor(a),
           task' = [task EXCEPT ![a] = Return(a)],
           ~client'.connecting, client'.ws = None, client'.timer = None,
           \/ client'.state = "idle"
           \/ client'.state = "blocked" /\ client'.blocked /\ ~opts'.reconnect
    PROVE  Told'
<1>1. task'[a] = Resting /\ \A b \in Actors \ {a} : task'[b] = task[b]
  BY ToldReturn DEF TypeOK
<1>2. SoleActor(a)'
  BY <1>1 DEF SoleActor, At
<1>3. Says(a)'
  BY <1>1 DEF Says, At, InLoop, LoopPcs, Carrying, SockPcs, Resting
<1>4. \A b \in Actors : task'[b].then = "idle"
  BY <1>1 DEF Told, Resting
<1> QED  BY <1>2, <1>3, <1>4 DEF Told

\* _schedule_reconnect publishes the backoff, or that there is none.
LEMMA ToldBackoff ==
    ASSUME Told, Plain, TypeOK, opts' = opts, NEW a \in Actors, Backoff(a),
           task[a].pc \in {"failing", "discarding", "noticing"}
    PROVE  Told'
<1>1. SoleActor(a) /\ Says(a) /\ ~At(a, "idle")
  BY ActsAlone DEF At
<1>2. /\ client.ws = None /\ ~client.connecting /\ client.timer = None
      /\ client.state \in {"connecting", "ready"}
  BY <1>1 DEF Says, InLoop, LoopPcs, Carrying, At
<1>3. ~Superseded
  BY <1>2 DEF Superseded, Plain
<1>4. CASE /\ ~opts.reconnect
           /\ client' = [client EXCEPT !.state = IF @ = "blocked" THEN @ ELSE "idle"]
           /\ task' = [task EXCEPT ![a] = Return(a)]
  <2>1. ~client'.connecting /\ client'.ws = None /\ client'.timer = None /\ client'.state = "idle"
    BY <1>2, <1>4 DEF TypeOK, Clients
  <2> QED  BY <1>1, <1>4, <2>1, ToldReturned
<1>5. ASSUME NEW t \in IdleTimers, Arm(a, t)  PROVE Told'
  <2>1. /\ client'.connecting = client.connecting /\ client'.ws = client.ws /\ client'.timer = t
        /\ client'.state = "backoff"
    BY <1>5 DEF Arm, TypeOK, Clients
  <2> QED  BY <1>1, <1>2, <1>5, <2>1, ToldArmed DEF Arm
<1>6. CASE /\ client' = [client EXCEPT !.state = "backoff"]
           /\ task' = [task EXCEPT ![a].pc = "backing"]
  <2>1. /\ client'.connecting = client.connecting /\ client'.ws = None /\ client'.timer = None
        /\ client'.state = "backoff"
    BY <1>2, <1>6 DEF TypeOK, Clients
  <2>2. task'[a].pc = "backing"
    BY <1>6 DEF TypeOK, Tasks
  <2>3. Says(a)'
    BY <1>2, <2>1, <2>2 DEF Says, At, InLoop, LoopPcs, Carrying, SockPcs
  <2> QED  BY <1>1, <1>6, <2>3, ToldMoved DEF PCs
<1> QED  BY <1>2, <1>3, <1>4, <1>5, <1>6 DEF Backoff

\* The steps of connect()
LEMMA ToldConnectStep ==
    ASSUME Told, Plain, LInv, NEW a \in Actors, ConnectStep(a), Plain'
    PROVE  Told'
<1>0. TypeOK /\ SInv /\ opts' = opts
  BY DEF LInv, SInv, IInv, ConnectStep, OpenFails, OpenSucceeds, HelloSent, HelloFails, GiveUp,
         BackOff, Armed
<1>1. ~At(a, "idle")
  BY DEF ConnectStep, OpenFails, OpenSucceeds, HelloSent, HelloFails, GiveUp, BackOff, Armed, At
<1>2. SoleActor(a) /\ Says(a)
  BY <1>1, ActsAlone
<1>3. CASE OpenFails(a)
  <2>1. task' = [task EXCEPT ![a].pc = "failing"]
    BY <1>3 DEF OpenFails
  <2>2. task'[a].pc = "failing"
    BY <1>0, <2>1 DEF TypeOK, Tasks
  <2>3. /\ ~client'.connecting /\ client'.ws = client.ws /\ client'.timer = client.timer
        /\ client'.state = client.state
    BY <1>0, <1>3 DEF OpenFails, TypeOK, Clients
  <2>4. Says(a)'
    BY <1>2, <1>3, <2>2, <2>3 DEF OpenFails, Says, At, InLoop, LoopPcs, Carrying, SockPcs
  <2> QED  BY <1>0, <1>2, <2>1, <2>4, ToldMoved DEF PCs
<1>4. ASSUME NEW s \in Socks, OpenSucceeds(a, s)  PROVE Told'
  <2>1. Adopt(a, s)
    BY <1>4 DEF Plain, OpenSucceeds, AdoptOrDrop
  <2>2. task'[a].pc = "sending" /\ task'[a].s = s /\ task'[a].then = task[a].then
        /\ \A b \in Actors \ {a} : task'[b] = task[b]
    BY <1>0, <2>1 DEF Adopt, TypeOK, Tasks
  <2>3. /\ ~client'.connecting /\ client'.ws = s /\ client'.timer = client.timer
        /\ client'.state = client.state
    BY <1>0, <2>1 DEF Adopt, Adopted, TypeOK, Clients
  <2>4. Says(a)'
    BY <1>2, <1>4, <2>2, <2>3 DEF OpenSucceeds, Says, At, InLoop, LoopPcs, Carrying, SockPcs
  <2>5. SoleActor(a)' /\ \A b \in Actors : task'[b].then = "idle"
    BY <1>2, <2>2 DEF SoleActor, Told, At
  <2> QED  BY <2>4, <2>5 DEF Told
<1>5. CASE HelloSent(a)
  <2>1. Carrying(a)
    BY <1>5 DEF HelloSent, Carrying, At
  <2>2. PICK s \in Socks : s = task[a].s /\ At(s, "idle") /\ s # a
    BY <1>0, <2>1, HeldIsIdle DEF Carrying, At
  <2>3. /\ task'[a] = Resting /\ task'[s].pc = "starting" /\ task'[s].then = "idle"
        /\ \A b \in Actors \ {a, s} : task'[b] = task[b]
    <3>1. task' = [task EXCEPT ![a] = Resting, ![s].pc = "starting"]
      BY <1>5, <2>2, ToldReturn DEF HelloSent
    <3> QED  BY <1>0, <2>2, <3>1 DEF TypeOK, Tasks, Told
  <2>4. /\ client'.connecting = client.connecting /\ client'.ws = client.ws
        /\ client'.timer = client.timer /\ client'.state = client.state
        /\ client'.auth = client.auth
    BY <1>0, <1>5 DEF HelloSent, TypeOK, Clients
  <2>5. ~client.auth
    <3>1. Current(s) /\ ~InLoop(s)
      BY <2>1, <2>2 DEF Current, InLoop, LoopPcs, At
    <3>2. s \notin helloed
      BY <3>1 DEF LInv, FlagsAreOwn
    <3> QED  BY <3>1, <3>2 DEF LInv, FlagsAreOwn
  <2>6. client.ws = s /\ client.state = "connecting" /\ client.timer = None /\ ~client.connecting
    BY <1>2, <1>5, <2>1, <2>2 DEF HelloSent, Says, At
  <2>7. Says(s)'
    BY <2>3, <2>4, <2>5, <2>6 DEF Says, At, InLoop, LoopPcs, Carrying, SockPcs
  <2>8. SoleActor(s)' /\ \A b \in Actors : task'[b].then = "idle"
    BY <1>2, <2>3 DEF SoleActor, Told, At, Resting
  <2> QED  BY <2>7, <2>8 DEF Told
<1>6. CASE HelloFails(a)
  <2>1. task' = [task EXCEPT ![a].pc = "unsent"] /\ client' = client
    BY <1>6 DEF HelloFails
  <2>2. task'[a].pc = "unsent" /\ task'[a].s = task[a].s
    BY <1>0, <2>1 DEF TypeOK, Tasks
  <2>3. Says(a)'
    BY <1>2, <1>6, <2>1, <2>2 DEF HelloFails, Says, At, InLoop, LoopPcs, Carrying, SockPcs
  <2> QED  BY <1>0, <1>2, <2>1, <2>3, ToldMoved DEF PCs
<1>7. CASE GiveUp(a)
  <2>1. task' = [task EXCEPT ![a].pc = "discarding"]
    BY <1>7 DEF GiveUp
  <2>2. task'[a].pc = "discarding"
    BY <1>0, <2>1 DEF TypeOK, Tasks
  <2>3. /\ client'.connecting = client.connecting /\ client'.ws = None
        /\ client'.timer = client.timer /\ client'.state = client.state
    BY <1>0, <1>7 DEF GiveUp, TypeOK, Clients
  <2>4. Says(a)'
    BY <1>2, <1>7, <2>2, <2>3 DEF GiveUp, Says, At, InLoop, LoopPcs, Carrying, SockPcs
  <2> QED  BY <1>0, <1>2, <2>1, <2>4, ToldMoved DEF PCs
<1>8. CASE BackOff(a)
  BY <1>0, <1>8, ToldBackoff DEF BackOff
<1>9. CASE Armed(a)
  <2>1. /\ client.ws = None /\ ~client.connecting /\ client.state = "backoff" /\ ~Superseded
    BY <1>2, <1>9 DEF Armed, Says, InLoop, LoopPcs, Carrying, At, Superseded, Plain
  <2>2. PICK t \in IdleTimers :
           /\ client' = [client EXCEPT !.timer = t]
           /\ task' = [task EXCEPT ![a] = Return(a), ![t].pc = "sleeping"]
    BY <1>9, <2>1 DEF Armed
  <2>3. /\ client'.connecting = client.connecting /\ client'.ws = client.ws /\ client'.timer = t
        /\ client'.state = "backoff"
    BY <1>0, <2>1, <2>2 DEF TypeOK, Clients
  <2> QED  BY <1>0, <1>1, <1>2, <2>1, <2>2, <2>3, ToldArmed
<1> QED  BY <1>3, <1>4, <1>5, <1>6, <1>7, <1>8, <1>9 DEF ConnectStep

\* The steps of a recv loop
LEMMA ToldRecvStep ==
    ASSUME Told, Plain, LInv, NEW s \in Socks, RecvStep(s) \/ HelloOk(s) \/ SweepMisses(s), Plain'
    PROVE  Told'
<1>0. TypeOK /\ SInv /\ s \in Actors \ {"stop"} /\ opts' = opts
  BY DEF LInv, SInv, IInv, RecvStep, RecvStarts, HelloOk, SweepMisses, SocketErrs, SocketEnds,
         Greeted, Closed, RetryArmed
<1>1. ~At(s, "idle")
  BY DEF RecvStep, RecvStarts, HelloOk, SweepMisses, SocketErrs, SocketEnds, Greeted, Closed,
         RetryArmed, At
<1>2. SoleActor(s) /\ Says(s)
  BY <1>1, ActsAlone
<1>3. CASE RecvStarts(s) \/ SocketErrs(s) \/ Greeted(s) \/ HelloOk(s) \/ SweepMisses(s)
  <2>1. InLoop(s) /\ client.ws = s
    BY <1>2, <1>3
       DEF RecvStarts, SocketErrs, Greeted, HelloOk, SweepMisses, InLoop, LoopPcs, At, Says
  <2>2. PICK p \in LoopPcs : task' = [task EXCEPT ![s].pc = p]
    BY <1>3, <2>1 DEF RecvStarts, SocketErrs, Greeted, HelloOk, SweepMisses, LoopPcs
  <2>3. task'[s].pc = p
    BY <1>0, <2>2 DEF TypeOK, Tasks
  <2>4. client' = client \/ client' = Welcomed \/ client' = [client EXCEPT !.lv = s]
    BY <1>3 DEF RecvStarts, SocketErrs, Greeted, HelloOk, SweepMisses
  <2>5. /\ client'.connecting = client.connecting /\ client'.ws = client.ws
        /\ client'.timer = client.timer
        /\ \/ /\ client'.state = client.state /\ client'.auth = client.auth
              /\ client'.blocked = client.blocked
           \/ client'.state = "ready" /\ client'.auth /\ ~client'.blocked
    BY ZenonT(60), <1>0, <2>4 DEF Welcomed, TypeOK, Clients
  <2>6. /\ ~client.connecting /\ client.timer = None
        /\ client.state = IF client.auth THEN "ready" ELSE "connecting"
        /\ client.auth => ~client.blocked
    BY <1>2, <2>1 DEF Says, InLoop, LoopPcs, At
  <2>7. Says(s)'
    BY <2>1, <2>3, <2>5, <2>6 DEF Says, At, InLoop, LoopPcs, Carrying, SockPcs
  <2>8. p \in PCs
    BY DEF LoopPcs, PCs
  <2> QED  BY <1>0, <1>2, <2>2, <2>7, <2>8, ToldMoved
<1>4. CASE SocketEnds(s)
  <2>1. task' = [task EXCEPT ![s].pc = "noticing"] /\ InLoop(s)
    BY <1>4 DEF SocketEnds, InLoop, LoopPcs, At
  <2>2. task'[s].pc = "noticing"
    BY <1>0, <2>1 DEF TypeOK, Tasks
  <2>3. /\ client'.connecting = client.connecting /\ client'.timer = client.timer
        /\ client'.state = client.state /\ client'.recv = client.recv
        /\ client'.ws = IF client.ws = s THEN None ELSE client.ws
    BY <1>0, <1>4 DEF SocketEnds, AfterClose, TypeOK, Clients
  <2>4. client.recv = s
    <3>1. At("stop", "idle")
      BY <1>0 DEF Plain, SInv, Exclusive, StopRole
    <3> QED  BY <2>1, <3>1 DEF LInv, LoopIsKnown, At
  <2>5. Says(s)'
    BY <1>2, <2>1, <2>2, <2>3, <2>4 DEF Says, At, InLoop, LoopPcs, Carrying, SockPcs
  <2> QED  BY <1>0, <1>2, <2>1, <2>5, ToldMoved DEF PCs
<1>5. CASE Closed(s)
  <2>1. CASE EnterBlocked(s)
    <3>1. task' = [task EXCEPT ![s].pc = "judging"]
      BY <2>1 DEF EnterBlocked
    <3>2. task'[s].pc = "judging"
      BY <1>0, <3>1 DEF TypeOK, Tasks
    <3>3. /\ client'.connecting = client.connecting /\ client'.timer = client.timer
          /\ client'.state = "blocked" /\ client'.blocked /\ client'.ws = client.ws
      BY <1>0, <2>1 DEF EnterBlocked, TypeOK, Clients
    <3>4. Says(s)'
      BY <1>2, <1>5, <3>2, <3>3 DEF Closed, Says, At, InLoop, LoopPcs, Carrying, SockPcs
    <3> QED  BY <1>0, <1>2, <3>1, <3>4, ToldMoved DEF PCs
  <2>2. CASE Backoff(s)
    BY <1>0, <1>5, <2>2, ToldBackoff DEF Closed, At
  <2>3. CASE FlushMisses(s)
    <3>1. client' = client /\ halted' = halted \cup {s} /\ opts.suspends /\ opts.receipt
      BY <2>3 DEF FlushMisses
    <3>2. client.recv = s /\ client.state # "idle"
      BY <1>2, <1>5 DEF Closed, Says, At
    <3>3. task'[s] = Resting /\ \A b \in Actors \ {s} : task'[b] = task[b]
      BY <1>0, <2>3, ToldReturn DEF FlushMisses, TypeOK
    <3>4. Left'
      BY <1>0, <1>2, <3>1, <3>2, <3>3 DEF Left, FlushMissed, SoleActor, At, Resting
    <3>5. \A b \in Actors : task'[b].then = "idle"
      BY <3>3 DEF Told, Resting
    <3> QED  BY <3>4, <3>5 DEF Told
  <2> QED  BY <1>5, <2>1, <2>2, <2>3 DEF Closed, Concludes, Plain
<1>6. CASE RetryArmed(s)
  <2>1. /\ client.ws = None /\ ~client.connecting /\ client.state = "blocked" /\ client.blocked
        /\ client.timer = None /\ ~Superseded
    BY <1>2, <1>6 DEF RetryArmed, Says, InLoop, LoopPcs, Carrying, At, Superseded, Plain
  <2>2. CASE ~opts.reconnect /\ client' = client /\ task' = [task EXCEPT ![s] = Return(s)]
    BY <1>0, <1>2, <2>1, <2>2, ToldReturned
  <2>3. ASSUME NEW t \in IdleTimers \cup ({client.timer} \ {None}),
               client' = [client EXCEPT !.timer = t],
               task' = [b \in Actors |->
                          CASE b = s -> Return(s)
                            [] b = t -> [Resting EXCEPT !.pc = "sleeping"]
                            [] b = client.timer /\ b # t -> Resting
                            [] OTHER -> task[b]]
        PROVE  Told'
    <3>1. t \in IdleTimers /\ t # s
      BY <1>1, <2>1, <2>3 DEF IdleTimers
    <3>2. /\ client'.connecting = client.connecting /\ client'.ws = client.ws
          /\ client'.timer = t /\ client'.state = "blocked" /\ client'.blocked
      BY <1>0, <2>1, <2>3 DEF TypeOK, Clients
    <3>3. /\ task'[s] = Resting /\ task'[t] = [Resting EXCEPT !.pc = "sleeping"]
          /\ \A b \in Actors \ {s, t} : task'[b] = task[b]
      BY <1>0, <2>1, <2>3, <3>1, ToldReturn DEF IdleTimers
    <3>4. t \in Actors
      BY <3>1 DEF IdleTimers
    <3>5. Says(t)'
      BY <2>1, <3>2, <3>3 DEF Says, At, InLoop, LoopPcs, Carrying, SockPcs, Resting
    <3>6. SoleActor(t)' /\ \A b \in Actors : task'[b].then = "idle"
      BY <1>2, <3>3, <3>4 DEF SoleActor, Told, At, Resting
    <3> QED  BY <3>4, <3>5, <3>6 DEF Told
  <2> QED  BY <1>6, <2>1, <2>2, <2>3 DEF RetryArmed
<1> QED  BY <1>3, <1>4, <1>5, <1>6 DEF RecvStep

\* Every step publishes what it does.
LEMMA ToldNext == LInv /\ Told /\ [Next]_vars => Told'
<1> SUFFICES ASSUME LInv, Told, [Next]_vars, Plain'  PROVE Told'
  BY DEF Told
<1>0. TypeOK /\ SInv /\ opts' = opts
  <2>1. opts' = opts
    BY DEF Next, vars, ConnectCall, CallerCancelled, StopBegins, StopStep, StopCollects, StopFails,
           StopCloses, StopClosed, StopReleases, ConnectStep, OpenFails, OpenSucceeds,
           HelloSent, HelloFails, GiveUp, BackOff, Armed, TimerFires, RecvStep, RecvStarts,
           SweepMisses, SocketErrs, SocketEnds, Greeted, Closed, RetryArmed, HelloOk, HandlerConnects,
           ServerCloses, HandshakeExpires, HandshakeTrips, LivenessExpires, LivenessTrips,
           CloserStarts
  <2> QED  BY <2>1 DEF LInv, SInv, IInv
<1>1. client.disposed => client'.disposed
  <2>1. Apart => (client.disposed => client'.disposed)
    BY DEF Apart, SameFlags
  <2>2. Touches => (client.disposed => client'.disposed)
    <3>1. ASSUME NEW a \in Actors, Adopts(a) \/ HelloSent(a) \/ GiveUp(a)
          PROVE  client'.disposed = client.disposed
      BY ZenonT(60), <1>0, <3>1 DEF Adopts, Adopt, Adopted, HelloSent, GiveUp, TypeOK, Clients
    <3>2. ASSUME NEW s \in Socks, RecvStarts(s) \/ HelloOk(s) \/ Greeted(s) \/ SocketEnds(s)
          PROVE  client'.disposed = client.disposed
      BY ZenonT(60), <1>0, <3>2
         DEF RecvStarts, HelloOk, Welcomed, Greeted, SocketEnds, AfterClose, TypeOK, Clients
    <3>3. ASSUME NEW s \in Socks,
                 \/ HandshakeExpires(s) \/ HandshakeTrips(s) \/ LivenessExpires(s)
                 \/ LivenessTrips(s) \/ CloserStarts(s) \/ ServerCloses(s)
          PROVE  client'.disposed = client.disposed
      BY <1>0, <3>3
         DEF HandshakeExpires, HandshakeTrips, LivenessExpires, LivenessTrips, CloserStarts,
             ServerCloses, TypeOK, Clients
    <3>4. ASSUME StopBegins \/ StopStep  PROVE client.disposed => client'.disposed
      BY ZenonT(60), <1>0, <3>4
         DEF StopBegins, StopStep, StopCollects, StopFails, StopCloses, StopClosed, StopReleases,
             TypeOK, Clients
    <3> QED  BY <3>1, <3>2, <3>3, <3>4 DEF Touches
  <2> QED  BY <2>1, <2>2, ApartNext
<1>2. Plain
  BY <1>0, <1>1 DEF Plain
<1>3. Left \/ \E c \in Actors : SoleActor(c) /\ Says(c)
  BY <1>2 DEF Told
<1>4. CASE ConnectCall
  <2>1. client.state = "idle" /\ At("app", "idle") /\ Attempt("app", "idle")
    BY <1>2, <1>4 DEF ConnectCall, Plain
  <2>. PICK c \in Actors : SoleActor(c) /\ Says(c)
    BY <1>3, <2>1 DEF Left
  <2>2. At(c, "idle")
    BY <2>1 DEF Says, SockPcs, LoopPcs, InLoop, At
  <2>3. SoleActor("app") /\ client.timer = None
    BY <2>1, <2>2 DEF SoleActor, Says, At
  <2> QED  BY <1>0, <1>2, <2>1, <2>3, ToldAttempt
<1>5. CASE StopBegins
  BY <1>0, <1>5 DEF StopBegins, Plain, TypeOK, Clients
<1>6. CASE StopStep
  <2>1. client.disposed
    BY <1>0, <1>6
       DEF SInv, Exclusive, StopRole, StopStep, StopCollects, StopFails, StopCloses, StopClosed,
           StopReleases, At
  <2> QED  BY <1>2, <2>1 DEF Plain
<1>7. ASSUME NEW a \in Actors, ConnectStep(a)  PROVE Told'
  BY <1>2, <1>7, ToldConnectStep
<1>8. ASSUME NEW t \in Timers, TimerFires(t)  PROVE Told'
  <2>1. At(t, "sleeping")
    BY <1>8 DEF TimerFires
  <2>2. SoleActor(t) /\ Says(t)
    BY <1>2, <2>1, ActsAlone DEF At
  <2>3. ~client.connecting /\ client.ws = None /\ client.timer = t
    BY <2>1, <2>2 DEF Says, InLoop, LoopPcs, Carrying, At
  <2>4. CanConnect(t)
    BY <1>0, <1>2, <2>2, <2>3 DEF CanConnect, SoleActor, Plain, TypeOK, Clients
  <2>5. Attempt(t, "idle")
    BY <1>8, <2>4 DEF TimerFires
  <2> QED  BY <1>0, <1>2, <2>2, <2>3, <2>5, ToldAttempt
<1>9. ASSUME NEW s \in Socks, RecvStep(s) \/ HelloOk(s) \/ SweepMisses(s)  PROVE Told'
  BY <1>2, <1>9, ToldRecvStep
<1>10. ASSUME NEW s \in Socks, HandlerConnects(s)  PROVE Told'
  BY <1>2, <1>10 DEF HandlerConnects, Plain
<1>11. CASE CallerCancelled
  BY <1>2, <1>11 DEF CallerCancelled, Plain
<1>12. ASSUME task' = task, halted' = halted,
              client' = client \/ client' = [client EXCEPT !.flag = TRUE]
       PROVE  Told'
  <2>1. /\ client'.connecting = client.connecting /\ client'.ws = client.ws
        /\ client'.timer = client.timer /\ client'.state = client.state
        /\ client'.auth = client.auth /\ client'.blocked = client.blocked
        /\ client'.recv = client.recv
    BY <1>0, <1>12 DEF TypeOK, Clients
  <2>2. ASSUME NEW c \in Actors, SoleActor(c), Says(c)  PROVE SoleActor(c)' /\ Says(c)'
    BY <1>0, <1>12, <2>1, <2>2 DEF SoleActor, Says, At, InLoop, Carrying
  <2>3. Left => Left'
    BY <1>0, <1>12, <2>1 DEF Left, FlushMissed, At
  <2> QED  BY <1>2, <1>3, <1>12, <2>2, <2>3 DEF Told
<1>13. ASSUME NEW s \in Socks,
              \/ HandshakeExpires(s) \/ HandshakeTrips(s) \/ LivenessExpires(s)
              \/ LivenessTrips(s) \/ CloserStarts(s) \/ ServerCloses(s)
       PROVE  Told'
  BY <1>12, <1>13
     DEF HandshakeExpires, HandshakeTrips, LivenessExpires, LivenessTrips, CloserStarts,
         ServerCloses, Close, history
<1>14. CASE UNCHANGED vars
  BY <1>12, <1>14 DEF vars, history
<1> QED  BY <1>4, <1>5, <1>6, <1>7, <1>8, <1>9, <1>10, <1>11, <1>13, <1>14 DEF Next

\* RealtimeState is the truth at rest, if nobody but the client reconnects:
\* "ready" has a welcomed socket and is not blocked, "backoff" and "blocked"
\* have the timer they promise, "idle" has neither.  A flush that missed a
\* frame is excepted: it leaves the state of the socket before.
THEOREM PublishedStateIsTrue == Spec => []StateIsHonest
<1>1. Init => Told
  <2> SUFFICES ASSUME Init  PROVE Told
    OBVIOUS
  <2>1. \A a \in Actors : task[a].pc = "idle" /\ task[a].then = "idle"
    BY DEF Init, Resting
  <2>2. /\ ~client.connecting /\ client.ws = None /\ client.timer = None /\ client.state = "idle"
    BY DEF Init
  <2>3. SoleActor("app") /\ Says("app")
    BY <2>1, <2>2 DEF SoleActor, Says, At, InLoop, LoopPcs, Carrying, SockPcs
  <2> QED  BY <2>1, <2>3 DEF Told
<1>2. LInv /\ Told /\ [Next]_vars => Told'
  BY ToldNext
<1>3. LInv /\ Told => StateIsHonest
  <2> SUFFICES ASSUME LInv, Told, Quiet, Plain, ~FlushMissed  PROVE StateMeans
    BY DEF StateIsHonest, Plain
  <2>0. TypeOK /\ task["stop"].pc = "idle"
    BY DEF LInv, SInv, IInv, Exclusive, StopRole, Plain, At
  <2>1. PICK c \in Actors : SoleActor(c) /\ Says(c)
    BY DEF Told, Left
  <2>2. CASE At(c, "reading")
    <3>1. client.ws = c /\ c # None
      BY <2>1, <2>2 DEF Says, InLoop, LoopPcs, At
    <3>2. client.state = (IF client.auth THEN "ready" ELSE "connecting")
          /\ (client.auth => ~client.blocked)
      BY <2>1, <2>2 DEF Says, InLoop, LoopPcs, At
    <3> QED  BY <3>1, <3>2 DEF StateMeans
  <2>3. CASE At(c, "sleeping")
    <3>1. /\ client.ws = None /\ client.timer = c
          /\ \/ client.state = "backoff"
             \/ client.state = "blocked" /\ client.blocked
      BY <2>1, <2>3 DEF Says, InLoop, LoopPcs, Carrying, At
    <3>2. TimerPending
      <4>1. c \in Timers
        BY <2>0, <3>1 DEF TypeOK, Clients
      <4> QED  BY <2>3, <3>1, <4>1 DEF TimerPending
    <3> QED  BY <3>1, <3>2 DEF StateMeans
  <2>4. CASE At(c, "idle")
    <3>1. /\ client.ws = None /\ client.timer = None
          /\ \/ client.state = "idle"
             \/ client.state = "blocked" /\ client.blocked /\ ~opts.reconnect
      BY <2>1, <2>4 DEF Says, InLoop, LoopPcs, Carrying, At
    <3>2. ~TimerPending
      BY <3>1 DEF TimerPending
    <3> QED  BY <3>1, <3>2 DEF StateMeans
  <2>5. task[c].pc \in {"idle", "sleeping", "reading"}
    BY <2>1 DEF Quiet, Says, SockPcs, LoopPcs
  <2> QED  BY <2>2, <2>3, <2>4, <2>5 DEF At
<1> QED  BY <1>1, <1>2, <1>3, LoopInvariant, PTL DEF Spec

=============================================================================
