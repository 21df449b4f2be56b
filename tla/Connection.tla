----------------------------- MODULE Connection -----------------------------
(***************************************************************************)
(* The connection lifecycle of one RealtimeClient: connect() and its       *)
(* HELLO, the recv loop and its close handling, the handshake and liveness *)
(* watchdogs, the backoff and blocked-retry timer, and disconnect().       *)
(*                                                                         *)
(* Every asyncio task is an actor.  A step of an actor runs from one       *)
(* suspension to the next; user handlers may suspend, so each notification *)
(* (on_error, on_disconnect, on("state"), on("blocked")) is a suspension.  *)
(* A recv loop is named after its socket, and so are the watchdogs that    *)
(* guard the socket and the task spawned to close it.                      *)
(*                                                                         *)
(* Delays, the attempt counter and the stability timer that clears it only *)
(* decide how long a timer sleeps: they are in Backoff.                    *)
(***************************************************************************)
EXTENDS Integers, FiniteSets

CONSTANTS
    Socks,      \* bound: identities of sockets; one is used again when free
    Timers,     \* bound: identities of reconnect timers
    None,       \* Python's None
    Options     \* the options a client may be created with

ASSUME IdentitiesAssumption ==
    /\ Socks # {} /\ Timers # {}
    /\ Socks \cap Timers = {}
    /\ {"app", "stop"} \cap (Socks \cup Timers) = {}
    /\ None \notin Socks \cup Timers \cup {"app", "stop"}

\* reconnect: the option; recalls: the application may call connect() again
\* at any time; cancels: it may cancel the task in which it does; reopens: the
\* user's on_disconnect and on("state") handlers may call it; suspends: its
\* message handlers may suspend, so that two sweeps of one buffer can meet and
\* one of them look for a frame the other took (a KeyError: see Delivery);
\* receipt: the option ack_on_receipt
ASSUME OptionsAssumption ==
    Options # {} /\ Options \subseteq
        [reconnect : BOOLEAN, recalls : BOOLEAN, cancels : BOOLEAN, reopens : BOOLEAN,
         suspends : BOOLEAN, receipt : BOOLEAN]

Actors == {"app", "stop"} \cup Timers \cup Socks

VARIABLES
    opts,      \* the options of this client
    client,    \* the fields of the RealtimeClient
    task,      \* the asyncio tasks: program counter and locals
    watch,     \* per socket: its two watchdogs and its spawned close
    sock,      \* per socket: "open", "closing", or how it ended
    verdict,   \* per recv loop: the locals `ours` and `not handshake_done`
    owned,     \* the tasks disconnect() will cancel
    begun,     \* history: sockets this client began to close
    helloed,   \* history: sockets that carried a hello.ok
    cut,       \* history: sockets whose recv loop a missed frame ended
    halted     \* history: recv loops that a missed frame in their flush ended,
               \* since a socket was adopted

history == <<begun, helloed, cut, halted>>
vars == <<opts, client, task, watch, sock, verdict, owned, history>>

Ended == {"closing", "rejected", "dropped"}

Resting == [pc |-> "idle", s |-> None, then |-> "idle"]
Unwatched == [hs |-> "off", lv |-> "off", closer |-> FALSE]
NoVerdict == [ours |-> FALSE, early |-> FALSE]
NothingOwned == [timer |-> None, hs |-> None, lv |-> None, closers |-> {}]

Init ==
    /\ opts \in Options
    /\ client = [state |-> "idle", disposed |-> FALSE, connecting |-> FALSE,
                 ws |-> None, auth |-> FALSE, flag |-> FALSE, blocked |-> FALSE,
                 recv |-> None, timer |-> None, hs |-> None, lv |-> None]
    /\ task = [a \in Actors |-> Resting]
    /\ watch = [s \in Socks |-> Unwatched]
    /\ sock = [s \in Socks |-> "dropped"]
    /\ verdict = [s \in Socks |-> NoVerdict]
    /\ owned = NothingOwned
    /\ begun = {} /\ helloed = {}
    /\ cut = {} /\ halted = {}

At(a, pc) == task[a].pc = pc

\* The call an actor is in returns to its caller.
Return(a) == [Resting EXCEPT !.pc = task[a].then]

----------------------------------------------------------------------------
(* connect() *)

\* Mutant: a finished recv task still counts as a live socket.
CanConnectWhenUnused(a) ==
    /\ ~client.disposed
    /\ ~client.connecting
    /\ client.ws = None
    /\ client.recv \in {None, a}

\* A finished recv task in the slot is no obstacle, and neither is the recv
\* loop in whose handler the caller runs.
CanConnect(a) ==
    /\ ~client.disposed
    /\ ~client.connecting
    /\ client.ws = None
    /\ client.recv \in {None, a} \cup {s \in Socks : At(s, "idle")}

\* From the guard to the open: what the state handlers and the transport take
\* is one suspension, for nothing is read or written between them.  A timer that rang has cleared the slot
\* before, so it cancels no other.
Attempt(a, then) ==
    /\ CanConnect(a)
    /\ client' = [client EXCEPT !.timer = None, !.connecting = TRUE,
                                !.state = "connecting"]
    /\ task' = [b \in Actors |->
                  CASE b = a -> [pc |-> "opening", s |-> None, then |-> then]
                    [] b = client.timer /\ b # a /\ a \notin Timers -> Resting
                    [] OTHER -> task[b]]

\* The application calls connect().
ConnectCall ==
    /\ At("app", "idle")
    /\ opts.recalls \/ client.state = "idle"
    /\ Attempt("app", "idle")
    /\ UNCHANGED <<opts, watch, sock, verdict, owned, history>>

\* A handler of the recv loop's own close handling calls connect().
HandlerConnects(s) ==
    /\ opts.reopens
    /\ task[s].pc \in {"noticing", "backing", "judging"}
    /\ task[s].then = "idle"
    /\ Attempt(s, task[s].pc)
    /\ UNCHANGED <<opts, watch, sock, verdict, owned, history>>

OpenFails(a) ==
    /\ At(a, "opening")
    /\ client' = [client EXCEPT !.connecting = FALSE]
    /\ task' = [task EXCEPT ![a].pc = "failing"]
    /\ UNCHANGED <<opts, watch, sock, verdict, owned, history>>

FreeSock(s) ==
    /\ At(s, "idle")
    /\ sock[s] # "open"
    /\ client.ws # s
    /\ watch[s] = Unwatched
    /\ \A a \in Actors : task[a].s # s

\* Mutant: a close of the socket before is charged to the new one.
AdoptedKeepsFlag(s) ==
    [client EXCEPT !.connecting = FALSE, !.ws = s, !.auth = FALSE]

\* The client with a new current socket
Adopted(s) ==
    [client EXCEPT !.connecting = FALSE, !.ws = s, !.auth = FALSE, !.flag = FALSE]

Adopt(a, s) ==
    /\ client' = Adopted(s)
    /\ task' = [task EXCEPT ![a].pc = "sending", ![a].s = s]
    /\ sock' = [sock EXCEPT ![s] = "open"]
    /\ begun' = begun \ {s} /\ helloed' = helloed \ {s}
    /\ cut' = cut \ {s} /\ halted' = {}

\* Mutant: disconnect() while the transport was opening goes unnoticed.
AdoptOrDropUnchecked(a, s) == Adopt(a, s)

\* A socket that opened after disconnect() is closed at once.
AdoptOrDrop(a, s) ==
    \/ ~client.disposed /\ Adopt(a, s)
    \/ /\ client.disposed
       /\ client' = [client EXCEPT !.connecting = FALSE]
       /\ task' = [task EXCEPT ![a] = Return(a)]
       /\ UNCHANGED <<sock, history>>

\* A task spawned to close the previous socket starts at the next turn of
\* the event loop; opening a transport takes several.
OpenSucceeds(a, s) ==
    /\ At(a, "opening")
    /\ FreeSock(s)
    /\ \A r \in Socks : ~watch[r].closer
    /\ AdoptOrDrop(a, s)
    /\ UNCHANGED <<opts, watch, verdict, owned>>

HelloSent(a) ==
    /\ At(a, "sending")
    /\ LET s == task[a].s IN
         /\ client' = [client EXCEPT !.hs = s, !.recv = s]
         /\ watch' = [watch EXCEPT ![s].hs = "armed"]
         /\ task' = [task EXCEPT ![a] = Return(a), ![s].pc = "starting"]
    /\ UNCHANGED <<opts, sock, verdict, owned, history>>

\* ws.send raises; on_error runs first.
HelloFails(a) ==
    /\ At(a, "sending")
    /\ task' = [task EXCEPT ![a].pc = "unsent"]
    /\ UNCHANGED <<opts, client, watch, sock, verdict, owned, history>>

\* _close_socket(s) up to the await of the close
Close(s) ==
    /\ sock' = [sock EXCEPT ![s] = IF @ = "open" THEN "closing" ELSE @]
    /\ begun' = begun \cup {s}
    /\ UNCHANGED <<helloed, cut, halted>>

\* Mutant: the slot is cleared first and what it then holds is closed.
GiveUpClearsFirst(a) ==
    /\ At(a, "unsent")
    /\ client' = [client EXCEPT !.ws = None, !.flag = TRUE]
    /\ Close(None)
    /\ task' = [task EXCEPT ![a].pc = "discarding"]
    /\ UNCHANGED <<opts, watch, verdict, owned>>

GiveUp(a) ==
    /\ At(a, "unsent")
    /\ client' = [client EXCEPT !.ws = None, !.flag = TRUE]
    /\ Close(task[a].s)
    /\ task' = [task EXCEPT ![a].pc = "discarding"]
    /\ UNCHANGED <<opts, watch, verdict, owned>>

\* The task in which the application called connect() is cancelled, by a
\* wait_for around it for one.  CancelledError is no Exception: no clause of
\* connect() catches it, and the only finally is that of the open, behind the
\* state notification that belongs to "opening" here.
CallerCancelled ==
    /\ opts.cancels
    /\ task["app"].pc \in {"opening", "failing", "sending", "unsent", "discarding", "backing"}
    /\ \/ client' = client
       \/ At("app", "opening") /\ client' = [client EXCEPT !.connecting = FALSE]
    /\ task' = [task EXCEPT !["app"] = Resting]
    /\ UNCHANGED <<opts, watch, sock, verdict, owned, history>>

----------------------------------------------------------------------------
(* The backoff and the blocked retry *)

IdleTimers == {t \in Timers : At(t, "idle")}

\* A new reconnect timer takes the slot and the caller returns.
Arm(a, t) ==
    /\ client' = [client EXCEPT !.timer = t, !.state = "backoff"]
    /\ task' = [task EXCEPT ![a] = Return(a), ![t].pc = "sleeping"]

\* The client was stopped, or another attempt owns what happens next.
Superseded == client.disposed \/ client.connecting \/ client.ws # None

\* _schedule_reconnect, up to the state notification
Backoff(a) ==
    \/ /\ Superseded \/ (opts.reconnect /\ client.timer # None)
       /\ client' = client
       /\ task' = [task EXCEPT ![a] = Return(a)]
    \/ /\ ~Superseded /\ ~opts.reconnect
       /\ client' = [client EXCEPT !.state = IF @ = "blocked" THEN @ ELSE "idle"]
       /\ task' = [task EXCEPT ![a] = Return(a)]
    \/ /\ ~Superseded /\ opts.reconnect /\ client.timer = None
       /\ IF client.state = "backoff"
          THEN \E t \in IdleTimers : Arm(a, t)
          ELSE /\ client' = [client EXCEPT !.state = "backoff"]
               /\ task' = [task EXCEPT ![a].pc = "backing"]

\* on_error has run (a failed open) or the close has returned (a failed HELLO).
BackOff(a) ==
    /\ task[a].pc \in {"failing", "discarding"}
    /\ Backoff(a)
    /\ UNCHANGED <<opts, watch, sock, verdict, owned, history>>

\* The state handlers have run.  The timer slot is not looked at again.
Armed(a) ==
    /\ At(a, "backing")
    /\ \/ Superseded /\ task' = [task EXCEPT ![a] = Return(a)] /\ client' = client
       \/ /\ ~Superseded
          /\ \E t \in IdleTimers :
               /\ client' = [client EXCEPT !.timer = t]
               /\ task' = [task EXCEPT ![a] = Return(a), ![t].pc = "sleeping"]
    /\ UNCHANGED <<opts, watch, sock, verdict, owned, history>>

\* _reconnect_after: the slot is cleared whichever timer it holds.
TimerFires(t) ==
    /\ At(t, "sleeping")
    /\ \/ Attempt(t, "idle")
       \/ /\ ~CanConnect(t)
          /\ client' = [client EXCEPT !.timer = None]
          /\ task' = [task EXCEPT ![t] = Resting]
    /\ UNCHANGED <<opts, watch, sock, verdict, owned, history>>

\* The on("state"), on_error and on("blocked") handlers of _enter_blocked ran.
RetryArmed(s) ==
    /\ At(s, "judging")
    /\ \/ /\ Superseded \/ ~opts.reconnect
          /\ client' = client
          /\ task' = [task EXCEPT ![s] = Return(s)]
       \/ /\ ~Superseded /\ opts.reconnect
          /\ \E t \in IdleTimers \cup ({client.timer} \ {None}) :
               /\ client' = [client EXCEPT !.timer = t]
               /\ task' = [b \in Actors |->
                             CASE b = s -> Return(s)
                               [] b = t -> [Resting EXCEPT !.pc = "sleeping"]
                               [] b = client.timer /\ b # t -> Resting
                               [] OTHER -> task[b]]
    /\ UNCHANGED <<opts, watch, sock, verdict, owned, history>>

----------------------------------------------------------------------------
(* The recv loop *)

RecvStarts(s) ==
    /\ At(s, "starting")
    /\ task' = [task EXCEPT ![s].pc = IF client.ws = None THEN "idle" ELSE "reading"]
    /\ UNCHANGED <<opts, client, watch, sock, verdict, owned, history>>

\* Mutant: the verdict before outlives the hello.ok that refutes it.
WelcomedButBlocked ==
    [client EXCEPT !.auth = TRUE, !.hs = None, !.state = "ready"]

\* The client after a hello.ok
Welcomed ==
    [client EXCEPT !.auth = TRUE, !.hs = None, !.blocked = FALSE, !.state = "ready"]

\* Frames that arrived before a close are still read after it.
HelloOk(s) ==
    /\ At(s, "reading")
    /\ sock[s] \in {"open", "closing", "dropped"}
    /\ ~client.auth
    /\ client' = Welcomed
    /\ watch' = [r \in Socks |-> IF r = client.hs THEN [watch[r] EXCEPT !.hs = "off"]
                                 ELSE watch[r]]
    /\ task' = [task EXCEPT ![s].pc = "greeting"]
    /\ helloed' = helloed \cup {s}
    /\ UNCHANGED <<opts, sock, verdict, owned, begun, cut, halted>>

\* on("state") has run; the liveness watchdog starts, on_connect follows.
Greeted(s) ==
    /\ At(s, "greeting")
    /\ client' = [client EXCEPT !.lv = s]
    /\ watch' = [r \in Socks |->
                   CASE r = s -> [watch[r] EXCEPT !.lv = "armed"]
                     [] r = client.lv /\ r # s -> [watch[r] EXCEPT !.lv = "off"]
                     [] OTHER -> watch[r]]
    /\ task' = [task EXCEPT ![s].pc = "reading"]
    /\ UNCHANGED <<opts, sock, verdict, owned, history>>

\* The iteration over the socket raises; on_error runs before the close
\* handling.
SocketErrs(s) ==
    /\ At(s, "reading")
    /\ sock[s] \in Ended
    /\ task' = [task EXCEPT ![s].pc = "erring"]
    /\ UNCHANGED <<opts, client, watch, sock, verdict, owned, history>>

\* A frame overfills a buffer, its sweep meets another and misses a frame: the
\* KeyError ends the loop, whatever the socket does.
SweepMisses(s) ==
    /\ At(s, "reading")
    /\ client.auth
    /\ opts.suspends
    /\ task' = [task EXCEPT ![s].pc = "erring"]
    /\ cut' = cut \cup {s}
    /\ UNCHANGED <<opts, client, watch, sock, verdict, owned, begun, helloed, halted>>

\* Mutant: the dead socket stays the current one.
AfterCloseKeepsSocket(s) ==
    [client EXCEPT !.flag = FALSE, !.auth = FALSE, !.hs = None, !.lv = None]

\* The client when the close handling has reset it
AfterClose(s) ==
    [client EXCEPT !.flag = FALSE, !.auth = FALSE, !.hs = None, !.lv = None,
                   !.ws = IF @ = s THEN None ELSE @]

\* The recv loop's finally, up to on_disconnect.  It lets go of the socket
\* and closes none: one whose loop a missed frame ended may still be open.
SocketEnds(s) ==
    /\ At(s, "erring") \/ (At(s, "reading") /\ sock[s] \in Ended)
    /\ verdict' = [verdict EXCEPT ![s] = [ours |-> client.flag, early |-> ~client.auth]]
    /\ client' = AfterClose(s)
    /\ watch' = [r \in Socks |->
                   [watch[r] EXCEPT !.hs = IF r = client.hs THEN "off" ELSE @,
                                    !.lv = IF r = client.lv THEN "off" ELSE @]]
    /\ task' = [task EXCEPT ![s].pc = "noticing"]
    /\ UNCHANGED <<opts, sock, owned, history>>

\* A close of ours may come back with any code.
LooksRejected(s) == sock[s] \in {"rejected", "closing"}

Rejection(s) == ~verdict[s].ours /\ verdict[s].early /\ LooksRejected(s)

\* _enter_blocked, up to its notifications
EnterBlocked(s) ==
    /\ client' = [client EXCEPT !.blocked = TRUE, !.state = "blocked"]
    /\ task' = [task EXCEPT ![s].pc = "judging"]

\* The flush of the frames parked at receipt misses one that another sweep
\* took: the KeyError leaves the finally, and the task.
FlushMisses(s) ==
    /\ opts.suspends /\ opts.receipt
    /\ client' = client
    /\ task' = [task EXCEPT ![s] = Return(s)]
    /\ halted' = halted \cup {s}

\* What the finally ends in
Concludes(s) ==
    /\ \/ /\ client.disposed
          /\ client' = client
          /\ task' = [task EXCEPT ![s] = Return(s)]
       \/ ~client.disposed /\ Rejection(s) /\ EnterBlocked(s)
       \/ /\ ~client.disposed
          /\ ~Rejection(s) \/ sock[s] = "closing"
          /\ Backoff(s)
    /\ UNCHANGED halted

\* The end of the recv loop's finally, after on_disconnect; its locals and
\* what is remembered of its socket have served their purpose.
Closed(s) ==
    /\ At(s, "noticing")
    /\ FlushMisses(s) \/ Concludes(s)
    /\ verdict' = [verdict EXCEPT ![s] = NoVerdict]
    /\ sock' = [sock EXCEPT ![s] = IF @ = "open" THEN @ ELSE "dropped"]
    /\ begun' = begun \ {s} /\ helloed' = helloed \ {s}
    /\ cut' = IF sock[s] = "open" THEN cut ELSE cut \ {s}
    /\ UNCHANGED <<opts, watch, owned>>

----------------------------------------------------------------------------
(* The watchdogs and the close they spawn *)

HandshakeExpires(s) ==
    /\ watch[s].hs = "armed"
    /\ watch' = [watch EXCEPT ![s].hs =
                   IF client.auth \/ client.disposed \/ client.ws # s
                   THEN "off" ELSE "erring"]
    /\ UNCHANGED <<opts, client, task, sock, verdict, owned, history>>

\* Mutant: the close is left to this task, which the close cancels.
HandshakeTripsUnspawned(s) ==
    /\ watch[s].hs = "erring"
    /\ watch' = [watch EXCEPT ![s].hs = "off"]
    /\ client' = [client EXCEPT !.flag = TRUE]
    /\ begun' = begun \cup {s}
    /\ UNCHANGED <<opts, task, sock, verdict, owned, helloed, cut, halted>>

\* on_error has run: the close is announced and spawned.
HandshakeTrips(s) ==
    /\ watch[s].hs = "erring"
    /\ watch' = [watch EXCEPT ![s].hs = "off", ![s].closer = TRUE]
    /\ client' = [client EXCEPT !.flag = TRUE]
    /\ begun' = begun \cup {s}
    /\ UNCHANGED <<opts, task, sock, verdict, owned, helloed, cut, halted>>

\* Nothing arrived for the whole deadline and the peer answered no ping.
LivenessExpires(s) ==
    /\ watch[s].lv = "armed"
    /\ watch' = [watch EXCEPT ![s].lv =
                   IF client.disposed \/ client.ws # s THEN "off" ELSE "erring"]
    /\ UNCHANGED <<opts, client, task, sock, verdict, owned, history>>

LivenessTrips(s) ==
    /\ watch[s].lv = "erring"
    /\ watch' = [watch EXCEPT ![s].lv = "off", ![s].closer = TRUE]
    /\ client' = [client EXCEPT !.flag = TRUE]
    /\ begun' = begun \cup {s}
    /\ UNCHANGED <<opts, task, sock, verdict, owned, helloed, cut, halted>>

CloserStarts(s) ==
    /\ watch[s].closer
    /\ watch' = [watch EXCEPT ![s].closer = FALSE]
    /\ client' = [client EXCEPT !.flag = TRUE]
    /\ Close(s)
    /\ UNCHANGED <<opts, task, verdict, owned>>

\* The server, a proxy or the network ends the socket; "rejected" is a close
\* whose code and reason are those of a refused key.
ServerCloses(s) ==
    /\ sock[s] = "open"
    /\ \E how \in {"rejected", "dropped"} : sock' = [sock EXCEPT ![s] = how]
    /\ UNCHANGED <<opts, client, task, watch, verdict, owned, history>>

----------------------------------------------------------------------------
(* disconnect() *)

StopBegins ==
    /\ At("stop", "idle")
    /\ client' = [client EXCEPT !.disposed = TRUE, !.state = "stopped"]
    /\ task' = [task EXCEPT !["stop"].pc = "stopping"]
    /\ UNCHANGED <<opts, watch, sock, verdict, owned, history>>

\* The tasks it owns are noted and their slots cleared; the parked frames
\* are flushed next.
StopCollects ==
    /\ At("stop", "stopping")
    /\ owned' = [timer |-> client.timer, hs |-> client.hs, lv |-> client.lv,
                 closers |-> {s \in Socks : watch[s].closer}]
    /\ client' = [client EXCEPT !.timer = None, !.hs = None, !.lv = None]
    /\ task' = [task EXCEPT !["stop"].pc = "flushing"]
    /\ UNCHANGED <<opts, watch, sock, verdict, history>>

\* The flush misses a frame: disconnect() raises, with the socket open and
\* the tasks it noted running on.  Whether frames are parked is not known
\* here: see Delivery.
StopFails ==
    /\ At("stop", "flushing")
    /\ opts.suspends
    /\ task' = [task EXCEPT !["stop"].pc = "failed"]
    /\ owned' = NothingOwned
    /\ UNCHANGED <<opts, client, watch, sock, verdict, history>>

\* Mutant: the current socket is let go of but not closed.
StopForgetsSocket ==
    /\ At("stop", "flushing")
    /\ client' = [client EXCEPT !.ws = None]
    /\ task' = [task EXCEPT !["stop"].pc = "closing"]
    /\ UNCHANGED <<opts, watch, sock, verdict, owned, history>>

StopCloses ==
    /\ At("stop", "flushing")
    /\ client' = [client EXCEPT !.ws = None, !.flag = @ \/ client.ws # None]
    /\ IF client.ws = None THEN UNCHANGED <<sock, history>> ELSE Close(client.ws)
    /\ task' = [task EXCEPT !["stop"].pc = "closing"]
    /\ UNCHANGED <<opts, watch, verdict, owned>>

StopClosed ==
    /\ At("stop", "closing")
    /\ client' = [client EXCEPT !.recv = None]
    /\ task' = [task EXCEPT !["stop"].pc = "awaiting", !["stop"].s = client.recv]
    /\ UNCHANGED <<opts, watch, sock, verdict, owned, history>>

\* The recv loop has returned; the owned tasks are cancelled and awaited.
StopReleases ==
    /\ At("stop", "awaiting")
    /\ task["stop"].s \in {None} \cup {s \in Socks : At(s, "idle")}
    /\ client' = [client EXCEPT !.auth = FALSE]
    /\ task' = [b \in Actors |->
                  CASE b = "stop" -> [Resting EXCEPT !.pc = "done"]
                    [] b = owned.timer /\ At(b, "sleeping") -> Resting
                    [] OTHER -> task[b]]
    /\ watch' = [s \in Socks |->
                   [hs |-> IF s = owned.hs THEN "off" ELSE watch[s].hs,
                    lv |-> IF s = owned.lv THEN "off" ELSE watch[s].lv,
                    closer |-> watch[s].closer /\ s \notin owned.closers]]
    /\ owned' = NothingOwned
    /\ UNCHANGED <<opts, sock, verdict, history>>

----------------------------------------------------------------------------
ConnectStep(a) ==
    OpenFails(a) \/ (\E s \in Socks : OpenSucceeds(a, s)) \/ HelloSent(a) \/ HelloFails(a)
        \/ GiveUp(a) \/ BackOff(a) \/ Armed(a)

RecvStep(s) ==
    RecvStarts(s) \/ SocketErrs(s) \/ SocketEnds(s) \/ Greeted(s) \/ Closed(s)
        \/ RetryArmed(s)

StopStep == StopCollects \/ StopFails \/ StopCloses \/ StopClosed \/ StopReleases

Next ==
    \/ ConnectCall
    \/ CallerCancelled
    \/ StopBegins
    \/ StopStep
    \/ \E a \in Actors : ConnectStep(a)
    \/ \E t \in Timers : TimerFires(t)
    \/ \E s \in Socks :
          \/ RecvStep(s) \/ HelloOk(s) \/ SweepMisses(s)
          \/ HandlerConnects(s) \/ ServerCloses(s)
          \/ HandshakeExpires(s) \/ HandshakeTrips(s)
          \/ LivenessExpires(s) \/ LivenessTrips(s) \/ CloserStarts(s)

Spec == Init /\ [][Next]_vars

\* Every task the event loop can resume is resumed, timers ring, handlers
\* return, and the transport answers an open, a send and a close.  Nothing is
\* assumed of the application, of hello.ok, of the liveness deadline or of
\* the server's closes.
Fairness ==
    /\ WF_vars(StopStep)
    /\ \A a \in Actors : WF_vars(ConnectStep(a))
    /\ \A t \in Timers : WF_vars(TimerFires(t))
    /\ \A s \in Socks :
          /\ WF_vars(RecvStep(s))
          /\ WF_vars(HandshakeExpires(s))
          /\ WF_vars(HandshakeTrips(s))
          /\ WF_vars(LivenessTrips(s))
          /\ WF_vars(CloserStarts(s))

FairSpec == Spec /\ Fairness

----------------------------------------------------------------------------
(* Properties *)

PCs == {"idle", "opening", "failing", "sending", "unsent", "discarding",
        "backing", "sleeping", "starting", "reading", "greeting", "erring", "noticing",
        "judging", "stopping", "flushing", "failed", "closing", "awaiting", "done"}

Clients ==
    [state : {"idle", "connecting", "ready", "backoff", "blocked", "stopped"},
     disposed : BOOLEAN, connecting : BOOLEAN, ws : Socks \cup {None}, auth : BOOLEAN,
     flag : BOOLEAN, blocked : BOOLEAN, recv : Socks \cup {None},
     timer : Timers \cup {None}, hs : Socks \cup {None}, lv : Socks \cup {None}]
Tasks ==
    [pc : PCs, s : Socks \cup {None}, then : {"idle", "noticing", "backing", "judging"}]
Watches == [hs : {"off", "armed", "erring"}, lv : {"off", "armed", "erring"}, closer : BOOLEAN]

\* Every field of the client, of a task and of a socket has a value the code
\* can give it.
TypeOK ==
    /\ opts \in Options
    /\ client \in Clients
    /\ task \in [Actors -> Tasks]
    /\ watch \in [Socks -> Watches]
    /\ sock \in [Socks -> {"open"} \cup Ended]
    /\ verdict \in [Socks -> [ours : BOOLEAN, early : BOOLEAN]]
    /\ owned \in [timer : Timers \cup {None}, hs : Socks \cup {None},
                  lv : Socks \cup {None}, closers : SUBSET Socks]
    /\ begun \subseteq Socks /\ helloed \subseteq Socks
    /\ cut \subseteq Socks /\ halted \subseteq Socks

\* Nothing is under way: every task waits for a timer, a frame or a call.
Quiet ==
    /\ \A a \in Actors : task[a].pc \in {"idle", "sleeping", "reading", "done", "failed"}
    /\ \A s \in Socks : /\ ~watch[s].closer
                        /\ "erring" \notin {watch[s].hs, watch[s].lv}
                        /\ At(s, "reading") => sock[s] = "open"

\* _close_initiated_locally and _authenticated belong to the client, not to a
\* socket; still every close is judged by the history of its own socket:
\* `ours` iff this client began it, `early` iff it carried no hello.ok.  So
\* only a rejection the server sent during the handshake blocks the client
\* (rules 2 to 4 of the module's docstring), and none is missed.
VerdictIsSound ==
    [][\A s \in Socks : task[s].pc \in {"reading", "erring"} /\ task'[s].pc = "noticing" =>
          /\ verdict'[s].ours <=> s \in begun
          /\ verdict'[s].early <=> s \notin helloed]_vars

TimerPending == \E t \in Timers : client.timer = t /\ At(t, "sleeping")

\* The current socket has a recv loop and the watchdog of its phase.
Watched ==
    \E s \in Socks :
        /\ client.ws = s /\ client.recv = s /\ At(s, "reading")
        /\ IF client.auth THEN client.lv = s /\ watch[s].lv = "armed"
           ELSE client.hs = s /\ watch[s].hs = "armed"

\* The loop of the last socket ended in a flush that missed a frame: only
\* with ack_on_receipt and message handlers that suspend.
FlushMissed == opts.suspends /\ opts.receipt /\ client.recv \in halted

\* Rule 1, "the client has no dead state except an explicit disconnect": once
\* connect() was called with reconnect on and ran to its end, a client at rest
\* has a timer that will bring an attempt or a socket that is read and guarded.
\* The one dead state there is (NeverDead in Delivery is violated) is that of
\* a flush that missed a frame.
AliveUntilStopped ==
    Quiet /\ opts.reconnect /\ ~opts.cancels /\ ~client.disposed /\ client.state # "idle"
        => TimerPending \/ Watched \/ FlushMissed

\* An open socket is the client's current one, and a disconnect() that returns
\* has let go of it: the one a connect() in flight opens behind its back is
\* none either.  Only a missed frame strays one: message handlers that suspend
\* let it end the recv loop of an open socket (_realtime.py 1013, 1044).
NoStraySocket ==
    /\ \A s \in Socks : sock[s] = "open" => client.ws = s \/ (opts.suspends /\ s \in cut)
    /\ At("stop", "done") => client.ws = None

\* What the names in RealtimeState say of a client at rest
StateMeans ==
    CASE client.state = "idle" -> client.ws = None /\ ~TimerPending
      [] client.state = "connecting" -> client.ws # None /\ ~client.auth
      [] client.state = "ready" -> client.ws # None /\ client.auth /\ ~client.blocked
      [] client.state = "backoff" -> client.ws = None /\ TimerPending
      [] client.state = "blocked" ->
            client.ws = None /\ client.blocked /\ (opts.reconnect => TimerPending)
      [] OTHER -> client.disposed

\* The published state is the truth at rest, as long as nobody but the client
\* itself reconnects and no flush missed a frame.
StateIsHonest ==
    Quiet /\ ~client.disposed /\ ~opts.recalls /\ ~opts.cancels /\ ~opts.reopens
        => StateMeans \/ FlushMissed

\* connect() is "a no-op while an attempt is in flight or a socket is live":
\* at rest no attempt is in flight, so what makes it one is a socket that is
\* read and guarded.
IgnoredOnlyIfLive ==
    Quiet /\ ~client.disposed /\ (client.connecting \/ client.ws # None) => Watched

\* It is, if no call of it was cancelled (_realtime.py 640, 660-662).
NeverStuck == ~opts.cancels => IgnoredOnlyIfLive

\* A backoff or a blocked retry ends in an attempt.
KeepsTrying ==
    client.state \in {"backoff", "blocked"} /\ opts.reconnect
        ~> client.connecting \/ client.ws # None \/ client.disposed

\* A socket whose server neither answers the HELLO nor closes is given up,
\* unless a disconnect() that raised has stopped the watchdog and left it.
HandshakeIsBounded ==
    \A s \in Socks :
        client.ws = s /\ ~client.auth ~>
            client.auth \/ client.ws # s \/ At("stop", "failed")

\* disconnect() comes to an end, whatever was under way: it returns, or, if
\* message handlers suspend, its flush may miss a frame and it raises.
DisconnectReturns ==
    client.disposed ~> At("stop", "done") \/ (opts.suspends /\ At("stop", "failed"))
=============================================================================
