------------------------------ MODULE Delivery ------------------------------
(***************************************************************************)
(* The path of a message.new envelope through one RealtimeClient: the      *)
(* frames of the live socket, the REST drain and the gap fill enter it,    *)
(* the per-conversation ordering layer routes, parks or drops them, every  *)
(* delivery goes through one dedup and ack choke point, and a socket close *)
(* or disconnect() empties it.                                             *)
(*                                                                         *)
(* Every asyncio task that runs this code is an actor.  Its record in      *)
(* `task` is its program counter and its locals.  A task keeps the event   *)
(* loop until it awaits something that really suspends, so a step of a     *)
(* task is enabled only while no other task is between two suspensions     *)
(* (Runs).  Timers, HTTP requests and the wait for the next frame always   *)
(* suspend; user handlers suspend iff AsyncHandlers.                       *)
(*                                                                         *)
(* A message is its position in the order of the server's /sync, which is  *)
(* also its delivery_id; `SeqOf` and `ConvOf` are its fields.              *)
(***************************************************************************)
EXTENDS Integers, FiniteSets, FiniteSetsExt, DedupLru

CONSTANTS
    Conv,            \* conversations
    Total,           \* messages the server ever has for this client
    ConvOf, SeqOf,   \* per message: its conversation, its seq (NoSeq: none)
    Hidden,          \* messages the history endpoint does not return
    Malformed,       \* messages whose /sync row fails validation
    NullCursor,      \* messages whose /sync row has a null delivery_id
    GapTasks,        \* identities for gap-timer tasks
    ObjIds,          \* identities for _OrderState objects
    None,            \* Python's None
    AckOnReceipt,    \* option ack_on_receipt
    HasClient,       \* option client is set (gap fill, drain)
    AsyncHandlers,   \* user handlers suspend
    HandlersFail,    \* user handlers may raise
    AckModes,        \* whether a hello.ok echoes the ack capability
    DedupCapacity, MaxBuffered, GapFillLimit, PageSize,
    MaxFrames,       \* bound: frames the server pushes
    MaxConnects      \* bound: connections the client opens

Msgs == 1..Total
NoMsg == 0
NoSeq == 0
Tasks == {"recv", "drain", "stop"} \cup GapTasks

\* Within a conversation the server assigns seq in publication order.
ASSUME MessagesAssumption ==
    /\ Total \in Nat
    /\ ConvOf \in [Msgs -> Conv]
    /\ SeqOf \in [Msgs -> Nat]
    /\ \A m, n \in Msgs :
          m < n /\ ConvOf[m] = ConvOf[n] /\ SeqOf[m] # NoSeq /\ SeqOf[n] # NoSeq
              => SeqOf[m] < SeqOf[n]
    /\ Hidden \subseteq Msgs /\ Malformed \subseteq Msgs /\ NullCursor \subseteq Msgs
ASSUME IdentitiesAssumption ==
    /\ {"recv", "drain", "stop"} \cap GapTasks = {}
    /\ None \notin Tasks \cup ObjIds \cup Conv
ASSUME OptionsAssumption ==
    /\ {AckOnReceipt, HasClient, AsyncHandlers, HandlersFail} \subseteq BOOLEAN
    /\ AckModes \subseteq BOOLEAN /\ AckModes # {}
    /\ {DedupCapacity, MaxBuffered, MaxFrames, MaxConnects} \subseteq Nat
    /\ {GapFillLimit, PageSize} \subseteq Nat \ {0}

VARIABLES
    pub,       \* the server has published messages 1..pub
    acked,     \* messages this client has confirmed to the server
    conn,      \* "down", "up", "closing" (recv loop's finally), "dead", "stopped"
    ackOn,     \* _ack_negotiated, on a socket that is still _ws
    disposed,  \* _disposed
    states,    \* _order_states: conversation -> _OrderState or None
    objs,      \* the _OrderState objects
    task,      \* the asyncio tasks
    drain,     \* locals of _run_drain and _drain_settlements
    dedup,     \* _dedup
    handed,    \* history: messages some handler call has started with
    clean,     \* history: messages every handler settled without raising
    seen,      \* history: messages handed to handlers on this connection
    frames, connects   \* the two bounds

server == <<pub, acked>>
link == <<conn, ackOn, disposed>>
order == <<states, objs, task>>
app == <<handed, clean, seen>>
bounds == <<frames, connects>>
vars == <<server, link, order, drain, dedup, app, bounds>>

----------------------------------------------------------------------------
(* Tasks, order-state objects, and the event loop *)

\* A parked envelope: its delivery-ack eligibility (_PendingEnvelope) and
\* whether it is an envelope of the drain's current page.
Entry == [ws : BOOLEAN, row : BOOLEAN]

FreshObj == [next |-> 0, buf |-> <<>>, timer |-> None, started |-> 0, fill |-> FALSE]

\* from, read: of a gap fill, the seq it asked history for and the last message
\* published when the server read it
Idle == [pc |-> "idle", site |-> "idle", c |-> None, o |-> None, m |-> NoMsg,
         ws |-> FALSE, row |-> FALSE, todo |-> {}, high |-> 0, exp |-> 0,
         from |-> 0, read |-> 0, rec |-> FALSE, work |-> {}, owned |-> {}]

NoDrain == [after |-> 0, frozen |-> FALSE, page |-> {}, bad |-> FALSE, full |-> FALSE,
            left |-> {}, unchecked |-> {}, dups |-> {}, cursor |-> 0,
            settled |-> [m \in Msgs |-> "none"]]

\* Program counters at which a task is suspended
Waiting ==
    {"idle", "asleep", "fetch", "sync", "syncack", "leaving", "failed"}
        \cup IF AsyncHandlers THEN {"handler", "notify", "closing"} ELSE {}

Runs(t) == \A u \in Tasks \ {t} : task[u].pc \in Waiting

At(t, pc) == task[t].pc = pc /\ Runs(t)

\* Where a task continues once _process_ordered_message returns to it
Home(t) == IF t = "drain" THEN "row" ELSE "idle"

Referenced(sts, tsk) ==
    {sts[c] : c \in Conv} \cup {tsk[t].o : t \in Tasks}
        \cup {w[2] : w \in tsk["stop"].work \cup tsk["recv"].work}

\* Every write of the ordering layer ends here; an object nothing refers to
\* any more is garbage and its identity is free again.
Commit(sts, tsk, obs) ==
    /\ states' = sts
    /\ task' = tsk
    /\ objs' = [o \in ObjIds |-> IF o \in Referenced(sts, tsk) THEN obs[o] ELSE FreshObj]

FreeObjs == ObjIds \ Referenced(states, task)
FreeGapTasks == {t \in GapTasks : task[t].pc = "idle" /\ t \notin task["stop"].owned}

Size(o) == Cardinality(DOMAIN objs[o].buf)

\* task.cancel() for a set of gap tasks; a cancelled fetch clears
\* gap_fill_in_flight in its finally.
Cancel(tsk, ts) == [t \in Tasks |-> IF t \in ts THEN Idle ELSE tsk[t]]
Unfill(obs, ts) ==
    [o \in ObjIds |->
        IF \E t \in ts \cap GapTasks : task[t].pc = "fetch" /\ task[t].o = o
        THEN [obs[o] EXCEPT !.fill = FALSE] ELSE obs[o]]

\* _cleanup_if_idle: the state is popped by conversation id
Cleanup(sts, c, ob) ==
    IF ob.buf = <<>> /\ ob.timer = None /\ ~ob.fill THEN [sts EXCEPT ![c] = None] ELSE sts

----------------------------------------------------------------------------
(* The delivery choke point: _deliver_message_new *)

\* Hand message m to the choke point on behalf of task t, then go to `site`.
Deliver(t, m, e, site, o) ==
    [task[t] EXCEPT !.pc = "deliver", !.site = site, !.m = m,
                    !.ws = e.ws, !.row = e.row, !.c = ConvOf[m], !.o = o]

\* The record of t once the choke point returned to it
Back(t) ==
    IF task[t].site \in {"idle", "row"}
    THEN [Idle EXCEPT !.pc = task[t].site]
    ELSE [task[t] EXCEPT !.pc = task[t].site, !.ws = FALSE, !.row = FALSE]

Returns(t) == Commit(states, [task EXCEPT ![t] = Back(t)], objs)

\* Mutant of Settle: a row counts as settled although a handler raised
SettleAnyway(t, how) ==
    drain' = IF task[t].row /\ task[t].m \in drain.page
             THEN [drain EXCEPT !.settled[task[t].m] = "clean"] ELSE drain

\* _settle_drain_row
Settle(t, how) ==
    drain' = IF task[t].row /\ task[t].m \in drain.page
             THEN [drain EXCEPT !.settled[task[t].m] = how] ELSE drain

\* _send_delivery_ack: best effort, so the frame may or may not arrive
Acks(ms) == {acked} \cup IF ackOn THEN {acked \cup ns : ns \in SUBSET ms} ELSE {}

\* A dedup hit skips the handlers but still acks.
DedupHit(t) ==
    /\ At(t, "deliver")
    /\ Seen(dedup, task[t].m)
    /\ dedup' = Hit(dedup, task[t].m)
    /\ acked' \in IF task[t].ws THEN Acks({task[t].m}) ELSE {acked}
    /\ Settle(t, "clean")
    /\ Returns(t)
    /\ UNCHANGED <<pub, link, app, bounds>>

\* Mutant of Dispatch: handlers are called without a look at the dedup cache
DispatchAgain(t) ==
    /\ At(t, "deliver")
    /\ Commit(states, [task EXCEPT ![t].pc = "handler"], objs)
    /\ handed' = handed \cup {task[t].m}
    /\ seen' = seen \cup {task[t].m}
    /\ UNCHANGED <<server, link, drain, dedup, clean, bounds>>

\* _dispatch starts the handlers.
Dispatch(t) ==
    LET m == task[t].m IN
    /\ At(t, "deliver")
    /\ ~Seen(dedup, m)
    /\ Commit(states, [task EXCEPT ![t].pc = "handler"], objs)
    /\ handed' = handed \cup {m}
    /\ seen' = seen \cup {m}
    /\ UNCHANGED <<server, link, drain, dedup, clean, bounds>>

\* Every handler completed: remember the id, then confirm it.
HandledCleanly(t) ==
    LET m == task[t].m IN
    /\ At(t, "handler")
    /\ clean' = clean \cup {m}
    /\ dedup' = Add(dedup, m, DedupCapacity)
    /\ acked' \in IF task[t].ws THEN Acks({m}) ELSE {acked}
    /\ Settle(t, "clean")
    /\ Returns(t)
    /\ UNCHANGED <<pub, link, handed, seen, bounds>>

\* Mutant of HandlerRaised: the ack goes out although the dispatch failed
RaisedStillAcks(t) ==
    /\ HandlersFail
    /\ At(t, "handler")
    /\ acked' \in IF task[t].ws THEN Acks({task[t].m}) ELSE {acked}
    /\ Settle(t, "failed")
    /\ Returns(t)
    /\ UNCHANGED <<pub, link, dedup, app, bounds>>

\* A handler raised: no dedup entry, no ack, the server offers it again.
HandlerRaised(t) ==
    /\ HandlersFail
    /\ At(t, "handler")
    /\ Settle(t, "failed")
    /\ Returns(t)
    /\ UNCHANGED <<server, link, dedup, app, bounds>>

----------------------------------------------------------------------------
(* _process_ordered_message *)

\* Where the ordering layer sends message m
Unsequenced(m) == SeqOf[m] = NoSeq
Anchors(m) == ~Unsequenced(m) /\ states[ConvOf[m]] = None
Tracked(m) == ~Unsequenced(m) /\ states[ConvOf[m]] # None
Expected(m) == objs[states[ConvOf[m]]].next
Below(m) == Tracked(m) /\ SeqOf[m] < Expected(m)

\* No seq to order by: straight to the choke point.
RouteUnsequenced(t, m, e) ==
    /\ Unsequenced(m)
    /\ Commit(states, [task EXCEPT ![t] = Deliver(t, m, e, Home(t), None)], objs)
    /\ UNCHANGED dedup

\* The first frame of an untracked conversation anchors it.
RouteAnchor(t, m, e) ==
    /\ Anchors(m)
    /\ FreeObjs # {}
    /\ LET o == CHOOSE x \in FreeObjs : TRUE
       IN  Commit([states EXCEPT ![ConvOf[m]] = o],
                  [task EXCEPT ![t] = Deliver(t, m, e, Home(t), None)],
                  [objs EXCEPT ![o] = [FreshObj EXCEPT !.next = SeqOf[m] + 1]])
    /\ UNCHANGED dedup

\* Below the anchor: dropped, unless the ack is spent and this session has not
\* dispatched it, when it is delivered out of order rather than lost.
RouteBelow(t, m, spent) ==
    /\ Below(m)
    /\ IF spent /\ ~Seen(dedup, m)
       THEN /\ Commit(states, [task EXCEPT ![t] =
                   Deliver(t, m, [ws |-> FALSE, row |-> FALSE], Home(t), None)], objs)
            /\ UNCHANGED dedup
       ELSE /\ Commit(states, [task EXCEPT ![t] = [Idle EXCEPT !.pc = Home(t)]], objs)
            /\ dedup' = IF spent THEN Hit(dedup, m) ELSE dedup

\* The expected frame: delivered, then everything consecutive behind it.
RouteInOrder(t, m, e) ==
    /\ Tracked(m) /\ SeqOf[m] = Expected(m)
    /\ Commit(states, [task EXCEPT ![t] = Deliver(t, m, e, "inorder", states[ConvOf[m]])], objs)
    /\ UNCHANGED dedup

\* The record of t when _resolve_gap starts on object ob of conversation c
Resolve(t, c, o, ob, recovered) ==
    [task[t] EXCEPT !.pc = "resolving", !.site = "resolving", !.c = c, !.o = o, !.m = NoMsg,
                    !.todo = DOMAIN ob.buf, !.high = ob.next - 1, !.rec = recovered,
                    !.exp = IF ob.started # 0 THEN ob.started ELSE ob.next]

\* A later frame is parked; the first one arms the gap timer, and one too many
\* gives up on the hole.
RoutePark(t, m, e) ==
    LET c == ConvOf[m]
        o == states[c]
        kept == [objs[o] EXCEPT !.buf =
                    [x \in DOMAIN @ \cup {m} |-> IF x = m THEN e ELSE @[x]]]
        overflow == Cardinality(DOMAIN kept.buf) > MaxBuffered
    IN
    /\ Tracked(m) /\ SeqOf[m] > Expected(m)
    /\ \/ /\ overflow
          /\ Commit(states, [task EXCEPT ![t] = Resolve(t, c, o, kept, FALSE)],
                    [objs EXCEPT ![o] = kept])
       \/ /\ ~overflow /\ kept.timer # None
          /\ Commit(states, [task EXCEPT ![t] = [Idle EXCEPT !.pc = Home(t)]],
                    [objs EXCEPT ![o] = kept])
       \/ /\ ~overflow /\ kept.timer = None /\ FreeGapTasks # {}
          /\ LET g == CHOOSE x \in FreeGapTasks : TRUE
             IN  Commit(states,
                        [task EXCEPT ![t] = [Idle EXCEPT !.pc = Home(t)],
                                     ![g] = [Idle EXCEPT !.pc = "asleep", !.c = c]],
                        [objs EXCEPT ![o] = [kept EXCEPT !.timer = g, !.started = kept.next]])
    /\ UNCHANGED dedup

Route(t, m, e, spent) ==
    \/ RouteUnsequenced(t, m, e)
    \/ RouteAnchor(t, m, e)
    \/ RouteBelow(t, m, spent)
    \/ RouteInOrder(t, m, e)
    \/ RoutePark(t, m, e)

\* A message.new frame reaches the recv loop: any published message, again or
\* in any order, or one published just now.
RecvFrame(m) ==
    /\ At("recv", "idle")
    /\ conn = "up" /\ frames < MaxFrames
    /\ frames' = frames + 1
    /\ pub' = IF m > pub THEN m ELSE pub
    /\ acked' \in IF AckOnReceipt THEN Acks({m}) ELSE {acked}
    /\ Route("recv", m, [ws |-> ~AckOnReceipt, row |-> FALSE], AckOnReceipt)
    /\ UNCHANGED <<link, drain, app, connects>>

----------------------------------------------------------------------------
(* After an in-order delivery: _drain_consecutive and what follows it *)

\* next_expected_seq on entry to the loop's next test
NextInLine(t) ==
    CASE task[t].pc = "inorder" -> SeqOf[task[t].m] + 1
      [] task[t].pc = "chained" -> objs[task[t].o].next + 1
      [] OTHER -> objs[task[t].o].next

InLine(t) == {x \in DOMAIN objs[task[t].o].buf : SeqOf[x] = NextInLine(t)}

AtChain(t) == Runs(t) /\ task[t].pc \in {"inorder", "chained", "chain"}

\* The frame that is next in line leaves the buffer and is delivered.
ChainNext(t) ==
    LET o == task[t].o IN
    /\ AtChain(t)
    /\ \E m \in InLine(t) :
          Commit(states,
                 [task EXCEPT ![t] = Deliver(t, m, objs[o].buf[m], "chained", o)],
                 [objs EXCEPT ![o].next = NextInLine(t),
                              ![o].buf = [x \in DOMAIN @ \ {m} |-> @[x]]])
    /\ UNCHANGED <<server, link, drain, dedup, app, bounds>>

\* Nothing is: a router clears a timer it no longer needs and forgets an idle
\* conversation; the gap timer goes on to resolve what is left of the gap.
ChainEnd(t) ==
    LET c == task[t].c
        o == task[t].o
        ob == [objs[o] EXCEPT !.next = NextInLine(t)]
        drained == task[t].pc = "chained"
        stop == IF ob.buf = <<>> /\ ob.timer # None THEN {ob.timer} ELSE {}
        calm == IF stop = {} THEN ob ELSE [ob EXCEPT !.timer = None, !.started = 0]
    IN
    /\ AtChain(t)
    /\ InLine(t) = {}
    /\ IF t \in GapTasks
       THEN Commit(IF drained THEN Cleanup(states, c, ob) ELSE states,
                   [task EXCEPT ![t] = Resolve(t, c, o, ob, drained)],
                   [objs EXCEPT ![o] = ob])
       ELSE Commit(Cleanup(states, c, calm),
                   Cancel([task EXCEPT ![t] = [Idle EXCEPT !.pc = Home(t)]], stop),
                   [Unfill(objs, stop) EXCEPT ![o] = calm])
    /\ UNCHANGED <<server, link, drain, dedup, app, bounds>>

----------------------------------------------------------------------------
(* Gap timer and gap fill: _gap_timer, _handle_gap_timer, _resolve_gap *)

\* The timer fires.  It looks the conversation up again, so the object it finds
\* need not be the one that armed it.
GapTimerFires(t) ==
    LET c == task[t].c
        o == states[c]
        ob == [objs[o] EXCEPT !.timer = None]
        becomes(r) == [task EXCEPT ![t] = r]
    IN
    /\ t \in GapTasks /\ At(t, "asleep")
    /\ IF o = None THEN Commit(states, becomes(Idle), objs)
       ELSE \/ /\ ob.buf = <<>>
               /\ Commit(Cleanup(states, c, ob), becomes(Idle), [objs EXCEPT ![o] = ob])
            \/ /\ ob.buf # <<>> /\ ~HasClient
               /\ Commit(states, becomes(Resolve(t, c, o, ob, FALSE)), [objs EXCEPT ![o] = ob])
            \/ /\ ob.buf # <<>> /\ HasClient /\ ob.fill
               /\ Commit(states, becomes(Idle), [objs EXCEPT ![o] = ob])
            \/ /\ ob.buf # <<>> /\ HasClient /\ ~ob.fill
               /\ Commit(states,
                         becomes([task[t] EXCEPT !.pc = "fetch", !.o = o, !.exp = ob.next,
                                                 !.from = ob.next, !.read = pub]),
                         [objs EXCEPT ![o] = [ob EXCEPT !.fill = TRUE]])
    /\ UNCHANGED <<server, link, drain, dedup, app, bounds>>

\* The rows of a conversation, from a seq on, that this agent can see when
\* messages 1..read are published
Visible(c, from, read) ==
    {m \in 1..read \ Hidden : ConvOf[m] = c /\ SeqOf[m] # NoSeq /\ SeqOf[m] >= from}

Before(ms, m) == Cardinality({n \in ms : n < m})

\* What GET messages?after_seq=from-1&limit=GapFillLimit answers: the oldest of
\* them
HistoryPage(c, from, read) ==
    {m \in Visible(c, from, read) : Before(Visible(c, from, read), m) < GapFillLimit}

\* Mutant of GapFillFails: a failed request ends the timer, and that is all
GapFillGivesUp(t) ==
    /\ t \in GapTasks /\ At(t, "fetch")
    /\ Commit(states, [task EXCEPT ![t] = Idle], [objs EXCEPT ![task[t].o].fill = FALSE])
    /\ UNCHANGED <<server, link, drain, dedup, app, bounds>>

\* Mutant of GapFillFails: the gap is reported as recovered all the same
GapFillFailsClaims(t) ==
    LET o == task[t].o
        ob == [objs[o] EXCEPT !.fill = FALSE]
        gone == states[task[t].c] # o
    IN
    /\ t \in GapTasks /\ At(t, "fetch")
    /\ Commit(states,
              [task EXCEPT ![t] = IF gone THEN Idle ELSE Resolve(t, task[t].c, o, ob, TRUE)],
              [objs EXCEPT ![o] = ob])
    /\ UNCHANGED <<server, link, drain, dedup, app, bounds>>

\* The request failed, or the ordering state is gone (the socket closed).
GapFillFails(t) ==
    LET o == task[t].o
        ob == [objs[o] EXCEPT !.fill = FALSE]
        gone == states[task[t].c] # o
    IN
    /\ t \in GapTasks /\ At(t, "fetch")
    /\ Commit(states,
              [task EXCEPT ![t] = IF gone THEN Idle ELSE Resolve(t, task[t].c, o, ob, FALSE)],
              [objs EXCEPT ![o] = ob])
    /\ UNCHANGED <<server, link, drain, dedup, app, bounds>>

\* A page read when messages 1..read were published joins the buffer; with
\* ack_on_receipt the fetch is its receipt.
TakesPage(t, read) ==
    LET o == task[t].o
        rows == HistoryPage(task[t].c, task[t].from, read) \ DOMAIN objs[o].buf
    IN
    /\ acked' \in IF AckOnReceipt THEN Acks(rows) ELSE {acked}
    /\ Commit(states,
              [task EXCEPT ![t].pc = "chain", ![t].read = read],
              [objs EXCEPT ![o].fill = FALSE,
                           ![o].buf = [m \in DOMAIN @ \cup rows |->
                               IF m \in DOMAIN @ THEN @[m]
                               ELSE [ws |-> ~AckOnReceipt, row |-> FALSE]]])

\* The answer arrives.  The server read the history at some moment since the
\* request: what was published between then and now is not in it.
GapFillAnswers(t) ==
    /\ t \in GapTasks /\ At(t, "fetch")
    /\ states[task[t].c] = task[t].o
    /\ \E read \in task[t].read .. pub : TakesPage(t, read)
    /\ UNCHANGED <<pub, link, drain, dedup, app, bounds>>

AtSweep(t) == Runs(t) /\ task[t].pc \in {"resolving", "flushing"}

Lowest(ms) == {m \in ms : \A n \in ms : m <= n}

\* _resolve_gap and _flush_parked_frames walk the seqs they saw at the start.
SweepNext(t) ==
    LET o == task[t].o IN
    /\ AtSweep(t)
    /\ \E m \in Lowest(task[t].todo) \cap DOMAIN objs[o].buf :
          Commit(states,
                 [task EXCEPT ![t] =
                     [Deliver(t, m, objs[o].buf[m], task[t].pc, o) EXCEPT
                         !.todo = @ \ {m},
                         !.high = IF SeqOf[m] > @ THEN SeqOf[m] ELSE @]],
                 objs)
    /\ UNCHANGED <<server, link, drain, dedup, app, bounds>>

\* The walk is done: _resolve_gap empties the buffer, moves past the hole and
\* drops the timer; the flush only empties the buffer.  Both report the gap.
SweepEnd(t) ==
    LET o == task[t].o
        timer == objs[o].timer
        gap == task[t].pc = "resolving"
        stop == IF gap /\ timer # None THEN {timer} ELSE {}
        ended == [objs[o] EXCEPT !.buf = <<>>]
    IN
    /\ AtSweep(t)
    /\ task[t].todo = {}
    /\ Commit(states,
              Cancel([task EXCEPT ![t].pc = "notify", ![t].m = NoMsg], stop),
              [Unfill(objs, stop) EXCEPT ![o] =
                  IF gap
                  THEN [ended EXCEPT !.next = task[t].high + 1, !.timer = None, !.started = 0,
                                     !.fill = Unfill(objs, stop)[o].fill]
                  ELSE ended])
    /\ UNCHANGED <<server, link, drain, dedup, app, bounds>>

\* on_sequence_gap returned.
Notified(t) ==
    LET c == task[t].c
        o == task[t].o
    IN
    /\ At(t, "notify")
    /\ IF task[t].site = "flushing"
       THEN Commit(states, [task EXCEPT ![t] =
                [Idle EXCEPT !.pc = "flush", !.work = task[t].work, !.owned = task[t].owned]], objs)
       ELSE Commit(Cleanup(states, c, objs[o]),
                   [task EXCEPT ![t] = [Idle EXCEPT !.pc = Home(t)]], objs)
    /\ UNCHANGED <<server, link, drain, dedup, app, bounds>>

----------------------------------------------------------------------------
(* The connection, as far as delivery sees it *)

\* hello.ok on a new socket; the drain is spawned unless one is in flight.
Connect ==
    /\ conn = "down" /\ ~disposed /\ connects < MaxConnects
    /\ \A t \in Tasks : task[t].pc \in Waiting
    /\ connects' = connects + 1
    /\ conn' = "up"
    /\ ackOn' \in AckModes
    /\ seen' = {}
    /\ IF HasClient /\ task["drain"].pc = "idle"
       THEN Commit(states, [task EXCEPT !["drain"].pc = "sync"], objs)
       ELSE UNCHANGED order
    /\ UNCHANGED <<server, disposed, drain, dedup, handed, clean, frames>>

\* Mutant of Flush: the flush of a closing socket finds nothing to do
FlushNothing(t) == [task[t] EXCEPT !.pc = "flush"]

\* The record of a task that starts _flush_parked_frames
Flush(t) ==
    [task[t] EXCEPT !.pc = "flush",
                    !.work = {<<c, states[c]>> : c \in {d \in Conv : states[d] # None}}]

\* The socket ended: the recv loop's finally, up to and with on_disconnect.
\* A disconnect() that waited long enough cancels the loop inside a handler.
SocketCloses ==
    /\ conn = "up"
    /\ \/ At("recv", "idle")
       \/ At("recv", "handler") /\ "handler" \in Waiting /\ task["stop"].pc = "leaving"
    /\ conn' = "closing"
    /\ ackOn' = FALSE
    /\ Commit(states, [task EXCEPT !["recv"] = [Idle EXCEPT !.pc = "closing"]], objs)
    /\ UNCHANGED <<server, disposed, drain, dedup, app, bounds>>

Timers == {objs[states[c]].timer : c \in {d \in Conv : states[d] # None}} \ {None}

\* Parked frames were acked at receipt: hand them over.  Otherwise they come
\* back with the next drain: _reset_order_states drops them with their timers.
CloseOrderState ==
    /\ At("recv", "closing")
    /\ IF AckOnReceipt
       THEN Commit(states, [task EXCEPT !["recv"] = Flush("recv")], objs) /\ UNCHANGED conn
       ELSE /\ Commit([c \in Conv |-> None],
                      Cancel([task EXCEPT !["recv"] = Idle], Timers), Unfill(objs, Timers))
            /\ conn' = "down"
    /\ UNCHANGED <<server, ackOn, disposed, drain, dedup, app, bounds>>

\* Mutant of FlushConversation: it walks the seqs from the expected one on, the
\* hole included, in place of those in the buffer
FlushConversationBySeq(t) ==
    \E w \in task[t].work :
        LET o == w[2]
            buf == DOMAIN objs[o].buf
            upTo == {m \in 1..pub : ConvOf[m] = w[1] /\ \E n \in buf : m <= n}
            rest == [task[t] EXCEPT !.work = @ \ {w}]
        IN
        /\ At(t, "flush")
        /\ Commit(states,
                  [task EXCEPT ![t] =
                      IF buf = {} THEN rest
                      ELSE [rest EXCEPT !.pc = "flushing", !.c = w[1], !.o = o,
                                        !.todo = {m \in upTo : SeqOf[m] >= objs[o].next}]],
                  objs)
        /\ UNCHANGED <<server, link, drain, dedup, app, bounds>>

\* _flush_parked_frames takes the next conversation of its snapshot.
FlushConversation(t) ==
    \E w \in task[t].work :
        LET o == w[2]
            ob == [objs[o] EXCEPT !.timer = None]
            stop == {objs[o].timer} \ {None}
            rest == [task[t] EXCEPT !.work = @ \ {w}]
        IN
        /\ At(t, "flush")
        /\ Commit(states,
                  Cancel([task EXCEPT ![t] =
                      IF ob.buf = <<>> THEN rest
                      ELSE [rest EXCEPT !.pc = "flushing", !.c = w[1], !.o = o,
                                        !.todo = DOMAIN ob.buf, !.high = ob.next - 1, !.rec = FALSE,
                                        !.exp = IF ob.started # 0 THEN ob.started ELSE ob.next]],
                      stop),
                  [Unfill(objs, stop) EXCEPT ![o].timer = None])
        /\ UNCHANGED <<server, link, drain, dedup, app, bounds>>

\* The order states go.  The recv loop then schedules the reconnect;
\* disconnect() takes the socket away and closes it.
FlushEnd(t) ==
    /\ At(t, "flush")
    /\ task[t].work = {}
    /\ IF t = "recv"
       THEN /\ Commit([c \in Conv |-> None], [task EXCEPT ![t] = Idle], objs)
            /\ conn' = "down" /\ UNCHANGED ackOn
       ELSE /\ Commit([c \in Conv |-> None], [task EXCEPT ![t].pc = "leaving"], objs)
            /\ ackOn' = FALSE /\ UNCHANGED conn
    /\ UNCHANGED <<server, disposed, drain, dedup, app, bounds>>

\* disconnect(): no more work is started, the tasks that exist are noted.
Disconnect ==
    /\ ~disposed /\ conn # "dead"
    /\ At("stop", "idle")
    /\ disposed' = TRUE
    /\ Commit(states,
              [task EXCEPT !["stop"] =
                  [Flush("stop") EXCEPT !.owned = {t \in GapTasks \cup {"drain"} : task[t].pc # "idle"}]],
              [o \in ObjIds |->
                  IF \E c \in Conv : states[c] = o THEN [objs[o] EXCEPT !.timer = None] ELSE objs[o]])
    /\ UNCHANGED <<server, conn, ackOn, drain, dedup, app, bounds>>

\* The socket is closed and the recv loop done: the noted tasks are cancelled.
Release ==
    LET ts == task["stop"].owned IN
    /\ At("stop", "leaving")
    /\ conn \in {"down", "dead"}
    /\ conn' = "stopped"
    /\ Commit(states, Cancel([task EXCEPT !["stop"] = Idle], ts), Unfill(objs, ts))
    /\ drain' = IF "drain" \in ts THEN NoDrain ELSE drain
    /\ UNCHANGED <<server, ackOn, disposed, dedup, app, bounds>>

----------------------------------------------------------------------------
(* The REST drain: drain_offline_envelopes, _run_drain *)

\* GET /v1/messages/sync?after: the oldest PageSize undelivered rows
SyncRows ==
    LET waiting == {m \in 1..pub \ acked : m > drain.after}
    IN  {m \in waiting : Cardinality({n \in waiting : n < m}) < PageSize}

DrainTo(pc) == [task EXCEPT !["drain"] = [Idle EXCEPT !.pc = pc]]

\* The drain ends here, whatever it had settled so far
DrainEnds ==
    /\ Commit(states, DrainTo("idle"), objs)
    /\ drain' = NoDrain

\* An envelope of an earlier page is no key of the new _drain_settlements.
ForgetRows(obs) ==
    [o \in ObjIds |-> [obs[o] EXCEPT !.buf = [m \in DOMAIN @ |-> [@[m] EXCEPT !.row = FALSE]]]]

SyncFails ==
    /\ At("drain", "sync")
    /\ DrainEnds
    /\ UNCHANGED <<server, link, dedup, app, bounds>>

\* A page arrives; the rows before the first malformed one are the clean prefix.
SyncAnswers ==
    LET rows == SyncRows
        prefix == {m \in rows : \A n \in rows \cap Malformed : m < n}
    IN
    /\ At("drain", "sync")
    /\ IF disposed \/ rows = {} THEN DrainEnds
       ELSE /\ drain' = [drain EXCEPT
                           !.page = prefix, !.left = prefix, !.unchecked = prefix, !.bad = prefix # rows,
                           !.full = Cardinality(rows) = PageSize,
                           !.dups = {}, !.cursor = 0, !.settled = [m \in Msgs |-> "none"]]
            /\ Commit(states,
                      [t \in Tasks |-> IF t = "drain" THEN [Idle EXCEPT !.pc = "row"]
                                       ELSE [task[t] EXCEPT !.row = FALSE]],
                      ForgetRows(objs))
    /\ UNCHANGED <<server, link, dedup, app, bounds>>

\* The next row goes through the same ordering pipeline as a live frame.
DrainRow ==
    /\ At("drain", "row")
    /\ ~disposed
    /\ \E m \in Lowest(drain.left) :
          /\ drain' = [drain EXCEPT !.left = @ \ {m}, !.dups = IF Below(m) THEN @ \cup {m} ELSE @]
          /\ Route("drain", m, [ws |-> FALSE, row |-> TRUE], FALSE)
    /\ UNCHANGED <<server, link, app, bounds>>

\* Mutant of NextAfter: reading goes on after the row that follows the page
NextAfterBeyond ==
    LET ids == drain.page \ NullCursor
    IN  {m + 1 : m \in {n \in ids : n # drain.after /\ \A k \in ids : k <= n}}

\* The last delivery_id of the page, if it takes the read cursor further
NextAfter ==
    LET ids == drain.page \ NullCursor
    IN  {m \in ids : m # drain.after /\ \A n \in ids : n <= m}

\* Mutant of EndPage: a page that cannot advance the cursor is read again
EndPageRereads ==
    IF drain.bad \/ disposed \/ ~drain.full
    THEN DrainEnds
    ELSE Commit(states, DrainTo("sync"), objs) /\ UNCHANGED drain

\* Read on from there, or stop.
EndPage ==
    IF drain.bad \/ disposed \/ ~drain.full \/ NextAfter = {}
    THEN DrainEnds
    ELSE \E m \in NextAfter :
            /\ Commit(states, DrainTo("sync"), objs)
            /\ drain' = [NoDrain EXCEPT !.after = m, !.frozen = drain.frozen]

\* Every row was routed: work out what the ack cursor may cover.
DrainRouted ==
    /\ At("drain", "row")
    /\ drain.left = {} \/ disposed
    /\ IF drain.frozen \/ disposed THEN EndPage
       ELSE Commit(states, DrainTo("check"), objs) /\ UNCHANGED drain
    /\ UNCHANGED <<server, link, dedup, app, bounds>>

\* Mutant of Ackable: a row counts as covered unless its handler raised
AckableUnlessFailed(m) == drain.settled[m] # "failed"

\* _drain_row_ackable
Ackable(m) ==
    IF drain.settled[m] # "none" THEN drain.settled[m] = "clean"
    ELSE m \in drain.dups /\ Seen(dedup, m)

\* The cursor is known: every row was looked at, or one froze it.
Checked == drain.unchecked = {} \/ drain.frozen

\* In page order: a row whose fate is known moves the cursor, the first other
\* one freezes it for the rest of this drain.
CheckRow ==
    /\ At("drain", "check")
    /\ ~Checked
    /\ \E m \in Lowest(drain.unchecked) :
          /\ drain' = IF Ackable(m)
                      THEN [drain EXCEPT !.unchecked = @ \ {m},
                                         !.cursor = IF m \in NullCursor THEN @ ELSE m]
                      ELSE [drain EXCEPT !.frozen = TRUE]
          /\ dedup' = IF drain.settled[m] = "none" /\ m \in drain.dups
                      THEN Hit(dedup, m) ELSE dedup
    /\ UNCHANGED <<server, link, order, app, bounds>>

PageChecked ==
    /\ At("drain", "check")
    /\ Checked
    /\ IF drain.cursor = 0 THEN EndPage
       ELSE Commit(states, DrainTo("syncack"), objs) /\ UNCHANGED drain
    /\ UNCHANGED <<server, link, dedup, app, bounds>>

\* POST /v1/messages/sync/ack confirms everything at or before the cursor.  It
\* may fail before or after the server applied it; either way the drain ends.
SyncAck(applied, answered) ==
    /\ At("drain", "syncack")
    /\ Checked
    /\ applied \/ ~answered
    /\ acked' = IF applied THEN acked \cup 1..drain.cursor ELSE acked
    /\ IF answered THEN EndPage ELSE DrainEnds
    /\ UNCHANGED <<pub, link, dedup, app, bounds>>

----------------------------------------------------------------------------
(* A parked frame another task took away meanwhile: KeyError *)

\* The exception ends the task it reaches: a gap timer or drain just ends, in
\* the recv loop it reads as a socket error, in the finally of that loop nothing
\* schedules a reconnect any more, and in disconnect() the close never happens.
MissingFrame(t) ==
    /\ AtSweep(t)
    /\ Lowest(task[t].todo) \ DOMAIN objs[task[t].o].buf # {}
    /\ CASE t \in GapTasks ->
              Commit(states, [task EXCEPT ![t] = Idle], objs) /\ UNCHANGED <<link, drain>>
         [] t = "drain" -> DrainEnds /\ UNCHANGED link
         [] t = "stop" ->
              /\ Commit(states, [task EXCEPT ![t] = [Idle EXCEPT !.pc = "failed"]], objs)
              /\ UNCHANGED <<link, drain>>
         [] t = "recv" /\ conn = "up" ->
              /\ Commit(states, [task EXCEPT ![t] = [Idle EXCEPT !.pc = "closing"]], objs)
              /\ conn' = "closing" /\ ackOn' = FALSE
              /\ UNCHANGED <<disposed, drain>>
         [] OTHER ->
              /\ Commit(states, [task EXCEPT ![t] = Idle], objs)
              /\ conn' = "dead"
              /\ UNCHANGED <<ackOn, disposed, drain>>
    /\ UNCHANGED <<server, dedup, app, bounds>>

----------------------------------------------------------------------------
Init ==
    /\ pub \in 0..Total /\ acked = {}
    /\ conn = "down" /\ ackOn = FALSE /\ disposed = FALSE
    /\ states = [c \in Conv |-> None]
    /\ objs = [o \in ObjIds |-> FreshObj]
    /\ task = [t \in Tasks |-> Idle]
    /\ drain = NoDrain /\ dedup = <<>>
    /\ handed = {} /\ clean = {} /\ seen = {}
    /\ frames = 0 /\ connects = 0

\* One step of a task that is not waiting for the outside world
Step(t) ==
    \/ DedupHit(t) \/ Dispatch(t)
    \/ ChainNext(t) \/ ChainEnd(t)
    \/ SweepNext(t) \/ SweepEnd(t) \/ MissingFrame(t)
    \/ FlushConversation(t) \/ FlushEnd(t)

HandlerReturns(t) == HandledCleanly(t) \/ HandlerRaised(t) \/ Notified(t)

GapTimer(t) == GapTimerFires(t) \/ GapFillFails(t) \/ GapFillAnswers(t)

Drain ==
    \/ SyncFails \/ SyncAnswers \/ DrainRow \/ DrainRouted \/ CheckRow \/ PageChecked
    \/ \E applied, answered \in BOOLEAN : SyncAck(applied, answered)

Socket == CloseOrderState \/ Release

Environment == (\E m \in Msgs : RecvFrame(m)) \/ Connect \/ SocketCloses \/ Disconnect

Next ==
    \/ \E t \in Tasks : Step(t) \/ HandlerReturns(t) \/ GapTimer(t)
    \/ Drain \/ Socket \/ Environment

Spec == Init /\ [][Next]_vars

\* What asyncio and the timeouts of the HTTP client justify: a task that can go
\* on does, a sleep ends, a request answers or fails, a handler returns.
Fairness ==
    /\ \A t \in Tasks : WF_vars(Step(t)) /\ WF_vars(HandlerReturns(t)) /\ WF_vars(GapTimer(t))
    /\ WF_vars(Drain) /\ WF_vars(CloseOrderState)

FairSpec == Spec /\ Fairness

----------------------------------------------------------------------------
(* Properties *)

OrderState ==
    [next : Nat, buf : UNION {[S -> Entry] : S \in SUBSET Msgs}, timer : GapTasks \cup {None},
     started : Nat, fill : BOOLEAN]

DrainState ==
    [after : 0..Total, frozen : BOOLEAN, page : SUBSET Msgs, bad : BOOLEAN, full : BOOLEAN,
     left : SUBSET Msgs, unchecked : SUBSET Msgs, dups : SUBSET Msgs, cursor : 0..Total,
     settled : [Msgs -> {"none", "clean", "failed"}]]

TypeOK ==
    /\ pub \in 0..Total /\ acked \subseteq Msgs
    /\ conn \in {"down", "up", "closing", "dead", "stopped"}
    /\ ackOn \in BOOLEAN /\ disposed \in BOOLEAN
    /\ states \in [Conv -> ObjIds \cup {None}]
    /\ \A o \in ObjIds : objs[o] \in OrderState
    /\ DOMAIN task = Tasks
    /\ \A t \in Tasks : /\ task[t].m \in Msgs \cup {NoMsg}
                        /\ task[t].c \in Conv \cup {None} /\ task[t].o \in ObjIds \cup {None}
                        /\ task[t].todo \subseteq Msgs /\ task[t].owned \subseteq Tasks
    /\ drain \in DrainState
    /\ \A i \in 1..Len(dedup) : dedup[i] \in Msgs
    /\ handed \cup clean \cup seen \subseteq Msgs

Running == {t \in Tasks : task[t].pc \notin Waiting}

Parked(c) == IF states[c] = None THEN {} ELSE DOMAIN objs[states[c]].buf

\* In the default mode the client confirms a message to the server, by an ack
\* frame or by the sync/ack cursor, only after every handler settled it cleanly
\* (docstrings of _deliver_message_new and drain_offline_envelopes).
AckedWasDispatched == ~AckOnReceipt => acked \subseteq clean

\* Why it holds (the parts of the inductive invariant): an id is in the dedup
\* cache, and a row of the drain's page is settled, only after a clean dispatch;
\* until the drain freezes, all it has read is covered, handled or confirmed
\* before, and so is all that its page jumps over and all up to the ack cursor.
Covered == clean \cup acked
DedupIsClean == dedup \in Seq(clean)
SettledIsClean == \A m \in Msgs : drain.settled[m] = "clean" => m \in clean
ReadIsCovered == ~drain.frozen => 1..drain.after \subseteq Covered
SkippedIsCovered ==
    \A m \in Msgs \ drain.page : \A n \in drain.page : drain.after < m /\ m < n => m \in Covered
CheckedIsClean ==
    /\ drain.unchecked \subseteq drain.page
    /\ ~drain.frozen => drain.page \ drain.unchecked \subseteq clean
    /\ \A m \in drain.page, n \in drain.unchecked : n < m => m \in drain.unchecked
CursorIsCovered == 1..drain.cursor \subseteq Covered

ConfirmInv ==
    /\ drain \in DrainState /\ pub \in 0..Total
    /\ AckedWasDispatched /\ DedupIsClean /\ SettledIsClean
    /\ ReadIsCovered /\ SkippedIsCovered /\ CheckedIsClean /\ CursorIsCovered

\* In the default mode delivery implements the at-least-once promise: every step
\* of the client is a step, or none, of AtLeastOnce.
Promise ==
    INSTANCE AtLeastOnce WITH Msgs <- Msgs, handed <- handed, clean <- clean, acked <- acked
KeepsPromise == Promise!Spec

InMemory ==
    (UNION {DOMAIN objs[o].buf : o \in Referenced(states, task) \ {None}})
        \cup {task[t].m : t \in {u \in Tasks : task[u].pc = "deliver"}}

\* With ack_on_receipt the server never offers an acked message again, so one
\* that no handler has seen must still be held by the client.
NoAckedFrameLost == AckOnReceipt => acked \subseteq handed \cup InMemory

\* A message that every handler has settled is not handed to them again (the
\* dedup cache being large enough for the messages in play).
NoRepeat == \A t \in Tasks : task[t].pc = "handler" => task[t].m \notin clean

\* A frame parked on a gap always has somebody to release it: the armed timer of
\* its conversation, the gap fill at work on it, or the close of the socket.
ParkedHasTimer ==
    Running = {} /\ conn = "up" /\ ~disposed =>
        \A c \in Conv : Parked(c) # {} =>
            \/ /\ objs[states[c]].timer # None
               /\ task[objs[states[c]].timer].pc = "asleep"
               /\ task[objs[states[c]].timer].c = c
            \/ \E t \in Tasks : task[t].o = states[c]

\* Rule 1, "nothing but disconnect() ends the client": no exception of the
\* delivery path leaves it without a socket and without a scheduled reconnect.
NeverDead == conn # "dead"

\* The messages a gap report is about: between the expected seq and the highest
\* one handed over, and never handed over themselves
Hole(t) == {m \in 1..pub : /\ ConvOf[m] = task[t].c
                           /\ SeqOf[m] \in task[t].exp..task[t].high
                           /\ m \notin handed}

Recovered(t) == task[t].pc = "notify" /\ task[t].rec

\* A gap reported with recovered=True has left out, of the messages it is about,
\* only what history hides, what was published after the server read the page,
\* and what lay behind a full page (_gap_fill, _resolve_gap: 1842, 1885-1905).
RecoveredIsComplete ==
    \A t \in Tasks : Recovered(t) =>
        \A m \in Hole(t) :
            \/ m \in Hidden
            \/ m > task[t].read
            \/ Before(Visible(task[t].c, task[t].from, task[t].read), m) >= GapFillLimit

SameConv(m, n) == ConvOf[m] = ConvOf[n] /\ SeqOf[m] # NoSeq /\ SeqOf[n] # NoSeq

\* Per conversation, handlers see the messages of one connection in strictly
\* ascending seq order (comment above _process_ordered_message).
Ascending ==
    [][~disposed => \A m \in seen' \ seen, n \in seen : SameConv(m, n) => n < m]_vars

\* A drain comes to its end: no page is read over and over because its rows
\* cannot advance the read cursor ("stopping to avoid a re-read loop").
DrainEnded == task["drain"].pc # "idle" ~> task["drain"].pc = "idle"

\* Whatever happens to the socket, a parked frame does not stay parked.
ParkedIsReleased == \A c \in Conv, m \in Msgs : m \in Parked(c) ~> m \notin Parked(c)

=============================================================================
