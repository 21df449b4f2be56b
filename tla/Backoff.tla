------------------------------ MODULE Backoff ------------------------------
(***************************************************************************)
(* How long a RealtimeClient waits before it reconnects: the counter of    *)
(* attempts, the stability timer that clears it, the delays, and the two   *)
(* notices to the operator about a long outage and a flapping connection.  *)
(* Connection models who reconnects; here one connection follows another,  *)
(* and time passes in units of which Stable and Rapid are multiples.       *)
(***************************************************************************)
EXTENDS Integers, FiniteSetsExt

CONSTANTS
    Interval,       \* reconnect_interval_ms
    MaxInterval,    \* max_reconnect_interval_ms
    LongInterval,   \* _LONG_OUTAGE_MAX_INTERVAL_MS
    LongAfter,      \* _LONG_OUTAGE_AFTER_ATTEMPTS
    Stable, Rapid,  \* _STABLE_CONNECTION_S, _RAPID_RECONNECT_S
    WarnAt,         \* _INSTABILITY_WARN_THRESHOLD
    RetryMs,        \* _AUTH_RETRY_INTERVAL_MS
    MaxAttempts,    \* bound: backoffs counted
    MaxFlaps        \* bound: rapid reconnects counted

\* Times and counts; the two options are not looked at, a negative interval is
\* nobody's choice.
ASSUME BackoffAssumption ==
    /\ Interval \in Nat /\ MaxInterval \in Nat /\ LongInterval \in Nat
    /\ LongAfter \in Nat /\ WarnAt \in Nat \ {0}
    /\ Stable \in Nat /\ Rapid \in Nat

VARIABLES
    link,    \* pc, the stability timer, _reconnect_attempts, _rapid_reconnects,
             \* _long_outage_announced, and the delay of the reconnect timer
    age,     \* time since hello.ok, up to Rapid
    story    \* history: backoffs since a connection was stable, young
             \* connections in a row, and the notices given in these

backoffVars == <<link, age, story>>

BackoffInit ==
    /\ link = [pc |-> "opening", timer |-> FALSE, attempts |-> 0, rapid |-> 0,
               announced |-> FALSE, delay |-> 0]
    /\ age = 0
    /\ story = [failures |-> 0, flaps |-> 0, outages |-> 0, warnings |-> 0]

\* The delays of a backoff in ms: doubled with each attempt up to a cap, then up
\* to a quarter less, truncated
ReconnectDelays(attempt) ==
    LET cap == IF attempt > LongAfter THEN Max({MaxInterval, LongInterval}) ELSE MaxInterval
        ms == Min({Interval * 2^Min({attempt - 1, 20}), cap})
    IN  {d \in 0 .. ms : 4 * (d + 1) > 3 * ms}

RetryDelays == {d \in 0 .. 2 * RetryMs : 5 * (d + 1) > 4 * RetryMs /\ 5 * d < 6 * RetryMs}

Announces(attempt, announced) == attempt > LongAfter /\ ~announced

\* The backoff is counted, perhaps announced, and the timer armed.
ScheduleReconnect(l, s) ==
    LET attempt == l.attempts + 1
        long == Announces(attempt, l.announced)
    IN  /\ attempt <= MaxAttempts
        /\ \E d \in ReconnectDelays(attempt) :
              link' = [l EXCEPT !.pc = "backoff", !.attempts = attempt, !.delay = d,
                                !.announced = @ \/ long]
        /\ story' = [s EXCEPT !.failures = @ + 1, !.outages = @ + IF long THEN 1 ELSE 0]

\* The timer ends, or a caller of connect() cuts the wait short.
Reconnects ==
    /\ link.pc \in {"backoff", "blocked"}
    /\ link' = [link EXCEPT !.pc = "opening", !.delay = 0]
    /\ UNCHANGED <<age, story>>

\* The transport does not open, or takes no HELLO.
CannotConnect ==
    /\ link.pc = "opening"
    /\ ScheduleReconnect(link, story)
    /\ UNCHANGED age

Connects ==
    /\ link.pc = "opening"
    /\ link' = [link EXCEPT !.pc = "greeting"]
    /\ UNCHANGED <<age, story>>

\* Mutant: a handshake is proof enough that the connection is good.
StabilityStartsCleared(l) == [l EXCEPT !.timer = TRUE, !.attempts = 0, !.announced = FALSE]

StabilityStarts(l) == [l EXCEPT !.timer = TRUE]

\* hello.ok
Handshaken ==
    /\ link.pc = "greeting"
    /\ link' = [StabilityStarts(link) EXCEPT !.pc = "ready"]
    /\ age' = 0
    /\ UNCHANGED story

\* The server closes before hello.ok: it rejects the key, which is not counted,
\* or the next HELLO is the evidence.
Rejected ==
    /\ link.pc = "greeting"
    /\ \E d \in RetryDelays : link' = [link EXCEPT !.pc = "blocked", !.delay = d]
    /\ UNCHANGED <<age, story>>

Unanswered ==
    /\ link.pc = "greeting"
    /\ ScheduleReconnect(link, story)
    /\ UNCHANGED age

\* The stability timer comes when Stable has passed, or later if the loop is busy.
MarkStable ==
    /\ link.timer /\ age >= Stable
    /\ link' = [link EXCEPT !.timer = FALSE, !.attempts = 0, !.rapid = 0, !.announced = FALSE]
    /\ story' = [failures |-> 0, flaps |-> 0, outages |-> 0, warnings |-> 0]
    /\ UNCHANGED age

\* The socket breaks; on_error handlers take their time before the close is
\* handled, and until then the connection counts as up.
SocketBreaks ==
    /\ link.pc = "ready"
    /\ link' = [link EXCEPT !.pc = "failing"]
    /\ UNCHANGED <<age, story>>

\* Mutant: the warning is repeated with every further reconnect.
WarnsFromThreshold(rapid) == rapid >= WarnAt

Warns(rapid) == rapid = WarnAt

\* _note_connection_ended, with what it makes of the story so far
Noted ==
    IF age >= Rapid
    THEN [link |-> [link EXCEPT !.rapid = 0], story |-> [story EXCEPT !.flaps = 0, !.warnings = 0]]
    ELSE [link |-> [link EXCEPT !.rapid = @ + 1],
          story |-> [story EXCEPT !.flaps = IF age < Stable THEN @ + 1 ELSE 0,
                                  !.warnings = @ + IF Warns(link.rapid + 1) THEN 1 ELSE 0]]

\* The close handling of a connection that was ready: its timer is cancelled
\* before anything else, its length is noted, and the backoff follows.
Ended ==
    /\ link.pc \in {"ready", "failing"}
    /\ link.rapid < MaxFlaps
    /\ LET stable == age >= Stable
           s == Noted.story
       IN  ScheduleReconnect([Noted.link EXCEPT !.timer = FALSE],
                             IF stable THEN [s EXCEPT !.failures = 0] ELSE s)
    /\ age' = 0

TimePasses ==
    /\ link.pc \in {"ready", "failing"} /\ age < Rapid
    /\ age' = age + 1
    /\ UNCHANGED <<link, story>>

BackoffNext ==
    \/ Reconnects \/ CannotConnect \/ Connects \/ Handshaken
    \/ Rejected \/ Unanswered \/ MarkStable
    \/ SocketBreaks \/ Ended \/ TimePasses

BackoffSpec == BackoffInit /\ [][BackoffNext]_backoffVars

----------------------------------------------------------------------------
(* Properties *)

\* Only a connection that stayed up for Stable puts the delay back to its floor:
\* while the server is down, or accepts every handshake and drops the socket
\* soon after, the delays double with every backoff up to the cap, 20 times at
\* most; and the cap, wider in a long outage, is never passed (_realtime.py 748-756, 1358-1366,
\* "a connection that dies young must not clear the backoff counter", 1037).
YoungDeathsSlowDown ==
    link.pc = "backoff" =>
        /\ 4 * (link.delay + 1)
             > 3 * Min({Interval * 2^Min({story.failures - 1, 20}), MaxInterval})
        /\ link.delay <= IF link.attempts > LongAfter THEN Max({MaxInterval, LongInterval})
                         ELSE MaxInterval

\* The operator hears of a long outage and of a flapping connection, once each
\* until a connection is stable again (_realtime.py 595, 1275-1285, 784-809).
OperatorIsToldOnce ==
    /\ story.outages <= 1 /\ story.warnings <= 1
    /\ link.pc = "backoff" /\ story.failures > LongAfter => story.outages = 1
    /\ story.flaps >= WarnAt => story.warnings = 1
=============================================================================
