# TLA+ verification of the agentchatme Python SDK

This directory holds TLA+ models of `agentchatme`, the Python SDK of the
AgentChat messaging platform, the TLC configurations that check them on small
instances, and machine-checked proofs (TLAPS). Paths below are relative to the
package, `src/agentchatme/`; `_realtime.py:N` is a line of it. `PROJECT.json`
maps every definition to the lines it models and lists the runs, the mutants
that show that each property can fail, the findings, the hazards and the theorems.

## The system

The SDK has a REST side (sync and async) and a realtime side (asyncio only).
What makes it hard to test is almost all in `RealtimeClient`: several asyncio
tasks share the fields of one object, and every `await` that suspends lets another
task change what was read before it. On the REST side the hard part is what a call
does not know: whether the request whose answer was lost was carried out, and what
arrived on the server since the client looked.

| Component | State | Operations | Talks to | Hard behaviour | Correct when |
| --- | --- | --- | --- | --- | --- |
| **Realtime delivery** (`_realtime.py` 425-453, 930-1250, 1580-1991) | ordering state per conversation (`_OrderState`), gap timers, dedup LRU, drain cursor and settlements, negotiated ack mode | route / park / resolve a frame, deliver and ack, gap timer and gap fill, overflow, offline drain with its positional `sync/ack`, flush at close and at disconnect | the server over WebSocket and REST, user handlers | a frame, a drain row and a gap fill of one conversation interleave at every awaited handler; acks may be lost; the sync cursor covers everything before it; sockets close with frames parked | only what handlers settled is confirmed; nothing confirmed is lost; nothing is repeated; parked frames get out; a gap reported as recovered is; the drain ends |
| **Realtime connection** (`_realtime.py` 369-378, 630-727, 813-1091, 1255-1370, 1459-1518) | `_state`, `_ws`, `_connecting`, `_authenticated`, `_close_initiated_locally`, `_disposed`, six task slots | connect, HELLO, recv loop and its `finally`, two watchdogs, backoff, blocked retry, disconnect | the transport, user handlers (which may call `connect()`), delivery (flush and reset of the ordering state at a close) | timers, watchdogs, server closes, reopening handlers and `disconnect()` race; a close must be charged to the right side | no dead state, no stray socket, a rejection is recognised exactly, the published state is true, `disconnect()` ends |
| **HTTP transports** (`_http.py`, `_http_retry_after.py`) | none across requests | attempt loop, retry decision, delay, hooks, deadline; written out twice, sync and async | httpx, the server, the host's hooks | answers that are lost or late; a gateway that fails a request the server carried out; cancellation of async calls | a value means it was done; what must not be repeated is not; hooks tell what happened; waits and attempts are bounded; a call with a deadline ends, unless its answer trickles for ever |
| **REST clients, resources** (`_client.py`, `_resources.py`) | none | one method, one request, with or without a key and a retry mode; `last_sync_delivery_id`; two iterators | transports | the retry mode and the key of every method, by hand, twice | each method asks for a retry only where it is harmless |
| **Reply gate** (`gate.py`) | the result of a run; the recorded decision of a reply | fetch the tray, ask the model, parse its verdicts, record or hand over, `record()` | REST client, the model, the host's turns | messages arrive meanwhile; runs and `record()` calls overlap; posts whose answer is lost; hosts that crash | only what was shown and judged is read; the result accounts for every card; malformed verdicts fall on the safe side |
| **Pagination** (`_pagination.py`) | offset, buffer | iterate pages | REST client | the list changes between pages; short and empty pages; wrong totals | it ends, skips nothing unless something is deleted, repeats nothing unless something is inserted |
| **Webhook verification** (`_webhook_verify.py`) | none | parse the header, compare, check the age | the host's HTTP server | parts in any order, repeated, unknown; timestamps with a fraction, ahead of the clock, infinite; the tolerance | accepts exactly what the key signed, within the tolerance |
| **Errors** (`errors.py`, `_http.py` 240-290) | none | status and code to exception class | transports | no usable body | losing the body does not change the class where the status has one |
| **Types, rendering, identity, runtime detection** | none | declarations, formatting | - | - | - |
| CI workflows, conformance fixtures, tests | - | - | - | - | used as evidence of what the code promises |

## Modules

| Module | Models | Role |
| --- | --- | --- |
| `DedupLru` | `_BoundedLruSet` (425-453) | pure operators `Hit` and `Add` on a sequence, used by `Delivery` |
| `AtLeastOnce` | - | the abstract promise: messages are published, handled, confirmed; a message is confirmed only after it was handled |
| `Delivery` | realtime delivery | the detailed specification; implements `AtLeastOnce` |
| `Connection` | realtime connection | the lifecycle: who connects, closes and reconnects |
| `Backoff` | `_realtime.py` 748-809, 1273-1293, 1358-1370 | how long it waits: attempt counter, stability timer, delays, notices |
| `RemoteCall` | - | the abstract promise of a REST call: a value means it was carried out, and what may not be repeated takes effect once |
| `Requests` | `_client.py`, `_resources.py` | the request of each method of both clients |
| `Errors` | `errors.py`, `_http.py` 240-290, `_http_retry_after.py` | status and code to exception class; `Retry-After` |
| `HttpRetry` | `_http.py` | calls, attempts and the server; uses `Requests` and `Errors`, implements `RemoteCall` |
| `Verdicts` | `gate.py` 149-166, 268-355 | the verdict parser |
| `Gate` | `gate.py` | runs of the gate, the server's read positions, the host's turns; uses `Verdicts` |
| `Pagination` | `_pagination.py` | one walk over a list that changes |
| `Webhook` | `_webhook_verify.py` | `Verify` as an operator |
| `MCLocal` | - | the parts that need no other, together in one run, with their reference definitions |
| `MCDelivery`, `MCConnection`, `MCHttpRetry`, `MCGate` | - | values of the constants |
| `SharedLemmas` | - | lemmas that several proofs rest on: the cache, recursion over `0 .. n` |
| `DeliveryProofs`, `DeliveryOrderProofs`, `DeliverySyncProofs` | - | theorems about `Delivery`, each module on top of the one before: what is confirmed; types, refinement and repetition; parked frames and recovered gaps |
| `ConnectionProofs`, `HttpRetryProofs`, `GateProofs` | - | theorems about these modules |
| `LocalProofs` | - | theorems about `Backoff`, `Pagination`, `DedupLru`, `Errors`, `Verdicts` and `Webhook` |

### How the models correspond to the code

*Tasks.* In `Delivery` and `Connection` an asyncio task is an actor with a program
counter; one step runs from one suspension to the next, as the event loop runs
it. In `Delivery` a task keeps the loop until an await really suspends (`Runs`):
user handlers suspend iff `AsyncHandlers`, timers and HTTP requests always do. In
`Connection` every handler may suspend.

*`Delivery`.* `states`, `objs` are `_order_states` and its `_OrderState` objects,
by identity, because the code pops by conversation id and keeps references across
awaits. `task` holds the recv loop, the drain, `disconnect()` and the gap timers.
`Route*` are the branches of `_process_ordered_message`, `DedupHit`, `Dispatch`,
`HandledCleanly`, `HandlerRaised` the choke point `_deliver_message_new`,
`GapTimerFires`, `GapFill*`, `TakesPage`, `ChainNext`, `ChainEnd`, `Sweep*`, `Notified` the gap
machinery, `Sync*`, `DrainRow`, `CheckRow`, `EndPage` the drain, `SocketCloses`,
`Flush*`, `Disconnect`, `Release` the ends. `clean`, `handed`, `seen` are
histories that only properties read. A message is its position in the order of
the server's `/sync`; `ConvOf` and `SeqOf` are its fields. The connection is
abstracted to five phases. `MissingFrame` is the `KeyError` of a sweep whose
frame another sweep has taken. A gap fill asks for history (`from`), the server reads it at
some moment between the request and the answer (`read`), and frames that are published in
between may park meanwhile.

*`Connection`.* `client` is the record of the object's fields, `task` the callers
of `connect()` (the application, reconnect timers, and recv loops inside a
handler), the recv loops, and `disconnect()`; `watch` holds the two watchdogs of a
socket and the task they spawn to close it. A recv loop is named after its socket.
`begun` and `helloed` are histories of a socket: did this client begin its close,
did it carry a `hello.ok`. Frames are not in this model, so that a sweep misses one is a
choice, open only where message handlers may suspend (`opts.suspends`): in the recv loop
(`SweepMisses`), in its flush under `ack_on_receipt` (`FlushMisses`) and in that of
`disconnect()` (`StopFails`); `cut` and `halted` remember the sockets whose loops ended so.
`opts.recalls` and `opts.reopens` say who else calls
`connect()`, `opts.cancels` that the application may cancel the task in which it does.

*`Backoff`.* One connection follows another; `link` holds the counters, `age` the
time since `hello.ok` in units of which the two windows are multiples, `story` counts
what happened since a connection was stable. The stability timer may ring late. A
socket that breaks counts as up until its close is handled, as in the code: an
`on_error` handler that takes thirty seconds makes a connection stable (1014, 1040).

*`HttpRetry`.* A call is a record with a program counter; each hook is a suspension.
`flight` holds requests that are on their way, so that an attempt whose deadline
passed may still be carried out later, after the call has settled. `Executes`,
`Recognises` and `Refuses` are the server, of which the code assumes that it knows a
key again. `Trickles` is an answer that goes on coming, a few bytes at a time: httpx bounds each
read, not the request, so no deadline passes meanwhile. What a method sends is a record of `Requests`: the HTTP method, the retry
mode, whether a `client_msg_id` goes with it, and what it makes of a redirect or a 404.

*`Gate`.* A message is its position in its conversation, a conversation is read
through a position. `wake` is a run of the gate, `reply` a `GateReply` it handed to the
host; `Takes` is the server's side of a decision: without an anchor it reads through
everything. A run that crashed takes no more steps, which every behaviour may do, so
crashes need no action of their own.

*`Webhook`.* A timestamp on the wire is a number of half seconds, unreadable, or infinite; the
one that is compared and signed is the whole number of seconds `int()` makes of it.

*`Pagination`.* `walk` holds the locals of the generator, `since` what was in its range
all the time. `paginate` and `apaginate` take the same steps.

### Assumptions of the models

- Sending an ack frame does not suspend; the rows of a `/sync` page are what the
  server has when it answers; frames without a message id are left out.
- A legacy server (no `ack` capability) gets no ack frames: `ackOn = FALSE`.
- Whether a sweep can miss a frame at a given moment is decided in `Delivery`; `Connection`
  allows it whenever a frame can be processed or a flush runs. That may be when nothing is
  parked: it allows more than the code does, so what holds there holds of the code.
- User handlers return. `disconnect()` bounds some waits by one second; the models
  wait without the bound.
- `Connection` leaves the delays to `Backoff`. Tasks that a watchdog spawns start before
  another transport can be opened. The liveness watchdog is on.
- `disconnect()` called from within one of the client's own handlers is not modelled.
- The server keeps idempotency keys and message ids for as long as requests with them
  may arrive, and takes requests with one key to be the same request.
- The HMAC is injective; a model's answer is the list of items in its JSON, or none.

## Runs

Every property of a passing run has a mutant in `PROJECT.json`: a plausible bug in
a mapped definition that makes the run fail on that property.

| Run | Question | Bounds, and why they are enough |
| --- | --- | --- |
| `MCLocal` | the stateless operators and the small machines: `KeepsMostRecent`, `StatusDecides`, `FirstUsableItemCounts`, `VerifiesTheSigned`, `NothingSkipped`, `NothingRepeated`, `Ends`, `YoungDeathsSlowDown`, `OperatorIsToldOnce` | dedup: 4 ids, capacity 2, every sequence of 6 uses. Errors: every code and 12 statuses. Verdicts: every answer of up to 3 items. Signatures: headers of up to 3 parts out of all kinds, timestamps on both sides of the clock, in and just out of the tolerance. Pages: lists of up to 4 items, pages of 2 where 3 were asked for, 2 changes. Backoff: long outage after 3 attempts, 6 attempts, so that a series of deaths passes every threshold twice |
| `DeliveryDefault` | default mode, sync handlers that may raise: `KeepsPromise` (refinement of `AtLeastOnce`), `NoRepeat`, `ParkedHasTimer` | 3 messages of one conversation give in-order, late, duplicate and beyond-a-gap frames; 2 connections give redelivery; page size 2 gives several pages |
| `DeliveryReceipt` | `ack_on_receipt`, sync handlers: is every acked frame handled or held (`NoAckedFrameLost`), does every sweep of a buffer find its frames (`NeverDead`), and what may a gap reported as recovered leave out (`RecoveredIsComplete`)? | 5 messages of one conversation, one of which history hides, history pages of one row, a buffer of 2: pages that are short, full, or older than what is parked, and an overflow while a fill is under way; 2 connections, so that a fill may answer for a conversation that was built anew; 2 pushed frames, the rest comes by the drain |
| `DeliveryAsync` | handlers that suspend and an overflowing buffer of one frame: acks follow handlers | 4 messages so that an overflow sweep meets a gap timer of the same conversation; no REST client, so frames and acks alone |
| `DeliveryPages` | `ConfirmInv` (the inductive invariant), `DrainEnded`, `ParkedIsReleased`, under fairness | 2 conversations, a malformed row, two null delivery ids and an unsequenced message, so that every branch of the page logic occurs; 1 connection |
| `ConnectionSafety` | `VerdictIsSound`, `AliveUntilStopped`, `NoStraySocket`, `StateIsHonest`, `NeverStuck` | 2 sockets (an old recv loop and its successor), 2 timers (the slot and one it no longer names), nine combinations of who reconnects, whether a caller of `connect()` may be cancelled, and which sweeps may miss a frame |
| `ConnectionLive` | `KeepsTrying`, `HandshakeIsBounded`, `DisconnectReturns`, under fairness | the same identities, nobody but the client reconnects; three combinations of `reconnect` and of which sweeps may miss a frame |
| `HttpRetry` | `OneEffect`, `HooksTellTheStory`, `WaitIsBounded`, `KeepsContract` (refinement of `RemoteCall`), `CallsSettle`, under fairness | one call of every kind of request either client makes, 3 attempts, four kinds of failing answers; or two calls with one key, as a host makes them that repeats what it saw fail, 2 attempts each |
| `Gate` | `OnlyJudgedIsRead`, `RecordedIsRead`, `Accounted` | 2 overlapping runs, 2 conversations of which one grows meanwhile, 2 overlapping `record()` calls, answers of up to 2 items |
| `Viol*` | three disagreements between code and documentation (below) | smallest instance that shows each |

All bounds are constants or named identities: `MaxFrames`, `MaxConnects`, `Total`,
`GapTasks`, `ObjIds`, `Socks`, `Timers`, `Calls`, `MaxMessages`, `Wakes`, `MaxChanges`,
`MaxAttempts`, `MaxFlaps`, `MaxUses`, `MaxItems`, `MaxParts`. When all `GapTasks` or `ObjIds` are in
use a frame cannot park or anchor, and when all `Socks` are in use an open can
only fail, so more connections need more identities; sockets and timers
are used again when free, so `Connection` itself has no bound on time.
`CHECK_DEADLOCK FALSE` is stated where a run really ends: every frame was pushed and
every connection used, or `disconnect()` returned.

`DeliveryDefault` states `NoRepeat` for a cache that holds all messages in play and
handlers that do not suspend. `RecoveredIsComplete` names what a report may leave out: what
history hides, what was published after the server read the page, and what lay behind a full
page. `AliveUntilStopped`, `StateIsHonest`, `NoStraySocket` and `DisconnectReturns` name the one
exception each that a missed frame makes, with handlers that suspend. `ConnectionSafety` states `StateIsHonest` for clients nobody else
reconnects and `NeverStuck` for callers that are not cancelled. Outside these conditions
the code breaks them (see below). `OnlyJudgedIsRead` leaves out conversations that were
decided on a card with no message id at all, where a decision reads everything.
`NothingSkipped` needs a list from which nothing is deleted and totals that are given,
`NothingRepeated` one into which nothing is inserted: an offset cannot do better.

### Fairness

`FairSpec` assumes weak fairness of what asyncio and the timeouts guarantee: a task
that can run does, sleeps end, requests answer or fail (the transports have a
deadline; a server that trickles for ever is left out), handlers return, a transport answers an
open, a send and a close. In `HttpRetry` a call that has begun goes on; if it has a deadline,
that passes while no byte comes, for httpx counts it anew with every read (`_http.py` 317-321).
The server need not answer at all. `CallsSettle` is about calls whose answer does not trickle for
ever: for those the code promises nothing. In `Pagination` the consumer takes the whole walk,
and the list changes a bounded number of times.
Nothing is assumed of the application, of frames arriving, of `hello.ok`, of the
liveness deadline or of the server closing a socket.

## Findings

| Run | What the code does |
| --- | --- |
| `ViolAscending` | `_cleanup_if_idle` forgets a quiet conversation, so an older frame anchors it again and handlers see a lower seq after a higher one |
| `ViolDead` | with `ack_on_receipt`, two sweeps of one buffer interleave, the second raises `KeyError` inside the recv loop's `finally`, and no reconnect is scheduled |
| `ViolStuck` | a `connect()` that is cancelled while it notifies `connecting` or sends its HELLO leaves `_connecting` or `_ws` set; every later `connect()` is ignored and nothing reconnects |

Met in the same code, without a run of their own:

- the `KeyError` of `ViolDead`, raised by the sweep of an overflowing buffer while a frame is
  processed, ends the recv loop of an open socket (1013); its `finally` lets go of the socket
  without closing it (1044), so `disconnect()` does not know of it any more (`SweepMisses`),
  unlike 1460 says ("Close the socket ... release every task");
- the same error, raised in the flush of `disconnect()` (1496), makes that call
  raise, with the socket open and the tasks it noted running (`StopFails`);
- a gap fill whose page fills a part of the hole reports `recovered=True` (1842) and hands over
  what is parked beyond the rest: a page read before the last frames were published, or a full
  one of 200 rows. The comment at 1656 promises "no gaps", except when it says `recovered=False`;
- with handlers that suspend, two tasks that carry one message (the drain and the live path)
  both miss the dedup cache (1606, told only at 1615) and dispatch it, unlike "no repeats" (1657);
- with `ack_on_receipt` and handlers that suspend, `_resolve_gap` clears the frames that parked
  while it awaited a handler (1905); they are acked and never dispatched, unlike 257 says;
- an infinite timestamp in a signature header raises `OverflowError` out of `verify_webhook`
  (`_webhook_verify.py` 146), unlike 79-80 say;
- `timeout_ms` bounds each connect, read and write of a request, not the request
  (`_http.py` 317-321): a server that trickles keeps a call open for ever (`Trickles`);
- a gap timer or watchdog armed while `disconnect()` awaits outlives it (1490), and a
  `hello.ok` read meanwhile turns the state of the stopped client to `ready` (971);
- `_enter_blocked` does not look whether `on_disconnect` has reopened the connection, and
  publishes `blocked` over a live one (1319);
- `on_error` for a broken socket runs while `_ws` is still set (1014), so `connect()`
  called from it is ignored, unlike line 643 says;
- `_schedule_reconnect` writes the timer slot after an await without looking at it
  (1293), so with a concurrent `connect()` two timers can sleep at once;
- the jitter of `_http.py` 186-194 is added after the cap, so a delay may exceed
  `max_delay_ms` by a quarter (`WaitIsBounded` allows for it), unlike line 51 says;
- a 4xx without a body and without a class of its own (409, 422) is raised as
  `ServerError`, documented as "Raised on HTTP 5xx" (`errors.py` 239);
- a `DELETE` whose answer was lost is repeated and may then report `NotFoundError`;
- overlapping `record()` calls of one async reply both post (`gate.py` 432); the `Gate` run
  has two of them and the server's read positions come out the same;
- a walk whose first page has no total ends after it; deletions during a walk make it
  skip items (`_pagination.py` 59-60).

## Proofs

`tlapm` checks these theorems, for every value of the constants that the named
assumptions allow. Each states the property of that name which the runs check on a
small instance.

| Theorem | States | Hypotheses |
| --- | --- | --- |
| `DeliveryProofs!AcksFollowHandlers` | `[]AckedWasDispatched`: only messages that every handler settled are confirmed to the server | (the property is about the default ack mode) |
| `DeliveryProofs!ConfirmInvariant` | `[]ConfirmInv`, the inductive invariant behind it | none: both ack modes |
| `DeliveryOrderProofs!TypeCorrect` | `[]TypeOK` | none |
| `DeliveryOrderProofs!ImplementsAtLeastOnce` | `KeepsPromise`: `Delivery` implements `AtLeastOnce` | `~AckOnReceipt`, the mode in which it promises that |
| `DeliveryOrderProofs!SettledIsNotRepeated` | `[]NoRepeat`: what was settled is not handed out again | `~AsyncHandlers`, `DedupCapacity >= Total` |
| `DeliverySyncProofs!AckedIsNotLost` | `[]NoAckedFrameLost`: a frame acked at receipt was handed over or is in memory | `~AsyncHandlers` |
| `DeliverySyncProofs!ParkedIsWatched` | `[]ParkedHasTimer`: parked frames have a timer or a task at work on them | `~AsyncHandlers` |
| `DeliverySyncProofs!OnlyDisconnectEnds` | `[]NeverDead`: no sweep of a buffer misses its frame | `~AsyncHandlers`; `ViolDead` shows the violation without it |
| `DeliverySyncProofs!RecoveredLeavesNothingOut` | `[]RecoveredIsComplete`: a gap reported as recovered leaves out only what history hides, what was published after the server read the page, and what lay behind a full page | `~AsyncHandlers` |
| `ConnectionProofs!TypeCorrect`, `NoSocketIsStray` | `[]TypeOK`, `[]NoStraySocket`: an open socket is the client's current one, unless a missed frame ended its recv loop, and a `disconnect()` that returns has let go of the current one | none (a frame is missed only with handlers that suspend) |
| `ConnectionProofs!VerdictsAreSound` | `VerdictIsSound`, an action property: a close is charged to the right side | none |
| `ConnectionProofs!NoDeadState`, `ConnectIsNeverStuck` | `[]AliveUntilStopped`, `[]NeverStuck` | none (the properties leave cancelled callers out; `ViolStuck` shows those, and `AliveUntilStopped` excepts the flush of `ViolDead`) |
| `ConnectionProofs!PublishedStateIsTrue` | `[]StateIsHonest` | none (the property is about clients that nobody else reconnects, and excepts the flush of `ViolDead`) |
| `HttpRetryProofs!TypeCorrect`, `NothingIsRepeated` | `[]TypeOK`, `[]OneEffect`: what is not idempotent takes effect once per call, and per key | none |
| `HttpRetryProofs!HooksAreTrue`, `WaitsAreBounded` | `[]HooksTellTheStory`, `[]WaitIsBounded` | none |
| `HttpRetryProofs!ImplementsRemoteCall` | `KeepsContract`: `HttpRetry` implements `RemoteCall` | none |
| `GateProofs!TypeCorrect`, `OnlyTheJudgedIsRead`, `TheRecordedIsRead`, `EveryCardIsAccounted` | `[]TypeOK`, `[]OnlyJudgedIsRead`, `[]RecordedIsRead`, `[]Accounted` | none |
| `LocalProofs!DelaysGrowToTheCap`, `NoticesAreGivenOnce` | `[]YoungDeathsSlowDown`, `[]OperatorIsToldOnce` of `Backoff` | none |
| `LocalProofs!WalkIsTyped`, `NoItemTwice`, `NoItemMissed` | `[]TypeOK`, `[]NothingRepeated`, `[]NothingSkipped` of `Pagination` | none |
| `LocalProofs!TheMostRecentStay` | `[]KeepsMostRecent` of `DedupLru` | none |
| `LocalProofs!StatusDecidesTheClass` | `[]StatusDecides` of `Errors` | none |
| `LocalProofs!TheFirstUsableItemCounts` | `[]FirstUsableItemCounts` of `Verdicts`: answers of any length | none |
| `LocalProofs!TheSignedIsVerified` | `[]VerifiesTheSigned` of `Webhook`: headers of any number of parts | none |

`SharedLemmas` holds what several of these cite: what `Hit` and `Add` of the cache return,
keep and evict, and induction and recursion over `0 .. n`. `NoRepeat`, `NoAckedFrameLost`, `ParkedHasTimer` and `NeverDead`
are claimed of handlers that do not suspend only, because they are false of others: see the
Findings.

### Assumptions

The theorems rest on the `ASSUME`s of the modules, which TLC evaluates in every run.
`Delivery`: `MessagesAssumption` (types, and seqs that grow within a conversation),
`IdentitiesAssumption`, `OptionsAssumption`. `Connection`: `IdentitiesAssumption`
(the actors are distinct), `OptionsAssumption`. `HttpRetry`: `PlansAssumption` (the requests are
those of `Requests`; a key belongs to one request), `FailuresAssumption`. `Gate`:
`GateAssumption`. `Errors`: `NoCodeAssumption` (no body is not a
code). `Backoff`, `Pagination`, `MCLocal`: `BackoffAssumption`, `PaginationAssumption` (the items
are finitely many), `CapacityAssumption`, `LengthsAssumption`: types; `SignatureAssumption`: what
is missing, garbled or infinite is no time, no digest and no header. The size of the cache is any integer,
zero and negative ones included.

### The inductive invariants

None of these properties is inductive as it stands.

*Confirmation.* `AckedWasDispatched` misses that a dedup hit acks without a dispatch, and
that the sync cursor confirms whole ranges. `ConfirmInv` adds that the ids in the cache
(`DedupIsClean`) and the settled rows (`SettledIsClean`) are clean; that until the
drain freezes all it read is covered (`ReadIsCovered`) and so is what its page jumps
over (`SkippedIsCovered`: what `/sync` leaves out was confirmed before); that rows are checked
in order and the checked ones of an unfrozen page are clean (`CheckedIsClean`); and that
the cursor covers nothing else (`CursorIsCovered`). A message is `Covered` if it is clean or was
acked before, which in the default mode is the same. One lemma per action that can
disturb a part, one frame lemma for the rest, and a PTL step.

*Ordering.* `DeliveryInv` adds the types of every task at every await (`OrderTyped`) and of the
histories (`AppTyped`): that is type correctness, and it is what the refinement needs, a
message that settles having been handed out. `NoRepeat` needs `OneRuns` (without suspending
handlers one task at a time is past its await) and `CacheKnows`: every id once, and all that
was settled, since a cache of that size never evicts.

*Parked frames.* The buffer of a conversation changes hands between the live path, the timer,
the gap fill, the resolution and the flush. `SyncInv` says what each may rely on at its
awaits (`Fits`): the object it holds is still the conversation's or is empty (`InPlace`), a
sweep has on its list what is parked and nothing else (`SweepKnows`), a flush covers all
conversations (`FlushCovers`). Of the conversations it says that they do not share objects
(`OneEach`) and hold their own frames (`OwnFrames`), that an armed timer sleeps and a gap fill
that is marked runs (`ClocksRun`), that parked frames are attended to (`Watched`), and that what
was acked at receipt was handed over, is parked, or is in hand (`AckedIsHeld`). Then
no sweep meets a frame that was taken away, which is `NeverDead`.

*Recovered gaps.* A report says of the seqs from the `exp` it was armed with to the highest one
handed over that nothing is missing but what history hides. `RecoverInv`, on top of
`SyncInv`, says why. A tracked conversation has a message below its expected seq (`Begun`), and
since its gap opened nothing below that seq was passed over (`NonePassed`), which in-line
deliveries keep because they hand over exactly the expected frame (`DeliversNext`). A fetch asks
from a seq that is not above the expected one (`FetchesFromNext`), so that, of the gap it
reports, what lies below was handed over (`HadBefore`). What its page brought, of the messages published when the server read
it, is parked, handed over or in hand (`HasAll`), while the task walks the chain
(`GapTaskTakesPage`) and until it reports (`ReportsAll`), and a sweep hands over no seq beyond
the highest it says (`SweepsUpward`). Nothing is said of messages behind a full page, nor of those published after the
read: those can be left out (Findings).

*Connection.* `NoStraySocket` misses that a `connect()` that fails to send its HELLO
clears the current socket whichever that is, and an opened transport replaces it.
`Exclusive` adds what the flags are for: one `connect()` at a time is past its
guard (`SoleConnect`), it holds `_connecting` while it opens (`OpenerOwns`), which
means there is no current socket (`OpensUnused`); its socket stays the current one
until its recv loop is started, unless `disconnect()` took it (`HandsOver`); and
once `disconnect()` has begun no socket is adopted (`StopRole`). With `Carries` this is
`SInv`. `LInv` adds the recv loops: one at a time, on the client's socket (`LoopOwns`,
`OneCurrent`), with the watchdogs of no other (`GuardsCurrent`, `SlotsHold`), so
that the client's flags are the history of that socket (`FlagsAreOwn`); that gives the
verdicts. `AInv` adds who keeps the client going (`Heart`): a flag of `connect()` has its call
(`Opens`), a socket its loop (`Owned`), a timer in the slot sleeps (`Roles`), and without a socket
there is a timer or a task on its way, or the last loop's flush missed a frame (`Lively`); and
that the loop is guarded (`GuardsUp`). That exception needs to be told apart from a loop that ends
as it should: `halted` names loops of the socket before the next is adopted, and a loop in its close
handling counts as on its way only while it is the last one (`Busy`). That gives `AliveUntilStopped` and `NeverStuck`. If nobody else reconnects, one
task acts at a time and the state says what that one is about (`Told`), or its last loop ended in
such a flush (`Left`).

*HTTP.* `OneEffect` needs, from the table of requests, that whatever either client sends
is marked `retry="auto"` only with a `client_msg_id` in it (`RequestsAreHarmless`), so a
request that is not idempotent and has no key is not eligible (`UnkeyedIsNotRetried`); and
from the transport that such a call never sleeps and has one attempt at most
(`OneAttempt`), and that what is on its way or carried out belongs to an attempt that was made
(`Made`). With keys, that the server carries out a key once is inductive (`OncePerKey`).
The hooks and waits are an invariant of each call's record, by program counter
(`Told`, `Waited`). The refinement needs that an attempt that is announced was not sent
(`SentOnce`) and that a success was answered by a request carried out (`Confirmed`).

*Gate.* The verdicts of a run name cards of its own, each once (`Judging`, from what
`Verdicts` makes of any answer); every verdict posted was counted or failed (`Tallied`); what
was handed to the host is the reply verdicts (`Replied`); a card shows what the server had
(`Served`); and what was confirmed is read (`Kept`). The parser is a recursive function over
an answer of any length. The library's induction theorems take an operator as a
parameter, which no backend instantiates, so `SharedLemmas` derives what is needed from the
well-foundedness of `<` on the naturals: least elements, induction with a set in place of a
predicate, and the value of a recursive function with a function in place of its step
(`LeastNatural`, `StepByStep`, `RecursionIsDefined`).

*Local.* `BackoffInv`: the code counts at least what happened, a notice was given exactly when
its counter has passed its threshold, and the stability timer does not run during a
backoff. `WalkInv`: while nothing is inserted, what lies ahead of the walk was
never taken (`TakenOnce`); while nothing is deleted, what was in range is taken or
ahead, and nothing of it is ahead of a page that reaches the total (`NoneMissed`). `LruOk`:
behind an id in the cache stand exactly the ids used since, and those that stay were all used
after those that are gone. The other three are about operators, and what they are asked never
changes. After `i` items the parser holds the verdicts of exactly those of them that decide
their conversation first (`SaysFirst`); after `i` parts the header's reader holds the value of the
last readable timestamp, without its fraction, and of the last digest among them (`ReadSoFar`), which with one part per key
is the same in either order. Both are inductions over the recursion, for items and parts of any
kind (`ParsedSaysFirst`, `ParsedReadsAll`). `StatusDecides` needs that a status with a class of its
own is given a code of that class (`StatusesWithAClass`, for every integer), and that no
other class has that code.

### Only model-checked

- Liveness under fairness (`Ends`, `DrainEnded`, `ParkedIsReleased`, `KeepsTrying`,
  `HandshakeIsBounded`, `DisconnectReturns`, `CallsSettle`): out of the prover's reach.

Every invariant, action property and refinement that a passing run checks has a theorem.

## Not modelled

- Types, rendering, identity and runtime detection: declarations and formatting; they
  keep no state and take no decision a property could be about.
- Paths, query strings, headers and bodies of requests; the search for JSON in the
  model's text and the prompt (`gate.py` 214-262, 268-300): data.
- Frames without a message id and `wake` frames: dispatched without ordering or acks.
- What the handler map holds, and that `disconnect()` empties it.
- The one-second limits of `disconnect()` on its waits; `disconnect()` called from within
  a handler of the client.

## Plan

1. Done: `DedupLru`, `AtLeastOnce`, `Delivery`, `Connection` and the first theorems;
   `Requests`, `Errors`, `RemoteCall`, `HttpRetry`, `Verdicts`, `Gate`, `Pagination`, `Webhook`,
   `Backoff`; cancelled callers in `Connection`.
2. Done: proofs of all safety properties and of both refinements, `RecoveredIsComplete` and the
   operators of `MCLocal` included.
3. Done: stale, short and full history pages; frames that a sweep misses, in `Connection`; answers
   that trickle; timestamps with a fraction, ahead of the clock and infinite.
4. Open: properties for the hazards that have none (`PROJECT.json`): tasks that outlive
   `disconnect()`, a `hello.ok` that is read during it, and the handler map that it empties.
