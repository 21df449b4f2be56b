----------------------------- MODULE HttpRetry -----------------------------
(***************************************************************************)
(* Calls of the REST clients through the HTTP transport: the retry         *)
(* decision, the attempts with their hooks and delays, what an answer      *)
(* becomes, and the server, which may carry out a request whose answer is  *)
(* lost or which it receives after the client has given up on it.          *)
(*                                                                         *)
(* The sync and the async transport are written out twice in the source;   *)
(* they take the same steps, but an async call can be cancelled at every   *)
(* await.  Each hook is a suspension, for it may be awaited.               *)
(***************************************************************************)
EXTENDS Integers, FiniteSets, Requests, Errors

CONSTANTS
    Calls,      \* bound: the calls made
    Keys,       \* client_msg_ids and idempotency keys
    None,       \* Python's None
    Plans,      \* what the calls of a behavior may be
    Failures    \* the error answers a server may give

RequestType ==
    [method : Methods, retry : {"default", "auto", "never"}, msgId : BOOLEAN,
     location : BOOLEAN, masks : BOOLEAN]

\* policy: the RetryPolicy in force; deadline: timeout_ms is positive, and
\* bounds each connect, read and write of an attempt, not the attempt; key:
\* the client_msg_id or else the idempotency key
JobType ==
    [client : {"sync", "async"}, request : RequestType, key : Keys \cup {None},
     policy : [retries : Int, base : Nat, max : Nat], deadline : BOOLEAN]

\* How a call may end: with a value, with None for a NotFoundError, with an
\* exception, or cancelled
Outcomes == {"value", "absent", "error", "cancelled"}

ASSUME PlansAssumption ==
    /\ None \notin Keys \cup Calls \cup Outcomes /\ Calls \cap Keys = {}
    /\ Plans \subseteq [Calls -> JobType]
    /\ \A p \in Plans, c, d \in Calls :
          /\ p[c].request \in RequestsOf(p[c].client)
          /\ p[c].request.msgId => p[c].key # None
          /\ p[c].request.retry = "never" => p[c].key = None
          /\ p[c].key # None /\ p[c].key = p[d].key => p[c].request = p[d].request

\* No failure has a status of success, and Retry-After counts no negative seconds.
ASSUME FailuresAssumption ==
    \A f \in Failures :
        /\ f.status \in Int \ (200 .. 299) /\ f.body = "none"
        /\ f.after \in {NoDelay} \cup [form : {"seconds"}, at : Nat] \cup [form : {"date"}, at : Int]

VARIABLES
    plan,       \* what each call is
    call,       \* per call: where it is, its attempt, what it waited and its hooks
    flight,     \* requests on their way: pairs of a call and an attempt
    executed    \* the requests the server carried out

vars == <<plan, call, flight, executed>>

NoAnswer == [status |-> 0, code |-> NoCode, after |-> NoDelay, body |-> "none"]

\* Some bytes of an answer have arrived, and more keep coming.
Partial == [NoAnswer EXCEPT !.body = "partial"]

Fresh ==
    [pc |-> "idle", n |-> 0, answer |-> NoAnswer, error |-> None, slept |-> 0,
     outcome |-> None, asked |-> 0, answered |-> 0, erred |-> 0, retried |-> 0]

Init ==
    /\ plan \in Plans
    /\ call = [c \in Calls |-> Fresh]
    /\ flight = {}
    /\ executed = {}

----------------------------------------------------------------------------
(* The retry policy *)

Idempotent == {"GET", "HEAD", "PUT", "DELETE"}

Eligible(job) ==
    /\ job.request.retry # "never"
    /\ job.request.retry = "auto" \/ job.key # None \/ job.request.method \in Idempotent

Attempts(job) == IF Eligible(job) THEN job.policy.retries + 1 ELSE 1

Retriable == {408, 425, 429, 500, 502, 503, 504}

Least(a, b) == IF a < b THEN a ELSE b

\* Mutant: Retry-After is obeyed however long.
DelaysUncapped(policy, n, after) ==
    IF after # NoDelay THEN {after}
    ELSE LET capped == Least(policy.base * 2^(n - 1), policy.max)
         IN  {d \in 0 .. 2 * capped : 4 * (d + 1) > 3 * capped /\ 4 * d < 5 * capped}

\* The delays after the n-th attempt, in ms: Retry-After or the backoff, both
\* capped, the backoff then with a jitter of a quarter in both directions and
\* truncated
Delays(policy, n, after) ==
    IF after # NoDelay THEN {Least(after, policy.max)}
    ELSE LET capped == Least(policy.base * 2^(n - 1), policy.max)
         IN  {d \in 0 .. 2 * capped :
                 \/ 4 * (d + 1) > 3 * capped /\ 4 * d < 5 * capped
                 \/ capped = 0 /\ d = 0}

----------------------------------------------------------------------------
(* One call *)

Move(c, pc) == call' = [call EXCEPT ![c].pc = pc]

\* The call ends: with a value, with an exception, or cancelled.
Settled(r, outcome, error) == [r EXCEPT !.pc = "settled", !.outcome = outcome, !.error = error]

\* on_request is called for the next attempt.
NextAttempt(r) == [r EXCEPT !.pc = "announcing", !.n = @ + 1, !.asked = @ + 1]

\* A policy with fewer than no retries makes no attempt at all.
Begin(c) ==
    /\ call[c].pc = "idle"
    /\ call' = [call EXCEPT ![c] = IF Attempts(plan[c]) < 1
                                   THEN Settled(@, "error", "ConnectionError")
                                   ELSE NextAttempt(@)]
    /\ UNCHANGED <<plan, flight, executed>>

Send(c) ==
    /\ call[c].pc = "announcing"
    /\ call' = [call EXCEPT ![c].pc = "waiting", ![c].answer = NoAnswer]
    /\ flight' = flight \cup {<<c, call[c].n>>}
    /\ UNCHANGED <<plan, executed>>

\* Mutant: the timeout covers the reading of an answer, not the sending.
BreaksOnceSent(c) ==
    /\ call[c].pc = "waiting"
    /\ <<c, call[c].n>> \notin flight
    /\ call' = [call EXCEPT ![c].pc = "erring", ![c].answer = NoAnswer,
                            ![c].error = "ConnectionError", ![c].erred = @ + 1]
    /\ UNCHANGED <<plan, flight, executed>>

\* A connect, read or write times out, or the connection breaks; on_error is
\* called.  The request may still be on its way, or its answer.
Breaks(c) ==
    /\ call[c].pc = "waiting"
    /\ call' = [call EXCEPT ![c].pc = "erring", ![c].answer = NoAnswer,
                            ![c].error = "ConnectionError", ![c].erred = @ + 1]
    /\ UNCHANGED <<plan, flight, executed>>

\* Mutant: whatever is no failure of the server counts as success.
SuccessUnlessServerFails(job, answer) == answer.status < 500

Success(job, answer) ==
    \/ answer.status \in 200 .. 299
    \/ job.request.location /\ answer.status \in 300 .. 399 /\ answer.body = "location"

\* An answer is read: on_response or on_error is called.
Receives(c) ==
    /\ call[c].pc = "waiting"
    /\ call[c].answer \notin {NoAnswer, Partial}
    /\ LET r == call[c]
           a == r.answer
       IN  call' = [call EXCEPT ![c] =
                      IF Success(plan[c], a)
                      THEN [r EXCEPT !.pc = "answering", !.answered = @ + 1]
                      ELSE [r EXCEPT !.pc = "erring", !.erred = @ + 1,
                                     !.error = Raised(a.code, a.status)]]
    /\ UNCHANGED <<plan, flight, executed>>

\* What the method makes of a successful answer: a body that is no JSON raises,
\* and a download URL needs the Location.
Parsed(c) ==
    /\ call[c].pc = "answering"
    /\ LET a == call[c].answer
       IN  call' = [call EXCEPT ![c] =
                      CASE a.body = "broken" -> Settled(@, "error", "ConnectionError")
                        [] a.body = "json" /\ plan[c].request.location ->
                              Settled(@, "error", "AgentChatError")
                        [] OTHER -> Settled(@, "value", None)]
    /\ UNCHANGED <<plan, flight, executed>>

\* Another attempt may follow: there was no answer, or one that invites it.
MayRetry(c) ==
    /\ Eligible(plan[c])
    /\ call[c].n < Attempts(plan[c])
    /\ call[c].answer = NoAnswer \/ call[c].answer.status \in Retriable

\* on_error has run: on_retry is called and the delay slept.
Retries(c) ==
    /\ call[c].pc = "erring"
    /\ MayRetry(c)
    /\ LET r == call[c]
       IN  \E d \in Delays(plan[c].policy, r.n, RetryAfterMs(r.answer.after)) :
              call' = [call EXCEPT ![c] =
                         [r EXCEPT !.pc = "sleeping", !.retried = @ + 1, !.slept = @ + d]]
    /\ UNCHANGED <<plan, flight, executed>>

\* on_error has run: the error is raised, except that the mute status methods
\* return None for a NotFoundError.
GivesUp(c) ==
    /\ call[c].pc = "erring"
    /\ ~MayRetry(c)
    /\ call' = [call EXCEPT ![c] =
                  IF plan[c].request.masks /\ @.error = "NotFoundError"
                  THEN Settled(@, "absent", None)
                  ELSE Settled(@, "error", @.error)]
    /\ UNCHANGED <<plan, flight, executed>>

\* Mutant: a retry does not count as an attempt.
WakesUncounted(c) ==
    /\ call[c].pc = "sleeping"
    /\ call' = [call EXCEPT ![c].pc = "announcing", ![c].asked = @ + 1]
    /\ UNCHANGED <<plan, flight, executed>>

Wakes(c) ==
    /\ call[c].pc = "sleeping"
    /\ call' = [call EXCEPT ![c] = NextAttempt(@)]
    /\ UNCHANGED <<plan, flight, executed>>

\* The task of an async call is cancelled: no except clause stops that.
Cancelled(c) ==
    /\ call[c].pc \notin {"idle", "settled"}
    /\ call' = [call EXCEPT ![c] = Settled(@, "cancelled", None)]
    /\ UNCHANGED <<plan, flight, executed>>

Proceeds(c) == Send(c) \/ Receives(c) \/ Parsed(c) \/ Retries(c) \/ GivesUp(c) \/ Wakes(c)

\* HttpTransport.request
SyncRequest(c) ==
    plan[c].client = "sync" /\ (Begin(c) \/ Proceeds(c) \/ Breaks(c))

\* AsyncHttpTransport.request
AsyncRequest(c) ==
    plan[c].client = "async" /\ (Begin(c) \/ Proceeds(c) \/ Breaks(c) \/ Cancelled(c))

----------------------------------------------------------------------------
(* The server *)

\* Requests with the same key ask for the same effect.
Target(c) == IF plan[c].key = None THEN c ELSE plan[c].key

Done(g) == {e \in executed : Target(e[1]) = g}

Answers(job) ==
    {[NoAnswer EXCEPT !.status = 200, !.body = b] : b \in {"json", "broken"}}
        \cup IF job.request.location THEN {[NoAnswer EXCEPT !.status = 302, !.body = "location"]}
             ELSE {}

\* An answer reaches the client if the attempt it answers still waits.
Deliver(c, n, a) ==
    call' = IF call[c].pc = "waiting" /\ call[c].n = n
            THEN [call EXCEPT ![c].answer = a] ELSE call

\* The request is carried out; a gateway may answer with a failure all the same.
Executes(c, n) ==
    /\ <<c, n>> \in flight
    /\ plan[c].key = None \/ Done(Target(c)) = {}
    /\ flight' = flight \ {<<c, n>>}
    /\ executed' = executed \cup {<<c, n>>}
    /\ \E a \in Answers(plan[c]) \cup {f \in Failures : f.status >= 500} : Deliver(c, n, a)
    /\ UNCHANGED plan

\* A key the server knows: it answers as it did the first time.
Recognises(c, n) ==
    /\ <<c, n>> \in flight
    /\ plan[c].key # None /\ Done(Target(c)) # {}
    /\ flight' = flight \ {<<c, n>>}
    /\ \E a \in Answers(plan[c]) : Deliver(c, n, a)
    /\ UNCHANGED <<plan, executed>>

Refuses(c, n) ==
    /\ <<c, n>> \in flight
    /\ flight' = flight \ {<<c, n>>}
    /\ \E f \in Failures : Deliver(c, n, f)
    /\ UNCHANGED <<plan, executed>>

ServerStep(c, n) == Executes(c, n) \/ Recognises(c, n) \/ Refuses(c, n)

\* The server or a gateway answers a few bytes at a time, each before the
\* timeout of its read, and need never come to the end.
Trickles(c) ==
    /\ call[c].pc = "waiting"
    /\ call[c].answer = NoAnswer
    /\ call' = [call EXCEPT ![c].answer = Partial]
    /\ UNCHANGED <<plan, flight, executed>>

----------------------------------------------------------------------------
Next ==
    \/ \E c \in Calls : SyncRequest(c) \/ AsyncRequest(c) \/ Trickles(c)
    \/ \E e \in flight : ServerStep(e[1], e[2])

Spec == Init /\ [][Next]_vars

\* A call that has begun goes on: hooks return, a sleep ends, and with a
\* deadline a server that falls silent is timed out.  httpx.Timeout(seconds)
\* bounds every connect, read and write but not their number (_http.py 317-321):
\* nothing is assumed of the wait while the bytes keep coming, nor of a wait
\* without a deadline.
Fairness ==
    \A c \in Calls :
        /\ WF_vars(Proceeds(c))
        /\ WF_vars(plan[c].deadline /\ call[c].answer # Partial /\ Breaks(c))

FairSpec == Spec /\ Fairness

----------------------------------------------------------------------------
(* Properties *)

PCs == {"idle", "announcing", "waiting", "erring", "answering", "sleeping", "settled"}

\* Every field of a call has a value the code can give it, and only requests
\* of attempts that were made are on their way or carried out.
TypeOK ==
    /\ plan \in Plans
    /\ \A c \in Calls :
          /\ call[c].pc \in PCs
          /\ call[c].n \in Nat /\ call[c].slept \in Nat
          /\ call[c].error \in ErrorClasses \cup {None}
          /\ call[c].outcome \in Outcomes \cup {None}
    /\ \A e \in flight \cup executed : e[1] \in Calls /\ e[2] \in 1 .. call[e[1]].n

Repeatable(c) == plan[c].request.method \in Idempotent

\* _is_retry_eligible and the table of requests together: whatever is lost,
\* late or retried, a request that is not idempotent is carried out once at
\* most per call, and per key where calls share one.
OneEffect ==
    \A e, f \in executed :
        Target(e[1]) = Target(f[1]) /\ ~Repeatable(e[1]) => e = f

\* RequestHooks, "fired around each HTTP attempt": a host that counts hooks
\* knows how the call stands and how it ended, in both transports.
HooksTellTheStory ==
    \A c \in Calls :
        LET r == call[c] IN
        /\ r.asked = r.n
        /\ r.asked - (r.erred + r.answered) \in
              CASE r.pc \in {"announcing", "waiting"} -> {1}
                [] r.outcome = "cancelled" -> {0, 1}
                [] OTHER -> {0}
        /\ r.erred - r.retried \in {0, 1}
        /\ r.outcome = "value" => r.answered = 1
        /\ r.answered = 1 => r.erred = r.retried
        /\ r.outcome \in {"error", "absent"} /\ r.answered = 0
              => r.erred = r.asked /\ r.retried = (IF r.asked = 0 THEN 0 ELSE r.erred - 1)

\* RetryPolicy: a call makes at most max_retries further attempts and never
\* sleeps longer, in all, than these allow with the jitter on top.
WaitIsBounded ==
    \A c \in Calls :
        LET p == plan[c].policy IN
        /\ call[c].n <= IF p.retries < 0 THEN 1 ELSE p.retries + 1
        /\ 4 * call[c].slept <= 5 * p.max * call[c].retried

Trickling(c) == call[c].pc = "waiting" /\ call[c].answer = Partial

\* A call with a deadline ends, whether the server fails, answers late or falls
\* silent at any point of any attempt.  One server alone can keep it open: one
\* that trickles for ever.
CallsSettle ==
    \A c \in Calls :
        []<>~Trickling(c) =>
            (plan[c].deadline /\ call[c].pc # "idle" ~> call[c].pc = "settled")

\* What RemoteCall sees of a call: a value is all it takes for a return.
Status ==
    [c \in Calls |->
        CASE call[c].pc = "idle" -> "new"
          [] call[c].pc \notin {"idle", "settled"} -> "open"
          [] call[c].pc = "settled" /\ call[c].outcome = "value" -> "returned"
          [] OTHER -> "raised"]

Goal == [c \in Calls |-> Target(c)]

Once == {Target(c) : c \in {d \in Calls : ~Repeatable(d)}}

Effect == [g \in Calls \cup Keys |-> Cardinality(Done(g))]

Contract ==
    INSTANCE RemoteCall WITH
        Goals <- Calls \cup Keys, status <- Status, goal <- Goal, once <- Once, effect <- Effect

\* The transports keep the promise of RemoteCall: a value means the request
\* was carried out, a failure promises nothing, and no retry repeats what must
\* not be repeated.
KeepsContract == Contract!Spec
=============================================================================
