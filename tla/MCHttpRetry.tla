---------------------------- MODULE MCHttpRetry ----------------------------
(* Values of the constants of HttpRetry *)
EXTENDS HttpRetry

Answer(status, code, after) ==
    [NoAnswer EXCEPT !.status = status, !.code = code, !.after = after]

\* One failure of each kind the transport tells apart: one that is final, and
\* retriable ones without Retry-After, with a past date and with a delay beyond
\* the cap
SomeFailures ==
    {Answer(404, "MESSAGE_NOT_FOUND", NoDelay), Answer(500, NoCode, NoDelay),
     Answer(429, "RATE_LIMITED", [form |-> "date", at |-> -1]),
     Answer(503, NoCode, [form |-> "seconds", at |-> 1])}

\* The second delay of Default may be 6 ms, above its cap.
Default == [retries |-> 2, base |-> 4, max |-> 5]
Negative == [retries |-> -1, base |-> 4, max |-> 5]
\* No delays: two calls at once have enough to interleave.
Brief == [retries |-> 1, base |-> 0, max |-> 0]

Job(client, request, key, policy, deadline) ==
    [client |-> client, request |-> request, key |-> key, policy |-> policy,
     deadline |-> deadline]

KeysFor(request, k) ==
    CASE request.msgId -> {k}
      [] request.retry = "never" \/ request.method \in Idempotent -> {None}
      [] OTHER -> {k, None}

\* A GET of which nothing is said, to keep the second call quiet
Quiet == Job("sync", Plain("GET"), None, Negative, TRUE)

\* Calls c1 and c2.  One call of every kind, the other one silent; or two calls
\* with one key, as a host makes them that repeats a send it saw fail.
Singly(c1, c2, k) ==
    UNION {{[c \in {c1, c2} |-> IF c = c1 THEN Job(client, r, key, Default, deadline) ELSE Quiet] :
              key \in KeysFor(r, k),
              deadline \in IF r = Plain("GET") THEN BOOLEAN ELSE {TRUE}} :
           <<client, r>> \in UNION {{x} \X RequestsOf(x) : x \in {"sync", "async"}}}

Twins(c1, c2, k) ==
    {[c \in {c1, c2} |-> Job(IF c = c1 THEN "sync" ELSE "async", r, k, Brief, TRUE)] :
           r \in {q \in RequestsOf("sync") \cap RequestsOf("async") : k \in KeysFor(q, k)}}

TestPlans ==
    LET c1 == CHOOSE c \in Calls : TRUE
        c2 == CHOOSE c \in Calls : c # c1
        k == CHOOSE k \in Keys : TRUE
    IN  Singly(c1, c2, k) \cup Twins(c1, c2, k)
=============================================================================
