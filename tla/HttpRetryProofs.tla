-------------------------- MODULE HttpRetryProofs --------------------------
(***************************************************************************)
(* A call of either transport, for any number of calls and keys, any retry *)
(* policy, and whatever the server answers: no retry repeats what must not *)
(* be repeated, the hooks tell what happened, the waits are bounded, and   *)
(* transport and server implement RemoteCall.                              *)
(***************************************************************************)
EXTENDS HttpRetry, FiniteSetTheorems, TLAPS

----------------------------------------------------------------------------
(* The table of requests *)

\* A request is retried on its own account only if it carries a client_msg_id.
Harmless(request) == request.retry = "auto" => request.msgId

AllHarmless(ops) == \A o \in ops : Harmless(o.request)

\* One lemma covers what Get, Put, Del, Post and Patch build.
LEMMA PlainIsHarmless == \A method : Harmless(Plain(method))
  BY DEF Harmless, Plain

\* The methods that make one request are as harmless as it is.
LEMMA OpsAreHarmless ==
  ASSUME NEW request, NEW names, Harmless(request)
  PROVE  AllHarmless(Ops(request, names))
  BY DEF AllHarmless, Ops

LEMMA PlainOps ==
  ASSUME NEW names
  PROVE  /\ AllHarmless(Get(names)) /\ AllHarmless(Put(names)) /\ AllHarmless(Del(names))
         /\ AllHarmless(Post(names)) /\ AllHarmless(Patch(names))
         /\ AllHarmless(AsyncGet(names)) /\ AllHarmless(AsyncPut(names))
         /\ AllHarmless(AsyncDel(names)) /\ AllHarmless(AsyncPost(names))
         /\ AllHarmless(AsyncPatch(names))
  BY PlainIsHarmless, OpsAreHarmless
     DEF Get, Put, Del, Post, Patch, AsyncGet, AsyncPut, AsyncDel, AsyncPost, AsyncPatch, AsyncPlain

LEMMA UnionIsHarmless ==
  ASSUME NEW A, NEW B, AllHarmless(A), AllHarmless(B)
  PROVE  AllHarmless(A \cup B)
  BY DEF AllHarmless

\* Every method of the sync client
LEMMA SyncIsHarmless == AllHarmless(SyncOps)
<1>1. AllHarmless(SyncSignup)
  <2>1. Harmless([Plain("POST") EXCEPT !.retry = "never"])
    BY DEF Harmless, Plain
  <2> QED BY <2>1, OpsAreHarmless DEF SyncSignup
<1>2. AllHarmless(SyncSend)
  <2>1. Harmless([Plain("POST") EXCEPT !.retry = "auto", !.msgId = TRUE])
    BY DEF Harmless, Plain
  <2> QED BY <2>1, OpsAreHarmless DEF SyncSend
<1>3. AllHarmless(SyncMutes)
  <2>1. Harmless([Plain("GET") EXCEPT !.masks = TRUE])
    BY DEF Harmless, Plain
  <2>2. AllHarmless(Ops([Plain("GET") EXCEPT !.masks = TRUE],
                        {"get_agent_mute_status", "get_conversation_mute_status"}))
    BY <2>1, OpsAreHarmless
  <2> QED BY <2>2, PlainOps, UnionIsHarmless DEF SyncMutes
<1>4. AllHarmless(SyncAttachments)
  <2>1. Harmless([Plain("GET") EXCEPT !.location = TRUE])
    BY DEF Harmless, Plain
  <2>2. AllHarmless(Ops([Plain("GET") EXCEPT !.location = TRUE], {"get_attachment_download_url"}))
    BY <2>1, OpsAreHarmless
  <2> QED BY <2>2, PlainOps, UnionIsHarmless DEF SyncAttachments
<1>5. AllHarmless(SyncProfile)
  BY PlainOps, UnionIsHarmless DEF SyncProfile
<1>6. AllHarmless(SyncMessages)
  BY PlainOps, UnionIsHarmless DEF SyncMessages
<1>7. AllHarmless(SyncGroups)
  BY PlainOps, UnionIsHarmless DEF SyncGroups
<1>8. AllHarmless(SyncContacts)
  BY PlainOps, UnionIsHarmless DEF SyncContacts
<1>9. AllHarmless(SyncPresence)
  BY PlainOps, UnionIsHarmless DEF SyncPresence
<1>10. AllHarmless(SyncRead) /\ AllHarmless(SyncResources)
  BY PlainOps, UnionIsHarmless DEF SyncRead, SyncResources
<1> QED
  BY <1>1, <1>2, <1>3, <1>4, <1>5, <1>6, <1>7, <1>8, <1>9, <1>10 DEF SyncOps, AllHarmless

\* Every method of the async client
LEMMA AsyncIsHarmless == AllHarmless(AsyncOps)
<1>1. AllHarmless(AsyncSignup)
  <2>1. Harmless([AsyncPlain("POST") EXCEPT !.retry = "never"])
    BY DEF Harmless, AsyncPlain, Plain
  <2> QED BY <2>1, OpsAreHarmless DEF AsyncSignup
<1>2. AllHarmless(AsyncSend)
  <2>1. Harmless([AsyncPlain("POST") EXCEPT !.retry = "auto", !.msgId = TRUE])
    BY DEF Harmless, AsyncPlain, Plain
  <2> QED BY <2>1, OpsAreHarmless DEF AsyncSend
<1>3. AllHarmless(AsyncMutes)
  <2>1. Harmless([AsyncPlain("GET") EXCEPT !.masks = TRUE])
    BY DEF Harmless, AsyncPlain, Plain
  <2>2. AllHarmless(Ops([AsyncPlain("GET") EXCEPT !.masks = TRUE],
                        {"get_agent_mute_status", "get_conversation_mute_status"}))
    BY <2>1, OpsAreHarmless
  <2> QED BY <2>2, PlainOps, UnionIsHarmless DEF AsyncMutes
<1>4. AllHarmless(AsyncAttachments)
  <2>1. Harmless([AsyncPlain("GET") EXCEPT !.location = TRUE])
    BY DEF Harmless, AsyncPlain, Plain
  <2>2. AllHarmless(Ops([AsyncPlain("GET") EXCEPT !.location = TRUE], {"get_attachment_download_url"}))
    BY <2>1, OpsAreHarmless
  <2> QED BY <2>2, PlainOps, UnionIsHarmless DEF AsyncAttachments
<1>5. AllHarmless(AsyncProfile)
  BY PlainOps, UnionIsHarmless DEF AsyncProfile
<1>6. AllHarmless(AsyncMessages)
  BY PlainOps, UnionIsHarmless DEF AsyncMessages
<1>7. AllHarmless(AsyncGroups)
  BY PlainOps, UnionIsHarmless DEF AsyncGroups
<1>8. AllHarmless(AsyncContacts)
  BY PlainOps, UnionIsHarmless DEF AsyncContacts
<1>9. AllHarmless(AsyncPresence)
  BY PlainOps, UnionIsHarmless DEF AsyncPresence
<1>10. AllHarmless(AsyncRead) /\ AllHarmless(AsyncResources)
  BY PlainOps, UnionIsHarmless DEF AsyncRead, AsyncResources
<1> QED
  BY <1>1, <1>2, <1>3, <1>4, <1>5, <1>6, <1>7, <1>8, <1>9, <1>10 DEF AsyncOps, AllHarmless

\* What a method of either client sends is retried on its own account only with
\* a client_msg_id in it.
LEMMA RequestsAreHarmless ==
  ASSUME NEW client, NEW request \in RequestsOf(client)
  PROVE  Harmless(request)
  BY SyncIsHarmless, AsyncIsHarmless DEF RequestsOf, AllHarmless

----------------------------------------------------------------------------
(* One attempt where there is no key *)

\* A request that is not idempotent and has no key is not retried.
LEMMA UnkeyedIsNotRetried ==
  ASSUME NEW p \in Plans, NEW c \in Calls,
         p[c].key = None, p[c].request.method \notin Idempotent
  PROVE  ~Eligible(p[c])
<1>1. p[c].request \in RequestsOf(p[c].client) /\ ~p[c].request.msgId
  BY PlansAssumption
<1>2. p[c].request.retry # "auto"
  BY <1>1, RequestsAreHarmless DEF Harmless
<1> QED BY <1>2 DEF Eligible

----------------------------------------------------------------------------
(* The inductive invariant *)

\* A call is a record with its place and its attempt.
Shape ==
    /\ plan \in Plans
    /\ DOMAIN call = Calls
    /\ \A c \in Calls :
          /\ {"pc", "n"} \subseteq DOMAIN call[c]
          /\ call[c].n \in Nat
          /\ call[c].pc = "idle" => call[c].n = 0
          /\ call[c].pc = "announcing" => call[c].n > 0

\* A call that may not be retried makes one attempt and sleeps never.
OneAttempt ==
    \A c \in Calls : ~Eligible(plan[c]) => call[c].n <= 1 /\ call[c].pc # "sleeping"

\* What is on its way or carried out belongs to an attempt that was made.
Made ==
    \A e \in flight \cup executed :
        /\ e \in Calls \X Nat
        /\ e[2] \in 1 .. call[e[1]].n

\* A key is carried out once.
OncePerKey ==
    \A e, f \in executed :
        plan[e[1]].key # None /\ plan[e[1]].key = plan[f[1]].key => e = f

IInv == Shape /\ OneAttempt /\ Made /\ OncePerKey

LEMMA InitIInv == Init => IInv
  BY DEF Init, IInv, Shape, OneAttempt, Made, OncePerKey, Fresh

\* A step of a call that keeps its attempt and does not go to sleep
LEMMA Keeps ==
  ASSUME IInv, NEW c \in Calls, NEW r,
         call' = [call EXCEPT ![c] = r],
         {"pc", "n"} \subseteq DOMAIN r, r.n = call[c].n,
         r.pc \notin {"idle", "announcing"},
         r.pc = "sleeping" => Eligible(plan[c]),
         plan' = plan, flight' = flight, executed' = executed
  PROVE  IInv'
<1>1. Shape'
  BY DEF IInv, Shape
<1>2. OneAttempt'
  BY DEF IInv, Shape, OneAttempt, Eligible
<1>3. Made'
  BY DEF IInv, Shape, Made
<1>4. OncePerKey'
  BY DEF IInv, OncePerKey
<1> QED BY <1>1, <1>2, <1>3, <1>4 DEF IInv

\* The next attempt is announced: the first, or one of a call that may be retried.
LEMMA Announced ==
  ASSUME IInv, NEW c \in Calls,
         call' = [call EXCEPT ![c] = NextAttempt(@)],
         call[c].n = 0 \/ Eligible(plan[c]),
         plan' = plan, flight' = flight, executed' = executed
  PROVE  IInv'
<1> DEFINE r == NextAttempt(call[c])
<1>1. call'[c] = r /\ \A d \in Calls \ {c} : call'[d] = call[d]
  BY DEF IInv, Shape
<1>2. r.pc = "announcing" /\ r.n = call[c].n + 1 /\ {"pc", "n"} \subseteq DOMAIN r
  BY DEF IInv, Shape, NextAttempt
<1> HIDE DEF r
<1>3. Shape'
  <2>1. DOMAIN call' = Calls
    BY DEF IInv, Shape
  <2> QED BY <1>1, <1>2, <2>1 DEF IInv, Shape
<1>4. OneAttempt'
  BY <1>1, <1>2 DEF IInv, Shape, OneAttempt, Eligible
<1>5. Made'
  BY <1>1, <1>2 DEF IInv, Shape, Made
<1>6. OncePerKey'
  BY DEF IInv, OncePerKey
<1> QED BY <1>3, <1>4, <1>5, <1>6 DEF IInv

\* What an answer changes
LEMMA DeliverKeeps ==
  ASSUME IInv, NEW c \in Calls, NEW n, NEW a, Deliver(c, n, a)
  PROVE  /\ DOMAIN call' = Calls
         /\ \A d \in Calls : /\ {"pc", "n"} \subseteq DOMAIN call'[d]
                             /\ call'[d].pc = call[d].pc /\ call'[d].n = call[d].n
  BY DEF IInv, Shape, Deliver

\* A request leaves the network and is not carried out, or was before.
LEMMA Dropped ==
  ASSUME IInv, NEW c \in Calls, NEW n, NEW a, Deliver(c, n, a),
         plan' = plan, flight' = flight \ {<<c, n>>}, executed' = executed
  PROVE  IInv'
<1>1. Shape'
  BY DeliverKeeps DEF IInv, Shape
<1>2. OneAttempt'
  BY DeliverKeeps DEF IInv, OneAttempt, Eligible
<1>3. Made'
  <2>1. \A e \in flight' \cup executed' : e \in flight \cup executed
    OBVIOUS
  <2> QED BY <2>1, DeliverKeeps DEF IInv, Made
<1>4. OncePerKey'
  BY DEF IInv, OncePerKey
<1> QED BY <1>1, <1>2, <1>3, <1>4 DEF IInv

LEMMA ExecutesPreserves ==
  ASSUME IInv, NEW c \in Calls, NEW n, Executes(c, n)
  PROVE  IInv'
<1>1. PICK a : Deliver(c, n, a)
  BY DEF Executes
<1>2. Shape'
  BY <1>1, DeliverKeeps DEF IInv, Shape, Executes
<1>3. OneAttempt'
  BY <1>1, DeliverKeeps DEF IInv, OneAttempt, Eligible, Executes
<1>4. Made'
  <2>1. \A e \in flight' \cup executed' : e \in flight \cup executed
    BY DEF Executes
  <2> QED BY <1>1, <2>1, DeliverKeeps DEF IInv, Made
<1>5. OncePerKey'
  <2> SUFFICES ASSUME NEW e \in executed', NEW f \in executed',
                      plan[e[1]].key # None, plan[e[1]].key = plan[f[1]].key
               PROVE  e = f
    BY DEF OncePerKey, Executes
  <2>1. CASE plan[c].key # plan[e[1]].key
    <3>1. e \in executed /\ f \in executed
      BY <2>1 DEF Executes
    <3> QED BY <3>1 DEF IInv, OncePerKey
  <2>2. CASE plan[c].key = plan[e[1]].key
    <3>1. Done(plan[c].key) = {}
      BY <2>2 DEF Executes, Target
    <3>2. \A x \in executed : plan[x[1]].key # plan[c].key
      BY <3>1, <2>2 DEF Done, Target
    <3> QED BY <2>2, <3>2 DEF Executes
  <2> QED BY <2>1, <2>2
<1> QED BY <1>2, <1>3, <1>4, <1>5 DEF IInv

\* The server's steps
LEMMA ServerPreserves ==
  ASSUME IInv, NEW e \in flight, ServerStep(e[1], e[2])
  PROVE  IInv'
<1> DEFINE c == e[1]
           n == e[2]
<1>1. c \in Calls
  BY DEF IInv, Made
<1>2. CASE Executes(c, n)
  BY <1>1, <1>2, ExecutesPreserves
<1>3. CASE Recognises(c, n)
  <2>1. PICK a : Deliver(c, n, a)
    BY <1>3 DEF Recognises
  <2> QED BY <1>1, <1>3, <2>1, Dropped DEF Recognises
<1>4. CASE Refuses(c, n)
  <2>1. PICK a : Deliver(c, n, a)
    BY <1>4 DEF Refuses
  <2> QED BY <1>1, <1>4, <2>1, Dropped DEF Refuses
<1> QED BY <1>2, <1>3, <1>4 DEF ServerStep

----------------------------------------------------------------------------
(* The steps of a call *)

LEMMA BeginPreserves ==
  ASSUME IInv, NEW c \in Calls, Begin(c)
  PROVE  IInv'
<1>1. call[c].n = 0 /\ call[c].pc = "idle"
  BY DEF IInv, Shape, Begin
<1>2. CASE Attempts(plan[c]) < 1
  <2> DEFINE r == Settled(call[c], "error", "ConnectionError")
  <2>1. call' = [call EXCEPT ![c] = r]
    BY <1>2 DEF Begin, IInv, Shape
  <2>2. {"pc", "n"} \subseteq DOMAIN r /\ r.n = call[c].n /\ r.pc = "settled"
    BY DEF Settled, IInv, Shape
  <2> QED BY <2>1, <2>2, Keeps DEF Begin
<1>3. CASE ~(Attempts(plan[c]) < 1)
  <2>1. call' = [call EXCEPT ![c] = NextAttempt(@)]
    BY <1>3 DEF Begin
  <2> QED BY <1>1, <2>1, Announced DEF Begin
<1> QED BY <1>2, <1>3

LEMMA SendPreserves ==
  ASSUME IInv, NEW c \in Calls, Send(c)
  PROVE  IInv'
<1>1. /\ DOMAIN call' = Calls
      /\ \A d \in Calls : /\ {"pc", "n"} \subseteq DOMAIN call'[d]
                          /\ call'[d].n = call[d].n
                          /\ call'[d].pc = IF d = c THEN "waiting" ELSE call[d].pc
  BY DEF Send, IInv, Shape
<1>2. call[c].n > 0
  BY DEF Send, IInv, Shape
<1>3. Shape'
  BY <1>1 DEF Send, IInv, Shape
<1>4. OneAttempt'
  BY <1>1 DEF Send, IInv, OneAttempt, Eligible
<1>5. Made'
  <2>1. \A e \in flight' \cup executed' : e \in flight \cup executed \/ e = <<c, call[c].n>>
    BY DEF Send
  <2>2. <<c, call[c].n>> \in Calls \X Nat /\ call[c].n \in 1 .. call'[c].n
    BY <1>1, <1>2 DEF IInv, Shape
  <2>3. \A e \in flight \cup executed : e \in Calls \X Nat /\ e[2] \in 1 .. call'[e[1]].n
    BY <1>1 DEF IInv, Made
  <2> QED BY <2>1, <2>2, <2>3 DEF Made
<1>6. OncePerKey'
  BY DEF Send, IInv, OncePerKey
<1> QED BY <1>3, <1>4, <1>5, <1>6 DEF IInv

LEMMA BreaksPreserves ==
  ASSUME IInv, NEW c \in Calls, Breaks(c)
  PROVE  IInv'
<1> DEFINE r == [call[c] EXCEPT !.pc = "erring", !.answer = NoAnswer,
                                !.error = "ConnectionError", !.erred = @ + 1]
<1>1. call' = [call EXCEPT ![c] = r]
  BY DEF Breaks, IInv, Shape
<1>2. {"pc", "n"} \subseteq DOMAIN r /\ r.n = call[c].n /\ r.pc = "erring"
  BY DEF IInv, Shape
<1> HIDE DEF r
<1> QED BY <1>1, <1>2, Keeps DEF Breaks

LEMMA ReceivesPreserves ==
  ASSUME IInv, NEW c \in Calls, Receives(c)
  PROVE  IInv'
<1> DEFINE a == call[c].answer
           r == IF Success(plan[c], a)
                THEN [call[c] EXCEPT !.pc = "answering", !.answered = @ + 1]
                ELSE [call[c] EXCEPT !.pc = "erring", !.erred = @ + 1,
                                     !.error = Raised(a.code, a.status)]
<1>1. call' = [call EXCEPT ![c] = r]
  BY DEF Receives
<1>2. {"pc", "n"} \subseteq DOMAIN r /\ r.n = call[c].n /\ r.pc \in {"answering", "erring"}
  BY DEF IInv, Shape
<1> HIDE DEF r
<1> QED BY <1>1, <1>2, Keeps DEF Receives

LEMMA ParsedPreserves ==
  ASSUME IInv, NEW c \in Calls, Parsed(c)
  PROVE  IInv'
<1> DEFINE a == call[c].answer
           r == CASE a.body = "broken" -> Settled(call[c], "error", "ConnectionError")
                  [] a.body = "json" /\ plan[c].request.location ->
                        Settled(call[c], "error", "AgentChatError")
                  [] OTHER -> Settled(call[c], "value", None)
<1>1. call' = [call EXCEPT ![c] = r]
  BY DEF Parsed
<1>2. {"pc", "n"} \subseteq DOMAIN r /\ r.n = call[c].n /\ r.pc = "settled"
  BY DEF IInv, Shape, Settled
<1> HIDE DEF r
<1> QED BY <1>1, <1>2, Keeps DEF Parsed

LEMMA RetriesPreserves ==
  ASSUME IInv, NEW c \in Calls, Retries(c)
  PROVE  IInv'
<1>1. PICK d : call' = [call EXCEPT ![c] = [call[c] EXCEPT !.pc = "sleeping", !.retried = @ + 1,
                                                          !.slept = @ + d]]
  BY DEF Retries
<1> DEFINE r == [call[c] EXCEPT !.pc = "sleeping", !.retried = @ + 1, !.slept = @ + d]
<1>2. call' = [call EXCEPT ![c] = r]
  BY <1>1
<1>3. {"pc", "n"} \subseteq DOMAIN r /\ r.n = call[c].n /\ r.pc = "sleeping"
  BY DEF IInv, Shape
<1>4. Eligible(plan[c])
  BY DEF Retries, MayRetry
<1> HIDE DEF r
<1> QED BY <1>2, <1>3, <1>4, Keeps DEF Retries

LEMMA GivesUpPreserves ==
  ASSUME IInv, NEW c \in Calls, GivesUp(c)
  PROVE  IInv'
<1> DEFINE r == IF plan[c].request.masks /\ call[c].error = "NotFoundError"
                THEN Settled(call[c], "absent", None)
                ELSE Settled(call[c], "error", call[c].error)
<1>1. call' = [call EXCEPT ![c] = r]
  BY DEF GivesUp
<1>2. {"pc", "n"} \subseteq DOMAIN r /\ r.n = call[c].n /\ r.pc = "settled"
  BY DEF IInv, Shape, Settled
<1> HIDE DEF r
<1> QED BY <1>1, <1>2, Keeps DEF GivesUp

LEMMA CancelledPreserves ==
  ASSUME IInv, NEW c \in Calls, Cancelled(c)
  PROVE  IInv'
<1> DEFINE r == Settled(call[c], "cancelled", None)
<1>1. call' = [call EXCEPT ![c] = r]
  BY DEF Cancelled
<1>2. {"pc", "n"} \subseteq DOMAIN r /\ r.n = call[c].n /\ r.pc = "settled"
  BY DEF IInv, Shape, Settled
<1> HIDE DEF r
<1> QED BY <1>1, <1>2, Keeps DEF Cancelled

\* Only a call that may be retried sleeps.
LEMMA WakesPreserves ==
  ASSUME IInv, NEW c \in Calls, Wakes(c)
  PROVE  IInv'
<1>1. Eligible(plan[c])
  BY DEF Wakes, IInv, OneAttempt
<1> QED BY <1>1, Announced DEF Wakes

\* An answer that begins to arrive keeps the attempt.
LEMMA TricklesPreserves ==
  ASSUME IInv, NEW c \in Calls, Trickles(c)
  PROVE  IInv'
<1> DEFINE r == [call[c] EXCEPT !.answer = Partial]
<1>1. call' = [call EXCEPT ![c] = r]
  BY DEF Trickles
<1>2. {"pc", "n"} \subseteq DOMAIN r /\ r.n = call[c].n /\ r.pc = "waiting"
  BY DEF Trickles, IInv, Shape
<1> HIDE DEF r
<1> QED BY <1>1, <1>2, Keeps DEF Trickles

LEMMA NextPreserves ==
  ASSUME IInv, [Next]_vars
  PROVE  IInv'
<1>1. CASE UNCHANGED vars
  BY <1>1 DEF vars, IInv, Shape, OneAttempt, Made, OncePerKey, Eligible
<1>2. ASSUME NEW c \in Calls, SyncRequest(c) \/ AsyncRequest(c)
      PROVE  IInv'
  BY <1>2, BeginPreserves, SendPreserves, BreaksPreserves, ReceivesPreserves, ParsedPreserves,
     RetriesPreserves, GivesUpPreserves, WakesPreserves, CancelledPreserves
     DEF SyncRequest, AsyncRequest, Proceeds
<1>3. ASSUME NEW e \in flight, ServerStep(e[1], e[2])
      PROVE  IInv'
  BY <1>3, ServerPreserves
<1>4. ASSUME NEW c \in Calls, Trickles(c)
      PROVE  IInv'
  BY <1>4, TricklesPreserves
<1> QED BY <1>1, <1>2, <1>3, <1>4 DEF Next

----------------------------------------------------------------------------
(* The theorem *)

LEMMA IInvImpliesOneEffect == IInv => OneEffect
<1> SUFFICES ASSUME IInv, NEW e \in executed, NEW f \in executed,
                    Target(e[1]) = Target(f[1]), ~Repeatable(e[1])
             PROVE  e = f
  BY DEF OneEffect
<1>1. e \in Calls \X Nat /\ f \in Calls \X Nat
      /\ e[2] \in 1 .. call[e[1]].n /\ f[2] \in 1 .. call[f[1]].n
  BY DEF IInv, Made
<1>2. \A c \in Calls : plan[c].key \in Keys \cup {None} /\ plan \in Plans
  BY PlansAssumption DEF IInv, Shape, JobType
<1>3. CASE plan[e[1]].key # None
  <2>1. Target(e[1]) \in Keys
    BY <1>1, <1>2, <1>3 DEF Target
  <2>2. plan[f[1]].key = plan[e[1]].key
    BY <1>1, <1>3, <2>1, PlansAssumption DEF Target
  <2> QED BY <1>3, <2>2 DEF IInv, OncePerKey
<1>4. CASE plan[e[1]].key = None
  <2>1. f[1] = e[1]
    BY <1>1, <1>2, <1>4, PlansAssumption DEF Target
  <2>2. ~Eligible(plan[e[1]])
    BY <1>1, <1>2, <1>4, UnkeyedIsNotRetried DEF Repeatable
  <2>3. call[e[1]].n <= 1 /\ call[e[1]].n \in Nat
    BY <1>1, <2>2 DEF IInv, OneAttempt, Shape
  <2>4. e[2] = 1 /\ f[2] = 1
    BY <1>1, <2>1, <2>3
  <2> QED BY <1>1, <2>1, <2>4
<1> QED BY <1>3, <1>4

\* Whatever is lost, late or retried, a request that is not idempotent is
\* carried out once at most per call, and per key where calls share one: for
\* any calls, keys, policies and answers, provided the requests are those of
\* the two clients (_http.py 172-183, _client.py 247-1788).
THEOREM NothingIsRepeated == Spec => []OneEffect
<1>1. Init => IInv
  BY InitIInv
<1>2. IInv /\ [Next]_vars => IInv'
  BY NextPreserves
<1>3. IInv => OneEffect
  BY IInvImpliesOneEffect
<1> QED BY <1>1, <1>2, <1>3, PTL DEF Spec

----------------------------------------------------------------------------
(* The record of a call: what its hooks were told and how long it waited *)

\* How far the hooks are: between two attempts, during one, or after one
Between(r) == r.erred = r.asked /\ r.answered = 0 /\ r.retried = r.erred
Trying(r) == r.asked = r.erred + 1 /\ r.answered = 0 /\ r.retried = r.erred
Succeeded(r) == r.asked = r.erred + 1 /\ r.answered = 1 /\ r.retried = r.erred
Failed(r) == r.erred = r.asked /\ r.answered = 0 /\ r.erred = r.retried + 1

Told(r) ==
    /\ r.asked = r.n
    /\ r.pc = "idle" => r.n = 0
    /\ r.pc \in {"idle", "sleeping"} => Between(r)
    /\ r.pc \in {"announcing", "waiting"} => Trying(r)
    /\ r.pc = "answering" => Succeeded(r)
    /\ r.pc = "erring" => Failed(r)
    /\ r.outcome = None <=> r.pc # "settled"
    /\ r.outcome = "value" => Succeeded(r)
    /\ r.outcome \in {"error", "absent"} =>
          Succeeded(r) \/ Failed(r) \/ (Between(r) /\ r.n = 0)
    /\ r.outcome = "cancelled" => Between(r) \/ Trying(r) \/ Succeeded(r) \/ Failed(r)

\* The attempts a policy allows, whether or not the request may be retried
Allowed(policy) == IF policy.retries < 0 THEN 1 ELSE policy.retries + 1

Waited(job, r) ==
    /\ r.n <= Allowed(job.policy)
    /\ r.pc = "sleeping" => r.n < Attempts(job)
    /\ 4 * r.slept <= 5 * job.policy.max * r.retried

\* What an attempt may have been answered
Received(job) == {NoAnswer, Partial} \cup Answers(job) \cup Failures

Record(job) ==
    [pc : PCs, n : Nat, answer : Received(job), error : ErrorClasses \cup {None}, slept : Nat,
     outcome : Outcomes \cup {None}, asked : Nat, answered : Nat, erred : Nat, retried : Nat]

Sound(job, r) == r \in Record(job) /\ Told(r) /\ Waited(job, r)

RInv ==
    /\ plan \in Plans /\ DOMAIN call = Calls
    /\ \A c \in Calls : Sound(plan[c], call[c])


LEMMA NoneIsNoOutcome == None \notin Outcomes
  BY PlansAssumption

LEMMA InitRInv == Init => RInv
<1> SUFFICES ASSUME Init PROVE RInv
  OBVIOUS
<1>1. ASSUME NEW c \in Calls PROVE Sound(plan[c], call[c])
  <2> DEFINE job == plan[c]
  <2>1. call[c] = Fresh /\ job \in JobType
    BY PlansAssumption DEF Init
  <2>2. Fresh \in Record(job)
    BY DEF Fresh, Record, PCs, Received
  <2>3. Told(Fresh)
    BY NoneIsNoOutcome DEF Fresh, Told, Between, Outcomes
  <2>4. Waited(job, Fresh)
    BY <2>1 DEF Fresh, Waited, Allowed, JobType
  <2> QED BY <2>1, <2>2, <2>3, <2>4 DEF Sound
<1> QED BY <1>1 DEF Init, RInv

\* One call moves, to a sound record.
LEMMA Moves ==
  ASSUME RInv, NEW c \in Calls, NEW r, Sound(plan[c], r),
         call' = [call EXCEPT ![c] = r], plan' = plan
  PROVE  RInv'
<1>1. DOMAIN call' = Calls /\ call'[c] = r /\ \A d \in Calls \ {c} : call'[d] = call[d]
  BY DEF RInv
<1> QED BY <1>1 DEF RInv

\* The policy of a job is made of numbers.
Numeric(job) ==
    /\ job.policy.retries \in Int
    /\ job.policy.base \in Nat /\ job.policy.max \in Nat

LEMMA PolicyType ==
  ASSUME RInv, NEW c \in Calls
  PROVE  Numeric(plan[c])
<1>1. plan[c] \in JobType
  BY PlansAssumption DEF RInv
<1> QED BY <1>1 DEF JobType, Numeric

\* The next attempt is announced.
LEMMA NextAttemptIsSound ==
  ASSUME NEW job, NEW q, Sound(job, q), Numeric(job),
         \/ q.pc = "idle" /\ ~(Attempts(job) < 1)
         \/ q.pc = "sleeping"
  PROVE  Sound(job, NextAttempt(q))
<1> DEFINE r == NextAttempt(q)
<1>1. q \in Record(job)
  BY DEF Sound
<1>2. r \in Record(job)
  <2>1. \A n, k \in Nat : [q EXCEPT !.pc = "announcing", !.n = n, !.asked = k] \in Record(job)
    BY <1>1 DEF Record, PCs
  <2>2. q.n + 1 \in Nat /\ q.asked + 1 \in Nat
    BY <1>1 DEF Record
  <2> QED BY <2>1, <2>2 DEF NextAttempt
<1>3. /\ r.pc = "announcing" /\ r.n = q.n + 1 /\ r.asked = q.asked + 1
      /\ r.erred = q.erred /\ r.answered = q.answered /\ r.retried = q.retried
      /\ r.slept = q.slept /\ r.outcome = q.outcome
  BY <1>1 DEF Record, NextAttempt
<1> HIDE DEF r
<1>4. Told(r)
  BY <1>1, <1>3, NoneIsNoOutcome DEF Sound, Record, Told, Between, Trying, Outcomes
<1>5. Waited(job, r)
  <2>1. Attempts(job) \in Int /\ Attempts(job) <= Allowed(job.policy)
    BY DEF Attempts, Allowed, Numeric
  <2>2. r.n <= Attempts(job)
    BY <1>1, <1>3, <2>1 DEF Sound, Record, Waited, Told
  <2>3. 4 * r.slept <= 5 * job.policy.max * r.retried
    BY <1>3 DEF Sound, Waited
  <2>4. r.n \in Int /\ Allowed(job.policy) \in Int
    BY <1>2 DEF Record, Allowed, Numeric
  <2> QED BY <1>3, <2>1, <2>2, <2>3, <2>4 DEF Waited
<1> QED BY <1>2, <1>4, <1>5 DEF Sound, r

\* The call ends.
LEMMA SettledIsSound ==
  ASSUME NEW job, NEW q, Sound(job, q), q.pc # "settled",
         NEW outcome \in Outcomes, NEW error \in ErrorClasses \cup {None},
         outcome = "value" => q.pc = "answering",
         outcome \in {"error", "absent"} => q.pc \in {"idle", "answering", "erring"}
  PROVE  Sound(job, Settled(q, outcome, error))
<1> DEFINE r == Settled(q, outcome, error)
<1>1. q \in Record(job)
  BY DEF Sound
<1>2. r \in Record(job)
  BY <1>1 DEF Record, Settled, PCs
<1>3. /\ r.pc = "settled" /\ r.n = q.n /\ r.asked = q.asked
      /\ r.erred = q.erred /\ r.answered = q.answered /\ r.retried = q.retried
      /\ r.slept = q.slept /\ r.outcome = outcome
  BY <1>1 DEF Record, Settled
<1> HIDE DEF r
<1>4. Told(r)
  BY <1>1, <1>3, NoneIsNoOutcome
     DEF Sound, Record, PCs, Told, Between, Trying, Succeeded, Failed, Outcomes
<1>5. Waited(job, r)
  BY <1>3 DEF Sound, Waited
<1> QED BY <1>2, <1>4, <1>5 DEF Sound, r

\* The request is on its way.
LEMMA SentIsSound ==
  ASSUME NEW job, NEW q, Sound(job, q), q.pc = "announcing"
  PROVE  Sound(job, [q EXCEPT !.pc = "waiting", !.answer = NoAnswer])
<1> DEFINE r == [q EXCEPT !.pc = "waiting", !.answer = NoAnswer]
<1>1. q \in Record(job)
  BY DEF Sound
<1>2. r \in Record(job)
  BY <1>1 DEF Record, PCs, Received
<1>3. /\ r.pc = "waiting" /\ r.n = q.n /\ r.asked = q.asked
      /\ r.erred = q.erred /\ r.answered = q.answered /\ r.retried = q.retried
      /\ r.slept = q.slept /\ r.outcome = q.outcome
  BY <1>1 DEF Record
<1> HIDE DEF r
<1>4. Told(r)
  BY <1>1, <1>3, NoneIsNoOutcome DEF Sound, Record, Told, Trying, Outcomes
<1>5. Waited(job, r)
  BY <1>3 DEF Sound, Waited
<1> QED BY <1>2, <1>4, <1>5 DEF Sound, r

\* The answer is there, and the call has not read it.
LEMMA AnsweredIsSound ==
  ASSUME NEW job, NEW q, Sound(job, q), NEW a \in Received(job)
  PROVE  Sound(job, [q EXCEPT !.answer = a])
<1> DEFINE r == [q EXCEPT !.answer = a]
<1>1. q \in Record(job)
  BY DEF Sound
<1>2. r \in Record(job)
  BY <1>1 DEF Record
<1>3. /\ r.pc = q.pc /\ r.n = q.n /\ r.asked = q.asked
      /\ r.erred = q.erred /\ r.answered = q.answered /\ r.retried = q.retried
      /\ r.slept = q.slept /\ r.outcome = q.outcome
  BY <1>1 DEF Record
<1> HIDE DEF r
<1>4. Told(r)
  BY <1>3 DEF Sound, Told, Between, Trying, Succeeded, Failed
<1>5. Waited(job, r)
  BY <1>3 DEF Sound, Waited
<1> QED BY <1>2, <1>4, <1>5 DEF Sound, r

\* on_response or on_error is told.
LEMMA RespondedIsSound ==
  ASSUME NEW job, NEW q, Sound(job, q), q.pc = "waiting"
  PROVE  Sound(job, [q EXCEPT !.pc = "answering", !.answered = @ + 1])
<1> DEFINE r == [q EXCEPT !.pc = "answering", !.answered = @ + 1]
<1>1. q \in Record(job)
  BY DEF Sound
<1>2. r \in Record(job)
  <2>1. \A k \in Nat : [q EXCEPT !.pc = "answering", !.answered = k] \in Record(job)
    BY <1>1 DEF Record, PCs
  <2>2. q.answered + 1 \in Nat
    BY <1>1 DEF Record
  <2> QED BY <2>1, <2>2
<1>3. /\ r.pc = "answering" /\ r.n = q.n /\ r.asked = q.asked
      /\ r.erred = q.erred /\ r.answered = q.answered + 1 /\ r.retried = q.retried
      /\ r.slept = q.slept /\ r.outcome = q.outcome
  BY <1>1 DEF Record
<1> HIDE DEF r
<1>4. Told(r)
  BY <1>1, <1>3, NoneIsNoOutcome DEF Sound, Record, Told, Trying, Succeeded, Outcomes
<1>5. Waited(job, r)
  BY <1>3 DEF Sound, Waited
<1> QED BY <1>2, <1>4, <1>5 DEF Sound, r

LEMMA ErredIsSound ==
  ASSUME NEW job, NEW q, Sound(job, q), q.pc = "waiting",
         NEW error \in ErrorClasses \cup {None}, NEW a \in Received(job)
  PROVE  Sound(job, [q EXCEPT !.pc = "erring", !.answer = a, !.error = error, !.erred = @ + 1])
<1> DEFINE r == [q EXCEPT !.pc = "erring", !.answer = a, !.error = error, !.erred = @ + 1]
<1>1. q \in Record(job)
  BY DEF Sound
<1>2. r \in Record(job)
  <2>1. \A k \in Nat : [q EXCEPT !.pc = "erring", !.answer = a, !.error = error, !.erred = k] \in Record(job)
    BY <1>1 DEF Record, PCs
  <2>2. q.erred + 1 \in Nat
    BY <1>1 DEF Record
  <2> QED BY <2>1, <2>2
<1>3. /\ r.pc = "erring" /\ r.n = q.n /\ r.asked = q.asked
      /\ r.erred = q.erred + 1 /\ r.answered = q.answered /\ r.retried = q.retried
      /\ r.slept = q.slept /\ r.outcome = q.outcome
  BY <1>1 DEF Record
<1> HIDE DEF r
<1>4. Told(r)
  BY <1>1, <1>3, NoneIsNoOutcome DEF Sound, Record, Told, Trying, Failed, Outcomes
<1>5. Waited(job, r)
  BY <1>3 DEF Sound, Waited
<1> QED BY <1>2, <1>4, <1>5 DEF Sound, r

\* The delay before the next attempt is slept.
LEMMA SleptIsSound ==
  ASSUME NEW job, NEW q, Sound(job, q), Numeric(job), q.pc = "erring",
         q.n < Attempts(job), NEW d \in Nat, 4 * d <= 5 * job.policy.max
  PROVE  Sound(job, [q EXCEPT !.pc = "sleeping", !.retried = @ + 1, !.slept = @ + d])
<1> DEFINE r == [q EXCEPT !.pc = "sleeping", !.retried = @ + 1, !.slept = @ + d]
<1>1. q \in Record(job)
  BY DEF Sound
<1>2. r \in Record(job)
  <2>1. \A k, t \in Nat : [q EXCEPT !.pc = "sleeping", !.retried = k, !.slept = t] \in Record(job)
    BY <1>1 DEF Record, PCs
  <2>2. q.retried + 1 \in Nat /\ q.slept + d \in Nat
    BY <1>1 DEF Record
  <2> QED BY <2>1, <2>2
<1>3. /\ r.pc = "sleeping" /\ r.n = q.n /\ r.asked = q.asked
      /\ r.erred = q.erred /\ r.answered = q.answered /\ r.retried = q.retried + 1
      /\ r.slept = q.slept + d /\ r.outcome = q.outcome
  BY <1>1 DEF Record
<1> HIDE DEF r
<1>4. Told(r)
  BY <1>1, <1>3, NoneIsNoOutcome DEF Sound, Record, Told, Between, Failed, Outcomes
<1>5. Waited(job, r)
  <2>1. q.slept \in Nat /\ q.retried \in Nat
    BY <1>1 DEF Record
  <2>2. 4 * q.slept <= 5 * job.policy.max * q.retried
    BY DEF Sound, Waited
  <2>3. \A m, k, s \in Nat : 4 * s <= 5 * m * k /\ 4 * d <= 5 * m
                                => 4 * (s + d) <= 5 * m * (k + 1)
    OBVIOUS
  <2>4. 4 * r.slept <= 5 * job.policy.max * r.retried
    BY <1>3, <2>1, <2>2, <2>3 DEF Numeric
  <2> QED BY <1>3, <2>4 DEF Sound, Waited
<1> QED BY <1>2, <1>4, <1>5 DEF Sound, r

----------------------------------------------------------------------------
(* Every step keeps the records sound *)

LEMMA RaisedType == \A code, status : Raised(code, status) \in ErrorClasses
<1>1. \A code, status : ErrorClass(code, status) \in ErrorClasses
  BY DEF ErrorClass, ErrorClasses, ByStatus, CodesOf
<1> QED BY <1>1 DEF Raised

\* The delays are bounded by the cap and a quarter of it, whatever Retry-After
\* says.
LEMMA DelaysAreBounded ==
  ASSUME NEW job, Numeric(job), NEW n \in Nat \ {0}, NEW a \in Received(job),
         NEW d \in Delays(job.policy, n, RetryAfterMs(a.after))
  PROVE  d \in Nat /\ 4 * d <= 5 * job.policy.max
<1> DEFINE after == RetryAfterMs(a.after)
           max == job.policy.max
<1>1. max \in Nat /\ job.policy.base \in Nat
  BY DEF Numeric
<1>2. CASE after # NoDelay
  <2>1. a.after \in {NoDelay} \cup [form : {"seconds"}, at : Nat] \cup [form : {"date"}, at : Int]
    <3>1. CASE a = NoAnswer
      BY <3>1 DEF NoAnswer
    <3>2. CASE a \in Answers(job)
      <4>1. \A b : [NoAnswer EXCEPT !.status = 200, !.body = b].after = NoDelay
        BY DEF NoAnswer
      <4>2. [NoAnswer EXCEPT !.status = 302, !.body = "location"].after = NoDelay
        BY DEF NoAnswer
      <4>3. a.after = NoDelay
        BY <3>2, <4>1, <4>2 DEF Answers
      <4> QED BY <4>3
    <3>3. CASE a \in Failures
      BY <3>3, FailuresAssumption
    <3>4. CASE a = Partial
      BY <3>4 DEF Partial, NoAnswer
    <3> QED BY <3>1, <3>2, <3>3, <3>4 DEF Received
  <2>2. after \in Nat
    BY <1>2, <2>1 DEF RetryAfterMs
  <2>3. d = Least(after, max)
    BY <1>2 DEF Delays
  <2> HIDE DEF after
  <2> QED BY <1>1, <2>2, <2>3 DEF Least
<1>3. CASE after = NoDelay
  <2> DEFINE exp == job.policy.base * 2^(n - 1)
             capped == Least(exp, max)
  <2>1. d \in 0 .. 2 * capped /\ (4 * d < 5 * capped \/ (capped = 0 /\ d = 0))
    BY <1>3 DEF Delays
  <2>2. exp \in Int
    <3>1. n - 1 \in Nat
      OBVIOUS
    <3>2. 2^(n - 1) \in Int
      BY <3>1
    <3> QED BY <1>1, <3>2
  <2> HIDE DEF exp
  <2>3. capped \in Int /\ capped <= max
    BY <1>1, <2>2 DEF Least
  <2> HIDE DEF capped
  <2> QED BY <1>1, <2>1, <2>3
<1> QED BY <1>2, <1>3

LEMMA DeliverIsSound ==
  ASSUME RInv, NEW c \in Calls, NEW n, NEW a \in Received(plan[c]), Deliver(c, n, a),
         plan' = plan
  PROVE  RInv'
<1>1. CASE call' = call
  BY <1>1 DEF RInv
<1>2. CASE call' = [call EXCEPT ![c] = [call[c] EXCEPT !.answer = a]]
  <2>1. Sound(plan[c], [call[c] EXCEPT !.answer = a])
    BY AnsweredIsSound DEF RInv
  <2> QED BY <1>2, <2>1, Moves
<1> QED BY <1>1, <1>2 DEF Deliver

LEMMA ServerIsSound ==
  ASSUME RInv, NEW c \in Calls, NEW n, ServerStep(c, n)
  PROVE  RInv'
<1>1. PICK a \in Received(plan[c]) : Deliver(c, n, a)
  BY DEF ServerStep, Executes, Recognises, Refuses, Received
<1>2. plan' = plan
  BY DEF ServerStep, Executes, Recognises, Refuses
<1> QED BY <1>1, <1>2, DeliverIsSound

LEMMA CallIsSound ==
  ASSUME RInv, NEW c \in Calls, Begin(c) \/ Proceeds(c) \/ Breaks(c) \/ Cancelled(c)
  PROVE  RInv'
<1> DEFINE job == plan[c]
           q == call[c]
<1>1. Sound(job, q) /\ Numeric(job) /\ q \in Record(job)
  BY PolicyType DEF RInv, Sound
<1>2. plan' = plan
  BY DEF Begin, Proceeds, Breaks, Cancelled, Send, Receives, Parsed, Retries, GivesUp, Wakes
<1>3. {"ConnectionError", "AgentChatError", "NotFoundError"} \subseteq ErrorClasses
  BY DEF ErrorClasses, CodesOf
<1>4. CASE Begin(c)
  <2>1. CASE Attempts(job) < 1
    <3>1. Sound(job, Settled(q, "error", "ConnectionError"))
      BY <1>1, <1>3, <1>4, SettledIsSound DEF Begin, Outcomes
    <3> QED BY <1>2, <1>4, <2>1, <3>1, Moves DEF Begin
  <2>2. CASE ~(Attempts(job) < 1)
    <3>1. Sound(job, NextAttempt(q))
      BY <1>1, <1>4, <2>2, NextAttemptIsSound DEF Begin
    <3> QED BY <1>2, <1>4, <2>2, <3>1, Moves DEF Begin
  <2> QED BY <2>1, <2>2
<1>5. CASE Send(c)
  <2> DEFINE r == [q EXCEPT !.pc = "waiting", !.answer = NoAnswer]
  <2>1. call' = [call EXCEPT ![c] = r]
    BY <1>5 DEF Send, RInv
  <2>2. Sound(job, r)
    BY <1>1, <1>5, SentIsSound DEF Send
  <2> QED BY <1>2, <2>1, <2>2, Moves
<1>6. CASE Breaks(c)
  <2> DEFINE r == [q EXCEPT !.pc = "erring", !.answer = NoAnswer,
                            !.error = "ConnectionError", !.erred = @ + 1]
  <2>1. call' = [call EXCEPT ![c] = r]
    BY <1>6 DEF Breaks, RInv
  <2>2. NoAnswer \in Received(job)
    BY DEF Received
  <2>3. Sound(job, r)
    BY <1>1, <1>3, <1>6, <2>2, ErredIsSound DEF Breaks
  <2> QED BY <1>2, <2>1, <2>3, Moves
<1>7. CASE Receives(c)
  <2> DEFINE a == q.answer
  <2>1. CASE Success(job, a)
    <3> DEFINE r == [q EXCEPT !.pc = "answering", !.answered = @ + 1]
    <3>1. call' = [call EXCEPT ![c] = r]
      BY <1>7, <2>1 DEF Receives
    <3>2. Sound(job, r)
      BY <1>1, <1>7, RespondedIsSound DEF Receives
    <3> QED BY <1>2, <3>1, <3>2, Moves
  <2>2. CASE ~Success(job, a)
    <3> DEFINE e == Raised(a.code, a.status)
               r == [q EXCEPT !.pc = "erring", !.erred = @ + 1, !.error = e]
               s == [q EXCEPT !.pc = "erring", !.answer = a, !.error = e, !.erred = @ + 1]
    <3>1. call' = [call EXCEPT ![c] = r]
      BY <1>7, <2>2 DEF Receives
    <3>2. r = s
      <4> HIDE DEF e
      <4> QED BY <1>1 DEF Record
    <3>3. a \in Received(job) /\ e \in ErrorClasses \cup {None}
      BY <1>1, RaisedType DEF Record
    <3>4. Sound(job, s)
      BY <1>1, <1>7, <3>3, ErredIsSound DEF Receives
    <3> QED BY <1>2, <3>1, <3>2, <3>4, Moves
  <2> QED BY <2>1, <2>2
<1>8. CASE Parsed(c)
  <2>1. Sound(job, Settled(q, "error", "ConnectionError"))
        /\ Sound(job, Settled(q, "error", "AgentChatError"))
        /\ Sound(job, Settled(q, "value", None))
    BY <1>1, <1>3, <1>8, SettledIsSound DEF Parsed, Outcomes
  <2>2. PICK r : Sound(job, r) /\ call' = [call EXCEPT ![c] = r]
    BY <1>8, <2>1 DEF Parsed
  <2> QED BY <1>2, <2>2, Moves
<1>9. CASE Retries(c)
  <2>1. PICK d \in Delays(job.policy, q.n, RetryAfterMs(q.answer.after)) :
           call' = [call EXCEPT ![c] = [q EXCEPT !.pc = "sleeping", !.retried = @ + 1,
                                                 !.slept = @ + d]]
    BY <1>9 DEF Retries
  <2>2. q.n \in Nat \ {0} /\ q.answer \in Received(job)
    BY <1>1, <1>9 DEF Retries, Sound, Record, Told, Failed
  <2>3. d \in Nat /\ 4 * d <= 5 * job.policy.max
    BY <1>1, <2>1, <2>2, DelaysAreBounded
  <2>4. q.n < Attempts(job) /\ q.pc = "erring"
    BY <1>9 DEF Retries, MayRetry
  <2>5. Sound(job, [q EXCEPT !.pc = "sleeping", !.retried = @ + 1, !.slept = @ + d])
    BY <1>1, <2>3, <2>4, SleptIsSound
  <2> QED BY <1>2, <2>1, <2>5, Moves
<1>10. CASE GivesUp(c)
  <2>1. Sound(job, Settled(q, "absent", None)) /\ Sound(job, Settled(q, "error", q.error))
    <3>1. q.error \in ErrorClasses \cup {None}
      BY <1>1 DEF Record
    <3> QED BY <1>1, <1>10, <3>1, SettledIsSound DEF GivesUp, Outcomes
  <2>2. PICK r : Sound(job, r) /\ call' = [call EXCEPT ![c] = r]
    BY <1>10, <2>1 DEF GivesUp
  <2> QED BY <1>2, <2>2, Moves
<1>11. CASE Wakes(c)
  <2>1. Sound(job, NextAttempt(q))
    BY <1>1, <1>11, NextAttemptIsSound DEF Wakes
  <2> QED BY <1>2, <1>11, <2>1, Moves DEF Wakes
<1>12. CASE Cancelled(c)
  <2>1. Sound(job, Settled(q, "cancelled", None))
    BY <1>1, <1>12, SettledIsSound DEF Cancelled, Outcomes
  <2> QED BY <1>2, <1>12, <2>1, Moves DEF Cancelled
<1> QED BY <1>4, <1>5, <1>6, <1>7, <1>8, <1>9, <1>10, <1>11, <1>12 DEF Proceeds

LEMMA TricklesIsSound ==
  ASSUME RInv, NEW c \in Calls, Trickles(c)
  PROVE  RInv'
<1>1. Sound(plan[c], [call[c] EXCEPT !.answer = Partial])
  <2>1. Partial \in Received(plan[c])
    BY DEF Received
  <2> QED BY <2>1, AnsweredIsSound DEF RInv
<1>2. call' = [call EXCEPT ![c] = [call[c] EXCEPT !.answer = Partial]] /\ plan' = plan
  BY DEF Trickles
<1> QED BY <1>1, <1>2, Moves

LEMMA NextIsSound ==
  ASSUME IInv, RInv, [Next]_vars
  PROVE  RInv'
<1>1. CASE UNCHANGED vars
  BY <1>1 DEF vars, RInv
<1>2. ASSUME NEW c \in Calls, SyncRequest(c) \/ AsyncRequest(c)
      PROVE  RInv'
  BY <1>2, CallIsSound DEF SyncRequest, AsyncRequest
<1>3. ASSUME NEW e \in flight, ServerStep(e[1], e[2])
      PROVE  RInv'
  <2>1. e[1] \in Calls
    BY DEF IInv, Made
  <2> QED BY <1>3, <2>1, ServerIsSound
<1>4. ASSUME NEW c \in Calls, Trickles(c)
      PROVE  RInv'
  BY <1>4, TricklesIsSound
<1> QED BY <1>1, <1>2, <1>3, <1>4 DEF Next

LEMMA BothInvariants == Spec => [](IInv /\ RInv)
<1>1. Init => IInv /\ RInv
  BY InitIInv, InitRInv
<1>2. (IInv /\ RInv) /\ [Next]_vars => (IInv /\ RInv)'
  BY NextPreserves, NextIsSound
<1> QED BY <1>1, <1>2, PTL DEF Spec

----------------------------------------------------------------------------
(* The theorems about one call *)

\* Every variable keeps its type, and only requests of attempts that were made
\* are on their way or carried out.
THEOREM TypeCorrect == Spec => []TypeOK
<1>1. IInv /\ RInv => TypeOK
  <2> SUFFICES ASSUME IInv, RInv PROVE TypeOK
    OBVIOUS
  <2>1. ASSUME NEW c \in Calls
        PROVE  /\ call[c].pc \in PCs
               /\ call[c].n \in Nat /\ call[c].slept \in Nat
               /\ call[c].error \in ErrorClasses \cup {None}
               /\ call[c].outcome \in Outcomes \cup {None}
    <3>1. call[c] \in Record(plan[c])
      BY DEF RInv, Sound
    <3> QED BY <3>1 DEF Record
  <2>2. \A e \in flight \cup executed : e[1] \in Calls /\ e[2] \in 1 .. call[e[1]].n
    BY DEF IInv, Made
  <2> QED BY <2>1, <2>2 DEF TypeOK, RInv
<1> QED BY <1>1, BothInvariants, PTL

\* A host that counts the hooks of a call knows how it stands and how it ended,
\* under any retry policy and whatever is lost or cancelled (_http.py 386-533,
\* 584-716).
THEOREM HooksAreTrue == Spec => []HooksTellTheStory
<1>1. RInv => HooksTellTheStory
  <2> SUFFICES ASSUME RInv, NEW c \in Calls
               PROVE  LET r == call[c] IN
                      /\ r.asked = r.n
                      /\ r.asked - (r.erred + r.answered) \in
                            CASE r.pc \in {"announcing", "waiting"} -> {1}
                              [] r.outcome = "cancelled" -> {0, 1}
                              [] OTHER -> {0}
                      /\ r.erred - r.retried \in {0, 1}
                      /\ r.outcome = "value" => r.answered = 1
                      /\ r.answered = 1 => r.erred = r.retried
                      /\ r.outcome \in {"error", "absent"} /\ r.answered = 0
                            => r.erred = r.asked
                               /\ r.retried = (IF r.asked = 0 THEN 0 ELSE r.erred - 1)
    BY DEF HooksTellTheStory
  <2> DEFINE r == call[c]
  <2>1. r \in Record(plan[c]) /\ Told(r)
    BY DEF RInv, Sound
  <2>2. /\ r.asked \in Nat /\ r.erred \in Nat /\ r.answered \in Nat /\ r.retried \in Nat
        /\ r.pc \in PCs /\ r.outcome \in Outcomes \cup {None}
    BY <2>1 DEF Record
  <2> HIDE DEF r
  <2>3. r.pc = "settled" <=> r.outcome \in Outcomes
    BY <2>1, <2>2, NoneIsNoOutcome DEF Told
  <2>4. Between(r) \/ Trying(r) \/ Succeeded(r) \/ Failed(r)
    BY <2>1, <2>2, <2>3 DEF Told, PCs, Outcomes
  <2>5. r.asked = r.n /\ r.erred - r.retried \in {0, 1}
    BY <2>1, <2>2, <2>4 DEF Told, Between, Trying, Succeeded, Failed
  <2>6. r.asked - (r.erred + r.answered) \in
            CASE r.pc \in {"announcing", "waiting"} -> {1}
              [] r.outcome = "cancelled" -> {0, 1}
              [] OTHER -> {0}
    <3>1. CASE r.pc \in {"announcing", "waiting"}
      BY <2>1, <2>2, <3>1 DEF Told, Trying
    <3>2. CASE r.pc \notin {"announcing", "waiting"} /\ r.outcome = "cancelled"
      BY <2>2, <2>4, <3>2 DEF Between, Trying, Succeeded, Failed
    <3>3. CASE r.pc \notin {"announcing", "waiting"} /\ r.outcome # "cancelled"
      <4>1. Between(r) \/ Succeeded(r) \/ Failed(r)
        BY <2>1, <2>2, <2>3, <3>3 DEF Told, PCs, Outcomes
      <4>2. r.asked - (r.erred + r.answered) = 0
        BY <2>2, <4>1 DEF Between, Succeeded, Failed
      <4> QED BY <3>3, <4>2
    <3> QED BY <3>1, <3>2, <3>3
  <2>7. /\ r.outcome = "value" => r.answered = 1
        /\ r.answered = 1 => r.erred = r.retried
    BY <2>1, <2>2, <2>4 DEF Told, Between, Trying, Succeeded, Failed
  <2>8. r.outcome \in {"error", "absent"} /\ r.answered = 0
           => r.erred = r.asked /\ r.retried = (IF r.asked = 0 THEN 0 ELSE r.erred - 1)
    BY <2>1, <2>2 DEF Told, Between, Succeeded, Failed
  <2> QED BY <2>5, <2>6, <2>7, <2>8 DEF r
<1> QED BY <1>1, BothInvariants, PTL

\* A call makes no more attempts than its policy allows and sleeps no longer, in
\* all, than these attempts do with the jitter on top, whatever Retry-After asks
\* for (_http.py 186-194, 399-402).
THEOREM WaitsAreBounded == Spec => []WaitIsBounded
<1>1. RInv => WaitIsBounded
  BY DEF RInv, Sound, Waited, Allowed, WaitIsBounded
<1> QED BY <1>1, BothInvariants, PTL

----------------------------------------------------------------------------
(* The transports implement RemoteCall *)

\* A request is carried out once; an attempt that is announced has not been sent.
SentOnce ==
    /\ IsFiniteSet(executed)
    /\ flight \cap executed = {}
    /\ \A c \in Calls : call[c].pc = "announcing" => <<c, call[c].n>> \notin flight \cup executed

\* An answer of success is that of a request that was carried out.
Confirmed ==
    \A c \in Calls :
        /\ call[c].pc \in {"waiting", "answering"} /\ Success(plan[c], call[c].answer)
              => Done(Target(c)) # {}
        /\ call[c].pc = "answering" => Success(plan[c], call[c].answer)

CInv == IInv /\ RInv /\ SentOnce /\ Confirmed

LEMMA NoAnswerIsNoSuccess == \A job : ~Success(job, NoAnswer) /\ ~Success(job, Partial)
  BY DEF Success, NoAnswer, Partial

LEMMA FailuresAreNoSuccess == \A job : \A f \in Failures : ~Success(job, f)
  BY FailuresAssumption DEF Success

LEMMA InitCInv == Init => CInv
<1> SUFFICES ASSUME Init PROVE CInv
  OBVIOUS
<1>1. SentOnce
  BY FS_EmptySet DEF Init, SentOnce, Fresh
<1>2. Confirmed
  BY DEF Init, Confirmed, Fresh
<1> QED BY <1>1, <1>2, InitIInv, InitRInv DEF CInv

\* Carrying out more never takes an effect back.
LEMMA DoneGrows ==
  ASSUME plan' = plan, executed \subseteq executed', NEW c \in Calls, Done(Target(c)) # {}
  PROVE  Done(Target(c))' # {}
  BY DEF Done, Target

\* What a step of a call does to the rest
LEMMA CallStep ==
  ASSUME CInv, NEW c \in Calls, Begin(c) \/ Proceeds(c) \/ Breaks(c) \/ Cancelled(c)
  PROVE  /\ plan' = plan /\ executed' = executed
         /\ \A d \in Calls \ {c} : call'[d] = call[d]
         /\ call[c].pc # "settled" /\ call'[c].pc # "idle"
         /\ Send(c) \/ flight' = flight
         /\ call'[c].pc = "announcing" => call'[c].n = call[c].n + 1
         /\ call'[c].pc = "waiting" => call'[c].answer = NoAnswer
         /\ call'[c].pc = "answering" => Receives(c) /\ call[c].pc = "waiting"
                                        /\ call'[c].answer = call[c].answer
                                        /\ Success(plan[c], call[c].answer)
         /\ call'[c].pc = "settled" /\ call'[c].outcome = "value" => call[c].pc = "answering"
<1> DEFINE q == call[c]
<1>0. DOMAIN call = Calls /\ q \in Record(plan[c])
  BY DEF CInv, RInv, Sound
<1>1. CASE Begin(c)
  <2>1. call' = [call EXCEPT ![c] = Settled(q, "error", "ConnectionError")]
        \/ call' = [call EXCEPT ![c] = NextAttempt(q)]
    BY <1>1 DEF Begin
  <2>2. /\ Settled(q, "error", "ConnectionError").pc = "settled"
        /\ Settled(q, "error", "ConnectionError").outcome = "error"
        /\ NextAttempt(q).pc = "announcing" /\ NextAttempt(q).n = q.n + 1
    BY <1>0 DEF Settled, NextAttempt, Record
  <2> HIDE DEF q
  <2>3. \/ call'[c] = Settled(q, "error", "ConnectionError")
        \/ call'[c] = NextAttempt(q)
    BY <1>0, <2>1
  <2> QED BY <1>0, <1>1, <2>1, <2>2, <2>3 DEF Begin, q
<1>2. CASE Send(c)
  BY <1>0, <1>2 DEF Send, Record
<1>3. CASE Breaks(c)
  BY <1>0, <1>3 DEF Breaks, Record
<1>4. CASE Receives(c)
  BY <1>0, <1>4 DEF Receives, Record
<1>5. CASE Parsed(c)
  <2>1. PICK o, e : call' = [call EXCEPT ![c] = Settled(q, o, e)]
    BY <1>5 DEF Parsed
  <2>2. call'[c].pc = "settled" /\ \A d \in Calls \ {c} : call'[d] = call[d]
    BY <1>0, <2>1 DEF Settled, Record
  <2> QED BY <2>2, <1>5 DEF Parsed
<1>6. CASE Retries(c)
  BY <1>0, <1>6 DEF Retries, Record
<1>7. CASE GivesUp(c)
  <2>1. PICK o \in {"absent", "error"} : \E e : call' = [call EXCEPT ![c] = Settled(q, o, e)]
    BY <1>7 DEF GivesUp
  <2>2. PICK e : call' = [call EXCEPT ![c] = Settled(q, o, e)]
    BY <2>1
  <2>3. call'[c].pc = "settled" /\ call'[c].outcome = o /\ \A d \in Calls \ {c} : call'[d] = call[d]
    BY <1>0, <2>2 DEF Settled, Record
  <2> QED BY <2>3, <1>7 DEF GivesUp
<1>8. CASE Wakes(c)
  BY <1>0, <1>8 DEF Wakes, NextAttempt, Record
<1>9. CASE Cancelled(c)
  BY <1>0, <1>9 DEF Cancelled, Settled, Record
<1> QED BY <1>1, <1>2, <1>3, <1>4, <1>5, <1>6, <1>7, <1>8, <1>9 DEF Proceeds

LEMMA CallKeepsCInv ==
  ASSUME CInv, NEW c \in Calls, Begin(c) \/ Proceeds(c) \/ Breaks(c) \/ Cancelled(c)
  PROVE  SentOnce' /\ Confirmed'
<1>1. SentOnce'
  <2>1. CASE Send(c)
    <3>1. flight' = flight \cup {<<c, call[c].n>>} /\ call[c].pc = "announcing"
      BY <2>1 DEF Send
    <3>2. call'[c].pc = "waiting"
      BY <2>1 DEF Send, CInv, RInv, Sound, Record
    <3>3. \A d \in Calls \ {c} : <<d, call[d].n>> # <<c, call[c].n>>
      OBVIOUS
    <3> QED BY <3>1, <3>2, <3>3, CallStep DEF CInv, SentOnce
  <2>2. CASE flight' = flight
    <3>1. call'[c].pc = "announcing" => <<c, call'[c].n>> \notin flight \cup executed
      <4>1. \A e \in flight \cup executed : e[1] \in Calls /\ e[2] \in 1 .. call[e[1]].n
        BY DEF CInv, IInv, Made
      <4>2. call[c].n \in Nat
        BY DEF CInv, IInv, Shape
      <4>3. \A e \in flight \cup executed : e # <<c, call[c].n + 1>>
        BY <4>1, <4>2
      <4> QED BY <4>3, CallStep
    <3> QED BY <2>2, <3>1, CallStep DEF CInv, SentOnce
  <2> QED BY <2>1, <2>2, CallStep
<1>2. Confirmed'
  <2>1. \A d \in Calls : Done(Target(d))' = Done(Target(d))
    BY CallStep DEF Done, Target
  <2>2. \A d \in Calls \ {c} : call'[d] = call[d]
    BY CallStep
  <2>3. /\ call'[c].pc = "waiting" => ~Success(plan[c], call'[c].answer)
        /\ call'[c].pc = "answering" => /\ Success(plan[c], call'[c].answer)
                                       /\ Done(Target(c)) # {}
    BY CallStep, NoAnswerIsNoSuccess DEF CInv, Confirmed
  <2>4. plan' = plan
    BY CallStep
  <2> QED BY <2>1, <2>2, <2>3, <2>4 DEF CInv, Confirmed
<1> QED BY <1>1, <1>2

\* What a step of the server does
LEMMA ServerStepChanges ==
  ASSUME CInv, NEW c \in Calls, NEW n, ServerStep(c, n)
  PROVE  /\ plan' = plan /\ flight' = flight \ {<<c, n>>} /\ <<c, n>> \in flight
         /\ executed' \in {executed, executed \cup {<<c, n>>}}
         /\ executed' # executed => Executes(c, n)
         /\ \A d \in Calls : /\ call'[d].pc = call[d].pc /\ call'[d].n = call[d].n
                             /\ call'[d].outcome = call[d].outcome
         /\ \A d \in Calls : call'[d].answer # call[d].answer =>
               /\ call'[d].pc = "waiting"
               /\ Success(plan[d], call'[d].answer) => \E e \in executed' : Target(e[1]) = Target(d)
<1>1. PICK a : Deliver(c, n, a)
                /\ (a \in Failures \/ \E e \in executed' : Target(e[1]) = Target(c))
  <2>1. CASE Executes(c, n)
    <3>1. <<c, n>> \in executed'
      BY <2>1 DEF Executes
    <3>2. \E e \in executed' : Target(e[1]) = Target(c)
      BY <3>1
    <3> QED BY <2>1, <3>2 DEF Executes
  <2>2. CASE Recognises(c, n)
    <3>1. \E e \in executed' : Target(e[1]) = Target(c)
      BY <2>2 DEF Recognises, Done
    <3> QED BY <2>2, <3>1 DEF Recognises
  <2>3. CASE Refuses(c, n)
    BY <2>3 DEF Refuses
  <2> QED BY <2>1, <2>2, <2>3 DEF ServerStep
<1>2. call' = call \/ (call[c].pc = "waiting" /\ call' = [call EXCEPT ![c] = [call[c] EXCEPT !.answer = a]])
  BY <1>1 DEF Deliver
<1>3. DOMAIN call = Calls /\ \A d \in Calls : call[d] \in Record(plan[d])
  BY DEF CInv, RInv, Sound
<1>4. \A d \in Calls : /\ call'[d].pc = call[d].pc /\ call'[d].n = call[d].n
                       /\ call'[d].outcome = call[d].outcome
                       /\ call'[d].answer = call[d].answer
                            \/ (d = c /\ call'[d].answer = a /\ call[d].pc = "waiting")
  BY <1>2, <1>3 DEF Record
<1>5. ASSUME NEW d \in Calls, call'[d].answer # call[d].answer
      PROVE  /\ call'[d].pc = "waiting"
             /\ Success(plan[d], call'[d].answer) => \E e \in executed' : Target(e[1]) = Target(d)
  <2>1. d = c /\ call'[d].answer = a /\ call'[d].pc = "waiting"
    BY <1>4, <1>5
  <2>2. CASE a \in Failures
    BY <2>1, <2>2, FailuresAreNoSuccess
  <2>3. CASE \E e \in executed' : Target(e[1]) = Target(c)
    BY <2>1, <2>3
  <2> QED BY <1>1, <2>1, <2>2, <2>3
<1> QED BY <1>4, <1>5 DEF ServerStep, Executes, Recognises, Refuses

LEMMA ServerKeepsCInv ==
  ASSUME CInv, NEW c \in Calls, NEW n, ServerStep(c, n)
  PROVE  SentOnce' /\ Confirmed'
<1>1. SentOnce'
  <2>1. IsFiniteSet(executed')
    <3>1. IsFiniteSet(executed) /\ IsFiniteSet(executed \cup {<<c, n>>})
      BY FS_AddElement DEF CInv, SentOnce
    <3> QED BY <3>1, ServerStepChanges
  <2>2. \A d \in Calls : call'[d].pc = call[d].pc /\ call'[d].n = call[d].n
    BY ServerStepChanges
  <2>3. /\ flight' = flight \ {<<c, n>>} /\ <<c, n>> \in flight
        /\ executed' \in {executed, executed \cup {<<c, n>>}}
    BY ServerStepChanges
  <2> QED BY <2>1, <2>2, <2>3 DEF CInv, SentOnce
<1>2. Confirmed'
  <2>1. executed \subseteq executed' /\ plan' = plan
    BY ServerStepChanges
  <2> SUFFICES ASSUME NEW d \in Calls
               PROVE  /\ call'[d].pc \in {"waiting", "answering"} /\ Success(plan[d], call'[d].answer)
                            => Done(Target(d))' # {}
                      /\ call'[d].pc = "answering" => Success(plan[d], call'[d].answer)
    BY <2>1 DEF Confirmed
  <2>2. CASE call'[d].answer = call[d].answer
    BY <2>1, <2>2, DoneGrows, ServerStepChanges DEF CInv, Confirmed
  <2>3. CASE call'[d].answer # call[d].answer
    <3>1. (\E e \in executed' : Target(e[1]) = Target(d)) => Done(Target(d))' # {}
      BY <2>1 DEF Done, Target
    <3> QED BY <2>3, <3>1, ServerStepChanges
  <2> QED BY <2>2, <2>3
<1> QED BY <1>1, <1>2

\* Part of an answer is none.
LEMMA TricklesChanges ==
  ASSUME CInv, NEW c \in Calls, Trickles(c)
  PROVE  /\ plan' = plan /\ flight' = flight /\ executed' = executed
         /\ DOMAIN call' = Calls
         /\ \A d \in Calls : /\ call'[d].pc = call[d].pc /\ call'[d].n = call[d].n
                             /\ call'[d].outcome = call[d].outcome
                             /\ d # c => call'[d] = call[d]
         /\ call[c].pc = "waiting" /\ call'[c].answer = Partial
<1>1. DOMAIN call = Calls /\ call[c] \in Record(plan[c])
  BY DEF CInv, RInv, Sound
<1>2. call' = [call EXCEPT ![c] = [call[c] EXCEPT !.answer = Partial]]
  BY DEF Trickles
<1>3. call'[c] = [call[c] EXCEPT !.answer = Partial] /\ \A d \in Calls \ {c} : call'[d] = call[d]
  BY <1>1, <1>2
<1> QED BY <1>1, <1>2, <1>3 DEF Trickles, Record

LEMMA NextKeepsCInv ==
  ASSUME CInv, [Next]_vars
  PROVE  CInv'
<1>1. IInv' /\ RInv'
  BY NextPreserves, NextIsSound DEF CInv
<1>2. SentOnce' /\ Confirmed'
  <2>1. CASE UNCHANGED vars
    BY <2>1 DEF vars, CInv, SentOnce, Confirmed, Done, Target
  <2>2. ASSUME NEW c \in Calls, SyncRequest(c) \/ AsyncRequest(c)
        PROVE  SentOnce' /\ Confirmed'
    BY <2>2, CallKeepsCInv DEF SyncRequest, AsyncRequest
  <2>3. ASSUME NEW e \in flight, ServerStep(e[1], e[2])
        PROVE  SentOnce' /\ Confirmed'
    <3>1. e[1] \in Calls
      BY DEF CInv, IInv, Made
    <3> QED BY <2>3, <3>1, ServerKeepsCInv
  <2>4. ASSUME NEW c \in Calls, Trickles(c)
        PROVE  SentOnce' /\ Confirmed'
    <3>1. SentOnce'
      BY <2>4, TricklesChanges DEF CInv, SentOnce
    <3>2. \A d \in Calls : Done(Target(d))' = Done(Target(d))
      BY <2>4, TricklesChanges DEF Done, Target
    <3>3. Confirmed'
      BY <2>4, <3>2, TricklesChanges, NoAnswerIsNoSuccess DEF CInv, Confirmed
    <3> QED BY <3>1, <3>3
  <2> QED BY <2>1, <2>2, <2>3, <2>4 DEF Next
<1> QED BY <1>1, <1>2 DEF CInv

\* What RemoteCall sees of a call
LEMMA StatusIs ==
  ASSUME NEW c \in Calls
  PROVE  /\ call[c].pc = "idle" => Status[c] = "new"
         /\ call[c].pc \notin {"idle", "settled"} => Status[c] = "open"
         /\ call[c].pc = "settled" /\ call[c].outcome = "value" => Status[c] = "returned"
         /\ call[c].pc = "settled" /\ call[c].outcome # "value" => Status[c] = "raised"
  BY DEF Status

LEMMA StatusType == Status = [c \in Calls |-> Status[c]]
  BY DEF Status

LEMMA GoalType ==
  ASSUME plan \in Plans
  PROVE  /\ \A c \in Calls : Target(c) \in Calls \cup Keys /\ Goal[c] = Target(c)
         /\ Goal \in [Calls -> Calls \cup Keys]
         /\ Once \subseteq Calls \cup Keys
<1>1. \A c \in Calls : Target(c) \in Calls \cup Keys
  BY PlansAssumption DEF Target, JobType
<1> QED BY <1>1 DEF Goal, Once

\* A plan that stays keeps the goals.
LEMMA GoalsStay ==
  ASSUME plan' = plan
  PROVE  Goal' = Goal /\ Once' = Once /\ \A c \in Calls : Target(c)' = Target(c)
  BY DEF Goal, Once, Target, Repeatable

LEMMA EffectStays ==
  ASSUME plan' = plan, executed' = executed
  PROVE  Effect' = Effect
  BY DEF Effect, Done, Target

LEMMA InitMaps == Init => Contract!Init
<1> SUFFICES ASSUME Init PROVE Contract!Init
  OBVIOUS
<1>1. Status = [c \in Calls |-> "new"]
  <2>1. \A c \in Calls : Status[c] = "new"
    BY StatusIs DEF Init, Fresh
  <2> QED BY <2>1, StatusType
<1>2. Goal \in [Calls -> Calls \cup Keys] /\ Once \in SUBSET (Calls \cup Keys)
  BY GoalType DEF Init
<1>3. Effect = [g \in Calls \cup Keys |-> 0]
  <2>1. \A g : Done(g) = {}
    BY DEF Init, Done
  <2> QED BY <2>1, FS_EmptySet DEF Effect
<1> QED BY <1>1, <1>2, <1>3 DEF Contract!Init

\* Only the status of the call that takes a step changes.
LEMMA StatusChanges ==
  ASSUME NEW c \in Calls, \A d \in Calls \ {c} : call'[d] = call[d]
  PROVE  Status' = [Status EXCEPT ![c] = Status'[c]]
<1>1. \A d \in Calls \ {c} : Status'[d] = Status[d]
  BY DEF Status
<1>2. Status' = [d \in Calls |-> Status'[d]]
  BY DEF Status
<1> QED BY <1>1, <1>2, StatusType

\* A step of a call begins it, ends it or goes unseen.
LEMMA CallMaps ==
  ASSUME CInv, NEW c \in Calls, Begin(c) \/ Proceeds(c) \/ Breaks(c) \/ Cancelled(c)
  PROVE  [Contract!Next]_Contract!vars
<1>1. /\ Goal' = Goal /\ Once' = Once /\ Effect' = Effect
      /\ Status' = [Status EXCEPT ![c] = Status'[c]]
  BY CallStep, GoalsStay, EffectStays, StatusChanges
<1>2. CASE Begin(c)
  <2>1. Status[c] = "new"
    BY <1>2, StatusIs DEF Begin
  <2>2. Status'[c] \in {"open", "raised"}
    <3>1. CASE call'[c].pc # "settled"
      BY <3>1, CallStep DEF Status
    <3>2. CASE call'[c].pc = "settled"
      <4>1. call'[c].outcome # "value"
        BY <1>2, <3>2, CallStep DEF Begin
      <4> QED BY <3>2, <4>1 DEF Status
    <3> QED BY <3>1, <3>2
  <2>3. Contract!Begin(c)
    BY <1>1, <2>1, <2>2 DEF Contract!Begin
  <2> QED BY <2>3 DEF Contract!Next
<1>3. CASE Proceeds(c) \/ Breaks(c) \/ Cancelled(c)
  <2>0. Status[c] = "open"
    <3>1. call[c].pc # "idle"
      BY <1>3 DEF Proceeds, Send, Receives, Parsed, Retries, GivesUp, Wakes, Breaks, Cancelled
    <3> QED BY <3>1, CallStep, StatusIs
  <2>1. CASE call'[c].pc # "settled"
    <3>1. Status'[c] = "open"
      BY <2>1, CallStep DEF Status
    <3>2. Status' = Status
      BY <1>1, <2>0, <3>1, StatusType
    <3> QED BY <1>1, <3>2 DEF Contract!vars
  <2>2. CASE call'[c].pc = "settled" /\ call'[c].outcome # "value"
    <3>1. Status'[c] = "raised"
      BY <2>2 DEF Status
    <3>2. Contract!Raise(c)
      BY <1>1, <2>0, <3>1 DEF Contract!Raise
    <3> QED BY <3>2 DEF Contract!Next
  <2>3. CASE call'[c].pc = "settled" /\ call'[c].outcome = "value"
    <3>1. Status'[c] = "returned"
      BY <2>3 DEF Status
    <3>2. Effect[Goal[c]] > 0
      <4>1. Done(Target(c)) # {}
        BY <2>3, CallStep DEF CInv, Confirmed
      <4>2. IsFiniteSet(Done(Target(c)))
        BY FS_Subset DEF CInv, SentOnce, Done
      <4>3. Cardinality(Done(Target(c))) \in Nat \ {0}
        BY <4>1, <4>2, FS_CardinalityType, FS_EmptySet
      <4>4. Goal[c] = Target(c) /\ Target(c) \in Calls \cup Keys
        BY GoalType DEF CInv, IInv, Shape
      <4> QED BY <4>3, <4>4 DEF Effect
    <3>3. Contract!Return(c)
      BY <1>1, <2>0, <3>1, <3>2 DEF Contract!Return
    <3> QED BY <3>3 DEF Contract!Next
  <2> QED BY <2>1, <2>2, <2>3
<1> QED BY <1>2, <1>3

\* What must not be repeated and was not carried out before
LEMMA OnceIsFirst ==
  ASSUME CInv, NEW c \in Calls, NEW n, Executes(c, n), Target(c) \in Once
  PROVE  Done(Target(c)) = {}
<1>1. CASE plan[c].key # None
  BY <1>1 DEF Executes
<1>2. CASE plan[c].key = None
  <2>1. PICK d \in Calls : Target(d) = c /\ ~Repeatable(d)
    BY <1>2 DEF Once, Target
  <2>2. \A e \in Calls : Target(e) = c => e = c
    BY PlansAssumption DEF CInv, IInv, Shape, Target, JobType
  <2>3. ~Eligible(plan[c])
    BY <1>2, <2>1, <2>2, UnkeyedIsNotRetried DEF CInv, IInv, Shape, Repeatable
  <2>4. \A e \in flight \cup executed : e[1] \in Calls /\ (e[1] = c => e = <<c, 1>>)
    BY <2>3 DEF CInv, IInv, Shape, OneAttempt, Made
  <2>5. \A e \in executed : e[1] # c
    BY <2>4 DEF CInv, SentOnce, Executes
  <2> QED BY <1>2, <2>2, <2>4, <2>5 DEF Done, Target
<1> QED BY <1>1, <1>2

\* Carrying out a request is an effect, and the rest goes unseen.
LEMMA ServerMaps ==
  ASSUME CInv, NEW c \in Calls, NEW n, ServerStep(c, n)
  PROVE  [Contract!Next]_Contract!vars
<1>1. plan' = plan /\ Goal' = Goal /\ Once' = Once
  BY ServerStepChanges, GoalsStay
<1>2. Status' = Status
  <2>1. \A d \in Calls : call'[d].pc = call[d].pc /\ call'[d].outcome = call[d].outcome
    BY ServerStepChanges
  <2> QED BY <2>1 DEF Status
<1>3. CASE executed' = executed
  BY <1>1, <1>2, <1>3, EffectStays DEF Contract!vars
<1>4. CASE executed' # executed
  <2> DEFINE g == Target(c)
  <2>1. Executes(c, n) /\ executed' = executed \cup {<<c, n>>}
    BY <1>4, ServerStepChanges
  <2>2. <<c, n>> \in flight /\ <<c, n>> \notin executed
    BY <1>4, <2>1, ServerStepChanges
  <2>3. g \in Calls \cup Keys /\ Goal[c] = g
    BY GoalType DEF CInv, IInv, Shape
  <2>4. Status[c] # "new"
    <3>1. call[c].pc # "idle"
      BY <2>2 DEF CInv, IInv, Shape, Made
    <3> QED BY <3>1 DEF Status
  <2>5. g \in Once => Effect[g] = 0
    BY <2>1, <2>3, OnceIsFirst, FS_EmptySet DEF Effect
  <2>6. Effect' = [Effect EXCEPT ![g] = @ + 1]
    <3>1. \A h : Done(h)' = IF h = g THEN Done(h) \cup {<<c, n>>} ELSE Done(h)
      BY <1>1, <2>1 DEF Done, Target
    <3>2. IsFiniteSet(Done(g)) /\ <<c, n>> \notin Done(g)
      BY <2>2, FS_Subset DEF CInv, SentOnce, Done
    <3>3. Cardinality(Done(g) \cup {<<c, n>>}) = Cardinality(Done(g)) + 1
      BY <3>2, FS_AddElement
    <3> HIDE DEF g
    <3>4. \A h \in Calls \cup Keys :
             Effect'[h] = IF h = g THEN Effect[h] + 1 ELSE Effect[h]
      BY <3>1, <3>3 DEF Effect
    <3> QED BY <2>3, <3>4 DEF Effect
  <2>7. Contract!TakeEffect(g)
    BY <1>1, <1>2, <2>3, <2>4, <2>5, <2>6 DEF Contract!TakeEffect
  <2> QED BY <2>3, <2>7 DEF Contract!Next
<1> QED BY <1>3, <1>4

LEMMA NextMaps ==
  ASSUME CInv, [Next]_vars
  PROVE  [Contract!Next]_Contract!vars
<1>1. CASE UNCHANGED vars
  <2>1. Status' = Status
    BY <1>1 DEF vars, Status
  <2> QED BY <1>1, <2>1, GoalsStay, EffectStays DEF vars, Contract!vars
<1>2. ASSUME NEW c \in Calls, SyncRequest(c) \/ AsyncRequest(c)
      PROVE  [Contract!Next]_Contract!vars
  BY <1>2, CallMaps DEF SyncRequest, AsyncRequest
<1>3. ASSUME NEW e \in flight, ServerStep(e[1], e[2])
      PROVE  [Contract!Next]_Contract!vars
  <2>1. e[1] \in Calls
    BY DEF CInv, IInv, Made
  <2> QED BY <1>3, <2>1, ServerMaps
<1>4. ASSUME NEW c \in Calls, Trickles(c)
      PROVE  [Contract!Next]_Contract!vars
  <2>1. Status' = Status
    BY <1>4, TricklesChanges DEF Status
  <2> QED BY <1>4, <2>1, TricklesChanges, GoalsStay, EffectStays DEF Contract!vars
<1> QED BY <1>1, <1>2, <1>3, <1>4 DEF Next

\* The transports implement RemoteCall: a call that returns a value was carried
\* out, one that fails may have been, and no attempt repeats what must not be
\* repeated (_http.py 355-533, 553-716).
THEOREM ImplementsRemoteCall == Spec => KeepsContract
<1>1. Init => CInv /\ Contract!Init
  BY InitCInv, InitMaps
<1>2. CInv /\ [Next]_vars => CInv'
  BY NextKeepsCInv
<1>3. CInv /\ [Next]_vars => [Contract!Next]_Contract!vars
  BY NextMaps
<1> QED BY <1>1, <1>2, <1>3, PTL DEF Spec, KeepsContract, Contract!Spec
=============================================================================
