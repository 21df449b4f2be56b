------------------------ MODULE DeliveryOrderProofs ------------------------
(***************************************************************************)
(* The ordering layer of one client, for any number of conversations,      *)
(* messages, timers, frames and connections: the tasks and the objects     *)
(* they work on stay well formed, delivery implements the promise of       *)
(* AtLeastOnce, and no settled message is handed out again.                *)
(***************************************************************************)
EXTENDS DeliveryProofs

----------------------------------------------------------------------------
(* What a task and an ordering state look like at every await *)

Pcs == {"idle", "asleep", "fetch", "sync", "syncack", "leaving", "failed", "handler",
        "notify", "closing", "deliver", "inorder", "chained", "chain", "resolving",
        "flushing", "flush", "row", "check"}

Sites == {"idle", "row", "inorder", "chained", "resolving", "flushing"}

TaskState ==
    [pc : Pcs, site : Sites, c : Conv \cup {None}, o : ObjIds \cup {None}, m : Msgs \cup {NoMsg},
     ws : BOOLEAN, row : BOOLEAN, todo : SUBSET Msgs, high : {h \in Int : h >= -1}, exp : Nat,
     from : Nat, read : Nat, rec : BOOLEAN, work : SUBSET (Conv \X ObjIds),
     owned : SUBSET Tasks]

\* A task inside the choke point knows its message; one that came there from the
\* ordering layer, or works in it, knows its object and its conversation.
Handling(r) == r.pc \in {"deliver", "handler"}
OnObject(r) ==
    \/ r.pc \in {"inorder", "chained", "chain", "resolving", "flushing", "fetch", "notify"}
    \/ Handling(r) /\ r.site \notin {"idle", "row"}

Sound(r) ==
    /\ Handling(r) \/ r.pc = "inorder" => r.m \in Msgs
    /\ OnObject(r) => r.o \in ObjIds /\ r.c \in Conv
    /\ r.pc = "asleep" => r.c \in Conv

GoodTask == {r \in TaskState : Sound(r)}

OrderTyped ==
    /\ states \in [Conv -> ObjIds \cup {None}]
    /\ objs \in [ObjIds -> OrderState]
    /\ task \in [Tasks -> GoodTask]

Bufs == UNION {[S -> Entry] : S \in SUBSET Msgs}

----------------------------------------------------------------------------
(* The records a task goes through *)

LEMMA IdleTask == Idle \in GoodTask
<1>1. Idle \in TaskState
  BY DEF Idle, TaskState, Pcs, Sites
<1>2. Idle.pc = "idle"
  BY DEF Idle
<1>3. Sound(Idle)
  BY <1>2 DEF Sound, Handling, OnObject
<1> QED  BY <1>1, <1>3 DEF GoodTask

\* Between two pieces of work a task remembers nothing.
LEMMA IdleIsGood ==
    ASSUME NEW pc \in Pcs, pc \notin {"inorder", "chained", "chain", "resolving", "flushing",
                                      "fetch", "notify", "deliver", "handler", "asleep"}
    PROVE  [Idle EXCEPT !.pc = pc] \in GoodTask
<1> DEFINE q == [Idle EXCEPT !.pc = pc]
<1>1. Idle \in TaskState
  BY DEF Idle, TaskState, Pcs, Sites
<1>2. q \in TaskState
  BY <1>1 DEF TaskState
<1>3. q.pc = pc
  BY <1>1 DEF TaskState, Idle
<1> HIDE DEF q
<1>4. Sound(q)
  BY <1>1, <1>3 DEF Sound, Handling, OnObject, GoodTask
<1> QED  BY <1>2, <1>4 DEF GoodTask, q

\* A gap timer remembers its conversation.
LEMMA AsleepIsGood ==
    ASSUME NEW c \in Conv
    PROVE  [Idle EXCEPT !.pc = "asleep", !.c = c] \in GoodTask
<1> DEFINE q == [Idle EXCEPT !.pc = "asleep", !.c = c]
<1>1. Idle \in TaskState
  BY DEF Idle, TaskState, Pcs, Sites
<1>2. "asleep" \in Pcs
  BY DEF Pcs
<1>3. q \in TaskState
  BY <1>1, <1>2 DEF TaskState
<1>4. q.pc = "asleep" /\ q.c = c
  BY <1>1 DEF TaskState, Idle
<1> HIDE DEF q
<1>5. Sound(q)
  BY <1>1, <1>2, <1>4 DEF Sound, Handling, OnObject, GoodTask
<1> QED  BY <1>3, <1>5 DEF GoodTask, q

\* After one conversation the flush goes on with the others.
LEMMA FlushAgainIsGood ==
    ASSUME NEW work \in SUBSET (Conv \X ObjIds), NEW owned \in SUBSET Tasks
    PROVE  [Idle EXCEPT !.pc = "flush", !.work = work, !.owned = owned] \in GoodTask
<1> DEFINE q == [Idle EXCEPT !.pc = "flush", !.work = work, !.owned = owned]
<1>1. Idle \in TaskState
  BY DEF Idle, TaskState, Pcs, Sites
<1>2. "flush" \in Pcs
  BY DEF Pcs
<1>3. q \in TaskState
  BY <1>1, <1>2 DEF TaskState
<1>4. q.pc = "flush"
  BY <1>1 DEF TaskState, Idle
<1> HIDE DEF q
<1>5. Sound(q)
  BY <1>1, <1>2, <1>4 DEF Sound, Handling, OnObject, GoodTask
<1> QED  BY <1>3, <1>5 DEF GoodTask, q

\* A message on its way into the choke point
LEMMA DeliverIsGood ==
    ASSUME NEW r \in GoodTask, NEW m \in Msgs, NEW e \in Entry,
           NEW site \in Sites, NEW o \in ObjIds \cup {None},
           site \in {"idle", "row"} \/ o \in ObjIds
    PROVE  [r EXCEPT !.pc = "deliver", !.site = site, !.m = m, !.ws = e.ws, !.row = e.row,
                     !.c = ConvOf[m], !.o = o] \in GoodTask
<1> DEFINE q == [r EXCEPT !.pc = "deliver", !.site = site, !.m = m, !.ws = e.ws, !.row = e.row,
                     !.c = ConvOf[m], !.o = o]
<1>1. r \in TaskState
  BY DEF GoodTask
<1>2. e.ws \in BOOLEAN /\ e.row \in BOOLEAN
  BY DEF Entry
<1>3. ConvOf[m] \in Conv
  BY MessagesAssumption
<1>4. "deliver" \in Pcs
  BY DEF Pcs
<1>5. ~(site \in {"idle", "row"}) => o \in ObjIds
  OBVIOUS
<1>6. q \in TaskState
  BY <1>1, <1>2, <1>3, <1>4, <1>5 DEF TaskState
<1>7. q.pc = "deliver" /\ q.site = site /\ q.m = m /\ q.c = ConvOf[m] /\ q.o = o
  BY <1>1 DEF TaskState
<1> HIDE DEF q
<1>8. Sound(q)
  BY <1>1, <1>2, <1>3, <1>4, <1>5, <1>7 DEF Sound, Handling, OnObject, GoodTask
<1> QED  BY <1>6, <1>8 DEF GoodTask, q

\* A sweep takes the frame off its list and may have seen a higher seq.
LEMMA SweepStepIsGood ==
    ASSUME NEW r \in GoodTask, NEW todo \in SUBSET Msgs, NEW high \in Nat \cup {r.high}
    PROVE  [r EXCEPT !.todo = todo, !.high = high] \in GoodTask
<1> DEFINE q == [r EXCEPT !.todo = todo, !.high = high]
<1>1. r \in TaskState
  BY DEF GoodTask
<1>2. high \in {h \in Int : h >= -1}
  BY <1>1 DEF TaskState
<1>3. q \in TaskState
  BY <1>1, <1>2 DEF TaskState
<1>4. q.pc = r.pc /\ q.site = r.site /\ q.m = r.m /\ q.c = r.c /\ q.o = r.o
  BY <1>1 DEF TaskState
<1> HIDE DEF q
<1>5. Sound(q)
  BY <1>1, <1>2, <1>4 DEF Sound, Handling, OnObject, GoodTask
<1> QED  BY <1>3, <1>5 DEF GoodTask, q

\* _dispatch starts the handlers.
LEMMA HandlerIsGood ==
    ASSUME NEW r \in GoodTask, r.pc = "deliver"
    PROVE  [r EXCEPT !.pc = "handler"] \in GoodTask
<1> DEFINE q == [r EXCEPT !.pc = "handler"]
<1>1. r \in TaskState
  BY DEF GoodTask
<1>2. "handler" \in Pcs
  BY DEF Pcs
<1>3. q \in TaskState
  BY <1>1, <1>2 DEF TaskState
<1>4. q.pc = "handler" /\ q.site = r.site /\ q.m = r.m /\ q.c = r.c /\ q.o = r.o
  BY <1>1 DEF TaskState
<1> HIDE DEF q
<1>5. Sound(q)
  BY <1>1, <1>2, <1>4 DEF Sound, Handling, OnObject, GoodTask
<1> QED  BY <1>3, <1>5 DEF GoodTask, q

\* Back from the choke point into the ordering layer
LEMMA BackInLineIsGood ==
    ASSUME NEW r \in GoodTask, Handling(r), r.site \notin {"idle", "row"}
    PROVE  [r EXCEPT !.pc = r.site, !.ws = FALSE, !.row = FALSE] \in GoodTask
<1> DEFINE q == [r EXCEPT !.pc = r.site, !.ws = FALSE, !.row = FALSE]
<1>1. r \in TaskState
  BY DEF GoodTask
<1>2. r.site \in Sites
  BY <1>1 DEF TaskState
<1>3. r.site \in Pcs
  BY <1>2 DEF Pcs, Sites
<1>4. q \in TaskState
  BY <1>1, <1>2, <1>3 DEF TaskState
<1>5. q.pc = r.site /\ q.m = r.m /\ q.c = r.c /\ q.o = r.o /\ q.site = r.site
  BY <1>1 DEF TaskState
<1> HIDE DEF q
<1>6. Sound(q)
  BY <1>1, <1>2, <1>3, <1>5 DEF Sound, Handling, OnObject, GoodTask
<1> QED  BY <1>4, <1>6 DEF GoodTask, q

\* The start of _resolve_gap
LEMMA ResolveIsGood ==
    ASSUME NEW r \in GoodTask, NEW c \in Conv, NEW o \in ObjIds, NEW ob \in OrderState,
           NEW rec \in BOOLEAN
    PROVE  [r EXCEPT !.pc = "resolving", !.site = "resolving", !.c = c, !.o = o, !.m = NoMsg,
                     !.todo = DOMAIN ob.buf, !.high = ob.next - 1, !.rec = rec,
                     !.exp = IF ob.started # 0 THEN ob.started ELSE ob.next] \in GoodTask
<1> DEFINE q == [r EXCEPT !.pc = "resolving", !.site = "resolving", !.c = c, !.o = o, !.m = NoMsg,
                     !.todo = DOMAIN ob.buf, !.high = ob.next - 1, !.rec = rec,
                     !.exp = IF ob.started # 0 THEN ob.started ELSE ob.next]
<1>1. r \in TaskState
  BY DEF GoodTask
<1>2. "resolving" \in Pcs /\ "resolving" \in Sites
  BY DEF Pcs, Sites
<1>3. DOMAIN ob.buf \in SUBSET Msgs /\ ob.next \in Nat /\ ob.started \in Nat
  BY DEF OrderState
<1>4. ob.next - 1 \in {h \in Int : h >= -1}
  BY <1>3
<1>5. q \in TaskState
  BY ZenonT(60), <1>1, <1>2, <1>3, <1>4 DEF TaskState
<1>6. q.pc = "resolving" /\ q.c = c /\ q.o = o
  BY <1>1 DEF TaskState
<1> HIDE DEF q
<1>7. Sound(q)
  BY <1>1, <1>2, <1>3, <1>4, <1>6 DEF Sound, Handling, OnObject, GoodTask
<1> QED  BY <1>5, <1>7 DEF GoodTask, q

\* The start of the sweep of one conversation in _flush_parked_frames
LEMMA SweepingIsGood ==
    ASSUME NEW r \in GoodTask, NEW w \in Conv \X ObjIds, NEW ob \in OrderState,
           NEW work \in SUBSET (Conv \X ObjIds)
    PROVE  [[r EXCEPT !.work = work] EXCEPT !.pc = "flushing", !.c = w[1], !.o = w[2],
                     !.todo = DOMAIN ob.buf, !.high = ob.next - 1, !.rec = FALSE,
                     !.exp = IF ob.started # 0 THEN ob.started ELSE ob.next] \in GoodTask
<1> DEFINE q == [[r EXCEPT !.work = work] EXCEPT !.pc = "flushing", !.c = w[1], !.o = w[2],
                     !.todo = DOMAIN ob.buf, !.high = ob.next - 1, !.rec = FALSE,
                     !.exp = IF ob.started # 0 THEN ob.started ELSE ob.next]
<1>1. r \in TaskState
  BY DEF GoodTask
<1>2. "flushing" \in Pcs
  BY DEF Pcs
<1>3. DOMAIN ob.buf \in SUBSET Msgs /\ ob.next \in Nat /\ ob.started \in Nat
  BY DEF OrderState
<1>4. ob.next - 1 \in {h \in Int : h >= -1}
  BY <1>3
<1>5. w[1] \in Conv /\ w[2] \in ObjIds
  OBVIOUS
<1>6. q \in TaskState
  BY ZenonT(60), <1>1, <1>2, <1>3, <1>4, <1>5 DEF TaskState
<1>7. q.pc = "flushing" /\ q.c = w[1] /\ q.o = w[2]
  BY <1>1 DEF TaskState
<1> HIDE DEF q
<1>8. Sound(q)
  BY <1>1, <1>2, <1>3, <1>4, <1>5, <1>7 DEF Sound, Handling, OnObject, GoodTask
<1> QED  BY <1>6, <1>8 DEF GoodTask, q

\* A gap timer that asks the history endpoint
LEMMA FetchIsGood ==
    ASSUME NEW r \in GoodTask, NEW o \in ObjIds, NEW exp \in Nat, NEW read \in Nat,
           r.pc = "asleep"
    PROVE  [r EXCEPT !.pc = "fetch", !.o = o, !.exp = exp, !.from = exp, !.read = read]
               \in GoodTask
<1> DEFINE q == [r EXCEPT !.pc = "fetch", !.o = o, !.exp = exp, !.from = exp, !.read = read]
<1>1. r \in TaskState
  BY DEF GoodTask
<1>2. "fetch" \in Pcs
  BY DEF Pcs
<1>3. q \in TaskState
  BY <1>1, <1>2 DEF TaskState
<1>4. q.pc = "fetch" /\ q.c = r.c /\ q.o = o
  BY <1>1 DEF TaskState
<1> HIDE DEF q
<1>5. Sound(q)
  BY <1>1, <1>2, <1>4 DEF Sound, Handling, OnObject, GoodTask
<1> QED  BY <1>3, <1>5 DEF GoodTask, q

\* The page of a gap fill arrived.
LEMMA TakenIsGood ==
    ASSUME NEW r \in GoodTask, OnObject(r), NEW read \in Nat
    PROVE  [r EXCEPT !.pc = "chain", !.read = read] \in GoodTask
<1> DEFINE q == [r EXCEPT !.pc = "chain", !.read = read]
<1>1. r \in TaskState
  BY DEF GoodTask
<1>2. "chain" \in Pcs
  BY DEF Pcs
<1>3. q \in TaskState
  BY <1>1, <1>2 DEF TaskState
<1>4. q.pc = "chain" /\ q.c = r.c /\ q.o = r.o
  BY <1>1 DEF TaskState
<1> HIDE DEF q
<1>5. Sound(q)
  BY <1>1, <1>2, <1>4 DEF Sound, Handling, OnObject, GoodTask
<1> QED  BY <1>3, <1>5 DEF GoodTask, q

\* On to the next phase, with the same object and conversation
LEMMA SamePlaceIsGood ==
    ASSUME NEW r \in GoodTask, OnObject(r), NEW pc \in {"chain", "notify"}
    PROVE  [r EXCEPT !.pc = pc] \in GoodTask
<1> DEFINE q == [r EXCEPT !.pc = pc]
<1>1. r \in TaskState
  BY DEF GoodTask
<1>2. pc \in Pcs
  BY DEF Pcs
<1>3. q \in TaskState
  BY <1>1, <1>2 DEF TaskState
<1>4. q.pc = pc /\ q.c = r.c /\ q.o = r.o
  BY <1>1 DEF TaskState
<1> HIDE DEF q
<1>5. Sound(q)
  BY <1>1, <1>2, <1>4 DEF Sound, Handling, OnObject, GoodTask
<1> QED  BY <1>3, <1>5 DEF GoodTask, q

\* The gap is reported when the sweep is over.
LEMMA NotifyIsGood ==
    ASSUME NEW r \in GoodTask, OnObject(r)
    PROVE  [[r EXCEPT !.pc = "notify"] EXCEPT !.m = NoMsg] \in GoodTask
<1> DEFINE q == [[r EXCEPT !.pc = "notify"] EXCEPT !.m = NoMsg]
<1>1. r \in TaskState
  BY DEF GoodTask
<1>2. "notify" \in Pcs
  BY DEF Pcs
<1>3. q \in TaskState
  BY <1>1, <1>2 DEF TaskState
<1>4. q.pc = "notify" /\ q.c = r.c /\ q.o = r.o
  BY <1>1 DEF TaskState
<1> HIDE DEF q
<1>5. Sound(q)
  BY <1>1, <1>2, <1>4 DEF Sound, Handling, OnObject, GoodTask
<1> QED  BY <1>3, <1>5 DEF GoodTask, q

\* A task that leaves the ordering layer
LEMMA AwayIsGood ==
    ASSUME NEW r \in GoodTask, NEW pc \in {"sync", "flush", "leaving"}
    PROVE  [r EXCEPT !.pc = pc] \in GoodTask
<1> DEFINE q == [r EXCEPT !.pc = pc]
<1>1. r \in TaskState
  BY DEF GoodTask
<1>2. pc \in Pcs
  BY DEF Pcs
<1>3. q \in TaskState
  BY <1>1, <1>2 DEF TaskState
<1>4. q.pc = pc
  BY <1>1 DEF TaskState
<1> HIDE DEF q
<1>5. Sound(q)
  BY <1>1, <1>2, <1>4 DEF Sound, Handling, OnObject, GoodTask
<1> QED  BY <1>3, <1>5 DEF GoodTask, q

\* What the flush has left to do, what disconnect() owns and which page a row is of
\* have no say in it.
LEMMA WorkIsGood ==
    ASSUME NEW r \in GoodTask, NEW work \in SUBSET (Conv \X ObjIds)
    PROVE  [r EXCEPT !.work = work] \in GoodTask
<1> DEFINE q == [r EXCEPT !.work = work]
<1>1. r \in TaskState
  BY DEF GoodTask
<1>2. q \in TaskState
  BY <1>1 DEF TaskState
<1>3. q.pc = r.pc /\ q.site = r.site /\ q.m = r.m /\ q.c = r.c /\ q.o = r.o
  BY <1>1 DEF TaskState
<1> HIDE DEF q
<1>4. Sound(q)
  BY <1>1, <1>3 DEF Sound, Handling, OnObject, GoodTask
<1> QED  BY <1>2, <1>4 DEF GoodTask, q

LEMMA OwnedIsGood ==
    ASSUME NEW r \in GoodTask, NEW owned \in SUBSET Tasks
    PROVE  [r EXCEPT !.owned = owned] \in GoodTask
<1> DEFINE q == [r EXCEPT !.owned = owned]
<1>1. r \in TaskState
  BY DEF GoodTask
<1>2. q \in TaskState
  BY <1>1 DEF TaskState
<1>3. q.pc = r.pc /\ q.site = r.site /\ q.m = r.m /\ q.c = r.c /\ q.o = r.o
  BY <1>1 DEF TaskState
<1> HIDE DEF q
<1>4. Sound(q)
  BY <1>1, <1>3 DEF Sound, Handling, OnObject, GoodTask
<1> QED  BY <1>2, <1>4 DEF GoodTask, q

LEMMA RowIsGood ==
    ASSUME NEW r \in GoodTask, NEW row \in BOOLEAN
    PROVE  [r EXCEPT !.row = row] \in GoodTask
<1> DEFINE q == [r EXCEPT !.row = row]
<1>1. r \in TaskState
  BY DEF GoodTask
<1>2. q \in TaskState
  BY <1>1 DEF TaskState
<1>3. q.pc = r.pc /\ q.site = r.site /\ q.m = r.m /\ q.c = r.c /\ q.o = r.o
  BY <1>1 DEF TaskState
<1> HIDE DEF q
<1>4. Sound(q)
  BY <1>1, <1>3 DEF Sound, Handling, OnObject, GoodTask
<1> QED  BY <1>2, <1>4 DEF GoodTask, q

----------------------------------------------------------------------------
(* Writing the ordering layer's state *)

LEMMA HomeIsAPlace ==
    ASSUME NEW t
    PROVE  Home(t) \in {"row", "idle"} /\ Home(t) \in Pcs /\ Home(t) \in Sites
BY DEF Home, Pcs, Sites

LEMMA FreshIsOrderState == FreshObj \in OrderState
<1>1. <<>> \in [{} -> Entry] /\ {} \in SUBSET Msgs
  OBVIOUS
<1>2. <<>> \in Bufs
  BY <1>1 DEF Bufs
<1> QED  BY <1>2 DEF FreshObj, OrderState, Bufs

LEMMA CommitTyped ==
    ASSUME NEW sts \in [Conv -> ObjIds \cup {None}], NEW tsk \in [Tasks -> GoodTask],
           NEW obs, \A o \in ObjIds : obs[o] \in OrderState, Commit(sts, tsk, obs)
    PROVE  OrderTyped'
BY FreshIsOrderState DEF Commit, OrderTyped

LEMMA CancelTyped ==
    ASSUME NEW tsk \in [Tasks -> GoodTask], NEW ts
    PROVE  Cancel(tsk, ts) \in [Tasks -> GoodTask]
BY IdleTask DEF Cancel

LEMMA UnfillTyped ==
    ASSUME NEW obs, \A o \in ObjIds : obs[o] \in OrderState, NEW ts
    PROVE  \A o \in ObjIds : Unfill(obs, ts)[o] \in OrderState
<1>1. \A ob \in OrderState : [ob EXCEPT !.fill = FALSE] \in OrderState
  BY DEF OrderState
<1> HIDE DEF OrderState
<1> QED  BY <1>1 DEF Unfill

LEMMA CleanupTyped ==
    ASSUME NEW sts \in [Conv -> ObjIds \cup {None}], NEW c \in Conv, NEW ob
    PROVE  Cleanup(sts, c, ob) \in [Conv -> ObjIds \cup {None}]
BY DEF Cleanup

\* What is done to the fields of an ordering state
LEMMA ObjectUpdates ==
    ASSUME NEW ob \in OrderState
    PROVE  /\ \A g \in GapTasks \cup {None} : [ob EXCEPT !.timer = g] \in OrderState
           /\ \A n \in Nat : [ob EXCEPT !.next = n] \in OrderState
           /\ \A n \in Nat : [ob EXCEPT !.started = n] \in OrderState
           /\ \A b \in BOOLEAN : [ob EXCEPT !.fill = b] \in OrderState
           /\ \A b \in Bufs : [ob EXCEPT !.buf = b] \in OrderState
           /\ ob.buf \in Bufs /\ ob.next \in Nat /\ ob.started \in Nat
           /\ ob.timer \in GapTasks \cup {None} /\ ob.fill \in BOOLEAN
BY DEF OrderState, Bufs

LEMMA BufIsMap ==
    ASSUME NEW S \in SUBSET Msgs, NEW f \in [S -> Entry]
    PROVE  f \in Bufs
BY DEF Bufs

LEMMA BufParts ==
    ASSUME NEW b \in Bufs
    PROVE  DOMAIN b \subseteq Msgs /\ \A m \in DOMAIN b : b[m] \in Entry
BY DEF Bufs

LEMMA EmptyBuf == <<>> \in Bufs
<1>1. <<>> \in [{} -> Entry] /\ {} \in SUBSET Msgs
  OBVIOUS
<1> QED  BY <1>1 DEF Bufs

----------------------------------------------------------------------------
(* Every action keeps them well formed *)

LEMMA RouteTyped ==
    ASSUME OrderTyped, NEW t \in Tasks, NEW m \in Msgs, NEW e \in Entry, NEW spent,
           Route(t, m, e, spent)
    PROVE  OrderTyped'
<1>1. /\ states \in [Conv -> ObjIds \cup {None}] /\ objs \in [ObjIds -> OrderState]
      /\ task \in [Tasks -> GoodTask] /\ ConvOf[m] \in Conv /\ SeqOf[m] \in Nat
      /\ None \notin ObjIds /\ Home(t) \in Sites /\ Home(t) \in {"row", "idle"} /\ Home(t) \in Pcs
  <2>1. ConvOf[m] \in Conv /\ SeqOf[m] \in Nat /\ None \notin ObjIds
    BY MessagesAssumption, IdentitiesAssumption
  <2> QED  BY <2>1, HomeIsAPlace, Zenon DEF OrderTyped
<1>2. \A f \in Entry, o \in ObjIds \cup {None} : Deliver(t, m, f, Home(t), o) \in GoodTask
  BY <1>1, DeliverIsGood DEF Deliver
<1>3. [Idle EXCEPT !.pc = Home(t)] \in GoodTask
  BY <1>1, IdleIsGood
<1>4. \A r \in GoodTask : [task EXCEPT ![t] = r] \in [Tasks -> GoodTask]
  BY <1>1
<1>5. CASE RouteUnsequenced(t, m, e)
  <2>1. [task EXCEPT ![t] = Deliver(t, m, e, Home(t), None)] \in [Tasks -> GoodTask]
    BY <1>2, <1>4
  <2> QED  BY <1>1, <1>5, <2>1, CommitTyped DEF RouteUnsequenced
<1>6. CASE RouteAnchor(t, m, e)
  <2> DEFINE o == CHOOSE x \in FreeObjs : TRUE
  <2>1. o \in ObjIds
    BY <1>6 DEF RouteAnchor, FreeObjs
  <2>2. [FreshObj EXCEPT !.next = SeqOf[m] + 1] \in OrderState
    BY SMTT(30), <1>1, FreshIsOrderState, ObjectUpdates
  <2>3. [task EXCEPT ![t] = Deliver(t, m, e, Home(t), None)] \in [Tasks -> GoodTask]
    BY <1>2, <1>4
  <2>4. \A x \in ObjIds : [objs EXCEPT ![o] = [FreshObj EXCEPT !.next = SeqOf[m] + 1]][x] \in OrderState
    BY <1>1, <2>2
  <2>5. [states EXCEPT ![ConvOf[m]] = o] \in [Conv -> ObjIds \cup {None}]
    BY <1>1, <2>1
  <2>6. Commit([states EXCEPT ![ConvOf[m]] = o],
               [task EXCEPT ![t] = Deliver(t, m, e, Home(t), None)],
               [objs EXCEPT ![o] = [FreshObj EXCEPT !.next = SeqOf[m] + 1]])
    BY <1>6 DEF RouteAnchor
  <2> HIDE DEF o
  <2> QED  BY <2>3, <2>4, <2>5, <2>6, CommitTyped
<1>7. CASE RouteBelow(t, m, spent)
  <2>1. [ws |-> FALSE, row |-> FALSE] \in Entry
    BY DEF Entry
  <2>2. \E r \in GoodTask : Commit(states, [task EXCEPT ![t] = r], objs)
    BY <1>2, <1>3, <1>7, <2>1 DEF RouteBelow
  <2> QED  BY <1>1, <1>4, <2>2, CommitTyped
<1>8. CASE RouteInOrder(t, m, e)
  <2>1. states[ConvOf[m]] \in ObjIds
    BY <1>1, <1>8 DEF RouteInOrder, Tracked
  <2>2. Deliver(t, m, e, "inorder", states[ConvOf[m]]) \in GoodTask
    BY <1>1, <2>1, DeliverIsGood DEF Deliver, Sites
  <2> QED  BY <1>1, <1>4, <1>8, <2>2, CommitTyped DEF RouteInOrder
<1>9. CASE RoutePark(t, m, e)
  <2> DEFINE c == ConvOf[m]
             o == states[c]
             buf == [x \in DOMAIN objs[o].buf \cup {m} |-> IF x = m THEN e ELSE objs[o].buf[x]]
             kept == [objs[o] EXCEPT !.buf = buf]
  <2>1. o \in ObjIds /\ objs[o] \in OrderState
    BY <1>1, <1>9 DEF RoutePark, Tracked
  <2>2. kept \in OrderState
    <3>1. objs[o].buf \in Bufs
      BY <2>1, ObjectUpdates
    <3>2. buf \in Bufs
      <4>1. DOMAIN objs[o].buf \cup {m} \in SUBSET Msgs
        BY <3>1, BufParts
      <4>2. buf \in [DOMAIN objs[o].buf \cup {m} -> Entry]
        BY <3>1, BufParts
      <4> QED  BY <4>1, <4>2, BufIsMap
    <3> HIDE DEF buf
    <3> QED  BY <2>1, <3>2, ObjectUpdates
  <2>3. kept = [objs[o] EXCEPT !.buf =
                    [x \in DOMAIN @ \cup {m} |-> IF x = m THEN e ELSE @[x]]]
    BY <2>1 DEF OrderState
  <2>4. \A x \in ObjIds : [objs EXCEPT ![o] = kept][x] \in OrderState
    BY <1>1, <2>2
  <2>5. CASE Commit(states, [task EXCEPT ![t] = Resolve(t, c, o, kept, FALSE)],
                    [objs EXCEPT ![o] = kept])
    <3>1. Resolve(t, c, o, kept, FALSE) \in GoodTask
      <4> HIDE DEF kept, o
      <4> QED  BY <1>1, <2>1, <2>2, ResolveIsGood DEF Resolve
    <3>2. [task EXCEPT ![t] = Resolve(t, c, o, kept, FALSE)] \in [Tasks -> GoodTask]
      BY <1>4, <3>1
    <3> HIDE DEF kept, o
    <3> QED  BY <1>1, <2>4, <2>5, <3>2, CommitTyped
  <2>6. CASE Commit(states, [task EXCEPT ![t] = [Idle EXCEPT !.pc = Home(t)]],
                    [objs EXCEPT ![o] = kept])
    <3> HIDE DEF kept, o
    <3> QED  BY <1>1, <1>3, <1>4, <2>4, <2>6, CommitTyped
  <2>7. CASE FreeGapTasks # {} /\
             LET g == CHOOSE x \in FreeGapTasks : TRUE
             IN  Commit(states,
                        [task EXCEPT ![t] = [Idle EXCEPT !.pc = Home(t)],
                                     ![g] = [Idle EXCEPT !.pc = "asleep", !.c = c]],
                        [objs EXCEPT ![o] = [kept EXCEPT !.timer = g, !.started = kept.next]])
    <3> DEFINE g == CHOOSE x \in FreeGapTasks : TRUE
               armed == [kept EXCEPT !.timer = g, !.started = kept.next]
    <3>1. g \in GapTasks
      BY <2>7 DEF FreeGapTasks
    <3>2. armed \in OrderState
      <4> HIDE DEF kept, g
      <4> QED  BY <2>2, <3>1 DEF OrderState
    <3>3. [task EXCEPT ![t] = [Idle EXCEPT !.pc = Home(t)],
                       ![g] = [Idle EXCEPT !.pc = "asleep", !.c = c]] \in [Tasks -> GoodTask]
      <4>1. [Idle EXCEPT !.pc = "asleep", !.c = c] \in GoodTask
        BY <1>1, AsleepIsGood
      <4> QED  BY <1>1, <1>3, <4>1
    <3>4. \A x \in ObjIds : [objs EXCEPT ![o] = armed][x] \in OrderState
      BY <1>1, <3>2
    <3> HIDE DEF kept, o, g
    <3> QED  BY <1>1, <2>7, <3>3, <3>4, CommitTyped DEF g
  <2> QED
    BY <1>9, <2>3, <2>5, <2>6, <2>7 DEF RoutePark
<1> QED  BY <1>5, <1>6, <1>7, <1>8, <1>9 DEF Route

LEMMA ChainTyped ==
    ASSUME OrderTyped, NEW t \in Tasks, ChainNext(t) \/ ChainEnd(t)
    PROVE  OrderTyped'
<1> DEFINE o == task[t].o
           c == task[t].c
<1>1. /\ states \in [Conv -> ObjIds \cup {None}] /\ objs \in [ObjIds -> OrderState]
      /\ task \in [Tasks -> GoodTask] /\ None \notin ObjIds
  BY IdentitiesAssumption DEF OrderTyped
<1>2. /\ task[t] \in GoodTask /\ task[t].pc \in {"inorder", "chained", "chain"}
      /\ o \in ObjIds /\ c \in Conv /\ objs[o] \in OrderState
      /\ objs[o].buf \in Bufs /\ objs[o].next \in Nat
      /\ task[t].pc = "inorder" => task[t].m \in Msgs
  <2>1. task[t] \in GoodTask /\ task[t].pc \in {"inorder", "chained", "chain"}
    BY <1>1 DEF ChainNext, ChainEnd, AtChain
  <2>2. o \in ObjIds /\ c \in Conv /\ (task[t].pc = "inorder" => task[t].m \in Msgs)
    BY <2>1 DEF GoodTask, Sound, OnObject
  <2> QED  BY <1>1, <2>1, <2>2, ObjectUpdates
<1>3. NextInLine(t) \in Nat
  <2>1. CASE task[t].pc = "inorder"
    BY <1>2, <2>1, MessagesAssumption DEF NextInLine
  <2>2. CASE task[t].pc # "inorder"
    BY <1>2, <2>2 DEF NextInLine
  <2> QED  BY <2>1, <2>2
<1>4. \A r \in GoodTask : [task EXCEPT ![t] = r] \in [Tasks -> GoodTask]
  BY <1>1
<1>5. \A ob \in OrderState : \A x \in ObjIds : [objs EXCEPT ![o] = ob][x] \in OrderState
  BY <1>1
<1>6. CASE ChainNext(t)
  <2>1. PICK m \in InLine(t) :
          Commit(states,
                 [task EXCEPT ![t] = Deliver(t, m, objs[o].buf[m], "chained", o)],
                 [objs EXCEPT ![o].next = NextInLine(t),
                              ![o].buf = [x \in DOMAIN @ \ {m} |-> @[x]]])
    BY <1>6 DEF ChainNext
  <2>2. m \in DOMAIN objs[o].buf
    BY <2>1 DEF InLine
  <2>3. m \in Msgs /\ objs[o].buf[m] \in Entry
    BY <1>2, <2>2, BufParts
  <2>4. Deliver(t, m, objs[o].buf[m], "chained", o) \in GoodTask
    BY <1>2, <2>3, DeliverIsGood DEF Deliver, Sites
  <2> DEFINE buf == [x \in DOMAIN objs[o].buf \ {m} |-> objs[o].buf[x]]
             obs == [objs EXCEPT ![o].next = NextInLine(t),
                              ![o].buf = [x \in DOMAIN @ \ {m} |-> @[x]]]
  <2>5. buf \in Bufs
    <3>1. DOMAIN objs[o].buf \ {m} \in SUBSET Msgs /\ buf \in [DOMAIN objs[o].buf \ {m} -> Entry]
      BY <1>2, BufParts
    <3> QED  BY <3>1, BufIsMap
  <2>6. \A x \in ObjIds : obs[x] = IF x = o THEN [objs[o] EXCEPT !.next = NextInLine(t), !.buf = buf]
                                            ELSE objs[x]
    BY <1>1, <1>2 DEF OrderState
  <2> HIDE DEF buf
  <2>7. [objs[o] EXCEPT !.next = NextInLine(t), !.buf = buf] \in OrderState
    BY <1>2, <1>3, <2>5 DEF OrderState, Bufs
  <2>8. \A x \in ObjIds : obs[x] \in OrderState
    BY <1>1, <2>6, <2>7
  <2>9. [task EXCEPT ![t] = Deliver(t, m, objs[o].buf[m], "chained", o)] \in [Tasks -> GoodTask]
    BY <1>4, <2>4
  <2>10. Commit(states, [task EXCEPT ![t] = Deliver(t, m, objs[o].buf[m], "chained", o)], obs)
    BY <2>1
  <2> HIDE DEF obs
  <2> QED  BY <1>1, <2>8, <2>9, <2>10, CommitTyped
<1>7. CASE ChainEnd(t)
  <2> DEFINE ob == [objs[o] EXCEPT !.next = NextInLine(t)]
             drained == task[t].pc = "chained"
             stop == IF ob.buf = <<>> /\ ob.timer # None THEN {ob.timer} ELSE {}
             calm == IF stop = {} THEN ob ELSE [ob EXCEPT !.timer = None, !.started = 0]
  <2>1. ob \in OrderState /\ calm \in OrderState
    BY <1>2, <1>3 DEF OrderState
  <2>2. Resolve(t, c, o, ob, drained) \in GoodTask
    <3>1. drained \in BOOLEAN /\ task[t] \in GoodTask /\ o \in ObjIds /\ c \in Conv
      BY <1>2
    <3> HIDE DEF ob, drained, c, o
    <3>2. \A rec \in BOOLEAN : Resolve(t, c, o, ob, rec) \in GoodTask
      BY <2>1, <3>1, ResolveIsGood DEF Resolve
    <3> QED  BY <3>1, <3>2
  <2>3. [Idle EXCEPT !.pc = Home(t)] \in GoodTask
    BY HomeIsAPlace, IdleIsGood
  <2>4. CASE t \in GapTasks
    <3> DEFINE sts == IF drained THEN Cleanup(states, c, ob) ELSE states
    <3>1. sts \in [Conv -> ObjIds \cup {None}]
      BY <1>1, <1>2, CleanupTyped
    <3>2. Commit(sts, [task EXCEPT ![t] = Resolve(t, c, o, ob, drained)], [objs EXCEPT ![o] = ob])
      BY <1>7, <2>4 DEF ChainEnd
    <3> HIDE DEF sts, ob, drained, c, o
    <3> QED  BY <1>4, <1>5, <2>1, <2>2, <3>1, <3>2, CommitTyped
  <2>5. CASE t \notin GapTasks
    <3> DEFINE sts == Cleanup(states, c, calm)
               tsk == Cancel([task EXCEPT ![t] = [Idle EXCEPT !.pc = Home(t)]], stop)
               obs == [Unfill(objs, stop) EXCEPT ![o] = calm]
    <3>1. sts \in [Conv -> ObjIds \cup {None}]
      BY <1>1, <1>2, CleanupTyped
    <3>2. tsk \in [Tasks -> GoodTask]
      BY <1>4, <2>3, CancelTyped
    <3>3. \A x \in ObjIds : Unfill(objs, stop)[x] \in OrderState
      BY <1>1, UnfillTyped
    <3>4. \A x \in ObjIds : obs[x] \in OrderState
      <4>1. Unfill(objs, stop) = [x \in ObjIds |-> Unfill(objs, stop)[x]]
        BY DEF Unfill
      <4> HIDE DEF calm, stop, o
      <4> QED  BY <2>1, <3>3, <4>1
    <3>5. Commit(sts, tsk, obs)
      BY <1>7, <2>5 DEF ChainEnd
    <3> HIDE DEF sts, tsk, obs
    <3> QED  BY <3>1, <3>2, <3>4, <3>5, CommitTyped
  <2> QED  BY <2>4, <2>5
<1> QED  BY <1>6, <1>7

\* A page is made of messages.
LEMMA PageIsOfMessages ==
    ASSUME NEW c, NEW from, NEW read \in Nat, read <= Total
    PROVE  HistoryPage(c, from, read) \subseteq Msgs
BY MessagesAssumption DEF HistoryPage, Visible, Msgs

LEMMA GapTimerTyped ==
    ASSUME OrderTyped, pub \in 0..Total, NEW t \in Tasks, GapTimer(t)
    PROVE  OrderTyped'
<1>1. /\ states \in [Conv -> ObjIds \cup {None}] /\ objs \in [ObjIds -> OrderState]
      /\ task \in [Tasks -> GoodTask] /\ task[t] \in GoodTask
      /\ None \notin ObjIds
  BY IdentitiesAssumption DEF OrderTyped
<1>2. \A r \in GoodTask : [task EXCEPT ![t] = r] \in [Tasks -> GoodTask]
  BY <1>1
<1>3. \A o \in ObjIds, ob \in OrderState : \A x \in ObjIds : [objs EXCEPT ![o] = ob][x] \in OrderState
  BY <1>1
<1>4. CASE GapTimerFires(t)
  <2> DEFINE c == task[t].c
             o == states[c]
             ob == [objs[o] EXCEPT !.timer = None]
             becomes(r) == [task EXCEPT ![t] = r]
  <2>1. c \in Conv /\ task[t].pc = "asleep"
    BY <1>1, <1>4 DEF GapTimerFires, At, GoodTask, Sound
  <2>2. becomes(Idle) \in [Tasks -> GoodTask]
    BY <1>2, IdleTask
  <2>3. CASE o = None
    BY <1>1, <1>4, <2>2, <2>3, CommitTyped DEF GapTimerFires
  <2>4. CASE o # None
    <3>1. o \in ObjIds /\ objs[o] \in OrderState
      BY <1>1, <2>1, <2>4
    <3>2. ob \in OrderState
      BY <3>1, ObjectUpdates
    <3>3. CASE \E sts \in {states, Cleanup(states, c, ob)} :
                 Commit(sts, becomes(Idle), [objs EXCEPT ![o] = ob])
      <4>1. Cleanup(states, c, ob) \in [Conv -> ObjIds \cup {None}]
        BY <1>1, <2>1, CleanupTyped
      <4> HIDE DEF becomes, ob, o
      <4> QED  BY <1>1, <1>3, <2>2, <3>1, <3>2, <3>3, <4>1, CommitTyped
    <3>4. CASE Commit(states, becomes(Resolve(t, c, o, ob, FALSE)), [objs EXCEPT ![o] = ob])
      <4> HIDE DEF c, o, ob
      <4>1. Resolve(t, c, o, ob, FALSE) \in GoodTask
        BY <1>1, <2>1, <3>1, <3>2, ResolveIsGood DEF Resolve
      <4> QED  BY <1>1, <1>2, <1>3, <3>1, <3>2, <3>4, <4>1, CommitTyped
    <3>5. CASE Commit(states,
                      becomes([task[t] EXCEPT !.pc = "fetch", !.o = o, !.exp = ob.next,
                                              !.from = ob.next, !.read = pub]),
                      [objs EXCEPT ![o] = [ob EXCEPT !.fill = TRUE]])
      <4> HIDE DEF c, o, ob
      <4>1. ob.next \in Nat /\ [ob EXCEPT !.fill = TRUE] \in OrderState
        BY <3>2, ObjectUpdates
      <4>3. pub \in Nat
        OBVIOUS
      <4>2. [task[t] EXCEPT !.pc = "fetch", !.o = o, !.exp = ob.next,
                            !.from = ob.next, !.read = pub] \in GoodTask
        BY <1>1, <2>1, <3>1, <4>1, <4>3, FetchIsGood
      <4> QED  BY <1>1, <1>2, <1>3, <3>1, <3>5, <4>1, <4>2, CommitTyped
    <3> QED
      <4>1. \/ Commit(Cleanup(states, c, ob), becomes(Idle), [objs EXCEPT ![o] = ob])
            \/ Commit(states, becomes(Resolve(t, c, o, ob, FALSE)), [objs EXCEPT ![o] = ob])
            \/ Commit(states, becomes(Idle), [objs EXCEPT ![o] = ob])
            \/ Commit(states,
                      becomes([task[t] EXCEPT !.pc = "fetch", !.o = o, !.exp = ob.next,
                                              !.from = ob.next, !.read = pub]),
                      [objs EXCEPT ![o] = [ob EXCEPT !.fill = TRUE]])
        BY <1>4, <2>4 DEF GapTimerFires
      <4> HIDE DEF becomes, ob, o, c
      <4> QED  BY <3>3, <3>4, <3>5, <4>1
  <2> QED  BY <2>3, <2>4
<1>5. CASE GapFillFails(t)
  <2> DEFINE o == task[t].o
             ob == [objs[o] EXCEPT !.fill = FALSE]
             gone == states[task[t].c] # o
             r == IF gone THEN Idle ELSE Resolve(t, task[t].c, o, ob, FALSE)
  <2>1. o \in ObjIds /\ task[t].c \in Conv /\ objs[o] \in OrderState
    BY <1>1, <1>5 DEF GapFillFails, At, GoodTask, Sound, OnObject
  <2>2. ob \in OrderState
    BY <2>1, ObjectUpdates
  <2>3. r \in GoodTask
    <3>1. Resolve(t, task[t].c, o, ob, FALSE) \in GoodTask
      <4> HIDE DEF o, ob
      <4> QED  BY <1>1, <2>1, <2>2, ResolveIsGood DEF Resolve
    <3> QED  BY <3>1, IdleTask
  <2>4. Commit(states, [task EXCEPT ![t] = r], [objs EXCEPT ![o] = ob])
    BY <1>5 DEF GapFillFails
  <2> HIDE DEF o, ob, r
  <2> QED  BY <1>1, <1>2, <1>3, <2>1, <2>2, <2>3, <2>4, CommitTyped
<1>6. CASE GapFillAnswers(t)
  <2>0. PICK read \in task[t].read .. pub : TakesPage(t, read)
    BY <1>6 DEF GapFillAnswers
  <2>9. read \in Nat /\ read <= Total
    BY <1>1, <2>0, MessagesAssumption DEF GoodTask, TaskState
  <2> DEFINE o == task[t].o
             rows == HistoryPage(task[t].c, task[t].from, read) \ DOMAIN objs[o].buf
             parked == [ws |-> ~AckOnReceipt, row |-> FALSE]
             buf == [m \in DOMAIN objs[o].buf \cup rows |->
                        IF m \in DOMAIN objs[o].buf THEN objs[o].buf[m] ELSE parked]
             obs == [objs EXCEPT ![o].fill = FALSE,
                           ![o].buf = [m \in DOMAIN @ \cup rows |->
                               IF m \in DOMAIN @ THEN @[m]
                               ELSE [ws |-> ~AckOnReceipt, row |-> FALSE]]]
  <2>1. /\ o \in ObjIds /\ task[t].c \in Conv /\ objs[o] \in OrderState /\ OnObject(task[t])
        /\ objs[o].buf \in Bufs
    <3>1. OnObject(task[t])
      BY <1>6 DEF GapFillAnswers, At, OnObject
    <3>2. o \in ObjIds /\ task[t].c \in Conv
      BY <1>1, <3>1 DEF GoodTask, Sound
    <3> QED  BY <1>1, <3>1, <3>2, ObjectUpdates
  <2>2. [task[t] EXCEPT !.pc = "chain", !.read = read] \in GoodTask
    BY <1>1, <2>1, <2>9, TakenIsGood
  <2>3. buf \in Bufs
    <3>1. rows \subseteq Msgs
      BY <2>9, PageIsOfMessages
    <3>2. parked \in Entry
      BY OptionsAssumption DEF Entry
    <3>3. DOMAIN objs[o].buf \cup rows \in SUBSET Msgs
      BY <2>1, <3>1, BufParts
    <3>4. buf \in [DOMAIN objs[o].buf \cup rows -> Entry]
      <4> HIDE DEF parked, rows, o
      <4> QED  BY <2>1, <3>2, BufParts
    <3> QED  BY <3>3, <3>4, BufIsMap
  <2>4. \A x \in ObjIds : obs[x] = IF x = o THEN [objs[o] EXCEPT !.fill = FALSE, !.buf = buf]
                                            ELSE objs[x]
    BY <1>1, <2>1 DEF OrderState
  <2>5. [objs[o] EXCEPT !.fill = FALSE, !.buf = buf] \in OrderState
    <3> HIDE DEF buf, o
    <3> QED  BY <2>1, <2>3 DEF OrderState, Bufs
  <2>6. \A x \in ObjIds : obs[x] \in OrderState
    <3> HIDE DEF buf, o, obs
    <3> QED  BY <1>1, <2>4, <2>5
  <2>7. Commit(states, [task EXCEPT ![t].pc = "chain", ![t].read = read], obs)
    BY <2>0 DEF TakesPage
  <2>8. [task EXCEPT ![t].pc = "chain", ![t].read = read] \in [Tasks -> GoodTask]
    BY <1>1, <2>2
  <2> HIDE DEF obs
  <2> QED  BY <1>1, <2>6, <2>7, <2>8, CommitTyped
<1> QED  BY <1>4, <1>5, <1>6 DEF GapTimer

\* The record of a task to which the choke point returned
LEMMA BackIsGood ==
    ASSUME NEW t \in Tasks, task[t] \in GoodTask, Handling(task[t])
    PROVE  Back(t) \in GoodTask
<1>1. CASE task[t].site \in {"idle", "row"}
  <2>1. [Idle EXCEPT !.pc = task[t].site] \in GoodTask
    BY <1>1, IdleIsGood DEF Pcs
  <2> QED  BY <1>1, <2>1 DEF Back
<1>2. CASE task[t].site \notin {"idle", "row"}
  BY <1>2, BackInLineIsGood DEF Back
<1> QED  BY <1>1, <1>2

LEMMA ChokePointTyped ==
    ASSUME OrderTyped, NEW t \in Tasks,
           DedupHit(t) \/ Dispatch(t) \/ HandledCleanly(t) \/ HandlerRaised(t)
    PROVE  OrderTyped'
<1>1. /\ states \in [Conv -> ObjIds \cup {None}] /\ objs \in [ObjIds -> OrderState]
      /\ task \in [Tasks -> GoodTask] /\ task[t] \in GoodTask
  BY DEF OrderTyped
<1>2. ASSUME NEW r \in GoodTask, Commit(states, [task EXCEPT ![t] = r], objs)
      PROVE  OrderTyped'
  <2>1. [task EXCEPT ![t] = r] \in [Tasks -> GoodTask]
    BY <1>1
  <2> QED  BY <1>1, <1>2, <2>1, CommitTyped
<1>3. CASE Returns(t) /\ Handling(task[t])
  BY <1>1, <1>2, <1>3, BackIsGood DEF Returns
<1>4. CASE Dispatch(t)
  <2>1. [task[t] EXCEPT !.pc = "handler"] \in GoodTask
    BY <1>1, <1>4, HandlerIsGood DEF Dispatch, At
  <2>2. [task EXCEPT ![t].pc = "handler"] = [task EXCEPT ![t] = [task[t] EXCEPT !.pc = "handler"]]
    OBVIOUS
  <2> QED  BY <1>2, <1>4, <2>1, <2>2 DEF Dispatch
<1> QED
  BY <1>3, <1>4 DEF DedupHit, HandledCleanly, HandlerRaised, At, Handling

LEMMA SweepTyped ==
    ASSUME OrderTyped, NEW t \in Tasks, SweepNext(t) \/ SweepEnd(t)
    PROVE  OrderTyped'
<1> DEFINE o == task[t].o
<1>1. /\ states \in [Conv -> ObjIds \cup {None}] /\ objs \in [ObjIds -> OrderState]
      /\ task \in [Tasks -> GoodTask] /\ task[t] \in GoodTask
      /\ \A r \in GoodTask : [task EXCEPT ![t] = r] \in [Tasks -> GoodTask]
  BY DEF OrderTyped
<1>2. task[t].pc \in {"resolving", "flushing"}
  BY DEF SweepNext, SweepEnd, AtSweep
<1>3. OnObject(task[t])
  BY <1>2 DEF OnObject
<1>4. o \in ObjIds /\ objs[o] \in OrderState /\ objs[o].buf \in Bufs /\ task[t] \in TaskState
  <2>1. o \in ObjIds /\ task[t] \in TaskState
    BY <1>1, <1>3 DEF GoodTask, Sound
  <2> QED  BY <1>1, <2>1, ObjectUpdates
<1>5. CASE SweepNext(t)
  <2>1. PICK m \in Lowest(task[t].todo) \cap DOMAIN objs[o].buf :
          Commit(states,
                 [task EXCEPT ![t] =
                     [Deliver(t, m, objs[o].buf[m], task[t].pc, o) EXCEPT
                         !.todo = @ \ {m},
                         !.high = IF SeqOf[m] > @ THEN SeqOf[m] ELSE @]],
                 objs)
    BY <1>5 DEF SweepNext
  <2> DEFINE d == Deliver(t, m, objs[o].buf[m], task[t].pc, o)
             todo == d.todo \ {m}
             high == IF SeqOf[m] > d.high THEN SeqOf[m] ELSE d.high
  <2>2. m \in Msgs /\ objs[o].buf[m] \in Entry
    BY <1>4, <2>1, BufParts
  <2>3. d \in GoodTask
    <3>1. \A site \in Sites : Deliver(t, m, objs[o].buf[m], site, o) \in GoodTask
      <4> HIDE DEF o
      <4> QED  BY <1>1, <1>4, <2>2, DeliverIsGood DEF Deliver
    <3> QED  BY <1>2, <3>1 DEF Sites
  <2>4. todo \in SUBSET Msgs /\ high \in Nat \cup {d.high}
    BY <2>2, <2>3, MessagesAssumption DEF GoodTask, TaskState
  <2>5. [d EXCEPT !.todo = todo, !.high = high] \in GoodTask
    <3> HIDE DEF d, todo, high
    <3> QED  BY <2>3, <2>4, SweepStepIsGood
  <2>6. [d EXCEPT !.todo = @ \ {m}, !.high = IF SeqOf[m] > @ THEN SeqOf[m] ELSE @]
            = [d EXCEPT !.todo = todo, !.high = high]
    BY <2>3 DEF GoodTask, TaskState
  <2> HIDE DEF todo, high
  <2>7. Commit(states, [task EXCEPT ![t] = [d EXCEPT !.todo = todo, !.high = high]], objs)
    BY <2>1, <2>6
  <2>8. [task EXCEPT ![t] = [d EXCEPT !.todo = todo, !.high = high]] \in [Tasks -> GoodTask]
    BY <1>1, <2>5
  <2> HIDE DEF d
  <2> QED  BY <1>1, <2>7, <2>8, CommitTyped
<1>6. CASE SweepEnd(t)
  <2> DEFINE timer == objs[o].timer
             gap == task[t].pc = "resolving"
             stop == IF gap /\ timer # None THEN {timer} ELSE {}
             ended == [objs[o] EXCEPT !.buf = <<>>]
             last == IF gap
                     THEN [ended EXCEPT !.next = task[t].high + 1, !.timer = None, !.started = 0,
                                        !.fill = Unfill(objs, stop)[o].fill]
                     ELSE ended
             tsk == [task EXCEPT ![t].pc = "notify", ![t].m = NoMsg]
             obs == [Unfill(objs, stop) EXCEPT ![o] = last]
  <2>1. Commit(states, Cancel(tsk, stop), obs)
    BY <1>6 DEF SweepEnd
  <2>2. Cancel(tsk, stop) \in [Tasks -> GoodTask]
    <3>1. [[task[t] EXCEPT !.pc = "notify"] EXCEPT !.m = NoMsg] \in GoodTask
      BY <1>1, <1>3, NotifyIsGood
    <3>2. tsk = [task EXCEPT ![t] = [[task[t] EXCEPT !.pc = "notify"] EXCEPT !.m = NoMsg]]
      BY <1>1, <1>4 DEF TaskState
    <3> HIDE DEF tsk, stop
    <3> QED  BY <1>1, <3>1, <3>2, CancelTyped
  <2>3. \A x \in ObjIds : Unfill(objs, stop)[x] \in OrderState
    BY <1>1, UnfillTyped
  <2>4. last \in OrderState
    <3>1. ended \in OrderState
      BY <1>4, EmptyBuf, ObjectUpdates
    <3>2. Unfill(objs, stop)[o].fill \in BOOLEAN
      BY <1>4, <2>3 DEF OrderState
    <3>3. task[t].high + 1 \in Nat
      BY <1>4 DEF TaskState
    <3> HIDE DEF ended, stop
    <3> QED  BY <3>1, <3>2, <3>3 DEF OrderState
  <2>5. \A x \in ObjIds : obs[x] \in OrderState
    <3>1. Unfill(objs, stop) = [x \in ObjIds |-> Unfill(objs, stop)[x]]
      BY DEF Unfill
    <3> HIDE DEF last, stop, o
    <3> QED  BY <2>3, <2>4, <3>1
  <2> HIDE DEF tsk, stop, obs
  <2> QED  BY <1>1, <2>1, <2>2, <2>5, CommitTyped
<1> QED  BY <1>5, <1>6

LEMMA NotifiedTyped ==
    ASSUME OrderTyped, NEW t \in Tasks, Notified(t)
    PROVE  OrderTyped'
<1>1. /\ states \in [Conv -> ObjIds \cup {None}] /\ objs \in [ObjIds -> OrderState]
      /\ task \in [Tasks -> GoodTask] /\ task[t] \in GoodTask
      /\ \A r \in GoodTask : [task EXCEPT ![t] = r] \in [Tasks -> GoodTask]
  BY DEF OrderTyped
<1>2. task[t].c \in Conv
  BY <1>1 DEF Notified, At, GoodTask, Sound, OnObject
<1>3. CASE task[t].site = "flushing"
  <2>1. task[t].work \in SUBSET (Conv \X ObjIds) /\ task[t].owned \in SUBSET Tasks
    BY <1>1 DEF GoodTask, TaskState
  <2>2. [Idle EXCEPT !.pc = "flush", !.work = task[t].work, !.owned = task[t].owned] \in GoodTask
    BY <2>1, FlushAgainIsGood
  <2> QED  BY <1>1, <1>3, <2>2, CommitTyped DEF Notified
<1>4. CASE task[t].site # "flushing"
  <2>1. [Idle EXCEPT !.pc = Home(t)] \in GoodTask
    BY HomeIsAPlace, IdleIsGood
  <2>2. Cleanup(states, task[t].c, objs[task[t].o]) \in [Conv -> ObjIds \cup {None}]
    BY <1>1, <1>2, CleanupTyped
  <2> QED  BY <1>1, <1>4, <2>1, <2>2, CommitTyped DEF Notified
<1> QED  BY <1>3, <1>4

\* What the flush has to do: the conversations with an ordering state
LEMMA WorkTyped ==
    ASSUME states \in [Conv -> ObjIds \cup {None}]
    PROVE  {<<c, states[c]>> : c \in {d \in Conv : states[d] # None}} \in SUBSET (Conv \X ObjIds)
OBVIOUS

LEMMA FlushIsGood ==
    ASSUME states \in [Conv -> ObjIds \cup {None}], NEW t \in Tasks, task[t] \in GoodTask
    PROVE  Flush(t) \in GoodTask
<1> DEFINE work == {<<c, states[c]>> : c \in {d \in Conv : states[d] # None}}
<1>1. work \in SUBSET (Conv \X ObjIds)
  BY WorkTyped
<1>2. [task[t] EXCEPT !.pc = "flush"] \in GoodTask
  BY AwayIsGood
<1>3. [[task[t] EXCEPT !.pc = "flush"] EXCEPT !.work = work] \in GoodTask
  <2> HIDE DEF work
  <2> QED  BY <1>1, <1>2, WorkIsGood
<1>4. Flush(t) = [[task[t] EXCEPT !.pc = "flush"] EXCEPT !.work = work]
  BY DEF Flush, GoodTask, TaskState
<1> QED  BY <1>3, <1>4

LEMMA FlushTyped ==
    ASSUME OrderTyped, NEW t \in Tasks, FlushConversation(t) \/ FlushEnd(t)
    PROVE  OrderTyped'
<1>1. /\ states \in [Conv -> ObjIds \cup {None}] /\ objs \in [ObjIds -> OrderState]
      /\ task \in [Tasks -> GoodTask] /\ task[t] \in GoodTask
      /\ \A r \in GoodTask : [task EXCEPT ![t] = r] \in [Tasks -> GoodTask]
  BY DEF OrderTyped
<1>2. CASE FlushConversation(t)
  <2>1. PICK w \in task[t].work :
        LET o == w[2]
            ob == [objs[o] EXCEPT !.timer = None]
            stop == {objs[o].timer} \ {None}
            rest == [task[t] EXCEPT !.work = @ \ {w}]
        IN
        /\ At(t, "flush")
        /\ Commit(states,
                  Cancel([task EXCEPT ![t] =
                      IF ob.buf = <<>> THEN rest
                      ELSE [rest EXCEPT !.pc = "flushing", !.c = w[1], !.o = o,
                                        !.todo = DOMAIN ob.buf, !.high = ob.next - 1, !.rec = FALSE,
                                        !.exp = IF ob.started # 0 THEN ob.started ELSE ob.next]],
                      stop),
                  [Unfill(objs, stop) EXCEPT ![o].timer = None])
    BY <1>2 DEF FlushConversation
  <2> DEFINE o == w[2]
             ob == [objs[o] EXCEPT !.timer = None]
             stop == {objs[o].timer} \ {None}
             work == task[t].work \ {w}
             rest == [task[t] EXCEPT !.work = work]
             sweep == [rest EXCEPT !.pc = "flushing", !.c = w[1], !.o = o,
                                   !.todo = DOMAIN ob.buf, !.high = ob.next - 1, !.rec = FALSE,
                                   !.exp = IF ob.started # 0 THEN ob.started ELSE ob.next]
             obs == [Unfill(objs, stop) EXCEPT ![o].timer = None]
  <2>2. task[t].work \in SUBSET (Conv \X ObjIds) /\ task[t] \in TaskState
    BY <1>1 DEF GoodTask, TaskState
  <2>3. w \in Conv \X ObjIds /\ o \in ObjIds /\ objs[o] \in OrderState /\ ob \in OrderState
        /\ work \in SUBSET (Conv \X ObjIds)
    <3>1. w \in Conv \X ObjIds /\ o \in ObjIds /\ work \in SUBSET (Conv \X ObjIds)
      BY <2>2
    <3>2. objs[o] \in OrderState
      BY <1>1, <3>1
    <3>3. ob \in OrderState
      BY <3>2, ObjectUpdates
    <3> QED  BY <3>1, <3>2, <3>3
  <2>4. rest = [task[t] EXCEPT !.work = @ \ {w}]
    BY <2>2 DEF TaskState
  <2>5. rest \in GoodTask /\ sweep \in GoodTask
    <3> HIDE DEF work, ob
    <3>1. rest \in GoodTask
      BY <1>1, <2>3, WorkIsGood
    <3>2. sweep \in GoodTask
      BY <1>1, <2>3, SweepingIsGood
    <3> QED  BY <3>1, <3>2
  <2>6. Commit(states, Cancel([task EXCEPT ![t] = IF ob.buf = <<>> THEN rest ELSE sweep], stop), obs)
    <3> HIDE DEF work, obs, stop, ob
    <3> QED  BY <2>1, <2>4 DEF work, obs, stop, ob
  <2>7. \A x \in ObjIds : obs[x] \in OrderState
    <3>1. \A x \in ObjIds : Unfill(objs, stop)[x] \in OrderState
      BY <1>1, UnfillTyped
    <3>2. Unfill(objs, stop) = [x \in ObjIds |-> Unfill(objs, stop)[x]]
      BY DEF Unfill
    <3>3. \A x \in ObjIds : [Unfill(objs, stop)[x] EXCEPT !.timer = None] \in OrderState
      BY <3>1, ObjectUpdates
    <3> HIDE DEF stop, o
    <3> QED  BY <3>1, <3>2, <3>3
  <2>8. Cancel([task EXCEPT ![t] = IF ob.buf = <<>> THEN rest ELSE sweep], stop) \in [Tasks -> GoodTask]
    <3> HIDE DEF rest, sweep, stop, ob
    <3> QED  BY <1>1, <2>5, CancelTyped
  <2> HIDE DEF rest, sweep, stop, ob, obs
  <2> QED  BY <1>1, <2>6, <2>7, <2>8, CommitTyped
<1>3. CASE FlushEnd(t)
  <2>1. [task[t] EXCEPT !.pc = "leaving"] \in GoodTask
    BY <1>1, AwayIsGood
  <2>2. [task EXCEPT ![t].pc = "leaving"] = [task EXCEPT ![t] = [task[t] EXCEPT !.pc = "leaving"]]
    OBVIOUS
  <2>3. [c \in Conv |-> None] \in [Conv -> ObjIds \cup {None}]
    OBVIOUS
  <2>4. \E r \in GoodTask : Commit([c \in Conv |-> None], [task EXCEPT ![t] = r], objs)
    BY <1>3, <2>1, <2>2, IdleTask DEF FlushEnd
  <2> QED  BY <1>1, <2>3, <2>4, CommitTyped
<1> QED  BY <1>2, <1>3

LEMMA SocketTyped ==
    ASSUME OrderTyped, Socket \/ Connect \/ SocketCloses \/ Disconnect
    PROVE  OrderTyped'
<1>1. /\ states \in [Conv -> ObjIds \cup {None}] /\ objs \in [ObjIds -> OrderState]
      /\ task \in [Tasks -> GoodTask] /\ {"recv", "stop", "drain"} \subseteq Tasks
      /\ \A t \in Tasks : task[t] \in GoodTask
      /\ \A t \in Tasks : \A r \in GoodTask : [task EXCEPT ![t] = r] \in [Tasks -> GoodTask]
      /\ [c \in Conv |-> None] \in [Conv -> ObjIds \cup {None}]
      /\ \A o \in ObjIds : objs[o] \in OrderState
  BY DEF OrderTyped, Tasks
<1>2. \A ts : \A o \in ObjIds : Unfill(objs, ts)[o] \in OrderState
  BY <1>1, UnfillTyped
<1>3. CASE CloseOrderState
  <2>1. CASE AckOnReceipt
    BY <1>1, <1>3, <2>1, FlushIsGood, CommitTyped DEF CloseOrderState
  <2>2. CASE ~AckOnReceipt
    <3>1. Commit([c \in Conv |-> None],
                 Cancel([task EXCEPT !["recv"] = Idle], Timers), Unfill(objs, Timers))
      BY <1>3, <2>2 DEF CloseOrderState
    <3>2. Cancel([task EXCEPT !["recv"] = Idle], Timers) \in [Tasks -> GoodTask]
      BY <1>1, IdleTask, CancelTyped
    <3> QED  BY <1>1, <1>2, <3>1, <3>2, CommitTyped
  <2> QED  BY <2>1, <2>2
<1>4. CASE Release
  <2> DEFINE ts == task["stop"].owned
  <2>1. Commit(states, Cancel([task EXCEPT !["stop"] = Idle], ts), Unfill(objs, ts))
    BY <1>4 DEF Release
  <2>2. Cancel([task EXCEPT !["stop"] = Idle], ts) \in [Tasks -> GoodTask]
    BY <1>1, IdleTask, CancelTyped
  <2> QED  BY <1>1, <1>2, <2>1, <2>2, CommitTyped
<1>5. CASE Connect
  <2>1. [task["drain"] EXCEPT !.pc = "sync"] \in GoodTask
    BY <1>1, AwayIsGood
  <2>2. [task EXCEPT !["drain"].pc = "sync"]
            = [task EXCEPT !["drain"] = [task["drain"] EXCEPT !.pc = "sync"]]
    OBVIOUS
  <2>3. CASE UNCHANGED order
    BY <1>1, <2>3 DEF order, OrderTyped
  <2>4. CASE Commit(states, [task EXCEPT !["drain"].pc = "sync"], objs)
    BY <1>1, <2>1, <2>2, <2>4, CommitTyped
  <2> QED  BY <1>5, <2>3, <2>4 DEF Connect
<1>6. CASE SocketCloses
  <2>1. [Idle EXCEPT !.pc = "closing"] \in GoodTask
    BY IdleIsGood DEF Pcs
  <2> QED  BY <1>1, <1>6, <2>1, CommitTyped DEF SocketCloses
<1>7. CASE Disconnect
  <2> DEFINE owned == {t \in GapTasks \cup {"drain"} : task[t].pc # "idle"}
             r == [Flush("stop") EXCEPT !.owned = owned]
             obs == [o \in ObjIds |->
                        IF \E c \in Conv : states[c] = o THEN [objs[o] EXCEPT !.timer = None] ELSE objs[o]]
  <2>1. Commit(states, [task EXCEPT !["stop"] = r], obs)
    BY <1>7 DEF Disconnect
  <2>2. owned \in SUBSET Tasks
    BY DEF Tasks
  <2>3. r \in GoodTask
    <3>1. Flush("stop") \in GoodTask
      BY <1>1, FlushIsGood
    <3> HIDE DEF owned
    <3> QED  BY <2>2, <3>1, OwnedIsGood
  <2>4. \A o \in ObjIds : obs[o] \in OrderState
    <3>1. \A o \in ObjIds : [objs[o] EXCEPT !.timer = None] \in OrderState
      BY <1>1, ObjectUpdates
    <3> QED  BY <1>1, <3>1
  <2> HIDE DEF r, obs
  <2> QED  BY <1>1, <2>1, <2>3, <2>4, CommitTyped
<1> QED  BY <1>3, <1>4, <1>5, <1>6, <1>7 DEF Socket

LEMMA DrainToTyped ==
    ASSUME OrderTyped, NEW pc \in {"idle", "sync", "check", "syncack"},
           Commit(states, DrainTo(pc), objs)
    PROVE  OrderTyped'
<1>1. [Idle EXCEPT !.pc = pc] \in GoodTask
  BY IdleIsGood DEF Pcs
<1>2. /\ states \in [Conv -> ObjIds \cup {None}] /\ \A o \in ObjIds : objs[o] \in OrderState
      /\ task \in [Tasks -> GoodTask] /\ "drain" \in Tasks
  BY DEF OrderTyped, Tasks
<1>3. DrainTo(pc) \in [Tasks -> GoodTask]
  BY <1>1, <1>2 DEF DrainTo
<1> QED  BY <1>2, <1>3, CommitTyped

LEMMA ForgetRowsTyped ==
    ASSUME NEW obs, \A o \in ObjIds : obs[o] \in OrderState
    PROVE  \A o \in ObjIds : ForgetRows(obs)[o] \in OrderState
<1> SUFFICES ASSUME NEW o \in ObjIds PROVE ForgetRows(obs)[o] \in OrderState
  OBVIOUS
<1> DEFINE buf == [m \in DOMAIN obs[o].buf |-> [obs[o].buf[m] EXCEPT !.row = FALSE]]
<1>1. obs[o] \in OrderState /\ obs[o].buf \in Bufs
  BY ObjectUpdates
<1>2. buf \in Bufs
  <2>1. DOMAIN obs[o].buf \in SUBSET Msgs /\ \A m \in DOMAIN obs[o].buf : obs[o].buf[m] \in Entry
    BY <1>1, BufParts
  <2>2. \A e \in Entry : [e EXCEPT !.row = FALSE] \in Entry
    BY DEF Entry
  <2>3. buf \in [DOMAIN obs[o].buf -> Entry]
    BY <2>1, <2>2
  <2> QED  BY <2>1, <2>3, BufIsMap
<1>3. [obs[o] EXCEPT !.buf = buf] \in OrderState
  <2> HIDE DEF buf
  <2> QED  BY <1>1, <1>2, ObjectUpdates
<1>4. ForgetRows(obs)[o] = [obs[o] EXCEPT !.buf = buf]
  BY <1>1 DEF ForgetRows
<1> QED  BY <1>3, <1>4

LEMMA DrainTyped ==
    ASSUME OrderTyped, drain \in DrainState, Drain
    PROVE  OrderTyped'
<1>1. /\ states \in [Conv -> ObjIds \cup {None}] /\ \A o \in ObjIds : objs[o] \in OrderState
      /\ task \in [Tasks -> GoodTask] /\ "drain" \in Tasks
  BY DEF OrderTyped, Tasks
<1>2. ASSUME DrainEnds PROVE OrderTyped'
  BY <1>2, DrainToTyped DEF DrainEnds
<1>3. ASSUME EndPage PROVE OrderTyped'
  BY <1>2, <1>3, DrainToTyped DEF EndPage
<1>4. CASE SyncFails
  BY <1>2, <1>4 DEF SyncFails
<1>5. CASE SyncAnswers
  <2> DEFINE tsk == [t \in Tasks |-> IF t = "drain" THEN [Idle EXCEPT !.pc = "row"]
                                     ELSE [task[t] EXCEPT !.row = FALSE]]
  <2>1. CASE Commit(states, tsk, ForgetRows(objs))
    <3>1. [Idle EXCEPT !.pc = "row"] \in GoodTask
      BY IdleIsGood DEF Pcs
    <3>2. \A r \in GoodTask : [r EXCEPT !.row = FALSE] \in GoodTask
      BY RowIsGood
    <3>3. tsk \in [Tasks -> GoodTask]
      BY <1>1, <3>1, <3>2
    <3> HIDE DEF tsk
    <3> QED  BY <1>1, <2>1, <3>3, ForgetRowsTyped, CommitTyped
  <2> QED  BY <1>2, <1>5, <2>1 DEF SyncAnswers
<1>6. CASE DrainRow
  <2>1. PICK m \in Lowest(drain.left) : Route("drain", m, [ws |-> FALSE, row |-> TRUE], FALSE)
    BY <1>6 DEF DrainRow
  <2>2. m \in Msgs /\ [ws |-> FALSE, row |-> TRUE] \in Entry
    BY DEF Lowest, DrainState, Entry
  <2> QED  BY <1>1, <2>1, <2>2, RouteTyped
<1>7. CASE DrainRouted
  BY <1>3, <1>7, DrainToTyped DEF DrainRouted
<1>8. CASE CheckRow
  BY <1>8 DEF CheckRow, order, OrderTyped
<1>9. CASE PageChecked
  BY <1>3, <1>9, DrainToTyped DEF PageChecked
<1>10. CASE \E applied, answered \in BOOLEAN : SyncAck(applied, answered)
  BY <1>2, <1>3, <1>10 DEF SyncAck
<1> QED  BY <1>4, <1>5, <1>6, <1>7, <1>8, <1>9, <1>10 DEF Drain

LEMMA MissingFrameTyped ==
    ASSUME OrderTyped, NEW t \in Tasks, MissingFrame(t)
    PROVE  OrderTyped'
<1>1. /\ states \in [Conv -> ObjIds \cup {None}] /\ \A o \in ObjIds : objs[o] \in OrderState
      /\ task \in [Tasks -> GoodTask]
      /\ \A r \in GoodTask : [task EXCEPT ![t] = r] \in [Tasks -> GoodTask]
  BY DEF OrderTyped, Tasks
<1>2. [Idle EXCEPT !.pc = "failed"] \in GoodTask /\ [Idle EXCEPT !.pc = "closing"] \in GoodTask
  BY IdleIsGood DEF Pcs
<1>3. CASE DrainEnds
  BY <1>3, DrainToTyped DEF DrainEnds
<1>4. CASE \E r \in GoodTask : Commit(states, [task EXCEPT ![t] = r], objs)
  BY <1>1, <1>4, CommitTyped
<1>5. DrainEnds \/ \E r \in {Idle, [Idle EXCEPT !.pc = "failed"], [Idle EXCEPT !.pc = "closing"]} :
                      Commit(states, [task EXCEPT ![t] = r], objs)
  BY DEF MissingFrame
<1> QED  BY <1>2, <1>3, <1>4, <1>5, IdleTask

LEMMA RecvFrameTyped ==
    ASSUME OrderTyped, NEW m \in Msgs, RecvFrame(m)
    PROVE  OrderTyped'
<1>1. [ws |-> ~AckOnReceipt, row |-> FALSE] \in Entry /\ "recv" \in Tasks
  BY OptionsAssumption DEF Entry, Tasks
<1>2. Route("recv", m, [ws |-> ~AckOnReceipt, row |-> FALSE], AckOnReceipt)
  BY DEF RecvFrame
<1> QED  BY <1>1, <1>2, RouteTyped

\* Tasks, timers and ordering states are well formed after every step.
LEMMA OrderStaysTyped ==
    ASSUME OrderTyped, drain \in DrainState, pub \in 0..Total, [Next]_vars
    PROVE  OrderTyped'
<1>1. ASSUME NEW t \in Tasks, Step(t) PROVE OrderTyped'
  BY <1>1, ChokePointTyped, ChainTyped, SweepTyped, MissingFrameTyped, FlushTyped DEF Step
<1>2. ASSUME NEW t \in Tasks, HandlerReturns(t) PROVE OrderTyped'
  BY <1>2, ChokePointTyped, NotifiedTyped DEF HandlerReturns
<1>3. ASSUME NEW t \in Tasks, GapTimer(t) PROVE OrderTyped'
  BY <1>3, GapTimerTyped
<1>4. CASE Drain
  BY <1>4, DrainTyped
<1>5. CASE Socket
  BY <1>5, SocketTyped
<1>6. CASE Environment
  BY <1>6, RecvFrameTyped, SocketTyped DEF Environment
<1>7. CASE UNCHANGED vars
  BY <1>7 DEF vars, order, OrderTyped
<1> QED  BY <1>1, <1>2, <1>3, <1>4, <1>5, <1>6, <1>7 DEF Next

----------------------------------------------------------------------------
(* One task at a time: between two awaits no other task runs *)

\* Task t takes a step: the others stay where they are, are cancelled, are put to
\* sleep (a new timer) or are spawned (the drain).
ActsAlone(t) ==
    /\ Runs(t)
    /\ \A u \in Tasks \ {t} :
          \/ task'[u].pc \in {"idle", "asleep", "sync"}
          \/ task'[u].pc = task[u].pc /\ task'[u].m = task[u].m

\* It calls no handler.
Quietly(t) == ActsAlone(t) /\ task'[t].pc # "handler"

LEMMA PlaceAfter ==
    ASSUME NEW t \in Tasks, task[t] \in GoodTask
    PROVE  /\ \A m, e, site, o : Deliver(t, m, e, site, o).pc = "deliver"
           /\ \A c, o, ob, rec : Resolve(t, c, o, ob, rec).pc = "resolving"
           /\ Flush(t).pc = "flush"
           /\ Back(t).pc \in Sites
           /\ Idle.pc = "idle"
           /\ \A pc : [Idle EXCEPT !.pc = pc].pc = pc /\ [task[t] EXCEPT !.pc = pc].pc = pc
<1>1. task[t] \in TaskState
  BY DEF GoodTask
<1>2. task[t].site \in Sites
  BY <1>1 DEF TaskState
<1> QED  BY <1>1, <1>2 DEF TaskState, Deliver, Resolve, Flush, Back, Idle

LEMMA QuietWrite ==
    ASSUME task \in [Tasks -> GoodTask], NEW t \in Tasks, Runs(t), NEW r, r.pc # "handler",
           NEW sts, NEW obs, Commit(sts, [task EXCEPT ![t] = r], obs)
    PROVE  Quietly(t)
BY DEF Commit, ActsAlone, Quietly

LEMMA QuietCancel ==
    ASSUME task \in [Tasks -> GoodTask], NEW t \in Tasks, Runs(t), NEW r, r.pc # "handler",
           NEW sts, NEW obs, NEW ts, Commit(sts, Cancel([task EXCEPT ![t] = r], ts), obs)
    PROVE  Quietly(t)
<1>1. Idle.pc = "idle"
  BY DEF Idle
<1>2. task' = Cancel([task EXCEPT ![t] = r], ts)
  BY DEF Commit
<1> QED  BY <1>1, <1>2 DEF Cancel, ActsAlone, Quietly

LEMMA QuietRoute ==
    ASSUME OrderTyped, NEW t \in Tasks, Runs(t), NEW m, NEW e, NEW spent, Route(t, m, e, spent)
    PROVE  Quietly(t)
<1>1. task \in [Tasks -> GoodTask] /\ task[t] \in GoodTask
  BY DEF OrderTyped
<1>2. /\ \A x, f, site, o : Deliver(t, x, f, site, o).pc # "handler"
      /\ \A c, o, ob, rec : Resolve(t, c, o, ob, rec).pc # "handler"
      /\ [Idle EXCEPT !.pc = Home(t)].pc # "handler"
  BY <1>1, PlaceAfter, HomeIsAPlace
<1>3. CASE RouteUnsequenced(t, m, e)
  BY <1>1, <1>2, <1>3, QuietWrite DEF RouteUnsequenced
<1>4. CASE RouteAnchor(t, m, e)
  BY <1>1, <1>2, <1>4, QuietWrite DEF RouteAnchor
<1>5. CASE RouteBelow(t, m, spent)
  BY <1>1, <1>2, <1>5, QuietWrite DEF RouteBelow
<1>6. CASE RouteInOrder(t, m, e)
  BY <1>1, <1>2, <1>6, QuietWrite DEF RouteInOrder
<1>7. CASE RoutePark(t, m, e)
  <2>1. CASE \E r, obs : r.pc # "handler" /\ Commit(states, [task EXCEPT ![t] = r], obs)
    BY <1>1, <2>1, QuietWrite
  <2>2. CASE \E g, c, obs : Commit(states, [task EXCEPT ![t] = [Idle EXCEPT !.pc = Home(t)],
                                          ![g] = [Idle EXCEPT !.pc = "asleep", !.c = c]], obs)
    <3>1. PICK g, c : task' = [task EXCEPT ![t] = [Idle EXCEPT !.pc = Home(t)],
                                          ![g] = [Idle EXCEPT !.pc = "asleep", !.c = c]]
      BY <2>2 DEF Commit
    <3>2. [Idle EXCEPT !.pc = "asleep", !.c = c].pc = "asleep"
      BY DEF Idle
    <3> QED  BY <1>1, <1>2, <3>1, <3>2 DEF Quietly, ActsAlone
  <2>3. \/ \E r, obs : r.pc # "handler" /\ Commit(states, [task EXCEPT ![t] = r], obs)
        \/ \E g, c, obs : Commit(states, [task EXCEPT ![t] = [Idle EXCEPT !.pc = Home(t)],
                                          ![g] = [Idle EXCEPT !.pc = "asleep", !.c = c]], obs)
    BY <1>2, <1>7, Zenon DEF RoutePark
  <2> QED  BY <2>1, <2>2, <2>3
<1> QED  BY <1>3, <1>4, <1>5, <1>6, <1>7 DEF Route

LEMMA QuietStep ==
    ASSUME OrderTyped, NEW t \in Tasks, Step(t), ~Dispatch(t)
    PROVE  Quietly(t)
<1>1. task \in [Tasks -> GoodTask] /\ task[t] \in GoodTask
  BY DEF OrderTyped
<1>2. /\ \A m, e, site, o : Deliver(t, m, e, site, o).pc # "handler"
      /\ \A c, o, ob, rec : Resolve(t, c, o, ob, rec).pc # "handler"
      /\ Back(t).pc # "handler" /\ Idle.pc # "handler"
      /\ \A pc \in {Home(t), "failed", "closing"} : [Idle EXCEPT !.pc = pc].pc # "handler"
      /\ \A pc \in {"notify", "leaving"} : [task[t] EXCEPT !.pc = pc].pc # "handler"
  BY <1>1, PlaceAfter, HomeIsAPlace DEF Sites
<1>3. CASE DedupHit(t)
  BY <1>1, <1>2, <1>3, QuietWrite DEF DedupHit, Returns, At
<1>4. CASE ChainNext(t)
  BY <1>1, <1>2, <1>4, QuietWrite DEF ChainNext, AtChain
<1>5. CASE ChainEnd(t)
  <2>1. CASE t \in GapTasks
    BY <1>1, <1>2, <1>5, <2>1, QuietWrite DEF ChainEnd, AtChain
  <2>2. CASE t \notin GapTasks
    BY <1>1, <1>2, <1>5, <2>2, QuietCancel DEF ChainEnd, AtChain
  <2> QED  BY <2>1, <2>2
<1>6. CASE SweepNext(t)
  <2>1. \E d, todo, high : /\ d.pc # "handler"
                           /\ Commit(states, [task EXCEPT ![t] = [d EXCEPT !.todo = todo, !.high = high]],
                                     objs)
    <3>1. PICK m : Commit(states,
                 [task EXCEPT ![t] =
                     [Deliver(t, m, objs[task[t].o].buf[m], task[t].pc, task[t].o) EXCEPT
                         !.todo = @ \ {m},
                         !.high = IF SeqOf[m] > @ THEN SeqOf[m] ELSE @]],
                 objs)
      BY <1>6 DEF SweepNext
    <3> DEFINE d == Deliver(t, m, objs[task[t].o].buf[m], task[t].pc, task[t].o)
    <3>2. d.pc # "handler"
      BY <1>2
    <3>3. [d EXCEPT !.todo = @ \ {m}, !.high = IF SeqOf[m] > @ THEN SeqOf[m] ELSE @]
              = [d EXCEPT !.todo = d.todo \ {m}, !.high = IF SeqOf[m] > d.high THEN SeqOf[m] ELSE d.high]
      BY <1>1 DEF Deliver, GoodTask, TaskState
    <3> QED  BY <3>1, <3>2, <3>3, Zenon
  <2>2. \A d, todo, high : d.pc # "handler" => [d EXCEPT !.todo = todo, !.high = high].pc # "handler"
    OBVIOUS
  <2> QED  BY <1>1, <1>6, <2>1, <2>2, QuietWrite DEF SweepNext, AtSweep
<1>7. CASE SweepEnd(t)
  <2> DEFINE r == [[task[t] EXCEPT !.pc = "notify"] EXCEPT !.m = NoMsg]
  <2>1. r.pc # "handler"
    BY <1>1 DEF GoodTask, TaskState
  <2>2. [task EXCEPT ![t].pc = "notify", ![t].m = NoMsg] = [task EXCEPT ![t] = r]
    BY <1>1 DEF GoodTask, TaskState
  <2>3. \E ts, obs : Commit(states, Cancel([task EXCEPT ![t].pc = "notify", ![t].m = NoMsg], ts), obs)
    BY <1>7 DEF SweepEnd
  <2> HIDE DEF r
  <2> QED  BY <1>1, <1>7, <2>1, <2>2, <2>3, QuietCancel DEF SweepEnd, AtSweep
<1>8. CASE MissingFrame(t)
  <2>1. \E r \in {Idle, [Idle EXCEPT !.pc = "failed"], [Idle EXCEPT !.pc = "closing"],
                  [Idle EXCEPT !.pc = "idle"]} : Commit(states, [task EXCEPT ![t] = r], objs)
    BY <1>8 DEF MissingFrame, DrainEnds, DrainTo
  <2>2. [Idle EXCEPT !.pc = "idle"].pc # "handler"
    BY DEF Idle
  <2> QED  BY <1>1, <1>2, <1>8, <2>1, <2>2, QuietWrite DEF MissingFrame, AtSweep
<1>9. CASE FlushConversation(t)
  <2>1. PICK w, ts, obs, ob :
          Commit(states,
                  Cancel([task EXCEPT ![t] =
                      IF ob.buf = <<>> THEN [task[t] EXCEPT !.work = @ \ {w}]
                      ELSE [[task[t] EXCEPT !.work = @ \ {w}] EXCEPT
                                        !.pc = "flushing", !.c = w[1], !.o = w[2],
                                        !.todo = DOMAIN ob.buf, !.high = ob.next - 1, !.rec = FALSE,
                                        !.exp = IF ob.started # 0 THEN ob.started ELSE ob.next]],
                      ts), obs)
    BY <1>9 DEF FlushConversation
  <2>2. task[t].pc = "flush" /\ Runs(t)
    BY <1>9 DEF FlushConversation, At
  <2>3. /\ [task[t] EXCEPT !.work = @ \ {w}].pc # "handler"
        /\ [[task[t] EXCEPT !.work = @ \ {w}] EXCEPT
                                        !.pc = "flushing", !.c = w[1], !.o = w[2],
                                        !.todo = DOMAIN ob.buf, !.high = ob.next - 1, !.rec = FALSE,
                                        !.exp = IF ob.started # 0 THEN ob.started ELSE ob.next].pc
              # "handler"
    BY <1>1, <2>2 DEF GoodTask, TaskState
  <2> QED  BY <1>1, <2>1, <2>2, <2>3, QuietCancel
<1>10. CASE FlushEnd(t)
  <2>1. [task EXCEPT ![t].pc = "leaving"] = [task EXCEPT ![t] = [task[t] EXCEPT !.pc = "leaving"]]
    OBVIOUS
  <2> QED  BY <1>1, <1>2, <1>10, <2>1, QuietWrite DEF FlushEnd, At
<1> QED  BY <1>3, <1>4, <1>5, <1>6, <1>7, <1>8, <1>9, <1>10 DEF Step

LEMMA QuietReturn ==
    ASSUME OrderTyped, NEW t \in Tasks, HandlerReturns(t)
    PROVE  Quietly(t)
<1>1. task \in [Tasks -> GoodTask] /\ task[t] \in GoodTask
  BY DEF OrderTyped
<1>2. /\ Back(t).pc # "handler" /\ [Idle EXCEPT !.pc = Home(t)].pc # "handler"
  BY <1>1, PlaceAfter, HomeIsAPlace DEF Sites
<1>3. CASE HandledCleanly(t) \/ HandlerRaised(t)
  BY <1>1, <1>2, <1>3, QuietWrite DEF HandledCleanly, HandlerRaised, Returns, At
<1>4. CASE Notified(t)
  <2>1. [Idle EXCEPT !.pc = "flush", !.work = task[t].work, !.owned = task[t].owned].pc # "handler"
    BY DEF Idle
  <2> QED  BY <1>1, <1>2, <1>4, <2>1, QuietWrite DEF Notified, At
<1> QED  BY <1>3, <1>4 DEF HandlerReturns

LEMMA QuietOthers ==
    ASSUME OrderTyped,
           \/ \E t \in Tasks : HandlerReturns(t) \/ GapTimer(t)
           \/ Drain \/ Socket \/ Environment
    PROVE  task' = task \/ \E t \in Tasks : Quietly(t)
<1>1. /\ task \in [Tasks -> GoodTask] /\ {"recv", "drain", "stop"} \subseteq Tasks
      /\ \A t \in Tasks : task[t] \in GoodTask
  BY DEF OrderTyped, Tasks
<1>2. \A t \in Tasks :
         /\ \A c, o, ob, rec : Resolve(t, c, o, ob, rec).pc # "handler"
         /\ Back(t).pc # "handler" /\ Idle.pc # "handler" /\ Flush(t).pc # "handler"
         /\ \A pc : pc # "handler" => [Idle EXCEPT !.pc = pc].pc # "handler"
         /\ \A pc : pc # "handler" => [task[t] EXCEPT !.pc = pc].pc # "handler"
  BY <1>1, PlaceAfter DEF Sites
<1>3. ASSUME NEW t \in Tasks, HandlerReturns(t) PROVE Quietly(t)
  BY <1>3, QuietReturn
<1>4. ASSUME NEW t \in Tasks, GapTimer(t) PROVE Quietly(t)
  <2>1. Runs(t)
    BY <1>4 DEF GapTimer, GapTimerFires, GapFillFails, GapFillAnswers, At
  <2>2. CASE GapTimerFires(t)
    <3>1. \A o, exp, from, read :
             [task[t] EXCEPT !.pc = "fetch", !.o = o, !.exp = exp, !.from = from,
                             !.read = read].pc # "handler"
      BY <1>1 DEF GoodTask, TaskState
    <3>2. \E sts, obs, r : r.pc # "handler" /\ Commit(sts, [task EXCEPT ![t] = r], obs)
      BY <1>2, <2>2, <3>1, Zenon DEF GapTimerFires
    <3> QED  BY <1>1, <2>1, <3>2, QuietWrite
  <2>3. CASE GapFillFails(t)
    <3>1. \E sts, obs, r : r.pc # "handler" /\ Commit(sts, [task EXCEPT ![t] = r], obs)
      BY <1>2, <2>3 DEF GapFillFails
    <3> QED  BY <1>1, <2>1, <3>1, QuietWrite
  <2>4. CASE GapFillAnswers(t)
    <3>1. PICK read : TakesPage(t, read)
      BY <2>4 DEF GapFillAnswers
    <3>2. [task EXCEPT ![t].pc = "chain", ![t].read = read]
              = [task EXCEPT ![t] = [task[t] EXCEPT !.pc = "chain", !.read = read]]
      BY <1>1
    <3>3. [task[t] EXCEPT !.pc = "chain", !.read = read].pc # "handler"
      BY <1>1 DEF GoodTask, TaskState
    <3> QED  BY <1>1, <2>1, <3>1, <3>2, <3>3, QuietWrite DEF TakesPage
  <2> QED  BY <1>4, <2>2, <2>3, <2>4 DEF GapTimer
<1>5. CASE Drain
  <2>1. ASSUME Runs("drain"), NEW pc, pc # "handler", Commit(states, DrainTo(pc), objs)
        PROVE  Quietly("drain")
    BY <1>1, <1>2, <2>1, QuietWrite DEF DrainTo
  <2>2. ASSUME Runs("drain"), EndPage \/ DrainEnds PROVE Quietly("drain")
    BY <2>1, <2>2 DEF EndPage, DrainEnds
  <2>3. CASE SyncFails
    BY <1>1, <2>2, <2>3 DEF SyncFails, At
  <2>4. CASE SyncAnswers
    <3>1. Runs("drain")
      BY <2>4 DEF SyncAnswers, At
    <3>2. CASE task' = [t \in Tasks |-> IF t = "drain" THEN [Idle EXCEPT !.pc = "row"]
                                        ELSE [task[t] EXCEPT !.row = FALSE]]
      <4>1. \A t \in Tasks : /\ [task[t] EXCEPT !.row = FALSE].pc = task[t].pc
                             /\ [task[t] EXCEPT !.row = FALSE].m = task[t].m
        BY <1>1 DEF GoodTask, TaskState
      <4>2. [Idle EXCEPT !.pc = "row"].pc # "handler"
        BY <1>1, <1>2
      <4> QED  BY <1>1, <3>1, <3>2, <4>1, <4>2 DEF Quietly, ActsAlone
    <3> QED  BY <1>1, <2>2, <2>4, <3>1, <3>2 DEF SyncAnswers, Commit
  <2>5. CASE DrainRow
    BY <1>1, <2>5, QuietRoute DEF DrainRow, At
  <2>6. CASE DrainRouted
    BY <1>1, <2>1, <2>2, <2>6 DEF DrainRouted, At
  <2>7. CASE CheckRow
    BY <2>7 DEF CheckRow, order
  <2>8. CASE PageChecked
    BY <1>1, <2>1, <2>2, <2>8 DEF PageChecked, At
  <2>9. CASE \E applied, answered \in BOOLEAN : SyncAck(applied, answered)
    BY <1>1, <2>2, <2>9 DEF SyncAck, At
  <2> QED  BY <1>1, <1>5, <2>3, <2>4, <2>5, <2>6, <2>7, <2>8, <2>9 DEF Drain
<1>6. CASE Socket
  <2>1. CASE CloseOrderState
    <3>1. Runs("recv")
      BY <2>1 DEF CloseOrderState, At
    <3> QED  BY <1>1, <1>2, <2>1, <3>1, QuietWrite, QuietCancel DEF CloseOrderState
  <2>2. CASE Release
    BY <1>1, <1>2, <2>2, QuietCancel DEF Release, At
  <2> QED  BY <1>6, <2>1, <2>2 DEF Socket
<1>7. CASE Environment
  <2>1. ASSUME NEW m \in Msgs, RecvFrame(m) PROVE Quietly("recv")
    BY <1>1, <2>1, QuietRoute DEF RecvFrame, At
  <2>2. CASE Connect
    <3>1. Runs("drain")
      BY <2>2 DEF Connect, Runs
    <3>2. CASE Commit(states, [task EXCEPT !["drain"].pc = "sync"], objs)
      <4>1. [task EXCEPT !["drain"].pc = "sync"]
                = [task EXCEPT !["drain"] = [task["drain"] EXCEPT !.pc = "sync"]]
        OBVIOUS
      <4> QED  BY <1>1, <1>2, <3>1, <3>2, <4>1, QuietWrite
    <3> QED  BY <1>1, <2>2, <3>2 DEF Connect, order
  <2>3. CASE SocketCloses
    <3>1. Runs("recv")
      BY <2>3 DEF SocketCloses, At
    <3> QED  BY <1>1, <1>2, <2>3, <3>1, QuietWrite DEF SocketCloses
  <2>4. CASE Disconnect
    <3>1. \A owned : [Flush("stop") EXCEPT !.owned = owned].pc # "handler"
      BY <1>1, <1>2
    <3>2. \E r, obs : r.pc # "handler" /\ Commit(states, [task EXCEPT !["stop"] = r], obs)
      BY <2>4, <3>1 DEF Disconnect
    <3> QED  BY <1>1, <2>4, <3>2, QuietWrite DEF Disconnect, At
  <2> QED  BY <1>1, <1>7, <2>1, <2>2, <2>3, <2>4 DEF Environment
<1> QED  BY <1>3, <1>4, <1>5, <1>6, <1>7

----------------------------------------------------------------------------
(* The type invariant of the component *)

\* What the handlers were given and what they settled is known, and a handler
\* that runs was handed its message.
AppTyped ==
    /\ conn \in {"down", "up", "closing", "dead", "stopped"}
    /\ ackOn \in BOOLEAN /\ disposed \in BOOLEAN
    /\ acked \subseteq Msgs
    /\ handed \in SUBSET Msgs /\ clean \subseteq handed /\ seen \subseteq handed
    /\ \A t \in Tasks : task[t].pc = "handler" => task[t].m \in handed

\* A handler runs only because _deliver_message_new called it.
LEMMA HandlersStay ==
    ASSUME OrderTyped, [Next]_vars, NEW u \in Tasks, task'[u].pc = "handler"
    PROVE  /\ task'[u].m = task[u].m
           /\ task[u].pc = "handler" \/ Dispatch(u)
<1>1. task \in [Tasks -> GoodTask]
  BY DEF OrderTyped
<1>2. ASSUME NEW t \in Tasks, Dispatch(t)
      PROVE  /\ task'[u].m = task[u].m
             /\ task[u].pc = "handler" \/ Dispatch(u)
  <2>1. task' = [task EXCEPT ![t].pc = "handler"]
    BY <1>2 DEF Dispatch, Commit
  <2> QED  BY <1>1, <1>2, <2>1 DEF GoodTask, TaskState
<1>3. CASE task' = task
  BY <1>3
<1>4. ASSUME NEW t \in Tasks, Quietly(t)
      PROVE  task[u].pc = "handler" /\ task'[u].m = task[u].m
  BY <1>4 DEF Quietly, ActsAlone
<1>5. CASE UNCHANGED vars
  BY <1>3, <1>5 DEF vars, order
<1>6. ASSUME NEW t \in Tasks, Step(t), ~Dispatch(t) PROVE Quietly(t)
  BY <1>6, QuietStep
<1> QED  BY <1>2, <1>3, <1>4, <1>5, <1>6, QuietOthers DEF Next

\* The server keeps every confirmation it was sent.
LEMMA AcksOnlyGrow ==
    ASSUME OrderTyped, ConfirmInv, acked \subseteq Msgs, [Next]_vars
    PROVE  acked \subseteq acked' /\ acked' \subseteq Msgs
<1>1. CASE acked' = acked
  BY <1>1
<1>2. ASSUME NEW ms, ms \subseteq Msgs, acked' \in Acks(ms)
      PROVE  acked \subseteq acked' /\ acked' \subseteq Msgs
  BY <1>2, AcksGrow
<1>3. ASSUME NEW t \in Tasks, DedupHit(t) \/ HandledCleanly(t)
      PROVE  acked \subseteq acked' /\ acked' \subseteq Msgs
  <2>1. task[t] \in GoodTask /\ Handling(task[t])
    BY <1>3 DEF OrderTyped, DedupHit, HandledCleanly, At, Handling
  <2>2. task[t].m \in Msgs
    BY <2>1 DEF GoodTask, Sound
  <2>3. acked' = acked \/ acked' \in Acks({task[t].m})
    BY <1>3 DEF DedupHit, HandledCleanly
  <2> QED  BY <1>1, <1>2, <2>2, <2>3
<1>4. ASSUME NEW t \in Tasks, Step(t) PROVE acked \subseteq acked' /\ acked' \subseteq Msgs
  BY <1>1, <1>3, <1>4
     DEF Step, Dispatch, ChainNext, ChainEnd, SweepNext, SweepEnd, MissingFrame,
         FlushConversation, FlushEnd, server
<1>5. ASSUME NEW t \in Tasks, HandlerReturns(t) PROVE acked \subseteq acked' /\ acked' \subseteq Msgs
  BY <1>1, <1>3, <1>5 DEF HandlerReturns, HandlerRaised, Notified, server
<1>6. ASSUME NEW t \in Tasks, GapTimer(t) PROVE acked \subseteq acked' /\ acked' \subseteq Msgs
  <2>2. CASE GapFillAnswers(t)
    <3>1. task[t].read \in Nat /\ pub \in 0..Total
      BY DEF ConfirmInv, OrderTyped, GoodTask, TaskState
    <3>2. PICK read \in task[t].read .. pub : TakesPage(t, read)
      BY <2>2 DEF GapFillAnswers
    <3>3. HistoryPage(task[t].c, task[t].from, read) \subseteq Msgs
      BY <3>1, <3>2, PageIsOfMessages, MessagesAssumption
    <3> QED  BY <1>1, <1>2, <3>2, <3>3 DEF TakesPage
  <2> QED  BY <1>1, <1>6, <2>2 DEF GapTimer, GapTimerFires, GapFillFails, server
<1>7. CASE Drain
  <2>1. drain.cursor \in 0..Total
    BY DEF ConfirmInv, DrainState
  <2>2. 1..drain.cursor \subseteq Msgs
    BY <2>1, MessagesAssumption DEF Msgs
  <2>3. CASE \E applied, answered \in BOOLEAN : SyncAck(applied, answered)
    BY <2>2, <2>3 DEF SyncAck
  <2> QED
    BY <1>1, <1>7, <2>3
       DEF Drain, SyncFails, SyncAnswers, DrainRow, DrainRouted, CheckRow, PageChecked, server
<1>8. CASE Socket
  BY <1>1, <1>8 DEF Socket, CloseOrderState, Release, server
<1>9. CASE Environment
  <2>1. ASSUME NEW m \in Msgs, RecvFrame(m) PROVE acked \subseteq acked' /\ acked' \subseteq Msgs
    BY <1>1, <1>2, <2>1 DEF RecvFrame
  <2> QED  BY <1>1, <1>9, <2>1 DEF Environment, Connect, SocketCloses, Disconnect, server
<1>10. CASE UNCHANGED vars
  BY <1>1, <1>10 DEF vars, server
<1> QED  BY <1>4, <1>5, <1>6, <1>7, <1>8, <1>9, <1>10 DEF Next

\* Only a dispatch and a handler's clean return touch what was handed and settled.
LEMMA HistoryChanges ==
    ASSUME [Next]_vars
    PROVE  \/ UNCHANGED <<handed, clean>> /\ seen' \in {seen, {}}
           \/ \E t \in Tasks : Dispatch(t) \/ HandledCleanly(t)
<1>1. ASSUME NEW t \in Tasks, Step(t), ~Dispatch(t) PROVE UNCHANGED app
  BY <1>1 DEF Step, DedupHit, ChainNext, ChainEnd, SweepNext, SweepEnd, MissingFrame,
         FlushConversation, FlushEnd
<1>2. ASSUME NEW t \in Tasks, HandlerReturns(t) \/ GapTimer(t), ~HandledCleanly(t) PROVE UNCHANGED app
  BY <1>2 DEF HandlerReturns, HandlerRaised, Notified, GapTimer, GapTimerFires, GapFillFails,
         GapFillAnswers
<1>3. CASE Drain
  BY <1>3 DEF Drain, SyncFails, SyncAnswers, DrainRow, DrainRouted, CheckRow, PageChecked, SyncAck, app
<1>4. CASE Socket
  BY <1>4 DEF Socket, CloseOrderState, Release, app
<1>5. CASE Environment
  BY <1>5 DEF Environment, RecvFrame, Connect, SocketCloses, Disconnect, app
<1>6. CASE UNCHANGED vars
  BY <1>6 DEF vars, app
<1> QED  BY <1>1, <1>2, <1>3, <1>4, <1>5, <1>6 DEF Next, app

LEMMA LinkStaysTyped ==
    ASSUME conn \in {"down", "up", "closing", "dead", "stopped"}, ackOn \in BOOLEAN,
           disposed \in BOOLEAN, [Next]_vars
    PROVE  /\ conn' \in {"down", "up", "closing", "dead", "stopped"}
           /\ ackOn' \in BOOLEAN /\ disposed' \in BOOLEAN
<1>1. ASSUME NEW t \in Tasks, Step(t) \/ HandlerReturns(t) \/ GapTimer(t)
      PROVE  /\ conn' \in {conn, "closing", "dead", "down"} /\ ackOn' \in {ackOn, FALSE}
             /\ disposed' = disposed
  <2>1. CASE MissingFrame(t)
    BY <2>1 DEF MissingFrame, link
  <2>2. CASE FlushEnd(t)
    BY <2>2 DEF FlushEnd
  <2>3. CASE ~MissingFrame(t) /\ ~FlushEnd(t)
    <3>1. UNCHANGED link
      BY <1>1, <2>3
         DEF Step, HandlerReturns, GapTimer, DedupHit, Dispatch, ChainNext, ChainEnd, SweepNext,
             SweepEnd, FlushConversation, HandledCleanly, HandlerRaised, Notified,
             GapTimerFires, GapFillFails, GapFillAnswers
    <3> QED  BY <3>1 DEF link
  <2> QED  BY <2>1, <2>2, <2>3
<1>2. CASE Drain
  BY <1>2 DEF Drain, SyncFails, SyncAnswers, DrainRow, DrainRouted, CheckRow, PageChecked, SyncAck, link
<1>3. CASE Socket
  BY <1>3 DEF Socket, CloseOrderState, Release
<1>4. CASE Environment
  BY <1>4, OptionsAssumption DEF Environment, RecvFrame, Connect, SocketCloses, Disconnect, link
<1>5. CASE UNCHANGED vars
  BY <1>5 DEF vars, link
<1> QED  BY <1>1, <1>2, <1>3, <1>4, <1>5 DEF Next

LEMMA AppStaysTyped ==
    ASSUME OrderTyped, AppTyped, ConfirmInv, [Next]_vars
    PROVE  AppTyped'
<1>1. /\ conn' \in {"down", "up", "closing", "dead", "stopped"}
      /\ ackOn' \in BOOLEAN /\ disposed' \in BOOLEAN /\ acked' \subseteq Msgs
  BY LinkStaysTyped, AcksOnlyGrow DEF AppTyped
<1>2. \A u \in Tasks : task'[u].pc = "handler" =>
         task'[u].m = task[u].m /\ (task[u].pc = "handler" \/ Dispatch(u))
  BY HandlersStay
<1>3. ASSUME NEW t \in Tasks, Dispatch(t) PROVE AppTyped'
  <2>1. task[t].m \in Msgs
    BY <1>3 DEF Dispatch, At, OrderTyped, GoodTask, Sound, Handling
  <2>2. /\ handed' = handed \cup {task[t].m} /\ seen' = seen \cup {task[t].m} /\ clean' = clean
        /\ \A u \in Tasks : Dispatch(u) => handed' = handed \cup {task[u].m}
    BY <1>3 DEF Dispatch
  <2> QED  BY <1>1, <1>2, <2>1, <2>2 DEF AppTyped
<1>4. CASE ~\E t \in Tasks : Dispatch(t)
  <2>1. handed' = handed /\ seen' \in {seen, {}} /\ clean' \subseteq handed
    <3>1. CASE UNCHANGED <<handed, clean>> /\ seen' \in {seen, {}}
      BY <3>1 DEF AppTyped
    <3>2. ASSUME NEW t \in Tasks, HandledCleanly(t)
          PROVE  handed' = handed /\ seen' = seen /\ clean' \subseteq handed
      BY <3>2 DEF AppTyped, HandledCleanly, At
    <3> QED  BY <1>4, <3>1, <3>2, HistoryChanges
  <2> QED  BY <1>1, <1>2, <1>4, <2>1 DEF AppTyped
<1> QED  BY <1>3, <1>4

DeliveryInv == OrderTyped /\ AppTyped /\ ConfirmInv

\* The invariant of the delivery path, by induction over the steps
THEOREM DeliveryInvariant == Spec => []DeliveryInv
<1>1. Init => DeliveryInv
  <2> SUFFICES ASSUME Init PROVE DeliveryInv
    OBVIOUS
  <2>1. OrderTyped
    BY IdleTask, FreshIsOrderState DEF Init, OrderTyped
  <2>2. AppTyped
    BY DEF Init, AppTyped, Idle
  <2>3. ConfirmInv
    BY ConfirmInitially
  <2> QED  BY <2>1, <2>2, <2>3 DEF DeliveryInv
<1>2. DeliveryInv /\ [Next]_vars => DeliveryInv'
  <2> SUFFICES ASSUME DeliveryInv, [Next]_vars PROVE DeliveryInv'
    OBVIOUS
  <2>1. ConfirmInv'
    BY ConfirmStep DEF DeliveryInv
  <2>2. OrderTyped'
    BY OrderStaysTyped DEF DeliveryInv, ConfirmInv
  <2>3. AppTyped'
    BY AppStaysTyped DEF DeliveryInv
  <2> QED  BY <2>1, <2>2, <2>3 DEF DeliveryInv
<1> QED  BY <1>1, <1>2, PTL DEF Spec

\* The tasks, the ordering states (_OrderState), the drain and the dedup cache
\* hold what the code puts there, after any number of connections and pages.
THEOREM TypeCorrect == Spec => []TypeOK
<1>1. DeliveryInv => TypeOK
  <2> SUFFICES ASSUME DeliveryInv PROVE TypeOK
    OBVIOUS
  <2>1. /\ pub \in 0..Total /\ acked \subseteq Msgs
        /\ conn \in {"down", "up", "closing", "dead", "stopped"}
        /\ ackOn \in BOOLEAN /\ disposed \in BOOLEAN
        /\ states \in [Conv -> ObjIds \cup {None}]
        /\ \A o \in ObjIds : objs[o] \in OrderState
        /\ DOMAIN task = Tasks /\ drain \in DrainState
        /\ handed \cup clean \cup seen \subseteq Msgs
    BY DEF DeliveryInv, OrderTyped, AppTyped, ConfirmInv
  <2>2. ASSUME NEW t \in Tasks
        PROVE  /\ task[t].m \in Msgs \cup {NoMsg}
               /\ task[t].c \in Conv \cup {None} /\ task[t].o \in ObjIds \cup {None}
               /\ task[t].todo \subseteq Msgs /\ task[t].owned \subseteq Tasks
    <3>1. task[t] \in TaskState
      BY DEF DeliveryInv, OrderTyped, GoodTask
    <3> QED  BY <3>1 DEF TaskState
  <2>3. \A i \in 1..Len(dedup) : dedup[i] \in Msgs
    <3>1. dedup \in Seq(clean) /\ clean \subseteq Msgs
      BY <2>1 DEF DeliveryInv, ConfirmInv, DedupIsClean
    <3> QED  BY <3>1, ElementOfSeq
  <2> QED  BY <2>1, <2>2, <2>3 DEF TypeOK
<1> QED  BY <1>1, DeliveryInvariant, PTL

----------------------------------------------------------------------------
(* Delivery implements the at-least-once promise *)

\* Whatever the client does, the application sees a handler call, a handler's
\* clean end or a confirmation of messages that were handled before, or nothing.
LEMMA StepKeepsPromise ==
    ASSUME ~AckOnReceipt, DeliveryInv, [Next]_vars
    PROVE  [Promise!Next]_(Promise!vars)
<1>1. /\ acked \subseteq acked' /\ acked' \subseteq clean'
      /\ OrderTyped /\ AppTyped
  <2>1. ConfirmInv'
    BY ConfirmStep DEF DeliveryInv
  <2>2. acked' \subseteq clean'
    BY <2>1 DEF ConfirmInv, AckedWasDispatched
  <2> QED  BY <2>2, AcksOnlyGrow DEF DeliveryInv, AppTyped
<1>2. ASSUME NEW t \in Tasks, Dispatch(t) PROVE Promise!Next
  <2>1. task[t].m \in Msgs
    BY <1>1, <1>2 DEF Dispatch, At, OrderTyped, GoodTask, Sound, Handling
  <2>2. Promise!Hand(task[t].m)
    BY <1>2 DEF Dispatch, server, Promise!Hand
  <2> QED  BY <2>1, <2>2 DEF Promise!Next
<1>3. ASSUME NEW t \in Tasks, HandledCleanly(t) PROVE Promise!Next
  <2>1. task[t].m \in Msgs /\ task[t].m \in handed
    BY <1>1, <1>3 DEF HandledCleanly, At, OrderTyped, GoodTask, Sound, Handling, AppTyped
  <2>2. acked' \in {acked, acked \cup {task[t].m}}
    BY <1>3 DEF HandledCleanly, Acks
  <2>3. Promise!Settle(task[t].m)
    BY <1>3, <2>1, <2>2 DEF HandledCleanly, Promise!Settle
  <2> QED  BY <2>1, <2>3 DEF Promise!Next
<1>4. ASSUME UNCHANGED <<handed, clean>> PROVE Promise!Next
  <2>1. Promise!Confirm(acked')
    BY <1>1, <1>4 DEF Promise!Confirm
  <2> QED  BY <1>1, <1>4, <2>1 DEF Promise!Next
<1> QED  BY <1>2, <1>3, <1>4, HistoryChanges

\* In the default mode the client implements AtLeastOnce: a message is confirmed
\* only after all its handlers ran to the end, and never taken back.
THEOREM ImplementsAtLeastOnce ==
    ASSUME ~AckOnReceipt
    PROVE  Spec => KeepsPromise
<1>1. Init => Promise!Init
  BY DEF Init, Promise!Init
<1>2. DeliveryInv /\ [Next]_vars => [Promise!Next]_(Promise!vars)
  BY StepKeepsPromise
<1> QED  BY <1>1, <1>2, DeliveryInvariant, PTL DEF Spec, KeepsPromise, Promise!Spec

----------------------------------------------------------------------------
(* What the handlers settled is not handed to them again *)

OneRuns ==
    \A t, u \in Tasks : t # u => task[t].pc \in Waiting \/ task[u].pc \in Waiting

LEMMA OneKeepsRunning ==
    ASSUME OrderTyped, OneRuns, [Next]_vars
    PROVE  OneRuns'
<1>1. ASSUME NEW t \in Tasks, ActsAlone(t) PROVE OneRuns'
  <2>1. \A u \in Tasks \ {t} : task'[u].pc \in Waiting
    BY <1>1 DEF ActsAlone, Runs, Waiting
  <2> QED  BY <2>1 DEF OneRuns, Waiting
<1>2. ASSUME NEW t \in Tasks, Dispatch(t) PROVE ActsAlone(t)
  <2>1. task' = [task EXCEPT ![t].pc = "handler"] /\ Runs(t)
    BY <1>2 DEF Dispatch, Commit, At
  <2> QED  BY <2>1 DEF ActsAlone, OrderTyped
<1>3. ASSUME task' = task PROVE OneRuns'
  BY <1>3 DEF OneRuns, Waiting
<1>4. CASE UNCHANGED vars
  BY <1>3, <1>4 DEF vars, order
<1>5. ASSUME NEW t \in Tasks, Step(t) PROVE ActsAlone(t)
  BY <1>2, <1>5, QuietStep DEF Quietly
<1> QED  BY <1>1, <1>3, <1>4, <1>5, QuietOthers DEF Next, Quietly

\* The dedup cache is looked up, or a clean dispatch adds its message.
LEMMA CacheChanges ==
    ASSUME [Next]_vars
    PROVE  \/ clean' = clean /\ (dedup' = dedup \/ \E m : dedup' = Hit(dedup, m))
           \/ \E t \in Tasks : HandledCleanly(t)
<1>1. ASSUME NEW t, NEW m, NEW e, NEW spent, Route(t, m, e, spent)
      PROVE  dedup' = dedup \/ dedup' = Hit(dedup, m)
  BY <1>1 DEF Route, RouteUnsequenced, RouteAnchor, RouteBelow, RouteInOrder, RoutePark
<1>2. ASSUME NEW t \in Tasks, Step(t)
      PROVE  clean' = clean /\ (dedup' = dedup \/ \E m : dedup' = Hit(dedup, m))
  BY <1>2 DEF Step, DedupHit, Dispatch, ChainNext, ChainEnd, SweepNext, SweepEnd, MissingFrame,
         FlushConversation, FlushEnd, app
<1>3. ASSUME NEW t \in Tasks, HandlerReturns(t) \/ GapTimer(t), ~HandledCleanly(t)
      PROVE  clean' = clean /\ dedup' = dedup
  BY <1>3 DEF HandlerReturns, HandlerRaised, Notified, GapTimer, GapTimerFires, GapFillFails,
         GapFillAnswers, app
<1>4. CASE Drain
  <2>1. CASE DrainRow
    BY <1>1, <2>1 DEF DrainRow, app
  <2>2. CASE CheckRow
    BY <2>2 DEF CheckRow, app
  <2> QED
    BY <1>4, <2>1, <2>2
       DEF Drain, SyncFails, SyncAnswers, DrainRouted, PageChecked, SyncAck, app
<1>5. CASE Socket
  BY <1>5 DEF Socket, CloseOrderState, Release, app
<1>6. CASE Environment
  <2>1. ASSUME NEW m \in Msgs, RecvFrame(m)
        PROVE  clean' = clean /\ (dedup' = dedup \/ dedup' = Hit(dedup, m))
    BY <1>1, <2>1 DEF RecvFrame, app
  <2> QED  BY <1>6, <2>1 DEF Environment, Connect, SocketCloses, Disconnect, app
<1>7. CASE UNCHANGED vars
  BY <1>7 DEF vars, app
<1> QED  BY <1>2, <1>3, <1>4, <1>5, <1>6, <1>7 DEF Next

\* The cache has every id once, and knows all that was settled.
CacheKnows == Distinct(dedup) /\ \A m \in clean : Seen(dedup, m)

LEMMA CacheKeepsKnowing ==
    ASSUME DedupCapacity >= Total, DeliveryInv, CacheKnows, [Next]_vars
    PROVE  CacheKnows'
<1>1. dedup \in Seq(clean) /\ clean \subseteq Msgs
  BY DEF DeliveryInv, ConfirmInv, DedupIsClean, AppTyped
<1>2. dedup \in Seq(Msgs)
  BY <1>1, SeqMonotonic
<1>3. ASSUME clean' = clean, NEW m, dedup' \in {dedup, Hit(dedup, m)} PROVE CacheKnows'
  <2>1. Distinct(Hit(dedup, m)) /\ \A k : Seen(Hit(dedup, m), k) <=> Seen(dedup, k)
    BY <1>2, HitKeeps DEF CacheKnows
  <2> QED  BY <1>3, <2>1 DEF CacheKnows
<1>4. ASSUME NEW t \in Tasks, HandledCleanly(t) PROVE CacheKnows'
  <2> DEFINE m == task[t].m
  <2>1. m \in Msgs
    BY <1>4 DEF DeliveryInv, HandledCleanly, At, OrderTyped, GoodTask, Sound, Handling
  <2>2. IsFiniteSet(Msgs) /\ Cardinality(Msgs) <= DedupCapacity /\ DedupCapacity \in Nat
    <3>1. Total \in Nat /\ DedupCapacity \in Nat
      BY MessagesAssumption, OptionsAssumption
    <3>2. IsFiniteSet(1..Total) /\ Cardinality(1..Total) = IF 1 > Total THEN 0 ELSE Total - 1 + 1
      BY <3>1, FS_Interval
    <3> QED  BY <3>1, <3>2 DEF Msgs
  <2>3. clean' = clean \cup {m} /\ dedup' = Add(dedup, m, DedupCapacity)
    BY <1>4 DEF HandledCleanly
  <2> HIDE DEF m
  <2>4. /\ Distinct(Add(dedup, m, DedupCapacity))
        /\ \A k : Seen(Add(dedup, m, DedupCapacity), k) <=> Seen(dedup, k) \/ k = m
    BY <1>2, <2>1, <2>2, AddKeeps DEF CacheKnows
  <2> QED  BY <2>3, <2>4 DEF CacheKnows
<1> QED  BY <1>3, <1>4, CacheChanges

LEMMA HandlersGetNews ==
    ASSUME ~AsyncHandlers, DeliveryInv, CacheKnows, NoRepeat, [Next]_vars
    PROVE  NoRepeat'
<1> SUFFICES ASSUME NEW u \in Tasks, task'[u].pc = "handler" PROVE task'[u].m \notin clean'
  BY DEF NoRepeat
<1>1. task'[u].m = task[u].m /\ (task[u].pc = "handler" \/ Dispatch(u))
  BY HandlersStay DEF DeliveryInv
<1>2. task[u].m \notin clean
  BY <1>1 DEF Dispatch, CacheKnows, NoRepeat
<1>3. ASSUME NEW t \in Tasks, HandledCleanly(t) PROVE FALSE
  <2>1. Quietly(t)
    BY <1>3, QuietReturn DEF DeliveryInv, HandlerReturns
  <2>2. t # u
    BY <2>1 DEF Quietly
  <2>3. task[u].pc \in Waiting
    BY <1>3, <2>2 DEF HandledCleanly, At, Runs
  <2>4. task[u].pc # "handler"
    BY <2>3 DEF Waiting
  <2>5. task[t].pc = "handler" /\ "handler" \notin Waiting
    BY <1>3 DEF HandledCleanly, At, Waiting
  <2> QED  BY <1>1, <1>3, <2>2, <2>4, <2>5 DEF Dispatch, At, Runs
<1> QED  BY <1>1, <1>2, <1>3, CacheChanges

\* With handlers that do not suspend and a cache as large as the messages in
\* play, no message is handed over again once all its handlers settled it: not by
\* a frame the server repeats, nor by the drain, the gap fill or the flush
\* (_deliver_message_new looks the id up before it dispatches).
THEOREM SettledIsNotRepeated ==
    ASSUME ~AsyncHandlers, DedupCapacity >= Total
    PROVE  Spec => []NoRepeat
<1>1. Init => CacheKnows /\ NoRepeat
  BY DEF Init, CacheKnows, NoRepeat, Distinct, Idle
<1>2. DeliveryInv /\ CacheKnows /\ NoRepeat /\ [Next]_vars => CacheKnows' /\ NoRepeat'
  BY CacheKeepsKnowing, HandlersGetNews
<1> QED  BY <1>1, <1>2, DeliveryInvariant, PTL DEF Spec

=============================================================================
