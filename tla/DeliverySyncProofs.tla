------------------------- MODULE DeliverySyncProofs -------------------------
(***************************************************************************)
(* What the ordering layer does with parked frames when user handlers do   *)
(* not suspend, for any number of conversations, messages, timers, frames  *)
(* and connections: no frame acked at receipt is lost, a frame that waits  *)
(* for a gap has somebody to release it, no sweep misses its frame, and a  *)
(* gap that is reported as recovered leaves no message out.                *)
(***************************************************************************)
EXTENDS DeliveryOrderProofs

----------------------------------------------------------------------------
(* What a task may rely on between two awaits *)

\* The task is inside the ordering layer, with an object and without an await.
Working(r) ==
    \/ r.pc \in {"inorder", "chained", "chain", "resolving", "flushing", "notify"}
    \/ Handling(r) /\ r.site \notin {"idle", "row"}

\* _resolve_gap or the flush is walking the buffer.
Sweeping(r) ==
    \/ r.pc \in {"resolving", "flushing"}
    \/ Handling(r) /\ r.site \in {"resolving", "flushing"}

\* _flush_parked_frames
Flushing(r) ==
    \/ r.pc \in {"flush", "flushing"}
    \/ (Handling(r) \/ r.pc = "notify") /\ r.site = "flushing"

InHand(r) == IF Handling(r) THEN {r.m} ELSE {}

Buf(o) == DOMAIN objs[o].buf

\* A reference to an ordering state is held only where it is used.
LetsGo(t) == OnObject(task[t]) \/ task[t].o = None

\* The object of a working task is the one its conversation has, or the
\* conversation was forgotten because nothing was left to do.
InPlace(t) ==
    LET o == task[t].o
        s == states[task[t].c]
    IN  Working(task[t]) => s = o \/ (s = None /\ Buf(o) = {} /\ objs[o].timer = None)

\* A sweep finds every frame on its list, and none it does not know of.
SweepKnows(t) ==
    LET r == task[t] IN
    Sweeping(r) => /\ r.todo \subseteq Buf(r.o)
                   /\ Buf(r.o) \subseteq r.todo \cup handed \cup InHand(r)

\* A gap is reported when nothing is parked any more.
ReportsEmpty(t) == task[t].pc = "notify" => Buf(task[t].o) = {}

KnowsItsSite(t) ==
    /\ task[t].pc = "resolving" => task[t].site = "resolving"
    /\ task[t].pc = "closing" => conn = "closing"

\* The flush has on its list whatever is parked, apart from what it is at.
FlushCovers(t) ==
    LET r == task[t] IN
    Flushing(r) =>
        /\ (t = "recv" /\ conn = "closing") \/ (t = "stop" /\ disposed)
        /\ \A w \in r.work : states[w[1]] = w[2]
        /\ \A c \in Conv : Parked(c) # {} => <<c, states[c]>> \in r.work \/ states[c] = r.o

Fits(t) ==
    /\ LetsGo(t) /\ InPlace(t) /\ SweepKnows(t) /\ ReportsEmpty(t) /\ KnowsItsSite(t)
    /\ FlushCovers(t)

----------------------------------------------------------------------------
(* What holds of the conversations *)

OneEach == \A c, d \in Conv : states[c] # None /\ states[c] = states[d] => c = d
OwnFrames == \A c \in Conv : \A m \in Parked(c) : ConvOf[m] = c

\* The timer of a conversation sleeps, and a gap fill that is under way is.
Armed(g, c) == g \in GapTasks /\ task[g].pc = "asleep" /\ task[g].c = c
Fetching(g, c) ==
    g \in GapTasks /\ task[g].pc = "fetch" /\ task[g].c = c /\ task[g].o = states[c]
TimerLives(c) == objs[states[c]].timer # None => Armed(objs[states[c]].timer, c)
FillLives(c) == objs[states[c]].fill => \E g \in GapTasks : Fetching(g, c)
ClocksRun ==
    ~disposed => \A c \in Conv : states[c] # None =>
        TimerLives(c) /\ FillLives(c)

Attends(t, c) ==
    /\ task[t].o = states[c] /\ task[t].c = c
    /\ t \in GapTasks \/ Sweeping(task[t])
Watched ==
    ~disposed /\ conn # "closing" =>
        \A c \in Conv : Parked(c) # {} =>
            objs[states[c]].timer # None \/ \E t \in Tasks : Attends(t, c)

\* What was acked at receipt and not handed over yet is parked or in hand.
Held(m) ==
    \/ \E c \in Conv : m \in Parked(c)
    \/ \E t \in Tasks : task[t].pc = "deliver" /\ task[t].m = m
AckedIsHeld == AckOnReceipt => \A m \in acked : m \in handed \/ Held(m)

StopsDisposed == task["stop"].pc # "idle" => disposed

SyncInv ==
    /\ OneRuns /\ \A t \in Tasks : Fits(t)
    /\ OneEach /\ OwnFrames /\ ClocksRun /\ Watched /\ AckedIsHeld /\ StopsDisposed

----------------------------------------------------------------------------
(* Where tasks wait, and what a commit leaves *)

LEMMA WhereTasksWait ==
    ASSUME ~AsyncHandlers
    PROVE  Waiting = {"idle", "asleep", "fetch", "sync", "syncack", "leaving", "failed"}
BY DEF Waiting

LEMMA AwayFromOrder ==
    ASSUME ~AsyncHandlers, NEW r, r.pc \in Waiting
    PROVE  ~Working(r) /\ ~Sweeping(r) /\ ~Flushing(r) /\ ~Handling(r) /\ r.pc # "notify"
BY WhereTasksWait DEF Working, Sweeping, Flushing, Handling

LEMMA CommitEffect ==
    ASSUME NEW sts, NEW tsk, NEW obs, Commit(sts, tsk, obs)
    PROVE  /\ states' = sts /\ task' = tsk
           /\ \A c \in Conv : sts[c] \in ObjIds => objs'[sts[c]] = obs[sts[c]]
           /\ \A t \in Tasks : tsk[t].o \in ObjIds => objs'[tsk[t].o] = obs[tsk[t].o]
           /\ \A o \in ObjIds : objs'[o] \in {obs[o], FreshObj}
BY DEF Commit, Referenced

\* The records a task goes through, field by field
LEMMA Fields ==
    ASSUME NEW t \in Tasks, task[t] \in GoodTask
    PROVE  /\ \A m, e, site, o :
                 LET d == Deliver(t, m, e, site, o)
                 IN  /\ d.pc = "deliver" /\ d.site = site /\ d.m = m /\ d.c = ConvOf[m] /\ d.o = o
                     /\ d.todo = task[t].todo /\ d.high = task[t].high /\ d.exp = task[t].exp
                     /\ d.from = task[t].from /\ d.read = task[t].read
                     /\ d.rec = task[t].rec /\ d.work = task[t].work /\ d.owned = task[t].owned
           /\ \A c, o, ob, rec :
                 LET r == Resolve(t, c, o, ob, rec)
                 IN  /\ r.pc = "resolving" /\ r.site = "resolving" /\ r.m = NoMsg /\ r.c = c /\ r.o = o
                     /\ r.todo = DOMAIN ob.buf /\ r.high = ob.next - 1 /\ r.rec = rec
                     /\ r.exp = (IF ob.started # 0 THEN ob.started ELSE ob.next)
                     /\ r.from = task[t].from /\ r.read = task[t].read
                     /\ r.work = task[t].work /\ r.owned = task[t].owned
           /\ \A pc : LET r == [task[t] EXCEPT !.pc = pc]
                      IN  /\ r.pc = pc /\ r.site = task[t].site /\ r.m = task[t].m
                          /\ r.c = task[t].c /\ r.o = task[t].o /\ r.todo = task[t].todo
                          /\ r.high = task[t].high /\ r.exp = task[t].exp /\ r.rec = task[t].rec
                          /\ r.from = task[t].from /\ r.read = task[t].read
                          /\ r.work = task[t].work /\ r.owned = task[t].owned
           /\ \A pc : LET r == [Idle EXCEPT !.pc = pc]
                      IN  r.pc = pc /\ r.site = "idle" /\ r.o = None /\ r.c = None /\ r.work = {}
           /\ Idle.pc = "idle" /\ Idle.site = "idle" /\ Idle.o = None /\ Idle.work = {}
BY DEF GoodTask, TaskState, Deliver, Resolve, Idle

LEMMA BackFields ==
    ASSUME NEW t \in Tasks, task[t] \in GoodTask
    PROVE  LET r == Back(t)
           IN  /\ r.pc = task[t].site
               /\ task[t].site \in {"idle", "row"} => r.o = None /\ r.work = {}
               /\ task[t].site \notin {"idle", "row"} =>
                     /\ r.site = task[t].site /\ r.m = task[t].m /\ r.c = task[t].c
                     /\ r.o = task[t].o /\ r.todo = task[t].todo /\ r.high = task[t].high
                     /\ r.exp = task[t].exp /\ r.rec = task[t].rec /\ r.work = task[t].work
                     /\ r.from = task[t].from /\ r.read = task[t].read
BY DEF GoodTask, TaskState, Back, Idle

----------------------------------------------------------------------------
(* Steps that park nothing and start no clock *)

SameSpot(u) == task'[u].pc = task[u].pc /\ task'[u].o = task[u].o /\ task'[u].c = task[u].c

Stopped(u) ==
    /\ task'[u] = Idle
    /\ ~disposed' => /\ task[u].pc = "asleep"
                     /\ \A c \in Conv : states'[c] # None => objs'[states'[c]].timer # u

\* An object loses frames, its timer or its fill at most, and its timer only
\* when nothing is parked or the client closes.
Eased(o) ==
    /\ Buf(o)' \subseteq Buf(o)
    /\ objs'[o].fill => objs[o].fill
    /\ \/ objs'[o].timer = objs[o].timer
       \/ objs'[o].timer = None /\ (Buf(o)' = {} \/ conn' = "closing" \/ disposed')

Calms(t) ==
    /\ Runs(t)
    /\ \A c \in Conv : states'[c] = None \/ (states'[c] = states[c] /\ Eased(states[c]))
    /\ \A u \in Tasks \ {t} : SameSpot(u) \/ Stopped(u)
    /\ task[t].pc \notin {"asleep", "fetch"}
    /\ \A c \in Conv : Parked(c)' # {} /\ Attends(t, c) => Attends(t, c)'
    /\ disposed => disposed'
    /\ conn' # "closing" => conn # "closing" \/ \A c \in Conv : states'[c] = None
    /\ t = "stop" => disposed'

LEMMA OthersFit ==
    ASSUME ~AsyncHandlers, OrderTyped', SyncInv, NEW t \in Tasks, Runs(t),
           \A u \in Tasks \ {t} :
              SameSpot(u) \/ (task'[u].pc \in {"idle", "asleep"} /\ task'[u].o = None)
    PROVE  \A u \in Tasks \ {t} : Fits(u)'
<1> SUFFICES ASSUME NEW u \in Tasks \ {t} PROVE Fits(u)'
  OBVIOUS
<1>1. task[u].pc \in Waiting /\ LetsGo(u)
  BY DEF Runs, SyncInv, Fits
<1>2. task'[u].pc \in Waiting /\ LetsGo(u)'
  <2>1. CASE SameSpot(u)
    BY <1>1, <2>1, AwayFromOrder DEF SameSpot, LetsGo, OnObject, Handling
  <2>2. CASE task'[u].pc \in {"idle", "asleep"} /\ task'[u].o = None
    BY <2>2 DEF Waiting, LetsGo
  <2> QED  BY <2>1, <2>2
<1>3. /\ ~Working(task'[u]) /\ ~Sweeping(task'[u]) /\ ~Flushing(task'[u])
      /\ task'[u].pc \notin {"notify", "closing"}
  BY <1>2, AwayFromOrder, WhereTasksWait
<1> QED  BY <1>2, <1>3 DEF Fits, InPlace, SweepKnows, ReportsEmpty, FlushCovers, KnowsItsSite, Sweeping

LEMMA ParkedIsBuf ==
    ASSUME NEW c \in Conv
    PROVE  /\ states[c] # None => Parked(c) = Buf(states[c])
           /\ states[c] = None => Parked(c) = {}
BY DEF Parked, Buf

LEMMA CalmKeepsClocks ==
    ASSUME ~AsyncHandlers, OrderTyped, SyncInv, NEW t \in Tasks, Calms(t)
    PROVE  ClocksRun'
<1> SUFFICES ASSUME ~disposed', NEW c \in Conv, states'[c] # None
             PROVE  TimerLives(c)' /\ FillLives(c)'
  BY DEF ClocksRun
<1>1. states'[c] = states[c] /\ Eased(states[c]) /\ ~disposed
  BY DEF Calms
<1>2. TimerLives(c) /\ FillLives(c)
  BY <1>1 DEF SyncInv, ClocksRun
<1>3. \A g \in GapTasks : g \in Tasks
  BY DEF Tasks
<1>4. ASSUME objs'[states'[c]].timer # None PROVE TimerLives(c)'
  <2> DEFINE g == objs[states[c]].timer
  <2>1. g = objs'[states'[c]].timer
    BY <1>1, <1>4 DEF Eased
  <2>2. Armed(g, c) /\ g # t
    BY <1>2, <1>4, <2>1 DEF TimerLives, Armed, Calms
  <2>3. SameSpot(g)
    BY <1>3, <2>1, <2>2 DEF Armed, Calms, Stopped
  <2> QED  BY <2>1, <2>2, <2>3 DEF TimerLives, Armed, SameSpot
<1>5. ASSUME objs'[states'[c]].fill PROVE FillLives(c)'
  <2>1. PICK g \in GapTasks : Fetching(g, c)
    BY <1>1, <1>2, <1>5 DEF Eased, FillLives
  <2>2. SameSpot(g)
    BY <1>3, <2>1 DEF Fetching, Calms, Stopped
  <2> QED  BY <1>1, <2>1, <2>2 DEF FillLives, Fetching, SameSpot
<1> QED  BY <1>4, <1>5 DEF TimerLives, FillLives

LEMMA CalmKeepsWatch ==
    ASSUME ~AsyncHandlers, OrderTyped, OrderTyped', SyncInv, NEW t \in Tasks, Calms(t)
    PROVE  Watched'
<1> SUFFICES ASSUME ~disposed', conn' # "closing", NEW c \in Conv, Parked(c)' # {}
             PROVE  objs'[states'[c]].timer # None \/ \E u \in Tasks : Attends(u, c)'
  BY DEF Watched
<1>1. states'[c] # None /\ states'[c] = states[c] /\ Eased(states[c]) /\ ~disposed /\ conn # "closing"
  BY DEF Calms, Parked
<1>2. Parked(c) = Buf(states[c]) /\ Parked(c)' = Buf(states[c])'
  BY <1>1 DEF Parked, Buf
<1>3. objs[states[c]].timer # None \/ \E u \in Tasks : Attends(u, c)
  BY <1>1, <1>2 DEF SyncInv, Watched, Eased
<1>4. CASE objs[states[c]].timer # None
  BY <1>1, <1>2, <1>4 DEF Eased
<1>5. ASSUME NEW u \in Tasks, Attends(u, c) PROVE Attends(u, c)'
  <2>1. CASE u = t
    BY <1>5, <2>1 DEF Calms
  <2>2. CASE u # t
    <3>1. task[u].pc \in Waiting /\ LetsGo(u)
      BY <2>2 DEF Calms, Runs, SyncInv, Fits
    <3>2. ~Sweeping(task[u])
      BY <3>1, AwayFromOrder
    <3>3. task[u].pc # "asleep"
      BY <1>1, <1>5, <3>1 DEF Attends, LetsGo, OnObject, Handling
    <3>4. SameSpot(u)
      BY <2>2, <3>3 DEF Calms, Stopped
    <3> QED  BY <1>1, <1>5, <3>2, <3>4 DEF Attends, SameSpot
  <2> QED  BY <2>1, <2>2
<1> QED  BY <1>3, <1>4, <1>5

LEMMA CalmKeepsFrames ==
    ASSUME ~AsyncHandlers, OrderTyped, OrderTyped', SyncInv, NEW t \in Tasks, Calms(t)
    PROVE  OneEach' /\ OwnFrames' /\ StopsDisposed'
<1>1. \A c \in Conv : states'[c] # None => states'[c] = states[c] /\ Eased(states[c])
  BY DEF Calms
<1>2. OneEach'
  BY <1>1 DEF SyncInv, OneEach
<1>3. \A c \in Conv : Parked(c)' \subseteq Parked(c)
  BY <1>1 DEF Parked, Buf, Eased
<1>4. OwnFrames'
  BY <1>3 DEF SyncInv, OwnFrames
<1>5. StopsDisposed'
  <2>1. Idle.pc = "idle" /\ "stop" \in Tasks
    BY DEF Idle, Tasks
  <2>2. CASE t = "stop"
    BY <2>2 DEF Calms, StopsDisposed
  <2>3. CASE t # "stop"
    BY <2>1, <2>3 DEF Calms, SameSpot, Stopped, SyncInv, StopsDisposed
  <2> QED  BY <2>2, <2>3
<1> QED  BY <1>2, <1>4, <1>5

\* After such a step it is the acting task and the acks that are left to look at.
LEMMA CalmStep ==
    ASSUME ~AsyncHandlers, OrderTyped, OrderTyped', SyncInv, OneRuns', NEW t \in Tasks, Calms(t),
           Fits(t)', AckedIsHeld'
    PROVE  SyncInv'
<1>1. Idle.pc = "idle" /\ Idle.o = None
  BY DEF Idle
<1>2. \A u \in Tasks \ {t} : Fits(u)'
  BY <1>1, OthersFit DEF Calms, Stopped
<1> QED  BY <1>2, CalmKeepsClocks, CalmKeepsWatch, CalmKeepsFrames DEF SyncInv

\* What was held is handed over, parked, or in the hand of the acting task.
LEMMA StillHeld ==
    ASSUME ~AsyncHandlers, SyncInv, NEW t \in Tasks, Runs(t), handed \subseteq handed',
           \A c \in Conv : \A m \in Parked(c) : m \in handed' \/ Held(m)',
           \A m : task[t].pc = "deliver" /\ m = task[t].m => m \in handed' \/ Held(m)',
           AckOnReceipt => \A m \in acked' : m \in acked \/ m \in handed' \/ Held(m)'
    PROVE  AckedIsHeld'
<1> SUFFICES ASSUME AckOnReceipt, NEW m \in acked PROVE m \in handed' \/ Held(m)'
  BY DEF AckedIsHeld
<1>1. m \in handed \/ Held(m)
  BY DEF SyncInv, AckedIsHeld
<1>2. ASSUME NEW u \in Tasks, task[u].pc = "deliver", m = task[u].m
      PROVE  m \in handed' \/ Held(m)'
  <2>1. u = t
    BY <1>2, WhereTasksWait DEF Runs
  <2> QED  BY <1>2, <2>1
<1> QED  BY <1>1, <1>2 DEF Held

----------------------------------------------------------------------------
(* Steps that write the acting task's record only *)

\* Task t goes on as record r; the ordering states stay as they are.
GoesOn(t, r) == Commit(states, [task EXCEPT ![t] = r], objs)

LEMMA GoesOnEffect ==
    ASSUME OrderTyped, NEW t \in Tasks, NEW r, GoesOn(t, r)
    PROVE  /\ states' = states /\ task'[t] = r
           /\ \A u \in Tasks \ {t} : task'[u] = task[u]
           /\ \A c \in Conv : states[c] # None => objs'[states[c]] = objs[states[c]]
           /\ \A c \in Conv : Parked(c)' = Parked(c)
           /\ r.o \in ObjIds => objs'[r.o] = objs[r.o]
<1>1. task' = [task EXCEPT ![t] = r] /\ states' = states
  BY CommitEffect DEF GoesOn
<1>2. task'[t] = r /\ \A u \in Tasks \ {t} : task'[u] = task[u]
  BY <1>1 DEF OrderTyped
<1>3. \A c \in Conv : states[c] # None => objs'[states[c]] = objs[states[c]]
  BY CommitEffect DEF GoesOn, OrderTyped
<1>4. \A c \in Conv : Parked(c)' = Parked(c)
  BY <1>1, <1>3 DEF Parked
<1>5. r.o \in ObjIds => objs'[r.o] = objs[r.o]
  <2>1. [task EXCEPT ![t] = r][t] = r
    BY DEF OrderTyped
  <2> DEFINE tsk == [task EXCEPT ![t] = r]
  <2> HIDE DEF tsk
  <2>2. Commit(states, tsk, objs)
    BY DEF GoesOn, tsk
  <2>3. \A u \in Tasks : tsk[u].o \in ObjIds => objs'[tsk[u].o] = objs[tsk[u].o]
    BY <2>2, CommitEffect
  <2> QED  BY <2>1, <2>3 DEF tsk
<1> QED  BY <1>1, <1>2, <1>3, <1>4, <1>5

LEMMA GoingOnCalms ==
    ASSUME OrderTyped, SyncInv, NEW t \in Tasks, NEW r, GoesOn(t, r), Runs(t),
           task[t].pc \notin {"asleep", "fetch"},
           conn' = conn \/ conn' = "closing", disposed => disposed', t = "stop" => disposed',
           \/ ~OnObject(task[t])
           \/ r.o = task[t].o /\ r.c = task[t].c /\ (Sweeping(task[t]) => Sweeping(r))
           \/ task[t].pc = "notify"
    PROVE  Calms(t)
<1>1. /\ states' = states /\ task'[t] = r
      /\ \A u \in Tasks \ {t} : task'[u] = task[u]
      /\ \A c \in Conv : states[c] # None => objs'[states[c]] = objs[states[c]]
      /\ \A c \in Conv : Parked(c)' = Parked(c)
  BY GoesOnEffect
<1>2. \A c \in Conv : states'[c] = None \/ (states'[c] = states[c] /\ Eased(states[c]))
  BY <1>1 DEF Eased, Buf
<1>3. ASSUME NEW c \in Conv, Parked(c)' # {}, Attends(t, c) PROVE Attends(t, c)'
  <2>1. states[c] # None /\ Parked(c) = Buf(states[c])
    BY <1>1, <1>3 DEF Parked, Buf
  <2>2. OnObject(task[t]) /\ task[t].pc # "notify"
    BY <1>1, <1>3, <2>1 DEF Attends, SyncInv, Fits, LetsGo, ReportsEmpty
  <2> QED  BY <1>1, <1>3, <2>2 DEF Attends
<1> QED  BY <1>1, <1>2, <1>3 DEF Calms, SameSpot

\* Outside the ordering layer there is nothing to rely on.
LEMMA OutsideFits ==
    ASSUME NEW t \in Tasks, task'[t].o = None,
           \/ task'[t].pc \in {"idle", "row", "sync", "check", "syncack", "leaving", "asleep", "failed"}
           \/ task'[t].pc = "closing" /\ conn' = "closing"
           \/ Handling(task'[t]) /\ task'[t].site \in {"idle", "row"}
    PROVE  Fits(t)'
<1>1. /\ ~Working(task'[t]) /\ ~Sweeping(task'[t]) /\ ~Flushing(task'[t]) /\ task'[t].pc # "notify"
      /\ task'[t].pc = "closing" => conn' = "closing"
  BY DEF Working, Sweeping, Flushing, Handling
<1> QED  BY <1>1 DEF Fits, LetsGo, InPlace, SweepKnows, ReportsEmpty, FlushCovers, KnowsItsSite, Sweeping

\* The choke point: the message in hand was handed over when it comes back.
LEMMA ChokePointKeeps ==
    ASSUME ~AsyncHandlers, OrderTyped, OrderTyped', SyncInv, OneRuns', NEW t \in Tasks, NEW r,
           Handling(task[t]), Runs(t), GoesOn(t, r),
           r \in {Back(t), [task[t] EXCEPT !.pc = "handler"]},
           UNCHANGED link, handed \subseteq handed', task[t].m \in handed',
           acked' \subseteq acked \cup handed'
    PROVE  SyncInv'
<1>1. /\ states' = states /\ task'[t] = r
      /\ \A c \in Conv : states[c] # None => objs'[states[c]] = objs[states[c]]
      /\ \A c \in Conv : Parked(c)' = Parked(c)
      /\ r.o \in ObjIds => objs'[r.o] = objs[r.o]
  BY GoesOnEffect
<1>2. task[t] \in GoodTask /\ task[t] \in TaskState /\ conn' = conn /\ disposed' = disposed
  BY DEF OrderTyped, GoodTask, link
<1>3. Fits(t) /\ (t = "stop" => disposed)
  <2>1. task[t].pc # "idle"
    BY DEF Handling
  <2> QED  BY <2>1 DEF SyncInv, StopsDisposed
<1>4. \/ /\ task[t].site \in {"idle", "row"} /\ r.o = None
         /\ r.pc \in {"idle", "row"} \/ (Handling(r) /\ r.site \in {"idle", "row"})
      \/ /\ task[t].site \in {"inorder", "chained", "resolving", "flushing"}
         /\ r.pc \in {task[t].site, "handler"} /\ r.site = task[t].site
         /\ r.c = task[t].c /\ r.o = task[t].o /\ r.todo = task[t].todo
         /\ r.work = task[t].work /\ r.m = task[t].m
  <2>1. task[t].site \in {"idle", "row"} => task[t].o = None
    BY <1>3 DEF Fits, LetsGo, OnObject, Handling
  <2>2. task[t].site \in Sites
    BY <1>2 DEF TaskState
  <2>3. LET h == [task[t] EXCEPT !.pc = "handler"]
        IN  /\ h.pc = "handler" /\ h.site = task[t].site /\ h.m = task[t].m
            /\ h.c = task[t].c /\ h.o = task[t].o /\ h.todo = task[t].todo /\ h.work = task[t].work
    BY <1>2, Fields
  <2>4. CASE r = Back(t)
    BY <1>2, <2>2, <2>4, BackFields DEF Sites
  <2>5. CASE r = [task[t] EXCEPT !.pc = "handler"]
    BY <1>2, <2>1, <2>2, <2>3, <2>5 DEF Sites, Handling
  <2> QED  BY <2>4, <2>5
<1>5. Calms(t)
  <2>1. ~OnObject(task[t]) \/ (r.o = task[t].o /\ r.c = task[t].c /\ (Sweeping(task[t]) => Sweeping(r)))
    BY <1>4 DEF OnObject, Handling, Sweeping
  <2>2. task[t].pc \notin {"asleep", "fetch"}
    BY DEF Handling
  <2> QED  BY <1>2, <1>3, <2>1, <2>2, GoingOnCalms
<1>6. Fits(t)'
  <2>1. CASE task[t].site \in {"idle", "row"}
    <3>1. r.o = None /\ (r.pc \in {"idle", "row"} \/ (Handling(r) /\ r.site \in {"idle", "row"}))
      BY <1>4, <2>1
    <3> QED  BY <1>1, <3>1, OutsideFits
  <2>2. CASE task[t].site \in {"inorder", "chained", "resolving", "flushing"}
    <3>1. /\ r.pc \in {task[t].site, "handler"} /\ r.site = task[t].site
          /\ r.c = task[t].c /\ r.o = task[t].o /\ r.todo = task[t].todo
          /\ r.work = task[t].work /\ r.m = task[t].m
      BY <1>4, <2>2
    <3>2. OnObject(r) /\ OnObject(task[t]) /\ Working(task[t]) /\ r.pc # "notify"
      BY <2>2, <3>1 DEF OnObject, Handling, Working
    <3>3. r.o \in ObjIds /\ r.c \in Conv /\ Buf(r.o)' = Buf(r.o) /\ objs'[r.o] = objs[r.o]
      BY <1>1, <1>2, <3>1, <3>2 DEF GoodTask, Sound, Buf
    <3>4. InPlace(t)'
      BY <1>1, <1>3, <3>1, <3>2, <3>3 DEF Fits, InPlace
    <3>5. SweepKnows(t)'
      <4>1. Sweeping(r) => Sweeping(task[t])
        BY <2>2, <3>1 DEF Sweeping, Handling
      <4>2. InHand(task[t]) \subseteq handed'
        BY DEF InHand
      <4> QED  BY <1>1, <1>3, <3>1, <3>3, <4>1, <4>2 DEF Fits, SweepKnows
    <3>6. FlushCovers(t)'
      <4>1. Flushing(r) => Flushing(task[t])
        BY <2>2, <3>1 DEF Flushing, Handling
      <4> QED  BY <1>1, <1>2, <1>3, <3>1, <4>1 DEF Fits, FlushCovers
    <3>7. KnowsItsSite(t)'
      BY <1>1, <2>2, <3>1 DEF KnowsItsSite
    <3> QED  BY <1>1, <3>2, <3>4, <3>5, <3>6, <3>7 DEF Fits, LetsGo, ReportsEmpty
  <2> QED  BY <1>4, <2>1, <2>2
<1>7. AckedIsHeld'
  <2>1. \A c \in Conv : \A m \in Parked(c) : Held(m)'
    BY <1>1 DEF Held
  <2> QED  BY <2>1, StillHeld
<1> QED  BY <1>5, <1>6, <1>7, CalmStep

LEMMA ChokePointSync ==
    ASSUME ~AsyncHandlers, OrderTyped', DeliveryInv, SyncInv, OneRuns', NEW t \in Tasks,
           DedupHit(t) \/ Dispatch(t) \/ HandledCleanly(t) \/ HandlerRaised(t)
    PROVE  SyncInv'
<1>1. OrderTyped /\ clean \subseteq handed
  BY DEF DeliveryInv, AppTyped
<1>2. Handling(task[t]) /\ Runs(t) /\ UNCHANGED link
  BY DEF DedupHit, Dispatch, HandledCleanly, HandlerRaised, At, Handling
<1>3. \A ms : \A a \in Acks(ms) : a \subseteq acked \cup ms
  BY DEF Acks
<1>4. CASE DedupHit(t)
  <2>1. task[t].m \in handed
    <3>1. dedup \in Seq(clean)
      BY DEF DeliveryInv, ConfirmInv, DedupIsClean
    <3>2. PICK i \in 1..Len(dedup) : dedup[i] = task[t].m
      BY <1>4 DEF DedupHit, Seen
    <3>3. dedup[i] \in clean
      BY <3>1, <3>2, ElementOfSeq
    <3> QED  BY <1>1, <3>2, <3>3
  <2>2. acked' \subseteq acked \cup {task[t].m} /\ handed' = handed /\ GoesOn(t, Back(t))
    BY <1>3, <1>4 DEF DedupHit, app, Returns, GoesOn
  <2> QED  BY <1>1, <1>2, <2>1, <2>2, ChokePointKeeps
<1>5. CASE Dispatch(t)
  <2>1. [task EXCEPT ![t].pc = "handler"] = [task EXCEPT ![t] = [task[t] EXCEPT !.pc = "handler"]]
    OBVIOUS
  <2>2. handed' = handed \cup {task[t].m} /\ acked' = acked
        /\ GoesOn(t, [task[t] EXCEPT !.pc = "handler"])
    BY <1>5, <2>1 DEF Dispatch, GoesOn, server
  <2> QED  BY <1>1, <1>2, <2>2, ChokePointKeeps
<1>6. CASE HandledCleanly(t) \/ HandlerRaised(t)
  <2>1. task[t].m \in handed
    BY <1>6 DEF DeliveryInv, AppTyped, HandledCleanly, HandlerRaised, At
  <2>2. acked' \subseteq acked \cup {task[t].m} /\ handed' = handed /\ GoesOn(t, Back(t))
    BY <1>3, <1>6 DEF HandledCleanly, HandlerRaised, app, server, Returns, GoesOn
  <2> QED  BY <1>1, <1>2, <2>1, <2>2, ChokePointKeeps
<1> QED  BY <1>4, <1>5, <1>6

----------------------------------------------------------------------------
(* The sweeps *)

\* A frame that a sweep or a chain takes belongs to the conversation it is at.
LEMMA FrameOfPlace ==
    ASSUME OrderTyped, SyncInv, NEW t \in Tasks, Working(task[t]), NEW m \in Buf(task[t].o)
    PROVE  states[task[t].c] = task[t].o /\ ConvOf[m] = task[t].c
<1>1. task[t].o \in ObjIds /\ task[t].c \in Conv
  BY DEF OrderTyped, GoodTask, Sound, OnObject, Working
<1>2. states[task[t].c] = task[t].o
  BY DEF SyncInv, Fits, InPlace
<1>3. m \in Parked(task[t].c)
  BY <1>1, <1>2, IdentitiesAssumption DEF Parked, Buf
<1> QED  BY <1>1, <1>2, <1>3 DEF SyncInv, OwnFrames

LEMMA SweepNextSync ==
    ASSUME ~AsyncHandlers, OrderTyped, OrderTyped', SyncInv, OneRuns', NEW t \in Tasks, SweepNext(t)
    PROVE  SyncInv'
<1> DEFINE o == task[t].o
<1>1. PICK m \in Lowest(task[t].todo) \cap DOMAIN objs[o].buf :
          Commit(states,
                 [task EXCEPT ![t] =
                     [Deliver(t, m, objs[o].buf[m], task[t].pc, o) EXCEPT
                         !.todo = @ \ {m},
                         !.high = IF SeqOf[m] > @ THEN SeqOf[m] ELSE @]],
                 objs)
  BY DEF SweepNext
<1> DEFINE d == Deliver(t, m, objs[o].buf[m], task[t].pc, o)
           r == [d EXCEPT !.todo = @ \ {m}, !.high = IF SeqOf[m] > @ THEN SeqOf[m] ELSE @]
<1>2. /\ GoesOn(t, r) /\ Runs(t) /\ task[t].pc \in {"resolving", "flushing"}
      /\ UNCHANGED <<acked, handed>> /\ UNCHANGED link
  BY <1>1 DEF GoesOn, SweepNext, AtSweep, server, app
<1>3. task[t] \in GoodTask /\ o \in ObjIds /\ task[t].c \in Conv
  BY <1>2 DEF OrderTyped, GoodTask, Sound, OnObject
<1>4. Working(task[t]) /\ m \in Buf(o) /\ m \in task[t].todo
  BY <1>1, <1>2 DEF Working, Buf, Lowest
<1>5. states[task[t].c] = o /\ ConvOf[m] = task[t].c
  BY <1>4, FrameOfPlace
<1>6. /\ r.pc = "deliver" /\ r.site = task[t].pc /\ r.m = m /\ r.c = task[t].c /\ r.o = o
      /\ r.todo = task[t].todo \ {m} /\ r.work = task[t].work
  BY <1>3, <1>5 DEF Deliver, GoodTask, TaskState
<1> HIDE DEF r
<1>7. /\ states' = states /\ task'[t] = r /\ objs'[o] = objs[o]
      /\ \A c \in Conv : Parked(c)' = Parked(c)
  BY <1>2, <1>3, <1>6, GoesOnEffect
<1>8. Fits(t) /\ (t = "stop" => disposed) /\ conn' = conn /\ disposed' = disposed
  BY <1>2 DEF SyncInv, StopsDisposed, link
<1>9. Calms(t)
  <2>1. Sweeping(r)
    BY <1>2, <1>6 DEF Sweeping, Handling
  <2> QED  BY <1>2, <1>6, <1>8, <2>1, GoingOnCalms
<1>10. Fits(t)'
  <2>1. LetsGo(t)' /\ ReportsEmpty(t)' /\ KnowsItsSite(t)'
    BY <1>2, <1>6, <1>7 DEF LetsGo, ReportsEmpty, KnowsItsSite, OnObject, Handling
  <2>2. InPlace(t)'
    BY <1>5, <1>6, <1>7 DEF InPlace
  <2>3. SweepKnows(t)'
    <3>1. Sweeping(task[t]) /\ InHand(task[t]) = {} /\ InHand(r) = {m}
      BY <1>2, <1>6 DEF Sweeping, InHand, Handling
    <3> QED  BY <1>2, <1>4, <1>6, <1>7, <1>8, <3>1 DEF Fits, SweepKnows, Buf
  <2>4. FlushCovers(t)'
    <3>1. Flushing(r) => Flushing(task[t])
      BY <1>2, <1>6 DEF Flushing, Handling
    <3> QED  BY <1>6, <1>7, <1>8, <3>1 DEF Fits, FlushCovers
  <2> QED  BY <2>1, <2>2, <2>3, <2>4 DEF Fits
<1>11. AckedIsHeld'
  <2>1. \A c \in Conv : \A x \in Parked(c) : Held(x)'
    BY <1>7 DEF Held
  <2> QED  BY <1>2, <2>1, StillHeld
<1> QED  BY <1>9, <1>10, <1>11, CalmStep

\* No other sweep takes its frames away.
LEMMA NoFrameIsMissing ==
    ASSUME SyncInv, NEW t \in Tasks
    PROVE  ~MissingFrame(t)
<1> SUFFICES ASSUME MissingFrame(t) PROVE FALSE
  OBVIOUS
<1>1. Sweeping(task[t])
  BY DEF MissingFrame, AtSweep, Sweeping
<1>2. task[t].todo \subseteq Buf(task[t].o)
  BY <1>1 DEF SyncInv, Fits, SweepKnows
<1> QED  BY <1>2 DEF MissingFrame, Lowest, Buf

\* The timer of a conversation is no other's.
LEMMA TimerIsItsOwn ==
    ASSUME SyncInv, ~disposed, NEW c \in Conv, states[c] # None, objs[states[c]].timer # None
    PROVE  /\ task[objs[states[c]].timer].pc = "asleep"
           /\ \A d \in Conv : states[d] # None /\ objs[states[d]].timer = objs[states[c]].timer => d = c
BY DEF SyncInv, ClocksRun, TimerLives, Armed

LEMMA UnfillEffect ==
    ASSUME OrderTyped, NEW ts, NEW o \in ObjIds
    PROVE  /\ Unfill(objs, ts)[o].buf = objs[o].buf /\ Unfill(objs, ts)[o].timer = objs[o].timer
           /\ Unfill(objs, ts)[o].next = objs[o].next /\ Unfill(objs, ts)[o].started = objs[o].started
           /\ Unfill(objs, ts)[o].fill => objs[o].fill
BY DEF Unfill, OrderTyped, OrderState

\* A conversation's timer is cancelled and struck from its ordering state.
LEMMA CancelStops ==
    ASSUME OrderTyped, SyncInv, NEW o \in ObjIds, NEW c \in Conv, states[c] = o,
           NEW u, u = objs[o].timer, u # None, task'[u] = Idle, disposed => disposed',
           \A d \in Conv : \/ states'[d] = None
                           \/ /\ states'[d] = states[d]
                              /\ states[d] = o => objs'[o].timer = None
                              /\ states[d] # o => objs'[states[d]].timer = objs[states[d]].timer
    PROVE  Stopped(u)
<1> SUFFICES ASSUME ~disposed', NEW d \in Conv, states'[d] # None
             PROVE  objs'[states'[d]].timer # u
  <2>1. ~disposed' => task[u].pc = "asleep"
    BY TimerIsItsOwn, IdentitiesAssumption
  <2> QED  BY <2>1 DEF Stopped
<1>1. CASE states[d] = o
  BY <1>1
<1>2. CASE states[d] # o
  <2>1. objs[states[d]].timer = u => d = c
    BY TimerIsItsOwn, IdentitiesAssumption
  <2> QED  BY <1>2, <2>1
<1> QED  BY <1>1, <1>2

LEMMA SweepEndSync ==
    ASSUME ~AsyncHandlers, OrderTyped, OrderTyped', SyncInv, OneRuns', NEW t \in Tasks, SweepEnd(t)
    PROVE  SyncInv'
<1>0. PICK o, c, timer : o = task[t].o /\ c = task[t].c /\ timer = objs[o].timer
  OBVIOUS
<1> DEFINE stop == IF task[t].pc = "resolving" /\ timer # None THEN {timer} ELSE {}
           q == [[task[t] EXCEPT !.pc = "notify"] EXCEPT !.m = NoMsg]
           ended == [objs[o] EXCEPT !.buf = <<>>]
           obs == [Unfill(objs, stop) EXCEPT ![o] =
                  IF task[t].pc = "resolving"
                  THEN [ended EXCEPT !.next = task[t].high + 1, !.timer = None, !.started = 0,
                                     !.fill = Unfill(objs, stop)[o].fill]
                  ELSE ended]
<1>1. /\ Runs(t) /\ task[t].pc \in {"resolving", "flushing"} /\ task[t].todo = {}
      /\ UNCHANGED <<acked, handed>> /\ conn' = conn /\ disposed' = disposed
  BY DEF SweepEnd, AtSweep, server, app, link
<1>2. task[t] \in GoodTask /\ o \in ObjIds /\ c \in Conv /\ objs[o] \in OrderState
      /\ timer \in GapTasks \cup {None}
  BY <1>0, <1>1 DEF OrderTyped, GoodTask, Sound, OnObject, OrderState
<1>3. Commit(states, Cancel([task EXCEPT ![t] = q], stop), obs)
  <2>1. [task EXCEPT ![t].pc = "notify", ![t].m = NoMsg] = [task EXCEPT ![t] = q]
    BY DEF OrderTyped
  <2> QED  BY <1>0, <2>1 DEF SweepEnd
<1>4. /\ q.pc = "notify" /\ q.site = task[t].site /\ q.c = c /\ q.o = o /\ q.work = task[t].work
  BY <1>0, <1>2 DEF GoodTask, TaskState
<1>5. /\ obs[o].buf = <<>>
      /\ obs[o].timer = (IF task[t].pc = "resolving" THEN None ELSE timer)
      /\ obs[o].fill => objs[o].fill
      /\ \A x \in ObjIds \ {o} : /\ obs[x].buf = objs[x].buf /\ obs[x].timer = objs[x].timer
                                 /\ obs[x].fill => objs[x].fill
  <2>1. DOMAIN Unfill(objs, stop) = ObjIds
    BY DEF Unfill
  <2>2. \A x \in ObjIds : /\ Unfill(objs, stop)[x].buf = objs[x].buf
                          /\ Unfill(objs, stop)[x].timer = objs[x].timer
                          /\ Unfill(objs, stop)[x].fill => objs[x].fill
    BY UnfillEffect
  <2> DEFINE u == Unfill(objs, stop)
             new == [ended EXCEPT !.next = task[t].high + 1, !.timer = None, !.started = 0,
                                  !.fill = u[o].fill]
  <2>3. /\ ended.buf = <<>> /\ ended.timer = timer /\ ended.fill = objs[o].fill
        /\ new.buf = <<>> /\ new.timer = None /\ new.fill = u[o].fill
    BY <1>0, <1>2 DEF OrderState
  <2>4. obs = [u EXCEPT ![o] = IF task[t].pc = "resolving" THEN new ELSE ended]
    OBVIOUS
  <2>5. DOMAIN u = ObjIds
    BY <2>1
  <2> HIDE DEF u, new, ended, obs
  <2>6. obs[o] = (IF task[t].pc = "resolving" THEN new ELSE ended) /\ \A x \in ObjIds \ {o} : obs[x] = u[x]
    BY <1>2, <2>4, <2>5
  <2> QED  BY ZenonT(60), <1>0, <1>2, <2>2, <2>3, <2>6 DEF u
<1> HIDE DEF q, obs
<1>6. /\ states' = states /\ task' = Cancel([task EXCEPT ![t] = q], stop)
      /\ \A d \in Conv : states[d] # None => objs'[states[d]] = obs[states[d]]
      /\ objs'[o] \in {obs[o], FreshObj}
  BY <1>2, <1>3, CommitEffect DEF OrderTyped
<1>7. /\ task'[t] \in {q, Idle}
      /\ \A u \in Tasks \ {t} : task'[u] = task[u] \/ (u = timer /\ timer # None /\ task'[u] = Idle
                                                        /\ task[t].pc = "resolving")
  BY <1>6 DEF Cancel, OrderTyped
<1>8. Buf(o)' = {} /\ objs'[o].timer \in {obs[o].timer, None}
  <2>1. FreshObj.buf = <<>> /\ FreshObj.timer = None /\ DOMAIN <<>> = {}
    BY DEF FreshObj
  <2>2. objs'[o].buf = <<>> /\ objs'[o].timer \in {obs[o].timer, None}
    BY <1>5, <1>6, <2>1
  <2> QED  BY <2>1, <2>2 DEF Buf
<1>9. Fits(t) /\ (t = "stop" => disposed)
  BY <1>1 DEF SyncInv, StopsDisposed
<1>10. states[c] = o \/ (states[c] = None /\ timer = None)
  BY <1>0, <1>1, <1>9 DEF Fits, InPlace, Working
<1>11. Calms(t)
  <2>1. ASSUME NEW d \in Conv, states[d] # None PROVE Eased(states[d])
    <3>1. states[d] \in ObjIds
      BY <2>1 DEF OrderTyped
    <3>2. CASE states[d] = o
      BY <1>0, <1>5, <1>6, <1>8, <2>1, <3>2 DEF Eased
    <3>3. CASE states[d] # o
      BY <1>5, <1>6, <2>1, <3>1, <3>3 DEF Eased, Buf
    <3> QED  BY <3>2, <3>3
  <2>2. ASSUME NEW u \in Tasks \ {t}, task'[u] # task[u] PROVE Stopped(u)
    <3>1. u = timer /\ timer # None /\ task'[u] = Idle /\ task[t].pc = "resolving" /\ states[c] = o
      BY <1>7, <1>10, <2>2
    <3>2. \A d \in Conv : \/ states'[d] = None
                          \/ /\ states'[d] = states[d]
                             /\ states[d] = o => objs'[o].timer = None
                             /\ states[d] # o => objs'[states[d]].timer = objs[states[d]].timer
      BY <1>2, <1>5, <1>6, <3>1 DEF OrderTyped
    <3> QED  BY <1>0, <1>1, <1>2, <3>1, <3>2, CancelStops
  <2>3. ASSUME NEW d \in Conv, Parked(d)' # {}, Attends(t, d) PROVE FALSE
    BY <1>0, <1>6, <1>8, <2>3 DEF Attends, Parked, Buf
  <2> QED  BY <1>1, <1>6, <1>9, <2>1, <2>2, <2>3 DEF Calms, SameSpot
<1>12. Fits(t)'
  <2>1. CASE task'[t] = Idle
    <3>1. Idle.o = None /\ Idle.pc = "idle"
      BY DEF Idle
    <3> QED  BY <2>1, <3>1 DEF Fits, LetsGo, InPlace, SweepKnows, ReportsEmpty, KnowsItsSite,
                FlushCovers, Working, Sweeping, Flushing, Handling
  <2>2. CASE task'[t] = q
    <3>1. LetsGo(t)' /\ ReportsEmpty(t)' /\ KnowsItsSite(t)' /\ SweepKnows(t)'
      BY <1>4, <1>8, <2>2 DEF LetsGo, ReportsEmpty, KnowsItsSite, OnObject, SweepKnows, Sweeping, Handling
    <3>2. InPlace(t)'
      BY ZenonT(60), <1>4, <1>5, <1>6, <1>8, <1>10, <2>2 DEF InPlace
    <3>3. FlushCovers(t)'
      <4>1. Flushing(q) => Flushing(task[t])
        BY <1>1, <1>4, <1>9 DEF Flushing, Handling, Fits, KnowsItsSite
      <4>2. \A d \in Conv : Parked(d)' \subseteq Parked(d)
        BY <1>6, <1>11 DEF Calms, Eased, Parked, Buf
      <4> QED  BY <1>0, <1>1, <1>4, <1>6, <1>9, <2>2, <4>1, <4>2 DEF Fits, FlushCovers
    <3> QED  BY <3>1, <3>2, <3>3 DEF Fits
  <2> QED  BY <1>7, <2>1, <2>2
<1>13. AckedIsHeld'
  <2>1. ASSUME NEW d \in Conv, NEW m \in Parked(d) PROVE m \in handed' \/ Held(m)'
    <3>1. states[d] # None /\ m \in Buf(states[d]) /\ states[d] \in ObjIds
      BY <2>1 DEF Parked, Buf, OrderTyped
    <3>2. CASE states[d] = o
      <4>1. Sweeping(task[t]) /\ InHand(task[t]) = {}
        BY <1>1 DEF Sweeping, InHand, Handling
      <4> QED  BY <1>0, <1>1, <1>9, <3>1, <3>2, <4>1 DEF Fits, SweepKnows
    <3>3. CASE states[d] # o
      <4>1. m \in Parked(d)'
        BY <1>5, <1>6, <3>1, <3>3 DEF Parked, Buf
      <4> QED  BY <4>1 DEF Held
    <3> QED  BY <3>2, <3>3
  <2> QED  BY <1>1, <2>1, StillHeld
<1> QED  BY <1>11, <1>12, <1>13, CalmStep
\* A conversation is forgotten only when nothing is left in it.
LEMMA CleanupEffect ==
    ASSUME NEW sts \in [Conv -> ObjIds \cup {None}], NEW c, NEW ob, NEW d \in Conv
    PROVE  \/ Cleanup(sts, c, ob)[d] = sts[d]
           \/ /\ Cleanup(sts, c, ob)[d] = None /\ d = c
              /\ ob.buf = <<>> /\ ob.timer = None /\ ~ob.fill
BY DEF Cleanup

LEMMA NothingBuffered == \A ob : ob.buf = <<>> => DOMAIN ob.buf = {}
<1>1. DOMAIN <<>> = {}
  OBVIOUS
<1> QED  BY <1>1

\* A task that is done with its conversation goes back to where it came from.
LEMMA HomeFits ==
    ASSUME NEW t \in Tasks, task'[t] = [Idle EXCEPT !.pc = Home(t)]
    PROVE  Fits(t)'
<1>1. task'[t].o = None /\ task'[t].pc \in {"row", "idle"}
  BY HomeIsAPlace DEF Idle
<1> QED  BY <1>1, OutsideFits

LEMMA NotifiedSync ==
    ASSUME ~AsyncHandlers, OrderTyped, OrderTyped', SyncInv, OneRuns', NEW t \in Tasks, Notified(t)
    PROVE  SyncInv'
<1>0. PICK o, c : o = task[t].o /\ c = task[t].c
  OBVIOUS
<1>1. /\ Runs(t) /\ task[t].pc = "notify"
      /\ UNCHANGED <<acked, handed>> /\ conn' = conn /\ disposed' = disposed
  BY DEF Notified, At, server, app, link
<1>2. /\ task[t] \in GoodTask /\ o \in ObjIds /\ c \in Conv /\ o # None
      /\ states \in [Conv -> ObjIds \cup {None}]
  BY <1>0, <1>1, IdentitiesAssumption DEF OrderTyped, GoodTask, Sound, OnObject
<1>3. Fits(t) /\ Buf(o) = {} /\ (t = "stop" => disposed) /\ Working(task[t])
  BY <1>0, <1>1 DEF SyncInv, StopsDisposed, Fits, ReportsEmpty, Working
<1>4. CASE task[t].site = "flushing"
  <2> DEFINE r == [Idle EXCEPT !.pc = "flush", !.work = task[t].work, !.owned = task[t].owned]
  <2>1. GoesOn(t, r)
    BY <1>4 DEF Notified, GoesOn
  <2>2. r.pc = "flush" /\ r.o = None /\ r.work = task[t].work
    BY DEF Idle
  <2> HIDE DEF r
  <2>3. Calms(t)
    BY <1>1, <1>3, <2>1, GoingOnCalms
  <2>4. /\ states' = states /\ task'[t] = r
        /\ \A d \in Conv : Parked(d)' = Parked(d)
    BY <2>1, GoesOnEffect
  <2>5. FlushCovers(t)'
    <3>1. Flushing(task[t])
      BY <1>1, <1>4 DEF Flushing
    <3>2. \A d \in Conv : Parked(d) # {} => states[d] # o
      BY <1>2, <1>3 DEF Parked, Buf
    <3> QED  BY <1>0, <1>1, <1>3, <2>2, <2>4, <3>1, <3>2 DEF Fits, FlushCovers
  <2>6. Fits(t)'
    BY <2>2, <2>4, <2>5 DEF Fits, LetsGo, InPlace, SweepKnows, ReportsEmpty, KnowsItsSite,
                            Working, Sweeping, Handling
  <2>7. AckedIsHeld'
    <3>1. \A d \in Conv : \A x \in Parked(d) : Held(x)'
      BY <2>4 DEF Held
    <3> QED  BY <1>1, <3>1, StillHeld
  <2> QED  BY <2>3, <2>6, <2>7, CalmStep
<1>5. CASE task[t].site # "flushing"
  <2> DEFINE r == [Idle EXCEPT !.pc = Home(t)]
             sts == Cleanup(states, c, objs[o])
             tsk == [task EXCEPT ![t] = r]
  <2>1. Commit(sts, tsk, objs)
    BY <1>0, <1>5 DEF Notified
  <2>2. \A d \in Conv : sts[d] = states[d] \/ (sts[d] = None /\ d = c)
    BY <1>2, CleanupEffect
  <2>3. tsk[t] = r /\ \A u \in Tasks \ {t} : tsk[u] = task[u]
    BY DEF OrderTyped
  <2> HIDE DEF sts, tsk
  <2>4. /\ states' = sts /\ task' = tsk
        /\ \A d \in Conv : sts[d] \in ObjIds => objs'[sts[d]] = objs[sts[d]]
    BY <2>1, CommitEffect
  <2>5. \A d \in Conv : \/ states'[d] = None /\ d = c
                        \/ states'[d] = states[d] /\ (states[d] # None => objs'[states[d]] = objs[states[d]])
    BY <1>2, <2>2, <2>4
  <2>6. Calms(t)
    <3>1. \A d \in Conv : states'[d] = None \/ (states'[d] = states[d] /\ Eased(states[d]))
      BY <2>5 DEF Eased, Buf
    <3>2. ASSUME NEW d \in Conv, Parked(d)' # {}, Attends(t, d) PROVE FALSE
      BY <1>0, <1>2, <1>3, <2>5, <3>2 DEF Attends, Parked, Buf
    <3> QED  BY <1>1, <1>3, <2>3, <2>4, <3>1, <3>2 DEF Calms, SameSpot
  <2>7. Fits(t)'
    <3>1. task'[t] = [Idle EXCEPT !.pc = Home(t)]
      BY <2>3, <2>4
    <3> QED  BY <3>1, HomeFits
  <2>8. AckedIsHeld'
    <3>1. Parked(c) = {}
      BY <1>0, <1>2, <1>3 DEF Fits, InPlace, Parked, Buf
    <3>2. \A d \in Conv : \A x \in Parked(d) : x \in Parked(d)'
      BY <1>2, <2>5, <3>1 DEF Parked
    <3>3. \A d \in Conv : \A x \in Parked(d) : Held(x)'
      BY <3>2 DEF Held
    <3> QED  BY <1>1, <3>3, StillHeld
  <2> QED  BY <2>6, <2>7, <2>8, CalmStep
<1> QED  BY <1>4, <1>5
----------------------------------------------------------------------------
(* The frames behind an in-order delivery *)

LEMMA ChainNextSync ==
    ASSUME ~AsyncHandlers, OrderTyped, OrderTyped', SyncInv, OneRuns', NEW t \in Tasks, ChainNext(t)
    PROVE  SyncInv'
<1>0. PICK o, c : o = task[t].o /\ c = task[t].c
  OBVIOUS
<1>1. /\ Runs(t) /\ task[t].pc \in {"inorder", "chained", "chain"}
      /\ UNCHANGED <<acked, handed>> /\ conn' = conn /\ disposed' = disposed
  BY DEF ChainNext, AtChain, server, app, link
<1>2. /\ task[t] \in GoodTask /\ o \in ObjIds /\ c \in Conv /\ objs[o] \in OrderState
      /\ states \in [Conv -> ObjIds \cup {None}] /\ None \notin ObjIds
  BY <1>0, <1>1, IdentitiesAssumption DEF OrderTyped, GoodTask, Sound, OnObject
<1>3. PICK m \in Buf(o) :
          Commit(states,
                 [task EXCEPT ![t] = Deliver(t, m, objs[o].buf[m], "chained", o)],
                 [objs EXCEPT ![o].next = NextInLine(t),
                              ![o].buf = [x \in DOMAIN @ \ {m} |-> @[x]]])
  BY <1>0 DEF ChainNext, InLine, Buf
<1> DEFINE r == Deliver(t, m, objs[o].buf[m], "chained", o)
           ob == [[objs[o] EXCEPT !.next = NextInLine(t)] EXCEPT !.buf = [x \in DOMAIN @ \ {m} |-> @[x]]]
           tsk == [task EXCEPT ![t] = r]
           obs == [objs EXCEPT ![o] = ob]
<1>4. Commit(states, tsk, obs)
  <2>1. [objs EXCEPT ![o].next = NextInLine(t), ![o].buf = [x \in DOMAIN @ \ {m} |-> @[x]]] = obs
    BY ZenonT(60), <1>2 DEF OrderTyped
  <2> QED  BY <1>3, <2>1
<1>5. Working(task[t]) /\ Fits(t) /\ (t = "stop" => disposed) /\ ~Sweeping(task[t])
  BY <1>1 DEF Working, Sweeping, Handling, SyncInv, StopsDisposed
<1>6. states[c] = o /\ ConvOf[m] = c
  BY <1>0, <1>3, <1>5, FrameOfPlace
<1>7. r.pc = "deliver" /\ r.site = "chained" /\ r.m = m /\ r.c = c /\ r.o = o
  BY <1>2, <1>6, Fields
<1>8. ob.timer = objs[o].timer /\ ob.fill = objs[o].fill /\ DOMAIN ob.buf = Buf(o) \ {m}
  BY <1>2 DEF OrderState, Buf
<1>9. /\ tsk[t] = r /\ \A u \in Tasks \ {t} : tsk[u] = task[u]
      /\ obs[o] = ob /\ \A x \in ObjIds \ {o} : obs[x] = objs[x]
  BY <1>2 DEF OrderTyped
<1> HIDE DEF r, ob, tsk, obs
<1>10. /\ states' = states /\ task'[t] = r /\ \A u \in Tasks \ {t} : task'[u] = task[u]
       /\ objs'[o] = ob /\ \A d \in Conv : states[d] \notin {None, o} => objs'[states[d]] = objs[states[d]]
  BY <1>2, <1>4, <1>6, <1>9, CommitEffect
<1>11. Calms(t)
  <2>1. \A d \in Conv : states'[d] = None \/ (states'[d] = states[d] /\ Eased(states[d]))
    BY <1>8, <1>10 DEF Eased, Buf
  <2>2. ASSUME NEW d \in Conv, Attends(t, d) PROVE Attends(t, d)'
    BY <1>0, <1>5, <1>7, <1>10, <2>2 DEF Attends
  <2> QED  BY <1>1, <1>5, <1>10, <2>1, <2>2 DEF Calms, SameSpot
<1>12. Fits(t)'
  <2>1. LetsGo(t)' /\ InPlace(t)'
    BY <1>6, <1>7, <1>10 DEF LetsGo, InPlace, OnObject, Handling
  <2>2. ~Sweeping(r) /\ ~Flushing(r) /\ r.pc \notin {"notify", "resolving", "closing"}
    BY <1>7 DEF Sweeping, Flushing, Handling
  <2> QED  BY <1>10, <2>1, <2>2 DEF Fits, SweepKnows, ReportsEmpty, KnowsItsSite, FlushCovers
<1>13. AckedIsHeld'
  <2>1. ASSUME NEW d \in Conv, NEW x \in Parked(d), x # m PROVE x \in Parked(d)'
    BY <1>8, <1>10, <2>1 DEF Parked, Buf
  <2>2. Held(m)'
    BY <1>7, <1>10 DEF Held
  <2>3. \A d \in Conv : \A x \in Parked(d) : Held(x)'
    BY <2>1, <2>2 DEF Held
  <2> QED  BY <1>1, <2>3, StillHeld
<1> QED  BY <1>11, <1>12, <1>13, CalmStep

\* The gap fill has handed over what was in line and turns to the rest.
LEMMA ChainToResolveSync ==
    ASSUME ~AsyncHandlers, OrderTyped, OrderTyped', SyncInv, OneRuns', NEW t \in GapTasks, ChainEnd(t)
    PROVE  SyncInv'
<1>t. t \in Tasks /\ t # "stop"
  BY IdentitiesAssumption DEF Tasks
<1>0. PICK o, c : o = task[t].o /\ c = task[t].c
  OBVIOUS
<1>1. /\ Runs(t) /\ task[t].pc \in {"inorder", "chained", "chain"}
      /\ UNCHANGED <<acked, handed>> /\ conn' = conn /\ disposed' = disposed
  BY DEF ChainEnd, AtChain, server, app, link
<1>2. /\ task[t] \in GoodTask /\ o \in ObjIds /\ c \in Conv /\ objs[o] \in OrderState
      /\ states \in [Conv -> ObjIds \cup {None}] /\ None \notin ObjIds
  BY <1>t, <1>0, <1>1, IdentitiesAssumption DEF OrderTyped, GoodTask, Sound, OnObject
<1> DEFINE drained == task[t].pc = "chained"
           ob == [objs[o] EXCEPT !.next = NextInLine(t)]
           r == Resolve(t, c, o, ob, drained)
           sts == IF drained THEN Cleanup(states, c, ob) ELSE states
           tsk == [task EXCEPT ![t] = r]
           obs == [objs EXCEPT ![o] = ob]
<1>3. Commit(sts, tsk, obs)
  BY <1>0 DEF ChainEnd
<1>4. Working(task[t]) /\ Fits(t)
  BY <1>t, <1>1 DEF Working, SyncInv
<1>6. ob.buf = objs[o].buf /\ ob.timer = objs[o].timer /\ ob.fill = objs[o].fill
  BY <1>2 DEF OrderState
<1> HIDE DEF ob
<1>5. r.pc = "resolving" /\ r.site = "resolving" /\ r.c = c /\ r.o = o /\ r.todo = DOMAIN ob.buf
  BY <1>t, <1>2, Fields
<1> HIDE DEF r
<1>7. /\ tsk[t] = r /\ \A u \in Tasks \ {t} : tsk[u] = task[u]
      /\ obs[o] = ob /\ \A x \in ObjIds \ {o} : obs[x] = objs[x]
  BY <1>t, <1>2 DEF OrderTyped
<1>8. \A d \in Conv : \/ sts[d] = states[d]
                      \/ sts[d] = None /\ d = c /\ ob.buf = <<>> /\ ob.timer = None
  <2>1. CASE drained
    BY <1>2, <2>1, CleanupEffect
  <2>2. CASE ~drained
    BY <2>2
  <2> QED  BY <2>1, <2>2
<1> HIDE DEF tsk, obs, sts
<1>9. /\ states' = sts /\ task'[t] = r /\ \A u \in Tasks \ {t} : task'[u] = task[u]
      /\ objs'[o] = ob /\ \A d \in Conv : sts[d] \in ObjIds => objs'[sts[d]] = obs[sts[d]]
  BY <1>t, <1>2, <1>3, <1>5, <1>7, CommitEffect
<1>10. Buf(o)' = Buf(o) /\ objs'[o].timer = objs[o].timer
  BY <1>6, <1>9 DEF Buf
<1>11. Calms(t)
  <2>1. ASSUME NEW d \in Conv, states'[d] # None PROVE states'[d] = states[d] /\ Eased(states[d])
    <3>1. states'[d] = states[d] /\ states[d] \in ObjIds /\ objs'[states[d]] = obs[states[d]]
      BY <1>2, <1>8, <1>9, <2>1
    <3> QED  BY <1>6, <1>7, <3>1 DEF Eased, Buf
  <2>2. ASSUME NEW d \in Conv, Parked(d)' # {}, Attends(t, d) PROVE Attends(t, d)'
    <3>1. states'[d] = states[d]
      BY <2>1, <2>2 DEF Parked
    <3> QED  BY <1>0, <1>5, <1>9, <2>2, <3>1 DEF Attends
  <2> QED  BY <1>t, <1>1, <1>9, <2>1, <2>2 DEF Calms, SameSpot
<1>12. Fits(t)'
  <2>1. LetsGo(t)'
    BY <1>5, <1>9 DEF LetsGo, OnObject
  <2>2. InPlace(t)'
    <3>1. states[c] = o \/ (states[c] = None /\ Buf(o) = {} /\ objs[o].timer = None)
      BY <1>0, <1>4 DEF Fits, InPlace
    <3>2. ob.buf = <<>> => Buf(o) = {}
      BY <1>6, NothingBuffered DEF Buf
    <3> QED  BY <1>2, <1>5, <1>6, <1>8, <1>9, <1>10, <3>1, <3>2 DEF InPlace
  <2>3. SweepKnows(t)'
    BY <1>5, <1>9 DEF SweepKnows, Buf
  <2>4. ~Flushing(r) /\ r.pc # "notify" /\ KnowsItsSite(t)'
    BY <1>5, <1>9 DEF Flushing, Handling, KnowsItsSite
  <2> QED  BY <1>9, <2>1, <2>2, <2>3, <2>4 DEF Fits, ReportsEmpty, FlushCovers
<1>13. AckedIsHeld'
  <2>1. ASSUME NEW d \in Conv, NEW x \in Parked(d) PROVE x \in Parked(d)'
    <3>1. states[d] # None /\ x \in Buf(states[d])
      BY <2>1 DEF Parked, Buf
    <3>2. sts[d] = states[d]
      <4>1. states[c] = o \/ states[c] = None
        BY <1>0, <1>4 DEF Fits, InPlace
      <4> QED  BY <1>6, <1>8, <3>1, <4>1, NothingBuffered DEF Buf
    <3>3. Buf(states[d])' = Buf(states[d])
      BY <1>2, <1>6, <1>7, <1>9, <3>1, <3>2 DEF Buf
    <3> QED  BY <1>9, <3>1, <3>2, <3>3 DEF Parked, Buf
  <2>2. \A d \in Conv : \A x \in Parked(d) : Held(x)'
    BY <2>1 DEF Held
  <2> QED  BY <1>t, <1>1, <2>2, StillHeld
<1> QED  BY <1>t, <1>11, <1>12, <1>13, CalmStep
\* A router has handed over what was in line; a timer it needs no more goes.
LEMMA ChainHomeSync ==
    ASSUME ~AsyncHandlers, OrderTyped, OrderTyped', SyncInv, OneRuns', NEW t \in Tasks \ GapTasks,
           ChainEnd(t)
    PROVE  SyncInv'
<1>0. PICK o, c, timer : o = task[t].o /\ c = task[t].c /\ timer = objs[o].timer
  OBVIOUS
<1>1. /\ Runs(t) /\ task[t].pc \in {"inorder", "chained", "chain"}
      /\ UNCHANGED <<acked, handed>> /\ conn' = conn /\ disposed' = disposed
  BY DEF ChainEnd, AtChain, server, app, link
<1>2. /\ task[t] \in GoodTask /\ o \in ObjIds /\ c \in Conv /\ objs[o] \in OrderState
      /\ timer \in GapTasks \cup {None}
      /\ states \in [Conv -> ObjIds \cup {None}] /\ None \notin ObjIds
  BY <1>0, <1>1, IdentitiesAssumption DEF OrderTyped, GoodTask, Sound, OnObject, OrderState
<1> DEFINE ob == [objs[o] EXCEPT !.next = NextInLine(t)]
           stop == IF ob.buf = <<>> /\ ob.timer # None THEN {ob.timer} ELSE {}
           calm == IF stop = {} THEN ob ELSE [ob EXCEPT !.timer = None, !.started = 0]
           r == [Idle EXCEPT !.pc = Home(t)]
           tsk == Cancel([task EXCEPT ![t] = r], stop)
           obs == [Unfill(objs, stop) EXCEPT ![o] = calm]
           sts == Cleanup(states, c, calm)
<1>3. Commit(sts, tsk, obs)
  BY <1>0 DEF ChainEnd
<1>4. Working(task[t]) /\ Fits(t) /\ (t = "stop" => disposed) /\ ~Sweeping(task[t])
  BY <1>1 DEF Working, Sweeping, Handling, SyncInv, StopsDisposed
<1>5. ob.buf = objs[o].buf /\ ob.timer = timer /\ ob.fill = objs[o].fill
  BY <1>0, <1>2 DEF OrderState
<1>6. stop = IF objs[o].buf = <<>> /\ timer # None THEN {timer} ELSE {}
  BY <1>5
<1>7. /\ calm.buf = objs[o].buf /\ calm.fill = objs[o].fill
      /\ calm.timer = IF stop = {} THEN timer ELSE None
  BY <1>0, <1>2 DEF OrderState
<1>8. \A d \in Conv : sts[d] = states[d] \/ (sts[d] = None /\ d = c /\ objs[o].buf = <<>>)
  <2> HIDE DEF calm
  <2> QED  BY <1>2, <1>7, CleanupEffect
<1>9. /\ tsk[t] = r
      /\ \A u \in Tasks \ {t} : tsk[u] = task[u] \/ (u = timer /\ stop = {timer} /\ tsk[u] = Idle)
  <2>1. stop \in {{}, {timer}} /\ (stop = {timer} => timer \in GapTasks)
    BY <1>2, <1>6
  <2> HIDE DEF r, stop
  <2> QED  BY <2>1 DEF Cancel, OrderTyped
<1>10. /\ obs[o] = calm
       /\ \A x \in ObjIds \ {o} : /\ obs[x].buf = objs[x].buf /\ obs[x].timer = objs[x].timer
                                  /\ obs[x].fill => objs[x].fill
  <2>1. DOMAIN Unfill(objs, stop) = ObjIds
    BY DEF Unfill
  <2>2. \A x \in ObjIds : /\ Unfill(objs, stop)[x].buf = objs[x].buf
                          /\ Unfill(objs, stop)[x].timer = objs[x].timer
                          /\ Unfill(objs, stop)[x].fill => objs[x].fill
    BY UnfillEffect
  <2> HIDE DEF calm, stop
  <2> QED  BY <1>2, <2>1, <2>2
<1> HIDE DEF stop, calm, r, tsk, obs, sts
<1>11. /\ states' = sts /\ task' = tsk
       /\ \A d \in Conv : sts[d] \in ObjIds => objs'[sts[d]] = obs[sts[d]]
  BY <1>3, CommitEffect
<1>12. \A d \in Conv : states'[d] # None => /\ states'[d] = states[d] /\ states[d] \in ObjIds
                                            /\ objs'[states[d]] = obs[states[d]]
  BY <1>2, <1>8, <1>11
<1>13. Calms(t)
  <2>1. ASSUME NEW d \in Conv, states'[d] # None PROVE states'[d] = states[d] /\ Eased(states[d])
    <3>1. CASE states[d] = o
      <4>1. stop # {} => Buf(states[d])' = {}
        BY <1>6, <1>7, <1>10, <1>12, <2>1, <3>1, NothingBuffered DEF Buf
      <4> QED  BY <1>0, <1>7, <1>10, <1>12, <2>1, <3>1, <4>1 DEF Eased, Buf
    <3>2. CASE states[d] # o
      BY <1>10, <1>12, <2>1, <3>2 DEF Eased, Buf
    <3> QED  BY <3>1, <3>2
  <2>2. ASSUME NEW u \in Tasks \ {t}, task'[u] # task[u] PROVE Stopped(u)
    <3>1. u = timer /\ timer # None /\ task'[u] = Idle /\ stop = {timer}
      BY <1>6, <1>9, <1>11, <2>2
    <3>2. states[c] = o
      BY <1>0, <1>4, <3>1 DEF Fits, InPlace
    <3>3. \A d \in Conv : \/ states'[d] = None
                          \/ /\ states'[d] = states[d]
                             /\ states[d] = o => objs'[o].timer = None
                             /\ states[d] # o => objs'[states[d]].timer = objs[states[d]].timer
      BY <1>7, <1>10, <1>12, <3>1
    <3> QED  BY <1>0, <1>1, <1>2, <3>1, <3>2, <3>3, CancelStops
  <2>3. ASSUME NEW d \in Conv, Attends(t, d) PROVE FALSE
    BY <1>4, <2>3 DEF Attends
  <2> QED  BY <1>1, <1>4, <2>1, <2>2, <2>3 DEF Calms, SameSpot
<1>14. Fits(t)'
  BY <1>9, <1>11, HomeFits DEF r
<1>15. AckedIsHeld'
  <2>1. ASSUME NEW d \in Conv, NEW x \in Parked(d) PROVE x \in Parked(d)'
    <3>1. states[d] # None /\ x \in Buf(states[d])
      BY <2>1 DEF Parked, Buf
    <3>2. sts[d] = states[d]
      <4>1. states[c] = o \/ states[c] = None
        BY <1>0, <1>4 DEF Fits, InPlace
      <4> QED  BY <1>8, <3>1, <4>1, NothingBuffered DEF Buf
    <3>3. Buf(states[d])' = Buf(states[d])
      BY <1>2, <1>7, <1>10, <1>11, <1>12, <3>1, <3>2 DEF Buf
    <3> QED  BY <1>11, <3>1, <3>2, <3>3 DEF Parked, Buf
  <2>2. \A d \in Conv : \A x \in Parked(d) : Held(x)'
    BY <2>1 DEF Held
  <2> QED  BY <1>1, <2>2, StillHeld
<1> QED  BY <1>13, <1>14, <1>15, CalmStep
----------------------------------------------------------------------------
(* The flush of a closing client *)

LEMMA FlushConversationSync ==
    ASSUME ~AsyncHandlers, OrderTyped, OrderTyped', SyncInv, OneRuns', NEW t \in Tasks,
           FlushConversation(t)
    PROVE  SyncInv'
<1>1. /\ Runs(t) /\ task[t].pc = "flush"
      /\ UNCHANGED <<acked, handed>> /\ conn' = conn /\ disposed' = disposed
  BY DEF FlushConversation, At, server, app, link
<1>2. /\ task[t] \in GoodTask /\ task[t].work \in SUBSET (Conv \X ObjIds)
      /\ states \in [Conv -> ObjIds \cup {None}] /\ None \notin ObjIds
  BY IdentitiesAssumption DEF OrderTyped, GoodTask, TaskState
<1>3. PICK w \in task[t].work :
        LET o == w[2]
            ob == [objs[o] EXCEPT !.timer = None]
            stop == {objs[o].timer} \ {None}
            rest == [task[t] EXCEPT !.work = @ \ {w}]
        IN
        Commit(states,
                  Cancel([task EXCEPT ![t] =
                      IF ob.buf = <<>> THEN rest
                      ELSE [rest EXCEPT !.pc = "flushing", !.c = w[1], !.o = o,
                                        !.todo = DOMAIN ob.buf, !.high = ob.next - 1, !.rec = FALSE,
                                        !.exp = IF ob.started # 0 THEN ob.started ELSE ob.next]],
                      stop),
                  [Unfill(objs, stop) EXCEPT ![o].timer = None])
  BY DEF FlushConversation
<1>4. PICK c, o, timer : c = w[1] /\ o = w[2] /\ timer = objs[o].timer /\ w = <<c, o>>
  BY <1>2, <1>3
<1>5. c \in Conv /\ o \in ObjIds /\ objs[o] \in OrderState /\ timer \in GapTasks \cup {None}
  BY <1>2, <1>3, <1>4 DEF OrderTyped, OrderState
<1>6. /\ Flushing(task[t]) /\ Fits(t) /\ states[c] = o /\ task[t].o = None
      /\ (t = "recv" /\ conn = "closing") \/ (t = "stop" /\ disposed)
  <2>1. Flushing(task[t]) /\ Fits(t) /\ ~OnObject(task[t])
    BY <1>1 DEF Flushing, SyncInv, OnObject, Handling
  <2> QED  BY <1>3, <1>4, <2>1 DEF Fits, FlushCovers, LetsGo
<1> DEFINE ob == [objs[o] EXCEPT !.timer = None]
           stop == {timer} \ {None}
           rest == [task[t] EXCEPT !.work = @ \ {w}]
           sweep == [rest EXCEPT !.pc = "flushing", !.c = c, !.o = o,
                                 !.todo = DOMAIN ob.buf, !.high = ob.next - 1, !.rec = FALSE,
                                 !.exp = IF ob.started # 0 THEN ob.started ELSE ob.next]
           r == IF ob.buf = <<>> THEN rest ELSE sweep
           tsk == Cancel([task EXCEPT ![t] = r], stop)
           obs == [Unfill(objs, stop) EXCEPT ![o].timer = None]
<1>7. Commit(states, tsk, obs)
  BY <1>3, <1>4
<1>8. ob.buf = objs[o].buf
  BY <1>5 DEF OrderState
<1>9. \/ /\ r.pc = "flush" /\ r.o = None /\ r.work = task[t].work \ {w} /\ Buf(o) = {}
      \/ /\ r.pc = "flushing" /\ r.c = c /\ r.o = o /\ r.todo = Buf(o)
         /\ r.work = task[t].work \ {w}
  <2>1. rest.pc = "flush" /\ rest.o = None /\ rest.work = task[t].work \ {w}
    BY <1>1, <1>2, <1>6 DEF GoodTask, TaskState
  <2>2. /\ sweep.pc = "flushing" /\ sweep.c = c /\ sweep.o = o
        /\ sweep.todo = DOMAIN ob.buf /\ sweep.work = task[t].work \ {w}
    <3> HIDE DEF ob
    <3> QED  BY <1>2 DEF GoodTask, TaskState
  <2> HIDE DEF rest, sweep, ob
  <2> QED  BY <1>8, <2>1, <2>2, NothingBuffered DEF Buf
<1>10. /\ tsk[t] = r
       /\ \A u \in Tasks \ {t} : tsk[u] = task[u] \/ (u = timer /\ timer # None /\ tsk[u] = Idle)
  <2>1. stop \subseteq {timer} \ {None} /\ t \notin stop
    BY <1>5, <1>6, IdentitiesAssumption
  <2> HIDE DEF r, stop
  <2> QED  BY <2>1 DEF Cancel, OrderTyped
<1>11. /\ obs[o].buf = objs[o].buf /\ obs[o].timer = None
       /\ obs[o].fill => objs[o].fill
       /\ \A x \in ObjIds \ {o} : /\ obs[x].buf = objs[x].buf /\ obs[x].timer = objs[x].timer
                                  /\ obs[x].fill => objs[x].fill
  <2> DEFINE u == Unfill(objs, stop)
  <2>1. DOMAIN u = ObjIds /\ u[o] \in OrderState
    <3>1. \A x \in ObjIds : objs[x] \in OrderState
      BY DEF OrderTyped
    <3> QED  BY <1>5, <3>1, UnfillTyped DEF Unfill
  <2>2. \A x \in ObjIds : /\ u[x].buf = objs[x].buf /\ u[x].timer = objs[x].timer
                          /\ u[x].fill => objs[x].fill
    BY UnfillEffect
  <2>3. obs = [u EXCEPT ![o] = [u[o] EXCEPT !.timer = None]]
    OBVIOUS
  <2> HIDE DEF u, obs
  <2> DEFINE q == [u[o] EXCEPT !.timer = None]
  <2>4. q.buf = u[o].buf /\ q.timer = None /\ q.fill = u[o].fill
    BY <2>1 DEF OrderState
  <2>5. obs[o] = q /\ \A x \in ObjIds \ {o} : obs[x] = u[x]
    BY <1>5, <2>1, <2>3
  <2> HIDE DEF q
  <2> QED  BY <1>5, <2>2, <2>4, <2>5
<1> HIDE DEF ob, stop, r, tsk, obs
<1>12. /\ states' = states /\ task' = tsk
       /\ \A d \in Conv : states[d] # None => states[d] \in ObjIds /\ objs'[states[d]] = obs[states[d]]
  BY <1>2, <1>7, CommitEffect
<1>13. objs'[o] = obs[o] /\ Buf(o)' = Buf(o) /\ \A d \in Conv : Parked(d)' = Parked(d)
  BY <1>5, <1>6, <1>11, <1>12, IdentitiesAssumption DEF Buf, Parked
<1>14. Calms(t)
  <2>1. ASSUME NEW d \in Conv, states[d] # None PROVE Eased(states[d])
    BY <1>1, <1>6, <1>11, <1>12, <2>1 DEF Eased, Buf
  <2>2. ASSUME NEW u \in Tasks \ {t}, task'[u] # task[u] PROVE Stopped(u)
    <3>1. u = timer /\ timer # None /\ task'[u] = Idle
      BY <1>10, <1>12, <2>2
    <3>2. \A d \in Conv : \/ states'[d] = None
                          \/ /\ states'[d] = states[d]
                             /\ states[d] = o => objs'[o].timer = None
                             /\ states[d] # o => objs'[states[d]].timer = objs[states[d]].timer
      BY <1>11, <1>12
    <3> QED  BY <1>1, <1>4, <1>5, <1>6, <3>1, <3>2, CancelStops
  <2>3. ASSUME NEW d \in Conv, Parked(d)' # {}, Attends(t, d) PROVE FALSE
    BY <1>6, <1>12, <2>3 DEF Attends, Parked
  <2> QED  BY <1>1, <1>6, <1>12, <2>1, <2>2, <2>3 DEF Calms, SameSpot
<1>15. Fits(t)'
  <2>1. task'[t] = r
    BY <1>10, <1>12
  <2>2. FlushCovers(t)'
    <3>1. \A d \in Conv : Parked(d) # {} => <<d, states[d]>> \in task[t].work
      <4>1. \A d \in Conv : Parked(d) # {} => states[d] # None
        BY DEF Parked
      <4> QED  BY <1>6, <4>1 DEF Fits, FlushCovers
    <3>2. ASSUME NEW d \in Conv, Parked(d)' # {}
          PROVE  <<d, states'[d]>> \in r.work \/ states'[d] = r.o
      <4>1. <<d, states[d]>> \in task[t].work /\ states'[d] = states[d]
        BY <1>12, <1>13, <3>1, <3>2
      <4>2. CASE <<d, states[d]>> = w
        <5>1. d = c /\ states[d] = o /\ Buf(o) # {}
          BY <1>4, <1>12, <1>13, <3>2, <4>2 DEF Parked, Buf
        <5> QED  BY <1>9, <4>1, <5>1
      <4>3. CASE <<d, states[d]>> # w
        BY <1>9, <4>1, <4>3
      <4> QED  BY <4>2, <4>3
    <3>3. \A v \in r.work : states'[v[1]] = v[2]
      BY <1>6, <1>9, <1>12 DEF Fits, FlushCovers
    <3> QED  BY <1>1, <1>6, <2>1, <3>2, <3>3 DEF FlushCovers
  <2>3. CASE r.pc = "flush"
    <3>1. r.o = None /\ ~Working(r) /\ ~Sweeping(r)
      BY <1>9, <2>3 DEF Working, Sweeping, Handling
    <3> QED  BY <2>1, <2>2, <2>3, <3>1 DEF Fits, LetsGo, InPlace, SweepKnows, ReportsEmpty, KnowsItsSite
  <2>4. CASE r.pc = "flushing"
    <3>1. OnObject(r) /\ r.c = c /\ r.o = o /\ r.todo = Buf(o) /\ InHand(r) = {}
      BY <1>9, <2>4 DEF OnObject, InHand, Handling
    <3>2. SweepKnows(t)'
      BY <1>13, <2>1, <3>1 DEF SweepKnows
    <3>3. InPlace(t)'
      BY <1>6, <1>12, <2>1, <3>1 DEF InPlace
    <3> QED  BY <2>1, <2>2, <2>4, <3>1, <3>2, <3>3 DEF Fits, LetsGo, ReportsEmpty, KnowsItsSite
  <2> QED  BY <1>9, <2>3, <2>4
<1>16. AckedIsHeld'
  <2>1. \A d \in Conv : \A x \in Parked(d) : Held(x)'
    BY <1>13 DEF Held
  <2> QED  BY <1>1, <2>1, StillHeld
<1> QED  BY <1>14, <1>15, <1>16, CalmStep
LEMMA FlushEndSync ==
    ASSUME ~AsyncHandlers, OrderTyped, OrderTyped', SyncInv, OneRuns', NEW t \in Tasks, FlushEnd(t)
    PROVE  SyncInv'
<1>1. /\ Runs(t) /\ task[t].pc = "flush" /\ task[t].work = {}
      /\ UNCHANGED <<acked, handed>> /\ disposed' = disposed
  BY DEF FlushEnd, At, server, app
<1>2. /\ task[t] \in GoodTask /\ states \in [Conv -> ObjIds \cup {None}] /\ task \in [Tasks -> GoodTask]
  BY DEF OrderTyped
<1>3. Fits(t) /\ Flushing(task[t]) /\ task[t].o = None
      /\ ((t = "recv" /\ conn = "closing") \/ (t = "stop" /\ disposed))
  <2>1. Flushing(task[t]) /\ Fits(t) /\ ~OnObject(task[t])
    BY <1>1 DEF Flushing, SyncInv, OnObject, Handling
  <2> QED  BY <2>1 DEF Fits, FlushCovers, LetsGo
<1>4. \A c \in Conv : Parked(c) = {}
  BY <1>1, <1>3 DEF Fits, FlushCovers, Parked
<1> DEFINE none == [c \in Conv |-> None]
           r == IF t = "recv" THEN Idle ELSE [task[t] EXCEPT !.pc = "leaving"]
           tsk == [task EXCEPT ![t] = r]
<1>5. Commit(none, tsk, objs) /\ (conn' = conn \/ t = "recv")
  <2>1. [task EXCEPT ![t].pc = "leaving"] = [task EXCEPT ![t] = [task[t] EXCEPT !.pc = "leaving"]]
    BY <1>2
  <2> QED  BY <2>1 DEF FlushEnd
<1>6. r.pc \in {"idle", "leaving"} /\ r.o = None
  BY <1>2, <1>3, Fields
<1>7. tsk[t] = r /\ \A u \in Tasks \ {t} : tsk[u] = task[u]
  BY <1>2
<1> HIDE DEF r, tsk
<1>8. /\ \A c \in Conv : states'[c] = None /\ Parked(c)' = {}
      /\ task'[t] = r /\ \A u \in Tasks \ {t} : task'[u] = task[u]
  BY <1>5, <1>7, CommitEffect DEF Parked
<1>9. Calms(t)
  BY <1>1, <1>3, <1>8 DEF Calms, SameSpot
<1>10. Fits(t)'
  BY <1>6, <1>8, OutsideFits
<1>11. AckedIsHeld'
  BY <1>1, <1>4, StillHeld
<1> QED  BY <1>9, <1>10, <1>11, CalmStep

----------------------------------------------------------------------------
(* The socket *)

\* Steps of which the ordering layer sees nothing
LEMMA OrderUntouched ==
    ASSUME ~AsyncHandlers, SyncInv, UNCHANGED <<order, disposed>>, handed \subseteq handed',
           acked' \subseteq acked \cup handed',
           \/ conn' = conn
           \/ conn # "closing" /\ \A t \in Tasks : task[t].pc \in Waiting
    PROVE  SyncInv'
<1>1. /\ states' = states /\ objs' = objs /\ task' = task /\ disposed' = disposed
      /\ \A c \in Conv : Parked(c)' = Parked(c)
  BY DEF order, Parked
<1>2. \A t \in Tasks : Fits(t)'
  <2> SUFFICES ASSUME NEW t \in Tasks PROVE Fits(t)'
    OBVIOUS
  <2>1. LetsGo(t)' /\ InPlace(t)' /\ SweepKnows(t)' /\ ReportsEmpty(t)'
    BY <1>1 DEF SyncInv, Fits, LetsGo, InPlace, SweepKnows, ReportsEmpty, Buf
  <2>2. KnowsItsSite(t)' /\ FlushCovers(t)'
    <3>1. CASE conn' = conn
      BY <1>1, <3>1 DEF SyncInv, Fits, KnowsItsSite, FlushCovers
    <3>2. CASE task[t].pc \in Waiting
      <4>1. ~Flushing(task[t]) /\ task[t].pc \notin {"resolving", "closing"}
        BY <3>2, AwayFromOrder, WhereTasksWait
      <4> QED  BY <1>1, <4>1 DEF KnowsItsSite, FlushCovers
    <3> QED  BY <3>1, <3>2
  <2> QED  BY <2>1, <2>2 DEF Fits
<1>3. OneRuns' /\ OneEach' /\ OwnFrames' /\ ClocksRun' /\ StopsDisposed'
  BY <1>1 DEF SyncInv, OneRuns, OneEach, OwnFrames, ClocksRun, TimerLives, FillLives, Armed,
              Fetching, StopsDisposed
<1>4. Watched'
  <2>1. ~disposed' /\ conn' # "closing" => ~disposed /\ conn # "closing"
    BY <1>1
  <2>2. \A c \in Conv : \A t \in Tasks : Attends(t, c) => Attends(t, c)'
    BY <1>1 DEF Attends
  <2> QED  BY <1>1, <2>1, <2>2 DEF SyncInv, Watched
<1>5. AckedIsHeld'
  <2>1. \A m : Held(m) => Held(m)'
    BY <1>1 DEF Held
  <2> QED  BY <2>1 DEF SyncInv, AckedIsHeld
<1> QED  BY <1>2, <1>3, <1>4, <1>5 DEF SyncInv

LEMMA GoneHomeSync ==
    ASSUME ~AsyncHandlers, OrderTyped, OrderTyped', SyncInv, OneRuns', NEW t \in Tasks, NEW r,
           GoesOn(t, r), Runs(t), task[t].pc \notin {"asleep", "fetch"}, ~OnObject(task[t]),
           conn' = conn \/ conn' = "closing" \/ (conn = "down" /\ conn' = "up"),
           disposed' = disposed, t = "stop" => disposed, r.o = None,
           \/ r.pc \in {"idle", "row", "sync", "check", "syncack", "leaving", "failed"}
           \/ r.pc = "closing" /\ conn' = "closing"
           \/ r.pc = "deliver" /\ r.site \in {"idle", "row"},
           handed \subseteq handed',
           \A m : task[t].pc = "deliver" /\ m = task[t].m => m \in handed',
           AckOnReceipt => \A m \in acked' : m \in acked \/ m \in handed' \/ Held(m)'
    PROVE  SyncInv'
<1>1. /\ states' = states /\ task'[t] = r
      /\ \A u \in Tasks \ {t} : task'[u] = task[u]
      /\ \A c \in Conv : states[c] # None => objs'[states[c]] = objs[states[c]]
      /\ \A c \in Conv : Parked(c)' = Parked(c)
  BY GoesOnEffect
<1>2. Calms(t)
  <2>1. \A c \in Conv : states'[c] = None \/ (states'[c] = states[c] /\ Eased(states[c]))
    BY <1>1 DEF Eased, Buf
  <2>2. \A c \in Conv : Parked(c)' # {} => ~Attends(t, c)
    BY <1>1 DEF Attends, SyncInv, Fits, LetsGo, Parked
  <2> QED  BY <1>1, <2>1, <2>2 DEF Calms, SameSpot
<1>3. Fits(t)'
  BY <1>1, OutsideFits DEF Handling
<1>4. AckedIsHeld'
  <2>1. \A d \in Conv : \A x \in Parked(d) : Held(x)'
    BY <1>1 DEF Held
  <2> QED  BY <2>1, StillHeld
<1> QED  BY <1>2, <1>3, <1>4, CalmStep

LEMMA ConnectSync ==
    ASSUME ~AsyncHandlers, OrderTyped, OrderTyped', SyncInv, OneRuns', Connect
    PROVE  SyncInv'
<1>1. /\ conn = "down" /\ conn' = "up" /\ disposed' = disposed /\ acked' = acked /\ handed' = handed
      /\ \A t \in Tasks : task[t].pc \in Waiting
  BY DEF Connect, server
<1>2. CASE UNCHANGED order
  BY <1>1, <1>2, OrderUntouched
<1>3. CASE task["drain"].pc = "idle" /\ Commit(states, [task EXCEPT !["drain"].pc = "sync"], objs)
  <2> DEFINE r == [task["drain"] EXCEPT !.pc = "sync"]
  <2>1. "drain" \in Tasks /\ "drain" # "stop" /\ task["drain"] \in GoodTask
    BY DEF Tasks, OrderTyped
  <2>2. GoesOn("drain", r)
    <3>1. [task EXCEPT !["drain"].pc = "sync"] = [task EXCEPT !["drain"] = r]
      BY <2>1 DEF OrderTyped
    <3> QED  BY <1>3, <3>1 DEF GoesOn
  <2>3. ~OnObject(task["drain"]) /\ task["drain"].o = None
    BY <1>3, <2>1 DEF OnObject, Handling, SyncInv, Fits, LetsGo
  <2>4. r.pc = "sync" /\ r.o = None
    BY <2>1, <2>3, Fields
  <2> HIDE DEF r
  <2>5. Runs("drain")
    BY <1>1 DEF Runs
  <2> QED  BY <1>1, <1>3, <2>1, <2>2, <2>3, <2>4, <2>5, GoneHomeSync
<1> QED  BY <1>2, <1>3 DEF Connect

LEMMA SocketClosesSync ==
    ASSUME ~AsyncHandlers, OrderTyped, OrderTyped', SyncInv, OneRuns', SocketCloses
    PROVE  SyncInv'
<1>1. /\ conn' = "closing" /\ disposed' = disposed /\ acked' = acked /\ handed' = handed
      /\ task["recv"].pc = "idle" /\ Runs("recv")
      /\ GoesOn("recv", [Idle EXCEPT !.pc = "closing"])
  BY WhereTasksWait DEF SocketCloses, At, server, app, GoesOn
<1>2. "recv" \in Tasks /\ "recv" # "stop" /\ ~OnObject(task["recv"])
  BY <1>1 DEF Tasks, OnObject, Handling
<1> DEFINE r == [Idle EXCEPT !.pc = "closing"]
<1>3. r.pc = "closing" /\ r.o = None
  BY DEF Idle
<1> HIDE DEF r
<1> QED  BY <1>1, <1>2, <1>3, GoneHomeSync DEF r
LEMMA CloseOrderStateSync ==
    ASSUME ~AsyncHandlers, OrderTyped, OrderTyped', SyncInv, OneRuns', CloseOrderState
    PROVE  SyncInv'
<1>1. /\ Runs("recv") /\ task["recv"].pc = "closing" /\ "recv" \in Tasks /\ "recv" # "stop"
      /\ UNCHANGED <<acked, handed>> /\ disposed' = disposed
  BY DEF CloseOrderState, At, server, app, Tasks
<1>2. /\ task["recv"] \in GoodTask /\ states \in [Conv -> ObjIds \cup {None}]
      /\ task \in [Tasks -> GoodTask] /\ None \notin ObjIds
  BY <1>1, IdentitiesAssumption DEF OrderTyped
<1>3. conn = "closing" /\ ~OnObject(task["recv"]) /\ task["recv"].o = None
  BY <1>1 DEF SyncInv, Fits, KnowsItsSite, LetsGo, OnObject, Handling
<1>4. CASE AckOnReceipt
  <2> DEFINE r == Flush("recv")
  <2>1. GoesOn("recv", r) /\ conn' = conn
    BY <1>4 DEF CloseOrderState, GoesOn
  <2>2. /\ r.pc = "flush" /\ r.o = None
        /\ r.work = {<<c, states[c]>> : c \in {d \in Conv : states[d] # None}}
    BY <1>2, <1>3 DEF Flush, GoodTask, TaskState
  <2> HIDE DEF r
  <2>3. Calms("recv")
    BY <1>1, <1>3, <2>1, GoingOnCalms
  <2>4. states' = states /\ task'["recv"] = r /\ \A c \in Conv : Parked(c)' = Parked(c)
    BY <1>1, <2>1, GoesOnEffect
  <2>5. FlushCovers("recv")'
    <3>1. \A c \in Conv : Parked(c) # {} => <<c, states[c]>> \in r.work
      BY <2>2 DEF Parked
    <3> QED  BY <1>3, <2>1, <2>2, <2>4, <3>1 DEF FlushCovers
  <2>6. Fits("recv")'
    BY <2>2, <2>4, <2>5 DEF Fits, LetsGo, InPlace, SweepKnows, ReportsEmpty, KnowsItsSite,
                            Working, Sweeping, Handling
  <2>7. AckedIsHeld'
    <3>1. \A c \in Conv : \A x \in Parked(c) : Held(x)'
      BY <2>4 DEF Held
    <3> QED  BY <1>1, <3>1, StillHeld
  <2> QED  BY <1>1, <2>3, <2>6, <2>7, CalmStep
<1>5. CASE ~AckOnReceipt
  <2> DEFINE none == [c \in Conv |-> None]
             tsk == Cancel([task EXCEPT !["recv"] = Idle], Timers)
  <2>1. Commit(none, tsk, Unfill(objs, Timers)) /\ conn' = "down"
    BY <1>5 DEF CloseOrderState
  <2>2. /\ tsk["recv"] = Idle
        /\ \A u \in Tasks \ {"recv"} : tsk[u] = task[u] \/ (tsk[u] = Idle /\ u \in Timers)
    BY <1>1, <1>2 DEF Cancel
  <2> HIDE DEF tsk
  <2>3. task' = tsk /\ \A c \in Conv : states'[c] = None /\ Parked(c)' = {}
    BY <2>1, CommitEffect DEF Parked
  <2>4. Calms("recv")
    <3>1. ASSUME NEW u \in Tasks \ {"recv"}, task'[u] # task[u] PROVE Stopped(u)
      <4>1. task'[u] = Idle /\ u \in Timers
        BY <2>2, <2>3, <3>1
      <4>2. ~disposed' => task[u].pc = "asleep"
        BY <1>1, <4>1, TimerIsItsOwn DEF Timers
      <4> QED  BY <2>3, <4>1, <4>2 DEF Stopped
    <3> QED  BY <1>1, <2>3, <3>1 DEF Calms, SameSpot
  <2>5. Fits("recv")'
    <3>1. Idle.pc = "idle" /\ Idle.o = None
      BY DEF Idle
    <3> QED  BY <1>1, <2>2, <2>3, <3>1, OutsideFits
  <2>6. AckedIsHeld'
    BY <1>5 DEF AckedIsHeld
  <2> QED  BY <1>1, <2>4, <2>5, <2>6, CalmStep
<1> QED  BY <1>2, <1>4, <1>5

LEMMA DisconnectSync ==
    ASSUME ~AsyncHandlers, OrderTyped, OrderTyped', SyncInv, OneRuns', Disconnect
    PROVE  SyncInv'
<1>1. /\ Runs("stop") /\ task["stop"].pc = "idle" /\ "stop" \in Tasks
      /\ UNCHANGED <<acked, handed>> /\ disposed' /\ conn' = conn
  BY DEF Disconnect, At, server, app, Tasks
<1>2. /\ task["stop"] \in GoodTask /\ states \in [Conv -> ObjIds \cup {None}]
      /\ task \in [Tasks -> GoodTask] /\ objs \in [ObjIds -> OrderState] /\ None \notin ObjIds
  BY <1>1, IdentitiesAssumption DEF OrderTyped
<1>3. ~OnObject(task["stop"]) /\ task["stop"].o = None
  BY <1>1 DEF SyncInv, Fits, LetsGo, OnObject, Handling
<1> DEFINE r == [Flush("stop") EXCEPT !.owned = {t \in GapTasks \cup {"drain"} : task[t].pc # "idle"}]
           tsk == [task EXCEPT !["stop"] = r]
           obs == [o \in ObjIds |->
                     IF \E c \in Conv : states[c] = o THEN [objs[o] EXCEPT !.timer = None] ELSE objs[o]]
<1>4. Commit(states, tsk, obs)
  BY DEF Disconnect
<1>5. /\ r.pc = "flush" /\ r.o = None
      /\ r.work = {<<c, states[c]>> : c \in {d \in Conv : states[d] # None}}
  BY <1>2, <1>3 DEF Flush, GoodTask, TaskState
<1>6. tsk["stop"] = r /\ \A u \in Tasks \ {"stop"} : tsk[u] = task[u]
  BY <1>1, <1>2
<1>7. \A o \in ObjIds : /\ obs[o].buf = objs[o].buf /\ obs[o].fill = objs[o].fill
                        /\ obs[o].timer \in {objs[o].timer, None}
  BY <1>2 DEF OrderState
<1> HIDE DEF r, tsk, obs
<1>8. /\ states' = states /\ task' = tsk
      /\ \A c \in Conv : states[c] # None => states[c] \in ObjIds /\ objs'[states[c]] = obs[states[c]]
  BY <1>2, <1>4, CommitEffect
<1>9. \A c \in Conv : Parked(c)' = Parked(c)
  BY <1>7, <1>8 DEF Parked
<1>10. Calms("stop")
  <2>1. ASSUME NEW c \in Conv, states[c] # None PROVE Eased(states[c])
    BY <1>1, <1>7, <1>8, <2>1 DEF Eased, Buf
  <2>2. ASSUME NEW c \in Conv, Parked(c)' # {}, Attends("stop", c) PROVE FALSE
    BY <1>3, <1>9, <2>2 DEF Attends, Parked
  <2> QED  BY <1>1, <1>6, <1>8, <2>1, <2>2 DEF Calms, SameSpot
<1>11. Fits("stop")'
  <2>1. \A c \in Conv : Parked(c) # {} => <<c, states[c]>> \in r.work
    BY <1>5 DEF Parked
  <2>2. FlushCovers("stop")'
    BY <1>1, <1>5, <1>6, <1>8, <1>9, <2>1 DEF FlushCovers
  <2> QED  BY <1>1, <1>5, <1>6, <1>8, <2>2 DEF Fits, LetsGo, InPlace, SweepKnows, ReportsEmpty,
                KnowsItsSite, Working, Sweeping, Handling
<1>12. AckedIsHeld'
  <2>1. \A c \in Conv : \A x \in Parked(c) : Held(x)'
    BY <1>9 DEF Held
  <2> QED  BY <1>1, <2>1, StillHeld
<1> QED  BY <1>1, <1>10, <1>11, <1>12, CalmStep

LEMMA ReleaseSync ==
    ASSUME ~AsyncHandlers, OrderTyped, OrderTyped', SyncInv, OneRuns', Release
    PROVE  SyncInv'
<1>1. /\ Runs("stop") /\ task["stop"].pc = "leaving" /\ "stop" \in Tasks
      /\ UNCHANGED <<acked, handed>> /\ disposed /\ disposed' /\ conn # "closing"
  BY DEF Release, At, server, app, Tasks, SyncInv, StopsDisposed
<1>2. /\ states \in [Conv -> ObjIds \cup {None}] /\ task \in [Tasks -> GoodTask] /\ None \notin ObjIds
  BY IdentitiesAssumption DEF OrderTyped
<1>3. ~OnObject(task["stop"]) /\ task["stop"].o = None
  BY <1>1 DEF SyncInv, Fits, LetsGo, OnObject, Handling
<1> DEFINE ts == task["stop"].owned
           tsk == Cancel([task EXCEPT !["stop"] = Idle], ts)
           obs == Unfill(objs, ts)
<1>4. Commit(states, tsk, obs)
  BY DEF Release
<1>5. tsk["stop"] = Idle /\ \A u \in Tasks \ {"stop"} : tsk[u] \in {task[u], Idle}
  BY <1>1, <1>2 DEF Cancel
<1>6. \A o \in ObjIds : /\ obs[o].buf = objs[o].buf /\ obs[o].timer = objs[o].timer
                        /\ obs[o].fill => objs[o].fill
  BY UnfillEffect
<1> HIDE DEF ts, tsk, obs
<1>7. /\ states' = states /\ task' = tsk
      /\ \A c \in Conv : states[c] # None => states[c] \in ObjIds /\ objs'[states[c]] = obs[states[c]]
  BY <1>2, <1>4, CommitEffect
<1>8. \A c \in Conv : Parked(c)' = Parked(c)
  BY <1>6, <1>7 DEF Parked
<1>9. Calms("stop")
  <2>1. ASSUME NEW c \in Conv, states[c] # None PROVE Eased(states[c])
    BY <1>6, <1>7, <2>1 DEF Eased, Buf
  <2>2. ASSUME NEW c \in Conv, Parked(c)' # {}, Attends("stop", c) PROVE FALSE
    BY <1>3, <1>8, <2>2 DEF Attends, Parked
  <2> QED  BY <1>1, <1>5, <1>7, <2>1, <2>2 DEF Calms, SameSpot, Stopped
<1>10. Fits("stop")'
  <2>1. Idle.pc = "idle" /\ Idle.o = None
    BY DEF Idle
  <2> QED  BY <1>1, <1>5, <1>7, <2>1, OutsideFits
<1>11. AckedIsHeld'
  <2>1. \A c \in Conv : \A x \in Parked(c) : Held(x)'
    BY <1>8 DEF Held
  <2> QED  BY <1>1, <2>1, StillHeld
<1> QED  BY <1>1, <1>9, <1>10, <1>11, CalmStep
----------------------------------------------------------------------------
(* Steps on one conversation *)

\* The other conversations keep what they have, apart from a fill that ends.
Still(d) ==
    /\ states'[d] = states[d]
    /\ states[d] # None => /\ Buf(states[d])' = Buf(states[d])
                           /\ objs'[states[d]].timer = objs[states[d]].timer
                           /\ objs'[states[d]].fill => objs[states[d]].fill

LEMMA OneConvStep ==
    ASSUME ~AsyncHandlers, OrderTyped, OrderTyped', SyncInv, OneRuns',
           NEW t \in Tasks, NEW c \in Conv, Runs(t), t # "stop", conn' = conn, disposed' = disposed,
           \A d \in Conv \ {c} : Still(d) /\ (states[d] # None => states'[c] # states[d]),
           \A d \in Conv \ {c} : ~Attends(t, d),
           task[t].pc \in {"asleep", "fetch"} => task[t].c = c,
           \A u \in Tasks \ {t} :
              \/ SameSpot(u)
              \/ u \in GapTasks /\ task[u].pc = "idle" /\ task'[u].pc = "asleep" /\ task'[u].o = None,
           \A m \in Parked(c)' : ConvOf[m] = c,
           ~disposed /\ states'[c] # None => TimerLives(c)' /\ FillLives(c)',
           ~disposed /\ conn # "closing" /\ Parked(c)' # {}
              => objs'[states'[c]].timer # None \/ \E u \in Tasks : Attends(u, c)',
           Fits(t)', AckedIsHeld'
    PROVE  SyncInv'
<1>1. \A d \in Conv \ {c} : states'[d] = states[d] /\ Parked(d)' = Parked(d)
  BY DEF Still, Parked, Buf
<1>2. \A u \in Tasks \ {t} : Fits(u)'
  BY OthersFit
<1>3. OneEach' /\ OwnFrames'
  BY <1>1 DEF SyncInv, OneEach, OwnFrames
<1>4. ClocksRun'
  <2> SUFFICES ASSUME ~disposed, NEW d \in Conv \ {c}, states[d] # None
               PROVE  TimerLives(d)' /\ FillLives(d)'
    BY <1>1 DEF ClocksRun
  <2>1. TimerLives(d) /\ FillLives(d) /\ Still(d) /\ \A g \in GapTasks : g \in Tasks
    BY DEF SyncInv, ClocksRun, Tasks
  <2>2. ASSUME objs'[states'[d]].timer # None PROVE TimerLives(d)'
    <3> DEFINE g == objs[states[d]].timer
    <3>1. g = objs'[states'[d]].timer
      BY <2>1 DEF Still
    <3>2. Armed(g, d) /\ g # t
      BY <2>1, <2>2, <3>1 DEF TimerLives, Armed
    <3>3. SameSpot(g)
      BY <2>1, <3>2 DEF Armed
    <3> QED  BY <3>1, <3>2, <3>3 DEF TimerLives, Armed, SameSpot
  <2>3. ASSUME objs'[states'[d]].fill PROVE FillLives(d)'
    <3>1. PICK g \in GapTasks : Fetching(g, d)
      BY <2>1, <2>3 DEF Still, FillLives
    <3>2. SameSpot(g)
      BY <2>1, <3>1 DEF Fetching
    <3> QED  BY <2>1, <3>1, <3>2 DEF Still, FillLives, Fetching, SameSpot
  <2> QED  BY <2>2, <2>3 DEF TimerLives, FillLives
<1>5. Watched'
  <2> SUFFICES ASSUME ~disposed, conn # "closing", NEW d \in Conv \ {c}, Parked(d) # {}
               PROVE  objs'[states'[d]].timer # None \/ \E u \in Tasks : Attends(u, d)'
    BY <1>1 DEF Watched
  <2>1. states[d] # None /\ Still(d)
    BY DEF Parked
  <2>2. objs[states[d]].timer # None \/ \E u \in Tasks : Attends(u, d)
    BY DEF SyncInv, Watched
  <2>3. ASSUME NEW u \in Tasks, Attends(u, d) PROVE Attends(u, d)'
    <3>1. u # t
      BY <2>3
    <3>2. task[u].pc \in Waiting /\ LetsGo(u)
      BY <3>1 DEF Runs, SyncInv, Fits
    <3>3. ~Sweeping(task[u]) /\ task[u].pc # "idle"
      BY <2>1, <2>3, <3>2, AwayFromOrder DEF Attends, LetsGo, OnObject, Handling
    <3> QED  BY <2>1, <2>3, <3>1, <3>3 DEF Attends, SameSpot, Still
  <2> QED  BY <2>1, <2>2, <2>3 DEF Still
<1>6. StopsDisposed'
  BY IdentitiesAssumption DEF SyncInv, StopsDisposed, SameSpot, Tasks
<1> QED  BY <1>2, <1>3, <1>4, <1>5, <1>6 DEF SyncInv

\* A conversation whose clocks were not touched keeps them.
LEMMA ClocksStay ==
    ASSUME SyncInv, NEW t \in Tasks, NEW c \in Conv, ~disposed, states[c] # None,
           states'[c] = states[c],
           \A u \in Tasks \ {t} : SameSpot(u) \/ task[u].pc = "idle",
           task[t].pc \notin {"asleep", "fetch"} \/ task[t].o # states[c]
    PROVE  /\ objs'[states[c]].timer = objs[states[c]].timer /\ task[t].pc # "asleep" => TimerLives(c)'
           /\ (objs'[states[c]].fill => objs[states[c]].fill) => FillLives(c)'
<1>1. TimerLives(c) /\ FillLives(c) /\ \A g \in GapTasks : g \in Tasks
  BY DEF SyncInv, ClocksRun, Tasks
<1>2. ASSUME objs'[states[c]].timer = objs[states[c]].timer, task[t].pc # "asleep"
      PROVE  TimerLives(c)'
  <2> SUFFICES ASSUME objs[states[c]].timer # None PROVE Armed(objs[states[c]].timer, c)'
    BY <1>2 DEF TimerLives
  <2>1. PICK g : g = objs[states[c]].timer
    OBVIOUS
  <2>2. Armed(g, c) /\ g # t
    BY <1>1, <1>2, <2>1 DEF TimerLives, Armed
  <2>3. SameSpot(g)
    BY <1>1, <2>2 DEF Armed
  <2> QED  BY <1>2, <2>1, <2>2, <2>3 DEF Armed, SameSpot
<1>3. ASSUME objs'[states[c]].fill, objs[states[c]].fill PROVE FillLives(c)'
  <2>1. PICK g \in GapTasks : Fetching(g, c)
    BY <1>1, <1>3 DEF FillLives
  <2>2. SameSpot(g)
    BY <1>1, <2>1 DEF Fetching
  <2> QED  BY <2>1, <2>2 DEF FillLives, Fetching, SameSpot
<1>4. ~objs'[states[c]].fill => FillLives(c)'
  BY DEF FillLives
<1> QED  BY <1>2, <1>3, <1>4

----------------------------------------------------------------------------
(* The ordering layer takes a frame *)

\* A frame acked at receipt went into the layer, so it is known or held now.
LEMMA RouterHolds ==
    ASSUME ~AsyncHandlers, DeliveryInv, SyncInv, NEW t \in Tasks, Runs(t),
           task[t].pc \in {"idle", "row"}, handed' = handed, NEW m, NEW spent,
           acked' \subseteq acked \cup (IF spent THEN {m} ELSE {}),
           spent => m \in handed \/ Held(m)',
           \A d \in Conv : Parked(d) \subseteq Parked(d)'
    PROVE  AckedIsHeld'
<1>1. \A d \in Conv : \A x \in Parked(d) : Held(x)'
  BY DEF Held
<1> QED  BY <1>1, StillHeld

\* The frame a router delivers at once
LEMMA RouteAside ==
    ASSUME ~AsyncHandlers, DeliveryInv, OrderTyped', SyncInv, OneRuns', NEW t \in {"recv", "drain"},
           Runs(t), task[t].pc \in {"idle", "row"}, NEW m \in Msgs, NEW e \in Entry, NEW spent,
           conn' = conn, disposed' = disposed, handed' = handed,
           acked' \subseteq acked \cup (IF spent THEN {m} ELSE {}),
           RouteUnsequenced(t, m, e) \/ RouteBelow(t, m, spent)
    PROVE  SyncInv'
<1>1. OrderTyped /\ t \in Tasks /\ t # "stop" /\ task[t] \in GoodTask /\ clean \subseteq handed
  BY DEF DeliveryInv, AppTyped, OrderTyped, Tasks
<1>2. ~OnObject(task[t])
  BY DEF OnObject, Handling
<1>3. \E r : /\ GoesOn(t, r) /\ r.o = None
             /\ \/ r.pc = "deliver" /\ r.site \in {"idle", "row"} /\ r.m = m
                \/ r.pc \in {"idle", "row"} /\ (spent => m \in handed)
  <2>1. Home(t) \in {"idle", "row"}
    BY HomeIsAPlace
  <2>2. ASSUME NEW f PROVE LET r == Deliver(t, m, f, Home(t), None)
                           IN  r.pc = "deliver" /\ r.site \in {"idle", "row"} /\ r.m = m /\ r.o = None
    BY <1>1, <2>1, Fields
  <2>3. LET r == [Idle EXCEPT !.pc = Home(t)] IN r.pc \in {"idle", "row"} /\ r.o = None
    BY <2>1 DEF Idle
  <2>4. Seen(dedup, m) => m \in handed
    <3> SUFFICES ASSUME Seen(dedup, m) PROVE m \in handed
      OBVIOUS
    <3>1. dedup \in Seq(clean)
      BY DEF DeliveryInv, ConfirmInv, DedupIsClean
    <3>2. PICK i \in 1..Len(dedup) : dedup[i] = m
      BY DEF Seen
    <3>3. dedup[i] \in clean
      BY <3>1, <3>2, ElementOfSeq
    <3> QED  BY <1>1, <3>2, <3>3
  <2>5. CASE RouteUnsequenced(t, m, e)
    BY <2>2, <2>5 DEF RouteUnsequenced, GoesOn
  <2>6. CASE RouteBelow(t, m, spent)
    BY <2>2, <2>3, <2>4, <2>6 DEF RouteBelow, GoesOn
  <2> QED  BY <2>5, <2>6
<1>4. PICK r : /\ GoesOn(t, r) /\ r.o = None
               /\ \/ r.pc = "deliver" /\ r.site \in {"idle", "row"} /\ r.m = m
                  \/ r.pc \in {"idle", "row"} /\ (spent => m \in handed)
  BY <1>3
<1>5. \A x \in acked' : x \in acked \/ x \in handed' \/ Held(x)'
  <2>1. task'[t] = r
    BY <1>1, <1>4, GoesOnEffect
  <2>2. spent => m \in handed \/ Held(m)'
    BY <1>1, <1>4, <2>1 DEF Held
  <2> QED  BY <2>2
<1> QED  BY <1>1, <1>2, <1>4, <1>5, GoneHomeSync

LEMMA RouteInOrderSync ==
    ASSUME ~AsyncHandlers, DeliveryInv, OrderTyped', SyncInv, OneRuns', NEW t \in {"recv", "drain"},
           Runs(t), task[t].pc \in {"idle", "row"}, NEW m \in Msgs, NEW e \in Entry, NEW spent,
           conn' = conn, disposed' = disposed, handed' = handed,
           acked' \subseteq acked \cup (IF spent THEN {m} ELSE {}),
           RouteInOrder(t, m, e)
    PROVE  SyncInv'
<1>1. /\ OrderTyped /\ t \in Tasks /\ t # "stop" /\ task[t] \in GoodTask /\ ConvOf[m] \in Conv
      /\ states[ConvOf[m]] # None
  BY MessagesAssumption DEF DeliveryInv, OrderTyped, Tasks, RouteInOrder, Tracked
<1>2. ~OnObject(task[t])
  BY DEF OnObject, Handling
<1> DEFINE r == Deliver(t, m, e, "inorder", states[ConvOf[m]])
<1>3. GoesOn(t, r)
  BY DEF RouteInOrder, GoesOn
<1>4. r.pc = "deliver" /\ r.site = "inorder" /\ r.m = m /\ r.c = ConvOf[m] /\ r.o = states[ConvOf[m]]
  BY <1>1, Fields
<1> HIDE DEF r
<1>5. states' = states /\ task'[t] = r /\ \A c \in Conv : Parked(c)' = Parked(c)
  BY <1>1, <1>3, GoesOnEffect
<1>6. Calms(t)
  BY <1>1, <1>2, <1>3, GoingOnCalms
<1>7. Fits(t)'
  <2>1. LetsGo(t)' /\ InPlace(t)'
    BY <1>4, <1>5 DEF LetsGo, InPlace, OnObject, Handling
  <2>2. ~Sweeping(r) /\ ~Flushing(r) /\ r.pc \notin {"notify", "resolving", "closing"}
    BY <1>4 DEF Sweeping, Flushing, Handling
  <2> QED  BY <1>5, <2>1, <2>2 DEF Fits, SweepKnows, ReportsEmpty, KnowsItsSite, FlushCovers
<1>8. AckedIsHeld'
  <2>1. Held(m)'
    BY <1>1, <1>4, <1>5 DEF Held
  <2> QED  BY <1>1, <1>5, <2>1, RouterHolds
<1> QED  BY <1>1, <1>6, <1>7, <1>8, CalmStep

\* A new conversation has an object of its own.
LEMMA RouteAnchorSync ==
    ASSUME ~AsyncHandlers, DeliveryInv, OrderTyped', SyncInv, OneRuns', NEW t \in {"recv", "drain"},
           Runs(t), task[t].pc \in {"idle", "row"}, NEW m \in Msgs, NEW e \in Entry, NEW spent,
           conn' = conn, disposed' = disposed, handed' = handed,
           acked' \subseteq acked \cup (IF spent THEN {m} ELSE {}),
           RouteAnchor(t, m, e)
    PROVE  SyncInv'
<1>0. PICK c : c = ConvOf[m]
  OBVIOUS
<1>1. /\ OrderTyped /\ t \in Tasks /\ t # "stop" /\ task[t] \in GoodTask /\ c \in Conv
      /\ states[c] = None /\ SeqOf[m] \in Nat
      /\ states \in [Conv -> ObjIds \cup {None}] /\ objs \in [ObjIds -> OrderState]
      /\ task \in [Tasks -> GoodTask] /\ None \notin ObjIds
  BY <1>0, MessagesAssumption, IdentitiesAssumption DEF DeliveryInv, OrderTyped, Tasks, RouteAnchor, Anchors
<1>2. PICK o \in FreeObjs :
         Commit([states EXCEPT ![c] = o],
                [task EXCEPT ![t] = Deliver(t, m, e, Home(t), None)],
                [objs EXCEPT ![o] = [FreshObj EXCEPT !.next = SeqOf[m] + 1]])
  BY <1>0 DEF RouteAnchor
<1>3. o \in ObjIds /\ \A d \in Conv : states[d] # o
  BY <1>2 DEF FreeObjs, Referenced
<1> DEFINE r == Deliver(t, m, e, Home(t), None)
           new == [FreshObj EXCEPT !.next = SeqOf[m] + 1]
           sts == [states EXCEPT ![c] = o]
           tsk == [task EXCEPT ![t] = r]
           obs == [objs EXCEPT ![o] = new]
<1>4. /\ r.pc = "deliver" /\ r.site \in {"idle", "row"} /\ r.m = m /\ r.o = None
      /\ ~Sweeping(r) /\ ~Sweeping(task[t])
  BY <1>1, HomeIsAPlace, Fields DEF Sweeping, Handling
<1>5. new.timer = None /\ new.fill = FALSE /\ DOMAIN new.buf = {}
  <2>1. new.buf = <<>> /\ new.timer = None /\ new.fill = FALSE
    BY DEF FreshObj
  <2> HIDE DEF new
  <2> QED  BY <2>1, NothingBuffered
<1>6. /\ sts[c] = o /\ \A d \in Conv \ {c} : sts[d] = states[d]
      /\ tsk[t] = r /\ \A u \in Tasks \ {t} : tsk[u] = task[u]
      /\ obs[o] = new /\ \A x \in ObjIds \ {o} : obs[x] = objs[x]
  BY <1>1, <1>3
<1>7. Commit(sts, tsk, obs)
  BY <1>2
<1> HIDE DEF r, new, sts, tsk, obs
<1>8. /\ states' = sts /\ task' = tsk /\ objs'[o] = new
      /\ \A d \in Conv \ {c} : states[d] # None => objs'[states[d]] = objs[states[d]]
  BY <1>1, <1>3, <1>6, <1>7, CommitEffect
<1>9. \A d \in Conv \ {c} : Still(d) /\ states'[c] # states[d]
  BY <1>3, <1>6, <1>8 DEF Still, Buf
<1>10. Parked(c)' = {}
  BY <1>1, <1>3, <1>5, <1>6, <1>8 DEF Parked
<1>11. TimerLives(c)' /\ FillLives(c)'
  BY <1>5, <1>6, <1>8 DEF TimerLives, FillLives
<1>12. Fits(t)'
  BY <1>1, <1>4, <1>6, <1>8, OutsideFits DEF Handling
<1>13. AckedIsHeld'
  <2>1. Held(m)'
    BY <1>1, <1>4, <1>6, <1>8 DEF Held
  <2>2. \A d \in Conv : Parked(d) \subseteq Parked(d)'
    BY <1>1, <1>9 DEF Still, Parked, Buf
  <2> QED  BY <1>1, <2>1, <2>2, RouterHolds
<1>14. \A d \in Conv : ~Attends(t, d)
  BY <1>1, <1>4, IdentitiesAssumption DEF Attends
<1> QED  BY <1>1, <1>6, <1>8, <1>9, <1>10, <1>11, <1>12, <1>13, <1>14, OneConvStep DEF SameSpot

\* Task t parks frame m with object o, which becomes `new`, and goes on as r: it
\* lets go of conversation c, whose timer runs, or gives up on the hole.
Parks(t, m, c, o, new, r, tsk, obs, g) ==
    /\ c \in Conv /\ o \in ObjIds /\ c = ConvOf[m] /\ o = states[c]
    /\ Commit(states, tsk, obs) /\ obs[o] = new /\ \A x \in ObjIds \ {o} : obs[x] = objs[x]
    /\ DOMAIN new.buf = Buf(o) \cup {m} /\ new.fill = objs[o].fill
    /\ tsk[t] = r /\ \A u \in Tasks \ {t} : tsk[u] = task[u] \/ u = g
    /\ \/ new.timer = objs[o].timer /\ g = t
       \/ /\ new.timer = g /\ g \in GapTasks /\ g # t /\ task[g].pc = "idle"
          /\ tsk[g] = [Idle EXCEPT !.pc = "asleep", !.c = c]
    /\ \/ r.o = None /\ r.pc \in {"idle", "row"} /\ new.timer # None
       \/ /\ r.pc = "resolving" /\ r.site = "resolving" /\ r.o = o /\ r.c = c
          /\ r.todo = DOMAIN new.buf

LEMMA ParkedSync ==
    ASSUME ~AsyncHandlers, DeliveryInv, OrderTyped', SyncInv, OneRuns', NEW t \in {"recv", "drain"},
           Runs(t), task[t].pc \in {"idle", "row"}, NEW m \in Msgs,
           conn' = conn, disposed' = disposed, handed' = handed,
           acked' \subseteq acked \cup {m},
           NEW c, NEW o, NEW new, NEW r, NEW tsk, NEW obs, NEW g,
           Parks(t, m, c, o, new, r, tsk, obs, g)
    PROVE  SyncInv'
<1> USE DEF Parks
<1>1. /\ OrderTyped /\ t \in Tasks /\ t # "stop" /\ t \notin GapTasks
      /\ states \in [Conv -> ObjIds \cup {None}] /\ objs \in [ObjIds -> OrderState] /\ None \notin ObjIds
  BY IdentitiesAssumption DEF DeliveryInv, OrderTyped, Tasks
<1>4. /\ states' = states /\ task' = tsk /\ objs'[o] = new
      /\ \A d \in Conv : states[d] \in ObjIds => objs'[states[d]] = obs[states[d]]
  <2>1. \A d \in Conv : states[d] \in ObjIds => objs'[states[d]] = obs[states[d]]
    BY CommitEffect
  <2>2. states' = states /\ task' = tsk
    BY CommitEffect
  <2> QED  BY <2>1, <2>2
<1> c \in Conv /\ o \in ObjIds
  OBVIOUS
<1>5. \A d \in Conv \ {c} : Still(d) /\ (states[d] # None => states'[c] # states[d])
  <2> SUFFICES ASSUME NEW d \in Conv \ {c}, states[d] # None
               PROVE  objs'[states[d]] = objs[states[d]] /\ states[d] # o
    BY <1>4 DEF Still, Buf
  <2>1. states[d] # o
    BY DEF SyncInv, OneEach
  <2> QED  BY <1>1, <1>4, <2>1
<1>6. \A u \in Tasks \ {t} : \/ SameSpot(u)
                             \/ u \in GapTasks /\ task[u].pc = "idle" /\ task'[u].pc = "asleep" /\ task'[u].o = None
  <2>1. LET a == [Idle EXCEPT !.pc = "asleep", !.c = c] IN a.pc = "asleep" /\ a.o = None /\ a.c = c
    BY DEF Idle
  <2> QED  BY <1>4, <2>1 DEF SameSpot
<1>7. /\ Parked(c) = Buf(o) /\ Parked(c)' = Buf(o) \cup {m}
      /\ \A d \in Conv : Parked(d) \subseteq Parked(d)'
  <2>1. Parked(c) = Buf(o) /\ Parked(c)' = Buf(o) \cup {m}
    BY <1>1, <1>4 DEF Parked, Buf
  <2>2. \A d \in Conv \ {c} : Parked(d)' = Parked(d)
    BY <1>5 DEF Still, Parked, Buf
  <2> QED  BY <2>1, <2>2
<1>8. ASSUME NEW x \in Parked(c)' PROVE ConvOf[x] = c
  BY <1>7, <1>8 DEF SyncInv, OwnFrames
<1>9. ~disposed => TimerLives(c)' /\ FillLives(c)'
  <2> SUFFICES ASSUME ~disposed PROVE TimerLives(c)' /\ FillLives(c)'
    OBVIOUS
  <2>1. states[c] # None /\ states'[c] = states[c] /\ task[t].pc \notin {"asleep", "fetch"}
    BY <1>1, <1>4
  <2>2. \A u \in Tasks \ {t} : SameSpot(u) \/ task[u].pc = "idle"
    BY <1>6
  <2>3. FillLives(c)'
    BY <1>1, <1>4, <2>1, <2>2, ClocksStay
  <2>4. CASE new.timer = objs[o].timer
    BY <1>1, <1>4, <2>1, <2>2, <2>3, <2>4, ClocksStay
  <2>5. CASE new.timer = g /\ g \in GapTasks /\ tsk[g] = [Idle EXCEPT !.pc = "asleep", !.c = c]
    <3>1. LET a == [Idle EXCEPT !.pc = "asleep", !.c = c] IN a.pc = "asleep" /\ a.c = c
      BY DEF Idle
    <3> QED  BY <1>4, <2>3, <2>5, <3>1 DEF TimerLives, Armed
  <2> QED  BY <2>4, <2>5
<1>10. objs'[states'[c]].timer # None \/ Attends(t, c)'
  BY <1>4 DEF Attends, Sweeping
<1>11. Fits(t)'
  <2>1. CASE r.o = None /\ r.pc \in {"idle", "row"}
    BY <1>1, <1>4, <2>1, OutsideFits
  <2>2. CASE /\ r.pc = "resolving" /\ r.site = "resolving" /\ r.o = o /\ r.c = c
             /\ r.todo = DOMAIN new.buf
    <3>1. LetsGo(t)' /\ InPlace(t)' /\ SweepKnows(t)' /\ KnowsItsSite(t)'
      BY <1>4, <2>2 DEF LetsGo, OnObject, InPlace, SweepKnows, KnowsItsSite, Buf
    <3>2. ~Flushing(r) /\ r.pc # "notify"
      BY <2>2 DEF Flushing, Handling
    <3> QED  BY <1>4, <3>1, <3>2 DEF Fits, ReportsEmpty, FlushCovers
  <2> QED  BY <2>1, <2>2
<1>12. AckedIsHeld'
  <2>1. Held(m)'
    BY <1>7 DEF Held
  <2>2. \A d \in Conv : \A x \in Parked(d) : Held(x)'
    BY <1>7 DEF Held
  <2> QED  BY <1>1, <2>1, <2>2, StillHeld
<1>13. \A d \in Conv \ {c} : ~Attends(t, d)
  BY <1>1 DEF Attends, Sweeping, Handling
<1> QED  BY <1>1, <1>5, <1>6, <1>8, <1>9, <1>10, <1>11, <1>12, <1>13, OneConvStep

LEMMA RouteParkSync ==
    ASSUME ~AsyncHandlers, DeliveryInv, OrderTyped', SyncInv, OneRuns', NEW t \in {"recv", "drain"},
           Runs(t), task[t].pc \in {"idle", "row"}, NEW m \in Msgs, NEW e \in Entry, NEW spent,
           conn' = conn, disposed' = disposed, handed' = handed,
           acked' \subseteq acked \cup (IF spent THEN {m} ELSE {}),
           RoutePark(t, m, e)
    PROVE  SyncInv'
<1>0. PICK c, o : c = ConvOf[m] /\ o = states[c]
  OBVIOUS
<1>1. /\ OrderTyped /\ t \in Tasks /\ t \notin GapTasks /\ task[t] \in GoodTask /\ c \in Conv
      /\ o \in ObjIds /\ objs[o] \in OrderState /\ task \in [Tasks -> GoodTask]
      /\ \A g \in GapTasks : g \in Tasks
  BY <1>0, MessagesAssumption, IdentitiesAssumption DEF DeliveryInv, OrderTyped, Tasks, RoutePark, Tracked
<1> DEFINE kept == [objs[o] EXCEPT !.buf = [x \in DOMAIN @ \cup {m} |-> IF x = m THEN e ELSE @[x]]]
           home == [Idle EXCEPT !.pc = Home(t)]
<1>2. DOMAIN kept.buf = Buf(o) \cup {m} /\ kept.timer = objs[o].timer /\ kept.fill = objs[o].fill
  BY <1>1 DEF OrderState, Buf
<1>3. home.o = None /\ home.pc \in {"idle", "row"}
  BY HomeIsAPlace DEF Idle
<1>a. acked' \subseteq acked \cup {m}
  OBVIOUS
<1>b. ASSUME NEW new PROVE LET obs == [objs EXCEPT ![o] = new]
                           IN  obs[o] = new /\ \A x \in ObjIds \ {o} : obs[x] = objs[x]
  BY <1>1 DEF OrderTyped
<1>4. CASE Commit(states, [task EXCEPT ![t] = Resolve(t, c, o, kept, FALSE)], [objs EXCEPT ![o] = kept])
  <2> HIDE DEF kept
  <2> DEFINE r == Resolve(t, c, o, kept, FALSE)
             tsk == [task EXCEPT ![t] = r]
             obs == [objs EXCEPT ![o] = kept]
  <2>0. t \in Tasks /\ task[t] \in GoodTask
    BY <1>1
  <2>1. r.pc = "resolving" /\ r.site = "resolving" /\ r.o = o /\ r.c = c /\ r.todo = DOMAIN kept.buf
    BY <2>0 DEF Resolve, GoodTask, TaskState
  <2>2. tsk[t] = r /\ \A u \in Tasks \ {t} : tsk[u] = task[u]
    BY <1>1
  <2>3. Commit(states, tsk, obs) /\ obs[o] = kept /\ \A x \in ObjIds \ {o} : obs[x] = objs[x]
    BY <1>b, <1>4
  <2> HIDE DEF r, tsk, obs
  <2>4. PICK g : g = t /\ kept.timer = objs[o].timer /\ \A u \in Tasks \ {t} : tsk[u] = task[u] \/ u = g
    BY <1>2, <2>2
  <2>5. c \in Conv /\ o \in ObjIds
    BY <1>1
  <2> QED
    <3>1. Parks(t, m, c, o, kept, r, tsk, obs, g)
      BY <1>0, <1>2, <2>1, <2>2, <2>3, <2>4, <2>5 DEF Parks
    <3> QED  BY <1>a, <3>1, ParkedSync
<1>5. CASE /\ kept.timer # None
           /\ Commit(states, [task EXCEPT ![t] = home], [objs EXCEPT ![o] = kept])
  <2> HIDE DEF kept, home
  <2> DEFINE tsk == [task EXCEPT ![t] = home]
             obs == [objs EXCEPT ![o] = kept]
  <2>1. tsk[t] = home /\ \A u \in Tasks \ {t} : tsk[u] = task[u]
    BY <1>1
  <2>2. Commit(states, tsk, obs) /\ obs[o] = kept /\ \A x \in ObjIds \ {o} : obs[x] = objs[x]
    BY <1>b, <1>5
  <2> HIDE DEF tsk, obs
  <2>3. PICK g : g = t /\ kept.timer = objs[o].timer /\ \A u \in Tasks \ {t} : tsk[u] = task[u] \/ u = g
    BY <1>2, <2>1
  <2>4. c \in Conv /\ o \in ObjIds
    BY <1>1
  <2> QED
    <3>1. Parks(t, m, c, o, kept, home, tsk, obs, g)
      BY <1>0, <1>2, <1>3, <1>5, <2>1, <2>2, <2>3, <2>4 DEF Parks
    <3> QED  BY <1>a, <3>1, ParkedSync
<1>6. CASE \E g \in FreeGapTasks :
              Commit(states,
                     [task EXCEPT ![t] = home, ![g] = [Idle EXCEPT !.pc = "asleep", !.c = c]],
                     [objs EXCEPT ![o] = [kept EXCEPT !.timer = g, !.started = kept.next]])
  <2>1. PICK g \in FreeGapTasks :
              Commit(states,
                     [task EXCEPT ![t] = home, ![g] = [Idle EXCEPT !.pc = "asleep", !.c = c]],
                     [objs EXCEPT ![o] = [kept EXCEPT !.timer = g, !.started = kept.next]])
    BY <1>6
  <2> DEFINE tsk == [task EXCEPT ![t] = home, ![g] = [Idle EXCEPT !.pc = "asleep", !.c = c]]
             new == [kept EXCEPT !.timer = g, !.started = kept.next]
             obs == [objs EXCEPT ![o] = new]
  <2>2. g \in GapTasks /\ g # t /\ task[g].pc = "idle" /\ g # None
    BY <1>1, IdentitiesAssumption DEF FreeGapTasks
  <2>3. new.timer = g /\ new.fill = objs[o].fill /\ DOMAIN new.buf = Buf(o) \cup {m}
    BY <1>1 DEF OrderState, Buf
  <2> HIDE DEF kept, home
  <2>4. /\ tsk[t] = home /\ tsk[g] = [Idle EXCEPT !.pc = "asleep", !.c = c]
        /\ \A u \in Tasks \ {t} : tsk[u] = task[u] \/ u = g
    BY <1>1, <2>2
  <2>5. Commit(states, tsk, obs) /\ obs[o] = new /\ \A x \in ObjIds \ {o} : obs[x] = objs[x]
    BY <1>b, <2>1
  <2> HIDE DEF tsk, new, obs
  <2>6. c \in Conv /\ o \in ObjIds /\ new.timer # None
    BY <1>1, <2>2, <2>3
  <2> QED
    <3>1. Parks(t, m, c, o, new, home, tsk, obs, g)
      BY <1>0, <1>3, <2>2, <2>3, <2>4, <2>5, <2>6 DEF Parks
    <3> QED  BY <1>a, <3>1, ParkedSync
<1> HIDE DEF kept, home
<1> QED  BY <1>0, <1>4, <1>5, <1>6 DEF RoutePark, kept, home
LEMMA RouteSync ==
    ASSUME ~AsyncHandlers, DeliveryInv, OrderTyped', SyncInv, OneRuns', NEW t \in {"recv", "drain"},
           Runs(t), task[t].pc \in {"idle", "row"}, NEW m \in Msgs, NEW e \in Entry, NEW spent,
           conn' = conn, disposed' = disposed, handed' = handed,
           acked' \subseteq acked \cup (IF spent THEN {m} ELSE {}),
           Route(t, m, e, spent)
    PROVE  SyncInv'
<1>1. CASE RouteUnsequenced(t, m, e) \/ RouteBelow(t, m, spent)
  BY <1>1, RouteAside
<1>2. CASE RouteAnchor(t, m, e)
  BY <1>2, RouteAnchorSync
<1>3. CASE RouteInOrder(t, m, e)
  BY <1>3, RouteInOrderSync
<1>4. CASE RoutePark(t, m, e)
  BY <1>4, RouteParkSync
<1> QED  BY <1>1, <1>2, <1>3, <1>4 DEF Route

LEMMA RecvFrameSync ==
    ASSUME ~AsyncHandlers, DeliveryInv, OrderTyped', SyncInv, OneRuns', NEW m \in Msgs, RecvFrame(m)
    PROVE  SyncInv'
<1> DEFINE e == [ws |-> ~AckOnReceipt, row |-> FALSE]
<1>1. /\ Runs("recv") /\ task["recv"].pc \in {"idle", "row"} /\ Route("recv", m, e, AckOnReceipt)
      /\ conn' = conn /\ disposed' = disposed /\ handed' = handed
  BY DEF RecvFrame, At, link, app
<1>2. acked' \subseteq acked \cup (IF AckOnReceipt THEN {m} ELSE {})
  BY DEF RecvFrame, Acks
<1>3. e \in Entry
  BY DEF Entry
<1> HIDE DEF e
<1> QED  BY <1>1, <1>2, <1>3, RouteSync

----------------------------------------------------------------------------
(* The drain *)

LEMMA DrainGoesOn ==
    ASSUME ~AsyncHandlers, OrderTyped, OrderTyped', SyncInv, OneRuns', Runs("drain"),
           task["drain"].pc \in {"sync", "row", "check", "syncack"},
           NEW pc \in {"idle", "sync", "check", "syncack"}, Commit(states, DrainTo(pc), objs),
           conn' = conn, disposed' = disposed, handed' = handed, acked' \subseteq acked \cup handed
    PROVE  SyncInv'
<1> DEFINE r == [Idle EXCEPT !.pc = pc]
<1>1. GoesOn("drain", r)
  BY DEF DrainTo, GoesOn
<1>2. r.pc = pc /\ r.o = None
  BY DEF Idle
<1>3. "drain" \in Tasks /\ "drain" # "stop" /\ ~OnObject(task["drain"])
  BY DEF Tasks, OnObject, Handling
<1> HIDE DEF r
<1> QED  BY <1>1, <1>2, <1>3, GoneHomeSync

LEMMA EndPageTo ==
    ASSUME EndPage \/ DrainEnds
    PROVE  \E pc \in {"idle", "sync"} : Commit(states, DrainTo(pc), objs)
BY DEF EndPage, DrainEnds

\* A page arrives; parked frames of the page before are no rows of it.
LEMMA NewPageSync ==
    ASSUME ~AsyncHandlers, OrderTyped, OrderTyped', SyncInv, OneRuns', Runs("drain"),
           task["drain"].pc = "sync", UNCHANGED <<acked, handed>>, conn' = conn, disposed' = disposed,
           Commit(states,
                  [t \in Tasks |-> IF t = "drain" THEN [Idle EXCEPT !.pc = "row"]
                                   ELSE [task[t] EXCEPT !.row = FALSE]],
                  ForgetRows(objs))
    PROVE  SyncInv'
<1>1. /\ "drain" \in Tasks /\ task["drain"].o = None
      /\ states \in [Conv -> ObjIds \cup {None}] /\ objs \in [ObjIds -> OrderState]
      /\ \A t \in Tasks : task[t] \in TaskState
      /\ None \notin ObjIds
  BY IdentitiesAssumption DEF Tasks, SyncInv, Fits, LetsGo, OnObject, Handling, OrderTyped, GoodTask
<1> DEFINE tsk == [t \in Tasks |-> IF t = "drain" THEN [Idle EXCEPT !.pc = "row"]
                                   ELSE [task[t] EXCEPT !.row = FALSE]]
           obs == ForgetRows(objs)
<1>2. Commit(states, tsk, obs)
  OBVIOUS
<1>3. tsk["drain"].pc = "row" /\ tsk["drain"].o = None
  BY <1>1 DEF Idle
<1>4. \A u \in Tasks \ {"drain"} : tsk[u].pc = task[u].pc /\ tsk[u].o = task[u].o /\ tsk[u].c = task[u].c
  BY <1>1 DEF TaskState
<1>5. \A o \in ObjIds : /\ DOMAIN obs[o].buf = DOMAIN objs[o].buf
                        /\ obs[o].timer = objs[o].timer /\ obs[o].fill = objs[o].fill
  BY <1>1 DEF ForgetRows, OrderState
<1> HIDE DEF tsk, obs
<1>6. /\ states' = states /\ task' = tsk
      /\ \A c \in Conv : states[c] # None => states[c] \in ObjIds /\ objs'[states[c]] = obs[states[c]]
  BY <1>1, <1>2, CommitEffect
<1>7. \A c \in Conv : Parked(c)' = Parked(c)
  BY <1>5, <1>6 DEF Parked
<1>8. Calms("drain")
  <2>1. ASSUME NEW c \in Conv, states[c] # None PROVE Eased(states[c])
    BY <1>5, <1>6, <2>1 DEF Eased, Buf
  <2>2. ASSUME NEW c \in Conv, Parked(c)' # {}, Attends("drain", c) PROVE FALSE
    BY <1>1, <1>7, <2>2 DEF Attends, Parked
  <2> QED  BY <1>1, <1>4, <1>6, <2>1, <2>2 DEF Calms, SameSpot
<1>9. Fits("drain")'
  BY <1>1, <1>3, <1>6, OutsideFits
<1>10. AckedIsHeld'
  <2>1. \A c \in Conv : \A x \in Parked(c) : Held(x)'
    BY <1>7 DEF Held
  <2> QED  BY <1>1, <2>1, StillHeld
<1> QED  BY <1>1, <1>8, <1>9, <1>10, CalmStep

LEMMA DrainSync ==
    ASSUME ~AsyncHandlers, DeliveryInv, OrderTyped', SyncInv, OneRuns', Drain
    PROVE  SyncInv'
<1>1. OrderTyped /\ clean \subseteq handed /\ 1..drain.cursor \subseteq clean \cup acked
  BY DEF DeliveryInv, AppTyped, ConfirmInv, CursorIsCovered, Covered
<1>2. CASE SyncFails
  <2>1. /\ Runs("drain") /\ task["drain"].pc = "sync" /\ Commit(states, DrainTo("idle"), objs)
        /\ conn' = conn /\ disposed' = disposed /\ handed' = handed /\ acked' = acked
    BY <1>2 DEF SyncFails, At, DrainEnds, server, link, app
  <2> QED  BY <1>1, <2>1, DrainGoesOn
<1>3. CASE SyncAnswers
  <2>1. /\ Runs("drain") /\ task["drain"].pc = "sync"
        /\ conn' = conn /\ disposed' = disposed /\ handed' = handed /\ acked' = acked
    BY <1>3 DEF SyncAnswers, At, server, link, app
  <2>2. CASE DrainEnds
    BY <1>1, <2>1, <2>2, DrainGoesOn DEF DrainEnds
  <2>3. CASE Commit(states,
                    [t \in Tasks |-> IF t = "drain" THEN [Idle EXCEPT !.pc = "row"]
                                     ELSE [task[t] EXCEPT !.row = FALSE]],
                    ForgetRows(objs))
    BY <1>1, <2>1, <2>3, NewPageSync
  <2> QED  BY <1>3, <2>2, <2>3 DEF SyncAnswers
<1>4. CASE DrainRow
  <2> DEFINE e == [ws |-> FALSE, row |-> TRUE]
  <2>1. PICK m \in drain.left : Route("drain", m, e, FALSE)
    BY <1>4 DEF DrainRow, Lowest
  <2>2. /\ Runs("drain") /\ task["drain"].pc = "row" /\ e \in Entry /\ m \in Msgs
        /\ conn' = conn /\ disposed' = disposed /\ handed' = handed /\ acked' = acked
    BY <1>4, <2>1 DEF DrainRow, At, server, link, app, Entry, DeliveryInv, ConfirmInv, DrainState
  <2> HIDE DEF e
  <2>3. PICK spent \in BOOLEAN : ~spent /\ Route("drain", m, e, spent)
    BY <2>1
  <2> QED  BY <2>2, <2>3, RouteSync
<1>5. CASE DrainRouted
  <2>1. /\ Runs("drain") /\ task["drain"].pc = "row"
        /\ conn' = conn /\ disposed' = disposed /\ handed' = handed /\ acked' = acked
    BY <1>5 DEF DrainRouted, At, server, link, app
  <2>2. \E pc \in {"idle", "sync", "check"} : Commit(states, DrainTo(pc), objs)
    BY <1>5, EndPageTo DEF DrainRouted
  <2> QED  BY <1>1, <2>1, <2>2, DrainGoesOn
<1>6. CASE CheckRow
  BY <1>6, OrderUntouched DEF CheckRow, server, link, app
<1>7. CASE PageChecked
  <2>1. /\ Runs("drain") /\ task["drain"].pc = "check"
        /\ conn' = conn /\ disposed' = disposed /\ handed' = handed /\ acked' = acked
    BY <1>7 DEF PageChecked, At, server, link, app
  <2>2. \E pc \in {"idle", "sync", "syncack"} : Commit(states, DrainTo(pc), objs)
    BY <1>7, EndPageTo DEF PageChecked
  <2> QED  BY <1>1, <2>1, <2>2, DrainGoesOn
<1>8. CASE \E applied, answered \in BOOLEAN : SyncAck(applied, answered)
  <2>1. /\ Runs("drain") /\ task["drain"].pc = "syncack"
        /\ conn' = conn /\ disposed' = disposed /\ handed' = handed
        /\ acked' \in {acked, acked \cup 1..drain.cursor} /\ (EndPage \/ DrainEnds)
    BY <1>8 DEF SyncAck, At, link, app
  <2>2. acked' \subseteq acked \cup handed
    BY <1>1, <2>1
  <2> QED  BY <1>1, <2>1, <2>2, EndPageTo, DrainGoesOn
<1> QED  BY <1>2, <1>3, <1>4, <1>5, <1>6, <1>7, <1>8 DEF Drain
----------------------------------------------------------------------------
(* The gap timer and the gap fill *)

\* Timer task t writes object o only, and goes on as r.
Writes(t, o, sts, r, new, tsk, obs) ==
    /\ Commit(sts, tsk, obs)
    /\ tsk[t] = r /\ \A u \in Tasks \ {t} : tsk[u] = task[u]
    /\ obs[o] = new /\ \A x \in ObjIds \ {o} : obs[x] = objs[x]

LEMMA Written ==
    ASSUME OrderTyped, NEW t \in Tasks, NEW o \in ObjIds, NEW sts, NEW r, NEW new
    PROVE  LET tsk == [task EXCEPT ![t] = r]
               obs == [objs EXCEPT ![o] = new]
           IN  Commit(sts, tsk, obs) => Writes(t, o, sts, r, new, tsk, obs)
<1> DEFINE tsk == [task EXCEPT ![t] = r]
           obs == [objs EXCEPT ![o] = new]
<1>1. /\ tsk[t] = r /\ \A u \in Tasks \ {t} : tsk[u] = task[u]
      /\ obs[o] = new /\ \A x \in ObjIds \ {o} : obs[x] = objs[x]
  BY DEF OrderTyped
<1> HIDE DEF tsk, obs
<1> SUFFICES Commit(sts, tsk, obs) => Writes(t, o, sts, r, new, tsk, obs)
  BY DEF tsk, obs
<1> QED  BY <1>1 DEF Writes

\* The timer of conversation c goes off, and makes `new` of its object: what is
\* parked stays, and so does a fill under way.
LEMMA TimerOffSync ==
    ASSUME ~AsyncHandlers, OrderTyped, OrderTyped', SyncInv, OneRuns', NEW t \in GapTasks, Runs(t),
           task[t].pc = "asleep", NEW c, c = task[t].c, NEW o, o = states[c], o # None,
           UNCHANGED <<acked, handed>>, conn' = conn, disposed' = disposed,
           NEW sts, NEW r, NEW new, NEW tsk, NEW obs, Writes(t, o, sts, r, new, tsk, obs),
           new.timer = None, DOMAIN new.buf = Buf(o),
           \/ sts = states /\ r = Idle /\ new.fill = objs[o].fill /\ objs[o].fill
           \/ sts = states /\ r.pc = "fetch" /\ r.o = o /\ r.c = c
           \/ /\ sts = states /\ r.pc = "resolving" /\ r.site = "resolving" /\ r.o = o /\ r.c = c
              /\ r.todo = Buf(o) /\ new.fill = objs[o].fill
           \/ /\ r = Idle /\ Buf(o) = {} /\ new.fill = objs[o].fill
              /\ \A d \in Conv : sts[d] = states[d] \/ (sts[d] = None /\ d = c)
    PROVE  SyncInv'
<1>1. /\ t \in Tasks /\ t # "stop" /\ c \in Conv /\ o \in ObjIds /\ None \notin ObjIds
      /\ states \in [Conv -> ObjIds \cup {None}]
  BY IdentitiesAssumption DEF Tasks, OrderTyped, GoodTask, Sound
<1>2. /\ states' = sts /\ task'[t] = r /\ \A u \in Tasks \ {t} : task'[u] = task[u]
      /\ sts[c] = o => objs'[o] = new
      /\ \A d \in Conv : sts[d] \in ObjIds \ {o} => objs'[sts[d]] = objs[sts[d]]
      /\ r.o = o => objs'[o] = new
  <2>1. /\ states' = sts /\ task' = tsk
        /\ \A d \in Conv : sts[d] \in ObjIds => objs'[sts[d]] = obs[sts[d]]
        /\ \A u \in Tasks : tsk[u].o \in ObjIds => objs'[tsk[u].o] = obs[tsk[u].o]
    BY CommitEffect DEF Writes
  <2> QED  BY <1>1, <2>1 DEF Writes
<1>3. sts[c] \in {o, None} /\ \A d \in Conv \ {c} : sts[d] = states[d]
  BY <1>1
<1>4. ASSUME NEW d \in Conv \ {c} PROVE Still(d) /\ (states[d] # None => states'[c] # states[d])
  <2>1. states[d] # None => states[d] # o /\ states[d] \in ObjIds
    BY <1>1 DEF SyncInv, OneEach
  <2>2. states[d] # None => objs'[states[d]] = objs[states[d]]
    BY <1>2, <1>3, <2>1
  <2> QED  BY <1>2, <1>3, <2>1, <2>2 DEF Still, Buf
<1>5. Parked(c) = Buf(o) /\ (sts[c] = o => Parked(c)' = Buf(o)) /\ (sts[c] = None => Parked(c)' = {})
  BY <1>1, <1>2 DEF Parked, Buf
<1>6. Idle.pc = "idle" /\ Idle.o = None
  BY DEF Idle
<1>7. \A d \in Conv \ {c} : ~Attends(t, d)
  BY DEF Attends
<1>8. \A m \in Parked(c)' : ConvOf[m] = c
  BY <1>1, <1>3, <1>5 DEF SyncInv, OwnFrames
<1>9. ~disposed /\ states'[c] # None => TimerLives(c)' /\ FillLives(c)'
  <2> SUFFICES ASSUME ~disposed, sts[c] = o PROVE TimerLives(c)' /\ FillLives(c)'
    BY <1>2, <1>3
  <2>1. objs'[states'[c]] = new /\ states'[c] = states[c] /\ states[c] = o
    BY <1>2
  <2>2. TimerLives(c)'
    BY <2>1 DEF TimerLives
  <2>3. CASE new.fill = objs[o].fill
    <3>1. \A u \in Tasks \ {t} : SameSpot(u)
      BY <1>2 DEF SameSpot
    <3>2. task[t].o = None
      BY <1>1 DEF SyncInv, Fits, LetsGo, OnObject, Handling
    <3> QED  BY <1>1, <2>1, <2>2, <2>3, <3>1, <3>2, ClocksStay
  <2>4. CASE r.pc = "fetch" /\ r.o = o /\ r.c = c
    BY <1>2, <2>1, <2>2, <2>4 DEF FillLives, Fetching
  <2> QED  BY <2>3, <2>4
<1>10. ~disposed /\ conn # "closing" /\ Parked(c)' # {}
         => objs'[states'[c]].timer # None \/ \E u \in Tasks : Attends(u, c)'
  <2> SUFFICES ASSUME ~disposed, sts[c] = o, Buf(o) # {} PROVE \E u \in Tasks : Attends(u, c)'
    BY <1>3, <1>5
  <2>1. CASE r.o = o /\ r.c = c
    BY <1>1, <1>2, <2>1 DEF Attends
  <2>2. CASE objs[o].fill
    <3>1. PICK g \in GapTasks : Fetching(g, c)
      BY <1>1, <2>2 DEF SyncInv, ClocksRun, FillLives
    <3>2. g \in Tasks /\ task'[g] = task[g]
      BY <1>2, <3>1 DEF Fetching, Tasks
    <3> QED  BY <1>2, <3>1, <3>2 DEF Fetching, Attends
  <2> QED  BY <2>1, <2>2
<1>11. Fits(t)'
  <2>1. CASE r = Idle
    BY <1>1, <1>2, <1>6, <2>1, OutsideFits
  <2>2. CASE r.pc = "fetch" /\ r.o = o
    <3>1. OnObject(r) /\ ~Working(r) /\ ~Sweeping(r) /\ ~Flushing(r)
      BY <2>2 DEF OnObject, Working, Sweeping, Flushing, Handling
    <3> QED  BY <1>2, <2>2, <3>1 DEF Fits, LetsGo, InPlace, SweepKnows, ReportsEmpty, KnowsItsSite, FlushCovers
  <2>3. CASE /\ sts = states /\ r.pc = "resolving" /\ r.site = "resolving" /\ r.o = o /\ r.c = c
             /\ r.todo = Buf(o)
    <3>1. LetsGo(t)' /\ InPlace(t)' /\ SweepKnows(t)' /\ KnowsItsSite(t)'
      BY <1>2, <2>3 DEF LetsGo, OnObject, InPlace, SweepKnows, KnowsItsSite, Buf
    <3>2. ~Flushing(r) /\ r.pc # "notify"
      BY <2>3 DEF Flushing, Handling
    <3> QED  BY <1>2, <3>1, <3>2 DEF Fits, ReportsEmpty, FlushCovers
  <2> QED  BY <2>1, <2>2, <2>3
<1>12. AckedIsHeld'
  <2>1. \A d \in Conv : Parked(d) \subseteq Parked(d)'
    BY ZenonT(60), <1>2, <1>3, <1>4, <1>5 DEF Still, Parked, Buf
  <2>2. \A d \in Conv : \A x \in Parked(d) : Held(x)'
    BY <2>1 DEF Held
  <2> QED  BY <1>1, <2>2, StillHeld
<1>13. \A u \in Tasks \ {t} : SameSpot(u)
  BY <1>2 DEF SameSpot
<1> QED  BY <1>1, <1>4, <1>7, <1>8, <1>9, <1>10, <1>11, <1>12, <1>13, OneConvStep
\* The conversation is gone: the task that came for it just ends.
LEMMA TimerEndsSync ==
    ASSUME ~AsyncHandlers, OrderTyped, OrderTyped', SyncInv, OneRuns', NEW t \in GapTasks, Runs(t),
           task[t].pc = "asleep", states[task[t].c] = None, GoesOn(t, Idle),
           UNCHANGED <<acked, handed>>, conn' = conn, disposed' = disposed
    PROVE  SyncInv'
<1>0. PICK c : c = task[t].c
  OBVIOUS
<1>1. t \in Tasks /\ t # "stop" /\ c \in Conv /\ states[c] = None
  BY <1>0, IdentitiesAssumption DEF Tasks, OrderTyped, GoodTask, Sound
<1>2. /\ states' = states /\ task'[t] = Idle /\ \A u \in Tasks \ {t} : task'[u] = task[u]
      /\ \A d \in Conv : states[d] # None => objs'[states[d]] = objs[states[d]]
      /\ \A d \in Conv : Parked(d)' = Parked(d)
  BY <1>1, GoesOnEffect
<1>3. Idle.pc = "idle" /\ Idle.o = None
  BY DEF Idle
<1>4. Fits(t)'
  BY <1>1, <1>2, <1>3, OutsideFits
<1>5. AckedIsHeld'
  <2>1. \A d \in Conv : \A x \in Parked(d) : Held(x)'
    BY <1>2 DEF Held
  <2> QED  BY <1>1, <2>1, StillHeld
<1>6. \A d \in Conv \ {c} : Still(d) /\ ~Attends(t, d) /\ (states[d] # None => states'[c] # states[d])
  BY <1>0, <1>1, <1>2 DEF Still, Buf, Attends
<1>7. states'[c] = None /\ Parked(c)' = {}
  BY <1>1, <1>2 DEF Parked
<1>8. \A u \in Tasks \ {t} : SameSpot(u)
  BY <1>2 DEF SameSpot
<1> QED  BY <1>0, <1>1, <1>4, <1>5, <1>6, <1>7, <1>8, OneConvStep

LEMMA GapTimerFiresSync ==
    ASSUME ~AsyncHandlers, OrderTyped, OrderTyped', SyncInv, OneRuns', NEW t \in Tasks, GapTimerFires(t)
    PROVE  SyncInv'
<1>0. PICK c, o : c = task[t].c /\ o = states[c]
  OBVIOUS
<1>1. /\ t \in GapTasks /\ Runs(t) /\ task[t].pc = "asleep"
      /\ UNCHANGED <<acked, handed>> /\ conn' = conn /\ disposed' = disposed
  BY DEF GapTimerFires, At, server, app, link
<1>2. /\ c \in Conv /\ task[t] \in GoodTask /\ task[t].o \in ObjIds \cup {None}
      /\ states \in [Conv -> ObjIds \cup {None}]
  BY <1>0, <1>1 DEF OrderTyped, GoodTask, Sound, TaskState
<1>3. CASE o = None
  <2>1. Commit(states, [task EXCEPT ![t] = Idle], objs)
    BY <1>0, <1>3 DEF GapTimerFires
  <2> QED  BY <1>0, <1>1, <1>3, <2>1, TimerEndsSync DEF GoesOn
<1>4. CASE o # None
  <2>1. o \in ObjIds /\ objs[o] \in OrderState
    BY <1>0, <1>2, <1>4 DEF OrderTyped
  <2> DEFINE ob == [objs[o] EXCEPT !.timer = None]
  <2>2. \/ /\ ob.buf = <<>>
           /\ Commit(Cleanup(states, c, ob), [task EXCEPT ![t] = Idle], [objs EXCEPT ![o] = ob])
        \/ Commit(states, [task EXCEPT ![t] = Resolve(t, c, o, ob, FALSE)], [objs EXCEPT ![o] = ob])
        \/ ob.fill /\ Commit(states, [task EXCEPT ![t] = Idle], [objs EXCEPT ![o] = ob])
        \/ Commit(states,
                  [task EXCEPT ![t] = [task[t] EXCEPT !.pc = "fetch", !.o = o, !.exp = ob.next,
                                                      !.from = ob.next, !.read = pub]],
                  [objs EXCEPT ![o] = [ob EXCEPT !.fill = TRUE]])
    BY <1>0, <1>4 DEF GapTimerFires
  <2>3. ob.timer = None /\ ob.buf = objs[o].buf /\ ob.fill = objs[o].fill /\ DOMAIN ob.buf = Buf(o)
    BY <2>1 DEF OrderState, Buf
  <2>4. /\ [ob EXCEPT !.fill = TRUE].timer = None
        /\ DOMAIN [ob EXCEPT !.fill = TRUE].buf = Buf(o)
    BY <2>1 DEF OrderState, Buf
  <2> HIDE DEF ob
  <2>5. CASE /\ ob.buf = <<>>
             /\ Commit(Cleanup(states, c, ob), [task EXCEPT ![t] = Idle], [objs EXCEPT ![o] = ob])
    <3> DEFINE sts == Cleanup(states, c, ob)
               tsk == [task EXCEPT ![t] = Idle]
               obs == [objs EXCEPT ![o] = ob]
    <3>1. \A d \in Conv : sts[d] = states[d] \/ (sts[d] = None /\ d = c)
      BY <1>2, CleanupEffect
    <3>2. Writes(t, o, sts, Idle, ob, tsk, obs)
      BY <2>1, <2>5, Written
    <3>3. Buf(o) = {}
      BY <2>3, <2>5, NothingBuffered
    <3> HIDE DEF sts, tsk, obs
    <3>4. DOMAIN ob.buf = Buf(o) /\ ob.timer = None
      BY <2>3
    <3>5. ob.fill = objs[o].fill
      BY <2>3
    <3>6. /\ Idle = Idle /\ Buf(o) = {} /\ ob.fill = objs[o].fill
          /\ \A d \in Conv : sts[d] = states[d] \/ (sts[d] = None /\ d = c)
      BY <3>1, <3>3, <3>5
    <3> QED  BY <1>0, <1>1, <1>4, <3>2, <3>4, <3>6, TimerOffSync
  <2>6. CASE Commit(states, [task EXCEPT ![t] = Resolve(t, c, o, ob, FALSE)], [objs EXCEPT ![o] = ob])
    <3> DEFINE r == Resolve(t, c, o, ob, FALSE)
               tsk == [task EXCEPT ![t] = r]
               obs == [objs EXCEPT ![o] = ob]
    <3>1. /\ r.pc = "resolving" /\ r.site = "resolving" /\ r.o = o /\ r.c = c
          /\ r.todo = DOMAIN ob.buf
      BY <1>2 DEF Resolve, GoodTask, TaskState
    <3> HIDE DEF r
    <3>2. Writes(t, o, states, r, ob, tsk, obs)
      BY <2>1, <2>6, Written DEF r
    <3> HIDE DEF tsk, obs
    <3> QED  BY <1>0, <1>1, <1>4, <2>3, <3>1, <3>2, TimerOffSync
  <2>7. CASE ob.fill /\ Commit(states, [task EXCEPT ![t] = Idle], [objs EXCEPT ![o] = ob])
    <3> DEFINE tsk == [task EXCEPT ![t] = Idle]
               obs == [objs EXCEPT ![o] = ob]
    <3>1. Writes(t, o, states, Idle, ob, tsk, obs)
      BY <2>1, <2>7, Written
    <3>2. ob.fill = objs[o].fill /\ objs[o].fill
      BY <2>3, <2>7
    <3> HIDE DEF tsk, obs
    <3>3. DOMAIN ob.buf = Buf(o) /\ ob.timer = None
      BY <2>3
    <3> QED  BY <1>0, <1>1, <1>4, <3>1, <3>2, <3>3, TimerOffSync
  <2>8. CASE Commit(states,
                    [task EXCEPT ![t] = [task[t] EXCEPT !.pc = "fetch", !.o = o, !.exp = ob.next,
                                                        !.from = ob.next, !.read = pub]],
                    [objs EXCEPT ![o] = [ob EXCEPT !.fill = TRUE]])
    <3> DEFINE r == [task[t] EXCEPT !.pc = "fetch", !.o = o, !.exp = ob.next,
                                    !.from = ob.next, !.read = pub]
               new == [ob EXCEPT !.fill = TRUE]
               tsk == [task EXCEPT ![t] = r]
               obs == [objs EXCEPT ![o] = new]
    <3>1. r.pc = "fetch" /\ r.o = o /\ r.c = c
      BY <1>0, <1>2 DEF GoodTask, TaskState
    <3> HIDE DEF r, new
    <3>2. Writes(t, o, states, r, new, tsk, obs)
      BY <2>1, <2>8, Written DEF r, new
    <3>3. new.timer = None /\ DOMAIN new.buf = Buf(o)
      BY <2>4 DEF new
    <3> HIDE DEF tsk, obs
    <3> QED  BY <1>0, <1>1, <1>4, <3>1, <3>2, <3>3, TimerOffSync
  <2> QED  BY <2>2, <2>5, <2>6, <2>7, <2>8
<1> QED  BY <1>3, <1>4

----------------------------------------------------------------------------
(* The answer of the gap fill *)

\* What is left when task t wrote object o and went on as r
Rewrote(t, o, r, new) ==
    /\ states' = states /\ task'[t] = r /\ \A u \in Tasks \ {t} : task'[u] = task[u]
    /\ r.o = o => objs'[o] = new
    /\ \A d \in Conv : states[d] = o => objs'[o] = new
    /\ \A d \in Conv : states[d] # None /\ states[d] # o => objs'[states[d]] = objs[states[d]]

LEMMA WritesEffect ==
    ASSUME OrderTyped, NEW t \in Tasks, NEW o \in ObjIds, NEW r, NEW new, NEW tsk, NEW obs,
           Writes(t, o, states, r, new, tsk, obs)
    PROVE  Rewrote(t, o, r, new)
<1>1. /\ states' = states /\ task' = tsk
      /\ \A d \in Conv : states[d] \in ObjIds => objs'[states[d]] = obs[states[d]]
      /\ \A u \in Tasks : tsk[u].o \in ObjIds => objs'[tsk[u].o] = obs[tsk[u].o]
  BY CommitEffect DEF Writes
<1> QED  BY <1>1 DEF Writes, Rewrote, OrderTyped

\* The fetch of task t is over: other conversations do not notice.
LEMMA FetchLeft ==
    ASSUME ~AsyncHandlers, OrderTyped, SyncInv, NEW t \in GapTasks, Runs(t), task[t].pc = "fetch",
           NEW o, o = task[t].o, NEW r, NEW new, Rewrote(t, o, r, new),
           new.timer = objs[o].timer, ~new.fill, DOMAIN new.buf = Buf(o) \/ states[task[t].c] = o
    PROVE  \A d \in Conv \ {task[t].c} :
              Still(d) /\ (states[d] # None => states'[task[t].c] # states[d]) /\ ~Attends(t, d)
<1>1. /\ task[t].c \in Conv /\ o \in ObjIds /\ None \notin ObjIds
      /\ states \in [Conv -> ObjIds \cup {None}] /\ states' = states
  BY IdentitiesAssumption DEF Tasks, OrderTyped, GoodTask, Sound, OnObject, Rewrote
<1> SUFFICES ASSUME NEW d \in Conv \ {task[t].c}
             PROVE  Still(d) /\ (states[d] # None => states'[task[t].c] # states[d]) /\ ~Attends(t, d)
  OBVIOUS
<1>2. states[d] # None => states[task[t].c] # states[d]
  BY <1>1 DEF SyncInv, OneEach
<1>3. CASE states[d] = None
  BY <1>1, <1>3 DEF Still, Attends
<1>4. CASE states[d] = o
  <2>1. DOMAIN new.buf = Buf(o) /\ objs'[o] = new
    BY <1>1, <1>2, <1>4 DEF Rewrote
  <2> QED  BY <1>1, <1>2, <1>4, <2>1 DEF Still, Buf, Attends
<1>5. CASE states[d] # None /\ states[d] # o
  <2>1. objs'[states[d]] = objs[states[d]]
    BY <1>1, <1>5 DEF Rewrote
  <2> QED  BY <1>1, <1>2, <1>5, <2>1 DEF Still, Buf, Attends
<1> QED  BY <1>3, <1>4, <1>5

LEMMA GapFillFailsSync ==
    ASSUME ~AsyncHandlers, OrderTyped, OrderTyped', SyncInv, OneRuns', NEW t \in Tasks, GapFillFails(t)
    PROVE  SyncInv'
<1>0. PICK c, o : c = task[t].c /\ o = task[t].o
  OBVIOUS
<1> DEFINE ob == [objs[o] EXCEPT !.fill = FALSE]
           r == IF states[c] # o THEN Idle ELSE Resolve(t, c, o, ob, FALSE)
           tsk == [task EXCEPT ![t] = r]
           obs == [objs EXCEPT ![o] = ob]
<1>1. /\ t \in GapTasks /\ Runs(t) /\ task[t].pc = "fetch" /\ Commit(states, tsk, obs)
      /\ handed' = handed /\ acked' = acked /\ conn' = conn /\ disposed' = disposed
  BY <1>0 DEF GapFillFails, At, server, app, link
<1>2. /\ c \in Conv /\ task[t] \in GoodTask /\ o \in ObjIds /\ objs[o] \in OrderState /\ None \notin ObjIds
  BY <1>0, <1>1, IdentitiesAssumption DEF OrderTyped, GoodTask, Sound, OnObject
<1>3. ob.timer = objs[o].timer /\ ~ob.fill /\ ob.buf = objs[o].buf /\ DOMAIN ob.buf = Buf(o)
  BY <1>2 DEF OrderState, Buf
<1>4. /\ states[c] # o => r = Idle
      /\ states[c] = o => /\ r.pc = "resolving" /\ r.site = "resolving" /\ r.o = o /\ r.c = c
                          /\ r.todo = DOMAIN ob.buf
  BY <1>2 DEF Resolve, GoodTask, TaskState
<1> HIDE DEF ob, r
<1>5. Writes(t, o, states, r, ob, tsk, obs)
  BY <1>1, <1>2, Written
<1> HIDE DEF tsk, obs
<1>6. DOMAIN ob.buf = Buf(o)
  BY <1>3
<1>7. /\ t # "stop" /\ states' = states /\ task'[t] = r /\ \A u \in Tasks \ {t} : task'[u] = task[u]
      /\ r.o = o => objs'[o] = ob
      /\ states[c] = o => objs'[o] = ob
      /\ states[c] # None /\ states[c] # o => objs'[states[c]] = objs[states[c]]
      /\ \A d \in Conv \ {c} : Still(d) /\ (states[d] # None => states'[c] # states[d]) /\ ~Attends(t, d)
  <2>1. Rewrote(t, o, r, ob)
    BY <1>2, <1>5, WritesEffect
  <2>2. t # "stop" /\ o = task[t].o
    BY <1>0, <1>1, IdentitiesAssumption
  <2>3. ob.timer = objs[o].timer
    BY <1>3
  <2>4. ~ob.fill
    BY <1>3
  <2>5. \A d \in Conv \ {task[t].c} :
           Still(d) /\ (states[d] # None => states'[task[t].c] # states[d]) /\ ~Attends(t, d)
    BY <1>1, <1>6, <2>1, <2>2, <2>3, <2>4, FetchLeft
  <2> QED  BY <1>0, <1>2, <2>1, <2>2, <2>5 DEF Rewrote
<1>8. Idle.pc = "idle" /\ Idle.o = None
  BY DEF Idle
<1>9. \A u \in Tasks \ {t} : SameSpot(u)
  BY <1>7 DEF SameSpot
<1>10. \A d \in Conv : Parked(d)' = Parked(d)
  BY <1>3, <1>6, <1>7 DEF Still, Parked, Buf
<1>11. \A m \in Parked(c)' : ConvOf[m] = c
  BY <1>2, <1>10 DEF SyncInv, OwnFrames
<1>12. ~disposed /\ states'[c] # None => TimerLives(c)' /\ FillLives(c)'
  <2> SUFFICES ASSUME ~disposed, states[c] # None PROVE TimerLives(c)' /\ FillLives(c)'
    BY <1>7
  <2>1. CASE states[c] # o
    BY <1>0, <1>1, <1>2, <1>7, <1>9, <2>1, ClocksStay
  <2>2. CASE states[c] = o
    <3>1. /\ objs'[states'[c]].timer = objs[states[c]].timer /\ ~objs'[states'[c]].fill
          /\ states'[c] = states[c]
      BY <1>3, <1>7, <2>2
    <3>2. FillLives(c)'
      BY <3>1 DEF FillLives
    <3>3. TimerLives(c)'
      <4> SUFFICES ASSUME objs[states[c]].timer # None PROVE Armed(objs[states[c]].timer, c)'
        BY <3>1 DEF TimerLives
      <4>1. PICK g : g = objs[states[c]].timer
        OBVIOUS
      <4>2. Armed(g, c) /\ g # t /\ g \in Tasks
        BY <1>1, <1>2, <4>1 DEF SyncInv, ClocksRun, TimerLives, Armed, Tasks
      <4>3. Armed(g, c)'
        BY <1>9, <4>2 DEF Armed, SameSpot
      <4> QED  BY <3>1, <4>1, <4>3
    <3> QED  BY <3>2, <3>3
  <2> QED  BY <2>1, <2>2
<1>13. ~disposed /\ conn # "closing" /\ Parked(c)' # {}
         => objs'[states'[c]].timer # None \/ \E u \in Tasks : Attends(u, c)'
  <2> SUFFICES ASSUME ~disposed, conn # "closing", Parked(c) # {}
               PROVE  objs'[states'[c]].timer # None \/ \E u \in Tasks : Attends(u, c)'
    BY <1>2, <1>10
  <2>1. CASE states[c] = o
    BY <1>1, <1>4, <1>7, <2>1 DEF Attends
  <2>2. CASE states[c] # o
    <3>1. states[c] # None
      BY DEF Parked
    <3>2. CASE objs[states[c]].timer # None
      BY <1>7, <2>2, <3>1, <3>2
    <3>3. ASSUME NEW u \in Tasks, Attends(u, c) PROVE Attends(u, c)'
      <4>1. u # t
        BY <1>0, <2>2, <3>3 DEF Attends
      <4>2. task'[u] = task[u]
        BY <1>7, <4>1
      <4> QED  BY <1>7, <3>3, <4>2 DEF Attends
    <3> QED  BY <1>2, <3>2, <3>3 DEF SyncInv, Watched
  <2> QED  BY <2>1, <2>2
<1>14. Fits(t)'
  <2>1. CASE states[c] # o
    BY <1>4, <1>7, <1>8, <2>1, OutsideFits
  <2>2. CASE states[c] = o
    <3>1. /\ r.pc = "resolving" /\ r.site = "resolving" /\ r.o = o /\ r.c = c /\ r.todo = Buf(o)
          /\ objs'[o] = ob
      BY <1>4, <1>6, <1>7, <2>2
    <3>2. LetsGo(t)' /\ InPlace(t)' /\ SweepKnows(t)' /\ KnowsItsSite(t)'
      BY <1>6, <1>7, <2>2, <3>1 DEF LetsGo, OnObject, InPlace, SweepKnows, KnowsItsSite, Buf
    <3>3. ~Flushing(r) /\ r.pc # "notify"
      BY <3>1 DEF Flushing, Handling
    <3> QED  BY <1>7, <3>2, <3>3 DEF Fits, ReportsEmpty, FlushCovers
  <2> QED  BY <2>1, <2>2
<1>15. AckedIsHeld'
  <2>1. \A d \in Conv : \A x \in Parked(d) : Held(x)'
    BY <1>10 DEF Held
  <2> QED  BY <1>1, <2>1, StillHeld
<1>16. task[t].c = c
  BY <1>0
<1> QED  BY <1>1, <1>2, <1>7, <1>9, <1>11, <1>12, <1>13, <1>14, <1>15, <1>16, OneConvStep

LEMMA GapFillAnswersSync ==
    ASSUME ~AsyncHandlers, OrderTyped, OrderTyped', SyncInv, OneRuns', NEW t \in Tasks, GapFillAnswers(t)
    PROVE  SyncInv'
<1>0. PICK c, o, read : c = task[t].c /\ o = task[t].o /\ TakesPage(t, read)
  BY DEF GapFillAnswers
<1> DEFINE rows == HistoryPage(c, task[t].from, read) \ Buf(o)
           buf == [m \in Buf(o) \cup rows |->
                      IF m \in Buf(o) THEN objs[o].buf[m] ELSE [ws |-> ~AckOnReceipt, row |-> FALSE]]
           new == [objs[o] EXCEPT !.fill = FALSE, !.buf = buf]
           r == [task[t] EXCEPT !.pc = "chain", !.read = read]
           tsk == [task EXCEPT ![t].pc = "chain", ![t].read = read]
           obs == [objs EXCEPT ![o].fill = FALSE,
                               ![o].buf = [m \in DOMAIN @ \cup rows |->
                                   IF m \in DOMAIN @ THEN @[m]
                                   ELSE [ws |-> ~AckOnReceipt, row |-> FALSE]]]
<1>1. /\ t \in GapTasks /\ Runs(t) /\ task[t].pc = "fetch" /\ states[c] = o
      /\ handed' = handed /\ conn' = conn /\ disposed' = disposed
      /\ acked' \in IF AckOnReceipt THEN Acks(rows) ELSE {acked}
      /\ Commit(states, tsk, obs)
  BY <1>0 DEF GapFillAnswers, TakesPage, At, app, link, Buf
<1>2. /\ c \in Conv /\ task[t] \in GoodTask /\ o \in ObjIds /\ objs[o] \in OrderState /\ None \notin ObjIds
  BY <1>0, <1>1, IdentitiesAssumption DEF OrderTyped, GoodTask, Sound, OnObject
<1>3. obs[o] = new /\ \A x \in ObjIds \ {o} : obs[x] = objs[x]
  BY <1>2 DEF OrderTyped, OrderState, Buf
<1>4. new.timer = objs[o].timer /\ ~new.fill /\ DOMAIN new.buf = Buf(o) \cup rows
  <2>1. DOMAIN buf = Buf(o) \cup rows
    OBVIOUS
  <2> HIDE DEF buf
  <2> QED  BY <1>2, <2>1 DEF OrderState
<1>5. tsk[t] = r /\ \A u \in Tasks \ {t} : tsk[u] = task[u]
  BY <1>2 DEF OrderTyped
<1>6. r.pc = "chain" /\ r.o = o /\ r.c = c
  BY <1>0, <1>2 DEF GoodTask, TaskState
<1>7. \A m \in rows : ConvOf[m] = c
  BY DEF HistoryPage, Visible
<1>8. acked' \subseteq acked \cup rows
  <2> HIDE DEF rows
  <2> QED  BY <1>1 DEF Acks
<1> HIDE DEF rows, buf, new, r, tsk, obs
<1>9. Rewrote(t, o, r, new)
  <2>1. Writes(t, o, states, r, new, tsk, obs)
    BY <1>1, <1>3, <1>5 DEF Writes
  <2> QED  BY <1>2, <2>1, WritesEffect
<1>10. /\ t # "stop" /\ states' = states /\ task'[t] = r /\ \A u \in Tasks \ {t} : task'[u] = task[u]
       /\ objs'[o] = new
       /\ \A d \in Conv \ {c} : Still(d) /\ (states[d] # None => states'[c] # states[d]) /\ ~Attends(t, d)
  <2>1. t # "stop" /\ o = task[t].o /\ states[task[t].c] = o
    BY <1>0, <1>1, IdentitiesAssumption
  <2>2. new.timer = objs[o].timer
    BY <1>4
  <2>3. ~new.fill
    BY <1>4
  <2>4. \A d \in Conv \ {task[t].c} :
           Still(d) /\ (states[d] # None => states'[task[t].c] # states[d]) /\ ~Attends(t, d)
    BY <1>1, <1>9, <2>1, <2>2, <2>3, FetchLeft
  <2> QED  BY <1>0, <1>6, <1>9, <2>1, <2>4 DEF Rewrote
<1>11. \A u \in Tasks \ {t} : SameSpot(u)
  BY <1>10 DEF SameSpot
<1>12. Parked(c) = Buf(o) /\ Parked(c)' = Buf(o) \cup rows /\ \A d \in Conv \ {c} : Parked(d)' = Parked(d)
  BY <1>1, <1>2, <1>4, <1>10 DEF Still, Parked, Buf
<1>13. \A m \in Parked(c)' : ConvOf[m] = c
  BY <1>2, <1>7, <1>12 DEF SyncInv, OwnFrames
<1>14. ~disposed /\ states'[c] # None => TimerLives(c)' /\ FillLives(c)'
  <2> SUFFICES ASSUME ~disposed PROVE TimerLives(c)' /\ FillLives(c)'
    OBVIOUS
  <2>1. /\ objs'[states'[c]].timer = objs[states[c]].timer /\ ~objs'[states'[c]].fill
        /\ states'[c] = states[c]
    BY <1>1, <1>4, <1>10
  <2>2. FillLives(c)'
    BY <2>1 DEF FillLives
  <2>3. TimerLives(c)'
    <3> SUFFICES ASSUME objs[states[c]].timer # None PROVE Armed(objs[states[c]].timer, c)'
      BY <2>1 DEF TimerLives
    <3>1. PICK g : g = objs[states[c]].timer
      OBVIOUS
    <3>2. Armed(g, c) /\ g # t /\ g \in Tasks
      BY <1>1, <1>2, <3>1 DEF SyncInv, ClocksRun, TimerLives, Armed, Tasks
    <3>3. Armed(g, c)'
      BY <1>11, <3>2 DEF Armed, SameSpot
    <3> QED  BY <2>1, <3>1, <3>3
  <2> QED  BY <2>2, <2>3
<1>15. Attends(t, c)'
  BY <1>1, <1>6, <1>10 DEF Attends
<1>16. Fits(t)'
  <2>1. LetsGo(t)' /\ InPlace(t)' /\ KnowsItsSite(t)'
    BY <1>1, <1>6, <1>10 DEF LetsGo, OnObject, InPlace, KnowsItsSite
  <2>2. ~Sweeping(r) /\ ~Flushing(r) /\ r.pc # "notify"
    BY <1>6 DEF Sweeping, Flushing, Handling
  <2> QED  BY <1>10, <2>1, <2>2 DEF Fits, SweepKnows, ReportsEmpty, FlushCovers
<1>17. AckedIsHeld'
  <2>1. \A d \in Conv : Parked(d) \subseteq Parked(d)'
    BY <1>12
  <2>2. \A d \in Conv : \A x \in Parked(d) : Held(x)'
    BY <2>1 DEF Held
  <2>3. \A x \in rows : Held(x)'
    BY <1>2, <1>12 DEF Held
  <2> QED  BY <1>1, <1>8, <2>2, <2>3, StillHeld
<1>18. task[t].c = c
  BY <1>0
<1> QED  BY <1>1, <1>2, <1>10, <1>11, <1>13, <1>14, <1>15, <1>16, <1>17, <1>18, OneConvStep

----------------------------------------------------------------------------
(* The theorems *)

LEMMA SyncInitially == Init => SyncInv
<1> SUFFICES ASSUME Init PROVE SyncInv
  OBVIOUS
<1>1. /\ \A t \in Tasks : task[t] = Idle
      /\ Idle.pc = "idle" /\ Idle.o = None
      /\ \A c \in Conv : states[c] = None
      /\ acked = {} /\ "stop" \in Tasks
  BY DEF Init, Idle, Tasks
<1>2. ~Working(Idle) /\ ~Sweeping(Idle) /\ ~Flushing(Idle)
  BY <1>1 DEF Working, Sweeping, Flushing, Handling
<1>3. OneRuns
  BY <1>1 DEF OneRuns, Waiting
<1>4. \A t \in Tasks : Fits(t)
  BY <1>1, <1>2 DEF Fits, LetsGo, InPlace, SweepKnows, ReportsEmpty, KnowsItsSite, FlushCovers
<1>5. OneEach /\ OwnFrames /\ ClocksRun /\ Watched
  BY <1>1 DEF OneEach, OwnFrames, ClocksRun, Watched, Parked
<1>6. AckedIsHeld /\ StopsDisposed
  BY <1>1 DEF AckedIsHeld, StopsDisposed
<1> QED  BY <1>3, <1>4, <1>5, <1>6 DEF SyncInv

LEMMA SyncStep ==
    ASSUME ~AsyncHandlers, DeliveryInv, SyncInv, [Next]_vars
    PROVE  SyncInv'
<1>1. OrderTyped /\ OrderTyped' /\ OneRuns'
  BY OrderStaysTyped, OneKeepsRunning DEF DeliveryInv, ConfirmInv, SyncInv
<1>2. ASSUME NEW t \in Tasks, Step(t) PROVE SyncInv'
  <2>1. CASE DedupHit(t) \/ Dispatch(t)
    BY <1>1, <2>1, ChokePointSync
  <2>2. CASE ChainNext(t)
    BY <1>1, <2>2, ChainNextSync
  <2>3. CASE ChainEnd(t)
    BY <1>1, <2>3, ChainToResolveSync, ChainHomeSync
  <2>4. CASE SweepNext(t)
    BY <1>1, <2>4, SweepNextSync
  <2>5. CASE SweepEnd(t)
    BY <1>1, <2>5, SweepEndSync
  <2>6. CASE MissingFrame(t)
    BY <2>6, NoFrameIsMissing
  <2>7. CASE FlushConversation(t)
    BY <1>1, <2>7, FlushConversationSync
  <2>8. CASE FlushEnd(t)
    BY <1>1, <2>8, FlushEndSync
  <2> QED  BY <1>2, <2>1, <2>2, <2>3, <2>4, <2>5, <2>6, <2>7, <2>8 DEF Step
<1>3. ASSUME NEW t \in Tasks, HandlerReturns(t) PROVE SyncInv'
  BY <1>1, <1>3, ChokePointSync, NotifiedSync DEF HandlerReturns
<1>4. ASSUME NEW t \in Tasks, GapTimer(t) PROVE SyncInv'
  BY <1>1, <1>4, GapTimerFiresSync, GapFillFailsSync, GapFillAnswersSync DEF GapTimer
<1>5. CASE Drain
  BY <1>1, <1>5, DrainSync
<1>6. CASE Socket
  BY <1>1, <1>6, CloseOrderStateSync, ReleaseSync DEF Socket
<1>7. CASE Environment
  BY <1>1, <1>7, RecvFrameSync, ConnectSync, SocketClosesSync, DisconnectSync DEF Environment
<1>8. CASE UNCHANGED vars
  BY <1>8, OrderUntouched DEF vars, order, server, link, app
<1> QED  BY <1>2, <1>3, <1>4, <1>5, <1>6, <1>7, <1>8 DEF Next

\* The invariant of the ordering layer, by induction over the steps
THEOREM SyncInvariant ==
    ASSUME ~AsyncHandlers
    PROVE  Spec => []SyncInv
<1>1. DeliveryInv /\ SyncInv /\ [Next]_vars => SyncInv'
  BY SyncStep
<1> QED  BY <1>1, SyncInitially, DeliveryInvariant, PTL DEF Spec

\* With ack_on_receipt and handlers that do not suspend, a message the server
\* will not offer again was handed to the handlers or is still in memory: parked
\* behind a gap, or on its way through the choke point.
THEOREM AckedIsNotLost ==
    ASSUME ~AsyncHandlers
    PROVE  Spec => []NoAckedFrameLost
<1>1. DeliveryInv /\ SyncInv => NoAckedFrameLost
  <2> SUFFICES ASSUME DeliveryInv, SyncInv, AckOnReceipt, NEW m \in acked, m \notin handed
               PROVE  m \in InMemory
    BY DEF NoAckedFrameLost
  <2>1. CASE \E c \in Conv : m \in Parked(c)
    <3>1. PICK c \in Conv : m \in Parked(c)
      BY <2>1
    <3>2. states[c] # None /\ m \in DOMAIN objs[states[c]].buf
      BY <3>1 DEF Parked
    <3>3. states[c] \in Referenced(states, task) \ {None}
      BY <3>2 DEF Referenced
    <3>4. m \in UNION {DOMAIN objs[o].buf : o \in Referenced(states, task) \ {None}}
      BY <3>2, <3>3
    <3> QED  BY <3>4 DEF InMemory
  <2>2. CASE \E t \in Tasks : task[t].pc = "deliver" /\ task[t].m = m
    <3>1. m \in {task[t].m : t \in {u \in Tasks : task[u].pc = "deliver"}}
      BY <2>2
    <3> QED  BY <3>1 DEF InMemory
  <2> QED  BY <2>1, <2>2 DEF SyncInv, AckedIsHeld, Held
<1> QED  BY <1>1, SyncInvariant, DeliveryInvariant, PTL

\* When handlers do not suspend, a frame parked on a gap has somebody to release
\* it whenever the event loop is free: its timer sleeps, or a gap fill is at work.
THEOREM ParkedIsWatched ==
    ASSUME ~AsyncHandlers
    PROVE  Spec => []ParkedHasTimer
<1>1. SyncInv => ParkedHasTimer
  <2> SUFFICES ASSUME SyncInv, conn = "up", ~disposed, NEW c \in Conv, Parked(c) # {},
                      \A t \in Tasks : task[t].o # states[c]
               PROVE  /\ objs[states[c]].timer # None
                      /\ task[objs[states[c]].timer].pc = "asleep"
                      /\ task[objs[states[c]].timer].c = c
    BY DEF ParkedHasTimer
  <2>1. states[c] # None
    BY DEF Parked
  <2>2. objs[states[c]].timer # None
    BY DEF SyncInv, Watched, Attends
  <2>3. Armed(objs[states[c]].timer, c)
    BY <2>1, <2>2 DEF SyncInv, ClocksRun, TimerLives
  <2> QED  BY <2>2, <2>3 DEF Armed
<1> QED  BY <1>1, SyncInvariant, PTL

\* When handlers do not suspend, no sweep of the buffer meets a frame that was
\* taken away (KeyError), so nothing but disconnect() ends the client.
THEOREM OnlyDisconnectEnds ==
    ASSUME ~AsyncHandlers
    PROVE  Spec => []NeverDead
<1>1. Init => NeverDead
  BY DEF Init, NeverDead
<1>2. SyncInv /\ NeverDead /\ [Next]_vars => NeverDead'
  <2> SUFFICES ASSUME SyncInv, NeverDead, [Next]_vars PROVE conn' # "dead"
    BY DEF NeverDead
  <2>1. ASSUME NEW t \in Tasks, Step(t) PROVE conn' # "dead"
    BY <2>1, NoFrameIsMissing DEF Step, DedupHit, Dispatch, ChainNext, ChainEnd, SweepNext, SweepEnd,
       FlushConversation, FlushEnd, link, NeverDead
  <2>2. ASSUME NEW t \in Tasks, HandlerReturns(t) PROVE conn' # "dead"
    BY <2>2 DEF HandlerReturns, HandledCleanly, HandlerRaised, Notified, link, NeverDead
  <2>3. ASSUME NEW t \in Tasks, GapTimer(t) PROVE conn' # "dead"
    BY <2>3 DEF GapTimer, GapTimerFires, GapFillFails, GapFillAnswers, link, NeverDead
  <2>4. CASE Drain
    BY <2>4 DEF Drain, SyncFails, SyncAnswers, DrainRow, DrainRouted, CheckRow, PageChecked, SyncAck,
       link, NeverDead
  <2>5. CASE Socket
    BY <2>5 DEF Socket, CloseOrderState, Release, NeverDead
  <2>6. CASE Environment
    BY <2>6 DEF Environment, RecvFrame, Connect, SocketCloses, Disconnect, link, NeverDead
  <2>7. CASE UNCHANGED vars
    BY <2>7 DEF vars, link, NeverDead
  <2> QED  BY <2>1, <2>2, <2>3, <2>4, <2>5, <2>6, <2>7 DEF Next
<1> QED  BY <1>1, <1>2, SyncInvariant, PTL DEF Spec

----------------------------------------------------------------------------
(* What a gap that is reported as recovered rests on *)

\* The sequenced messages of a conversation, and the seq its next report would
\* start from
Seqd(c) == {m \in Msgs : ConvOf[m] = c /\ SeqOf[m] # NoSeq}
Base(o) == IF objs[o].started # 0 THEN objs[o].started ELSE objs[o].next

\* A tracked conversation began with a message below the expected seq, and since
\* the gap opened nothing below that seq was passed over.
Begun(c) == \E x \in Seqd(c) : SeqOf[x] < objs[states[c]].next
NonePassed(c) ==
    \A m \in Seqd(c) : Base(states[c]) <= SeqOf[m] /\ SeqOf[m] < objs[states[c]].next => m \in handed
Tracks(c) == states[c] # None => Begun(c) /\ NonePassed(c)

\* The task is between an in-order delivery and the next test of the chain.
InLineNow(r) ==
    \/ r.pc \in {"inorder", "chained"}
    \/ Handling(r) /\ r.site \in {"inorder", "chained"}

\* The message it delivers is the expected one of its conversation.
DeliversNext(t) ==
    LET r == task[t] IN
    InLineNow(r) => /\ states[r.c] = r.o /\ r.m \in Seqd(r.c) /\ SeqOf[r.m] = objs[r.o].next
                    /\ ~Handling(r) => r.m \in handed

\* The task walks the chain behind the rows of its gap fill.
OnHistory(r) == r.pc \in {"chain", "chained"} \/ (Handling(r) /\ r.site = "chained")

\* What the page brought is parked, handed over, or in hand.
HasAll(r) ==
    HistoryPage(r.c, r.from, r.read) \subseteq Buf(r.o) \cup handed \cup InHand(r)

\* Of the gap that is reported, what lies before the page was handed over.
HadBefore(r) ==
    \A m \in Seqd(r.c) : r.exp <= SeqOf[m] /\ SeqOf[m] < r.from => m \in handed

FetchesFromNext(t) ==
    LET r == task[t] IN r.pc = "fetch" => r.from <= objs[r.o].next

GapTaskTakesPage(t) ==
    LET r == task[t] IN
    t \in GapTasks =>
        /\ r.pc # "inorder" /\ ~(Handling(r) /\ r.site = "inorder")
        /\ OnHistory(r) => states[r.c] = r.o /\ r.from <= objs[r.o].next /\ HasAll(r)

SweepsUpward(t) ==
    LET r == task[t] IN Sweeping(r) => objs[r.o].next <= r.high + 1

ReportsAll(t) ==
    LET r == task[t] IN
    r.rec /\ (Sweeping(r) \/ r.pc = "notify") => r.exp # 0 /\ HasAll(r) /\ HadBefore(r)

Recovers(t) ==
    /\ DeliversNext(t) /\ FetchesFromNext(t) /\ GapTaskTakesPage(t) /\ SweepsUpward(t)
    /\ ReportsAll(t)

RecoverInv == (\A t \in Tasks : Recovers(t)) /\ (\A c \in Conv : Tracks(c))

----------------------------------------------------------------------------
(* What a step leaves of it *)

\* A task that waits goes on with its gap fill, or has nothing to go on with.
StaysAt(u, tsk) ==
    \/ tsk[u].pc \in {"idle", "asleep"}
    \/ /\ tsk[u].pc = task[u].pc /\ tsk[u].o = task[u].o /\ tsk[u].c = task[u].c
       /\ tsk[u].from = task[u].from

\* No object that somebody refers to falls back.
NextsGrow(obs) ==
    \A x \in ObjIds : objs[x].next <= obs[x].next \/ \A u \in Tasks : task[u].o # x

LEMMA OthersRecover ==
    ASSUME ~AsyncHandlers, OrderTyped, OrderTyped', RecoverInv, NEW t \in Tasks, Runs(t),
           NEW sts, NEW tsk, NEW obs, Commit(sts, tsk, obs), NextsGrow(obs),
           \A u \in Tasks \ {t} : StaysAt(u, tsk)
    PROVE  \A u \in Tasks \ {t} : Recovers(u)'
<1> SUFFICES ASSUME NEW u \in Tasks \ {t} PROVE Recovers(u)'
  OBVIOUS
<1>1. task' = tsk /\ \A v \in Tasks : tsk[v].o \in ObjIds => objs'[tsk[v].o] = obs[tsk[v].o]
  BY CommitEffect
<1>2. task[u].pc \in Waiting /\ FetchesFromNext(u)
  BY DEF Runs, RecoverInv, Recovers
<1>3. task'[u].pc \in Waiting
  BY <1>1, <1>2 DEF StaysAt, Waiting
<1>4. /\ ~Handling(task'[u]) /\ ~Sweeping(task'[u])
      /\ task'[u].pc \notin {"inorder", "chained", "chain", "notify"}
  BY <1>3, AwayFromOrder, WhereTasksWait
<1>5. FetchesFromNext(u)'
  <2> SUFFICES ASSUME task'[u].pc = "fetch" PROVE FetchesFromNext(u)'
    BY DEF FetchesFromNext
  <2>1. /\ task[u].pc = "fetch" /\ task'[u].o = task[u].o /\ task'[u].c = task[u].c
        /\ task'[u].from = task[u].from
    BY <1>1 DEF StaysAt
  <2>2. task[u].o \in ObjIds /\ task[u].from \in Nat
    BY <2>1 DEF OrderTyped, GoodTask, Sound, OnObject, TaskState
  <2>3. objs'[task[u].o] = obs[task[u].o] /\ objs[task[u].o].next <= obs[task[u].o].next
    BY <1>1, <2>1, <2>2 DEF NextsGrow
  <2>4. objs[task[u].o].next \in Nat /\ objs'[task[u].o].next \in Nat
    BY <2>2 DEF OrderTyped, OrderState
  <2> QED  BY <1>2, <2>1, <2>2, <2>3, <2>4 DEF FetchesFromNext
<1> QED  BY <1>4, <1>5 DEF Recovers, DeliversNext, GapTaskTakesPage, SweepsUpward, ReportsAll, InLineNow, OnHistory

\* Outside the ordering layer there is nothing to know.
LEMMA OutsideRecovers ==
    ASSUME NEW t \in Tasks,
           \/ task'[t].pc \in {"idle", "row", "sync", "check", "syncack", "leaving", "asleep",
                               "failed", "closing", "flush"}
           \/ Handling(task'[t]) /\ task'[t].site \in {"idle", "row"}
    PROVE  Recovers(t)'
BY DEF Recovers, DeliversNext, FetchesFromNext, GapTaskTakesPage, SweepsUpward, ReportsAll,
       InLineNow, OnHistory, Sweeping, Handling

\* Nor when a sweep starts that reports nothing as recovered.
LEMMA SweepStartRecovers ==
    ASSUME OrderTyped', NEW t \in Tasks, task'[t].pc \in {"resolving", "flushing"}, ~task'[t].rec,
           task'[t].high = objs'[task'[t].o].next - 1
    PROVE  Recovers(t)'
<1>1. task'[t].o \in ObjIds
  BY DEF OrderTyped, GoodTask, Sound, OnObject
<1>2. objs'[task'[t].o].next \in Nat
  BY <1>1 DEF OrderTyped, OrderState
<1>3. SweepsUpward(t)'
  BY <1>2 DEF SweepsUpward
<1> QED  BY <1>3 DEF Recovers, DeliversNext, FetchesFromNext, GapTaskTakesPage, ReportsAll,
                  InLineNow, OnHistory, Handling

\* Conversations are forgotten at most; the objects keep their seqs.
SeqsStay(obs) == \A x \in ObjIds : obs[x].next = objs[x].next /\ obs[x].started = objs[x].started

LEMMA TracksStay ==
    ASSUME OrderTyped, RecoverInv, NEW sts, NEW tsk, NEW obs, Commit(sts, tsk, obs), SeqsStay(obs),
           handed \subseteq handed', NEW c \in Conv, sts[c] \in {states[c], None}
    PROVE  Tracks(c)'
<1> SUFFICES ASSUME sts[c] # None PROVE Begun(c)' /\ NonePassed(c)'
  BY CommitEffect DEF Tracks
<1>1. states'[c] = states[c] /\ states[c] \in ObjIds /\ objs'[states[c]] = obs[states[c]]
  BY CommitEffect DEF OrderTyped
<1>2. /\ objs'[states'[c]].next = objs[states[c]].next
      /\ objs'[states'[c]].started = objs[states[c]].started
  BY <1>1 DEF SeqsStay
<1>3. Begun(c) /\ NonePassed(c)
  BY <1>1 DEF RecoverInv, Tracks
<1>4. Begun(c)'
  BY <1>2, <1>3 DEF Begun, Seqd
<1>5. NonePassed(c)'
  BY <1>2, <1>3 DEF NonePassed, Base, Seqd
<1> QED  BY <1>4, <1>5

LEMMA QuietRecovery ==
    ASSUME ~AsyncHandlers, OrderTyped, OrderTyped', RecoverInv, NEW t \in Tasks, Runs(t),
           NEW sts, NEW tsk, NEW obs, Commit(sts, tsk, obs), SeqsStay(obs), handed \subseteq handed',
           \A c \in Conv : sts[c] \in {states[c], None},
           \A u \in Tasks \ {t} : StaysAt(u, tsk), Recovers(t)'
    PROVE  RecoverInv'
<1>1. NextsGrow(obs)
  <2>1. \A x \in ObjIds : objs[x].next \in Nat
    BY DEF OrderTyped, OrderState
  <2> QED  BY <2>1 DEF NextsGrow, SeqsStay
<1>2. \A u \in Tasks \ {t} : Recovers(u)'
  BY <1>1, OthersRecover
<1>3. \A c \in Conv : Tracks(c)'
  BY TracksStay
<1> QED  BY <1>2, <1>3 DEF RecoverInv
----------------------------------------------------------------------------
(* Steps that end outside the ordering layer *)

Away(r) ==
    \/ r.pc \in {"idle", "row", "sync", "check", "syncack", "leaving", "asleep", "failed",
                 "closing", "flush"}
    \/ Handling(r) /\ r.site \in {"idle", "row"}

LEMMA AwayRecovery ==
    ASSUME ~AsyncHandlers, OrderTyped, OrderTyped', RecoverInv, NEW t \in Tasks, Runs(t),
           NEW sts, NEW tsk, NEW obs, Commit(sts, tsk, obs), SeqsStay(obs), handed \subseteq handed',
           \A c \in Conv : sts[c] \in {states[c], None},
           \A u \in Tasks \ {t} : StaysAt(u, tsk), Away(tsk[t])
    PROVE  RecoverInv'
<1>1. task' = tsk
  BY CommitEffect
<1>2. Recovers(t)'
  BY <1>1, OutsideRecovers DEF Away
<1> QED  BY <1>2, QuietRecovery

LEMMA OneTaskWrites ==
    ASSUME OrderTyped, NEW t \in Tasks, NEW r
    PROVE  LET tsk == [task EXCEPT ![t] = r]
           IN  tsk[t] = r /\ \A u \in Tasks \ {t} : tsk[u] = task[u] /\ StaysAt(u, tsk)
BY DEF OrderTyped, StaysAt

\* Tasks that are cancelled have nothing to go on with.
LEMMA OneTaskCancels ==
    ASSUME OrderTyped, NEW t \in Tasks, NEW r, NEW ts
    PROVE  LET tsk == Cancel([task EXCEPT ![t] = r], ts)
           IN  tsk[t] \in {r, Idle} /\ \A u \in Tasks \ {t} : StaysAt(u, tsk)
<1>1. Idle.pc = "idle"
  BY DEF Idle
<1> QED  BY <1>1 DEF OrderTyped, StaysAt, Cancel

LEMMA SameSeqs ==
    ASSUME OrderTyped
    PROVE  SeqsStay(objs) /\ \A ts : SeqsStay(Unfill(objs, ts))
BY UnfillEffect DEF SeqsStay

LEMMA GoingAwayRecovers ==
    ASSUME ~AsyncHandlers, OrderTyped, OrderTyped', RecoverInv, NEW t \in Tasks, Runs(t),
           NEW r, Commit(states, [task EXCEPT ![t] = r], objs), handed \subseteq handed', Away(r)
    PROVE  RecoverInv'
<1> DEFINE tsk == [task EXCEPT ![t] = r]
<1>1. tsk[t] = r /\ \A u \in Tasks \ {t} : StaysAt(u, tsk)
  BY OneTaskWrites
<1>2. Commit(states, tsk, objs)
  OBVIOUS
<1> HIDE DEF tsk
<1> QED  BY <1>1, <1>2, SameSeqs, AwayRecovery

LEMMA NotifiedRecovers ==
    ASSUME ~AsyncHandlers, OrderTyped, OrderTyped', RecoverInv, NEW t \in Tasks, Notified(t)
    PROVE  RecoverInv'
<1>1. Runs(t) /\ handed' = handed
  BY DEF Notified, At, app
<1>2. CASE task[t].site = "flushing"
  <2> DEFINE r == [Idle EXCEPT !.pc = "flush", !.work = task[t].work, !.owned = task[t].owned]
  <2>1. Commit(states, [task EXCEPT ![t] = r], objs)
    BY <1>2 DEF Notified
  <2>2. Away(r)
    BY DEF Away, Idle
  <2> HIDE DEF r
  <2> QED  BY <1>1, <2>1, <2>2, GoingAwayRecovers
<1>3. CASE task[t].site # "flushing"
  <2> DEFINE r == [Idle EXCEPT !.pc = Home(t)]
             sts == Cleanup(states, task[t].c, objs[task[t].o])
             tsk == [task EXCEPT ![t] = r]
  <2>1. Commit(sts, tsk, objs)
    BY <1>3 DEF Notified
  <2>2. \A d \in Conv : sts[d] \in {states[d], None}
    BY CleanupEffect DEF OrderTyped
  <2>3. Away(r)
    BY HomeIsAPlace DEF Away, Idle
  <2> HIDE DEF r
  <2>4. tsk[t] = r /\ \A u \in Tasks \ {t} : StaysAt(u, tsk)
    BY OneTaskWrites
  <2> HIDE DEF sts, tsk
  <2> QED  BY <1>1, <2>1, <2>2, <2>3, <2>4, SameSeqs, AwayRecovery
<1> QED  BY <1>2, <1>3

LEMMA FlushEndRecovers ==
    ASSUME ~AsyncHandlers, OrderTyped, OrderTyped', RecoverInv, NEW t \in Tasks, FlushEnd(t)
    PROVE  RecoverInv'
<1> DEFINE none == [c \in Conv |-> None]
<1>1. Runs(t) /\ handed' = handed /\ \A c \in Conv : none[c] \in {states[c], None}
  BY DEF FlushEnd, At, app
<1>2. PICK r \in {Idle, [task[t] EXCEPT !.pc = "leaving"]} : Commit(none, [task EXCEPT ![t] = r], objs)
  BY DEF FlushEnd
<1>3. Away(r)
  <2>1. Idle.pc = "idle" /\ [task[t] EXCEPT !.pc = "leaving"].pc = "leaving"
    BY Fields DEF OrderTyped, Idle
  <2> QED  BY <2>1 DEF Away
<1> DEFINE tsk == [task EXCEPT ![t] = r]
<1>4. tsk[t] = r /\ \A u \in Tasks \ {t} : StaysAt(u, tsk)
  BY OneTaskWrites
<1>5. Commit(none, tsk, objs)
  BY <1>2
<1> HIDE DEF none, tsk
<1> QED  BY <1>1, <1>3, <1>4, <1>5, SameSeqs, AwayRecovery

\* Steps of which the ordering layer sees nothing
LEMMA UntouchedRecovers ==
    ASSUME RecoverInv, UNCHANGED order, handed \subseteq handed', pub' = pub
    PROVE  RecoverInv'
<1>1. states' = states /\ objs' = objs /\ task' = task
  BY DEF order
<1>2. \A c \in Conv : Tracks(c)'
  BY <1>1 DEF RecoverInv, Tracks, Begun, NonePassed, Base, Seqd
<1>3. ASSUME NEW t \in Tasks PROVE Recovers(t)'
  <2>1. HasAll(task[t]) => HasAll(task[t])'
    BY <1>1 DEF HasAll, Buf, InHand
  <2>4. HadBefore(task[t]) => HadBefore(task[t])'
    BY <1>1 DEF HadBefore, Seqd
  <2>2. /\ DeliversNext(t)' /\ FetchesFromNext(t)' /\ SweepsUpward(t)'
    BY <1>1 DEF RecoverInv, Recovers, DeliversNext, FetchesFromNext, SweepsUpward, InLineNow, Handling, Seqd
  <2>3. ReportsAll(t)' /\ GapTaskTakesPage(t)'
    BY <1>1, <2>1, <2>4 DEF RecoverInv, Recovers, ReportsAll, GapTaskTakesPage
  <2> QED  BY <2>2, <2>3 DEF Recovers
<1> QED  BY <1>2, <1>3 DEF RecoverInv

LEMMA SocketRecovers ==
    ASSUME ~AsyncHandlers, OrderTyped, OrderTyped', RecoverInv,
           Connect \/ SocketCloses \/ CloseOrderState \/ Disconnect \/ Release
    PROVE  RecoverInv'
<1>1. handed' = handed /\ {"recv", "drain", "stop"} \subseteq Tasks /\ Away(Idle)
  BY DEF Connect, SocketCloses, CloseOrderState, Disconnect, Release, app, Tasks, Away, Idle
<1>2. CASE Connect
  <2>1. CASE UNCHANGED order
    BY <1>1, <1>2, <2>1, UntouchedRecovers DEF Connect, server
  <2>2. CASE Commit(states, [task EXCEPT !["drain"].pc = "sync"], objs)
    <3> DEFINE r == [task["drain"] EXCEPT !.pc = "sync"]
    <3>1. Commit(states, [task EXCEPT !["drain"] = r], objs)
      BY <2>2
    <3>2. Away(r)
      BY <1>1, Fields DEF Away, OrderTyped
    <3>3. Runs("drain")
      BY <1>2 DEF Connect, Runs
    <3> HIDE DEF r
    <3> QED  BY <1>1, <3>1, <3>2, <3>3, GoingAwayRecovers
  <2> QED  BY <1>2, <2>1, <2>2 DEF Connect
<1>3. CASE SocketCloses
  <2> DEFINE r == [Idle EXCEPT !.pc = "closing"]
  <2>1. Runs("recv") /\ Commit(states, [task EXCEPT !["recv"] = r], objs)
    BY <1>3 DEF SocketCloses, At
  <2>2. Away(r)
    BY DEF Away, Idle
  <2> HIDE DEF r
  <2> QED  BY <1>1, <2>1, <2>2, GoingAwayRecovers
<1>4. CASE CloseOrderState
  <2>1. Runs("recv")
    BY <1>4 DEF CloseOrderState, At
  <2>2. CASE AckOnReceipt
    <3> DEFINE r == Flush("recv")
    <3>1. Commit(states, [task EXCEPT !["recv"] = r], objs)
      BY <1>4, <2>2 DEF CloseOrderState
    <3>2. Away(r)
      BY <1>1 DEF Away, Flush, OrderTyped, GoodTask, TaskState
    <3> HIDE DEF r
    <3> QED  BY <1>1, <2>1, <3>1, <3>2, GoingAwayRecovers
  <2>3. CASE ~AckOnReceipt
    <3> DEFINE none == [c \in Conv |-> None]
               tsk == Cancel([task EXCEPT !["recv"] = Idle], Timers)
               obs == Unfill(objs, Timers)
    <3>1. Commit(none, tsk, obs)
      BY <1>4, <2>3 DEF CloseOrderState
    <3>2. Away(tsk["recv"]) /\ \A u \in Tasks \ {"recv"} : StaysAt(u, tsk)
      BY <1>1, OneTaskCancels
    <3>3. SeqsStay(obs) /\ \A c \in Conv : none[c] \in {states[c], None}
      BY SameSeqs
    <3> HIDE DEF none, tsk, obs
    <3> QED  BY <1>1, <2>1, <3>1, <3>2, <3>3, AwayRecovery
  <2> QED  BY <2>2, <2>3
<1>5. CASE Disconnect
  <2> DEFINE r == [Flush("stop") EXCEPT !.owned = {t \in GapTasks \cup {"drain"} : task[t].pc # "idle"}]
             tsk == [task EXCEPT !["stop"] = r]
             obs == [o \in ObjIds |->
                      IF \E c \in Conv : states[c] = o THEN [objs[o] EXCEPT !.timer = None] ELSE objs[o]]
  <2>1. Runs("stop") /\ Commit(states, tsk, obs)
    BY <1>5 DEF Disconnect, At
  <2>2. Away(r)
    BY <1>1 DEF Away, Flush, OrderTyped, GoodTask, TaskState
  <2>3. SeqsStay(obs)
    BY DEF SeqsStay, OrderTyped, OrderState
  <2> HIDE DEF r, obs
  <2>4. tsk["stop"] = r /\ \A u \in Tasks \ {"stop"} : StaysAt(u, tsk)
    BY <1>1, OneTaskWrites
  <2> HIDE DEF tsk
  <2> QED  BY <1>1, <2>1, <2>2, <2>3, <2>4, AwayRecovery
<1>6. CASE Release
  <2> DEFINE ts == task["stop"].owned
             tsk == Cancel([task EXCEPT !["stop"] = Idle], ts)
             obs == Unfill(objs, ts)
  <2>1. Runs("stop") /\ Commit(states, tsk, obs)
    BY <1>6 DEF Release, At
  <2>2. Away(tsk["stop"]) /\ \A u \in Tasks \ {"stop"} : StaysAt(u, tsk)
    BY <1>1, OneTaskCancels
  <2>3. SeqsStay(obs)
    BY SameSeqs
  <2> HIDE DEF tsk, obs
  <2> QED  BY <1>1, <2>1, <2>2, <2>3, AwayRecovery
<1> QED  BY <1>2, <1>3, <1>4, <1>5, <1>6
----------------------------------------------------------------------------
(* The choke point and the sweeps *)

\* Being handed over, the message in hand is not missed when it comes back.
LEMMA ChokePointKeepsRecovery ==
    ASSUME ~AsyncHandlers, OrderTyped, OrderTyped', SyncInv, RecoverInv, NEW t \in Tasks, NEW r,
           Handling(task[t]), Runs(t), GoesOn(t, r),
           r \in {Back(t), [task[t] EXCEPT !.pc = "handler"]},
           handed \subseteq handed', task[t].m \in handed', pub' = pub
    PROVE  RecoverInv'
<1>1. /\ states' = states /\ task'[t] = r /\ (r.o \in ObjIds => objs'[r.o] = objs[r.o])
  BY GoesOnEffect
<1>2. task[t] \in GoodTask /\ task[t].site \in Sites /\ Recovers(t)
  BY DEF OrderTyped, GoodTask, TaskState, RecoverInv
<1>3. /\ r.m = task[t].m \/ r.pc \in {"idle", "row"}
      /\ \/ Away(r)
         \/ /\ r.pc \in {task[t].site, "handler"} /\ r.site = task[t].site
            /\ r.c = task[t].c /\ r.o = task[t].o /\ r.m = task[t].m
            /\ r.exp = task[t].exp /\ r.high = task[t].high /\ r.rec = task[t].rec
            /\ r.from = task[t].from /\ r.read = task[t].read
            /\ task[t].site \in {"inorder", "chained", "resolving", "flushing"}
  <2>1. CASE r = Back(t)
    BY <1>2, <2>1, BackFields DEF Away, Sites
  <2>2. CASE r = [task[t] EXCEPT !.pc = "handler"]
    <3>1. /\ r.pc = "handler" /\ r.site = task[t].site /\ r.m = task[t].m /\ r.c = task[t].c
          /\ r.o = task[t].o /\ r.exp = task[t].exp /\ r.high = task[t].high /\ r.rec = task[t].rec
          /\ r.from = task[t].from /\ r.read = task[t].read
      BY <1>2, <2>2, Fields
    <3> QED  BY <1>2, <3>1 DEF Away, Handling, Sites
  <2> QED  BY <2>1, <2>2
<1>4. Recovers(t)'
  <2>1. CASE Away(r)
    BY <1>1, <2>1, OutsideRecovers DEF Away
  <2>2. CASE /\ r.pc \in {task[t].site, "handler"} /\ r.site = task[t].site
             /\ r.c = task[t].c /\ r.o = task[t].o /\ r.m = task[t].m
             /\ r.exp = task[t].exp /\ r.high = task[t].high /\ r.rec = task[t].rec
             /\ r.from = task[t].from /\ r.read = task[t].read
             /\ task[t].site \in {"inorder", "chained", "resolving", "flushing"}
    <3>1. objs'[r.o] = objs[r.o]
      BY <1>1, <1>2, <2>2 DEF GoodTask, Sound, OnObject
    <3>2. HasAll(task[t]) => HasAll(r)'
      BY <2>2, <3>1 DEF HasAll, Buf, InHand
    <3>8. HadBefore(task[t]) => HadBefore(r)'
      BY <2>2 DEF HadBefore, Seqd
    <3>3. DeliversNext(t)'
      <4>1. InLineNow(r) => InLineNow(task[t])
        BY <2>2 DEF InLineNow, Handling
      <4> QED  BY <1>1, <1>2, <2>2, <3>1, <4>1 DEF Recovers, DeliversNext, Seqd
    <3>4. GapTaskTakesPage(t)'
      <4>1. OnHistory(r) => OnHistory(task[t])
        BY <2>2 DEF OnHistory, Handling
      <4>2. (r.pc = "inorder" \/ (Handling(r) /\ r.site = "inorder")) => task[t].site = "inorder"
        BY <2>2 DEF Handling
      <4> QED  BY <1>1, <1>2, <2>2, <3>1, <3>2, <4>1, <4>2 DEF Recovers, GapTaskTakesPage
    <3>5. Sweeping(r) => Sweeping(task[t])
      BY <2>2 DEF Sweeping, Handling
    <3>6. r.pc \notin {"fetch", "notify"}
      BY <2>2
    <3>7. SweepsUpward(t)' /\ ReportsAll(t)' /\ FetchesFromNext(t)'
      BY <1>1, <1>2, <2>2, <3>1, <3>2, <3>5, <3>6, <3>8
         DEF Recovers, SweepsUpward, ReportsAll, FetchesFromNext
    <3> QED  BY <3>3, <3>4, <3>7 DEF Recovers
  <2> QED  BY <1>3, <2>1, <2>2
<1>5. /\ \A u \in Tasks \ {t} : StaysAt(u, [task EXCEPT ![t] = r])
      /\ Commit(states, [task EXCEPT ![t] = r], objs)
  BY OneTaskWrites DEF GoesOn
<1> QED  BY <1>4, <1>5, SameSeqs, QuietRecovery

LEMMA ChokePointRecovers ==
    ASSUME ~AsyncHandlers, OrderTyped', DeliveryInv, SyncInv, RecoverInv, NEW t \in Tasks,
           DedupHit(t) \/ Dispatch(t) \/ HandledCleanly(t) \/ HandlerRaised(t)
    PROVE  RecoverInv'
<1>1. OrderTyped /\ clean \subseteq handed
  BY DEF DeliveryInv, AppTyped
<1>2. Handling(task[t]) /\ Runs(t) /\ pub' = pub
  BY DEF DedupHit, Dispatch, HandledCleanly, HandlerRaised, At, Handling, server
<1>3. CASE DedupHit(t)
  <2>1. task[t].m \in handed
    <3>1. dedup \in Seq(clean)
      BY DEF DeliveryInv, ConfirmInv, DedupIsClean
    <3>2. PICK i \in 1..Len(dedup) : dedup[i] = task[t].m
      BY <1>3 DEF DedupHit, Seen
    <3>3. dedup[i] \in clean
      BY <3>1, <3>2, ElementOfSeq
    <3> QED  BY <1>1, <3>2, <3>3
  <2>2. handed' = handed /\ GoesOn(t, Back(t))
    BY <1>3 DEF DedupHit, app, Returns, GoesOn
  <2> QED  BY <1>1, <1>2, <2>1, <2>2, ChokePointKeepsRecovery
<1>4. CASE Dispatch(t)
  <2>1. [task EXCEPT ![t].pc = "handler"] = [task EXCEPT ![t] = [task[t] EXCEPT !.pc = "handler"]]
    OBVIOUS
  <2>2. handed' = handed \cup {task[t].m} /\ GoesOn(t, [task[t] EXCEPT !.pc = "handler"])
    BY <1>4, <2>1 DEF Dispatch, GoesOn
  <2> QED  BY <1>1, <1>2, <2>2, ChokePointKeepsRecovery
<1>5. CASE HandledCleanly(t) \/ HandlerRaised(t)
  <2>1. task[t].m \in handed
    BY <1>5 DEF DeliveryInv, AppTyped, HandledCleanly, HandlerRaised, At
  <2>2. handed' = handed /\ GoesOn(t, Back(t))
    BY <1>5 DEF HandledCleanly, HandlerRaised, app, Returns, GoesOn
  <2> QED  BY <1>1, <1>2, <2>1, <2>2, ChokePointKeepsRecovery
<1> QED  BY <1>3, <1>4, <1>5

LEMMA SweepNextRecovers ==
    ASSUME ~AsyncHandlers, OrderTyped, OrderTyped', SyncInv, RecoverInv, NEW t \in Tasks, SweepNext(t)
    PROVE  RecoverInv'
<1> DEFINE o == task[t].o
<1>1. PICK m \in Lowest(task[t].todo) \cap DOMAIN objs[o].buf :
          Commit(states,
                 [task EXCEPT ![t] =
                     [Deliver(t, m, objs[o].buf[m], task[t].pc, o) EXCEPT
                         !.todo = @ \ {m},
                         !.high = IF SeqOf[m] > @ THEN SeqOf[m] ELSE @]],
                 objs)
  BY DEF SweepNext
<1> DEFINE d == Deliver(t, m, objs[o].buf[m], task[t].pc, o)
           r == [d EXCEPT !.todo = @ \ {m}, !.high = IF SeqOf[m] > @ THEN SeqOf[m] ELSE @]
<1>2. /\ GoesOn(t, r) /\ Runs(t) /\ task[t].pc \in {"resolving", "flushing"}
      /\ handed' = handed /\ pub' = pub
  BY <1>1 DEF GoesOn, SweepNext, AtSweep, server, app
<1>3. task[t] \in GoodTask /\ o \in ObjIds /\ task[t].high \in Int
  BY <1>2 DEF OrderTyped, GoodTask, Sound, OnObject, TaskState
<1>4. Working(task[t]) /\ m \in Buf(o) /\ m \in Msgs /\ SeqOf[m] \in Nat
  <2>1. task[t].todo \subseteq Msgs
    BY <1>3 DEF GoodTask, TaskState
  <2> QED  BY <1>1, <1>2, <2>1, MessagesAssumption DEF Working, Buf, Lowest
<1>5. ConvOf[m] = task[t].c
  BY <1>4, FrameOfPlace
<1>6. /\ r.pc = "deliver" /\ r.site = task[t].pc /\ r.m = m /\ r.c = task[t].c /\ r.o = o
      /\ r.exp = task[t].exp /\ r.rec = task[t].rec
      /\ r.from = task[t].from /\ r.read = task[t].read
      /\ r.high = IF SeqOf[m] > task[t].high THEN SeqOf[m] ELSE task[t].high
  BY <1>3, <1>5 DEF Deliver, GoodTask, TaskState
<1> HIDE DEF r
<1>7. task'[t] = r /\ objs'[o] = objs[o] /\ objs[o].next \in Nat
  BY <1>2, <1>3, <1>6, GoesOnEffect DEF OrderTyped, OrderState
<1>8. Sweeping(task[t]) /\ Recovers(t)
  BY <1>2 DEF Sweeping, RecoverInv
<1>9. Recovers(t)'
  <2>1. SweepsUpward(t)'
    <3>1. task[t].high <= r.high
      BY <1>3, <1>4, <1>6
    <3>2. r.high \in Int /\ objs[o].next <= task[t].high + 1
      BY <1>3, <1>4, <1>6, <1>8 DEF Recovers, SweepsUpward
    <3> QED  BY <1>3, <1>6, <1>7, <3>1, <3>2 DEF SweepsUpward
  <2>2. ReportsAll(t)'
    <3>1. HasAll(task[t]) => HasAll(task[t])'
      <4>1. InHand(task[t]) = {}
        BY <1>2 DEF InHand, Handling
      <4> QED  BY <1>2, <1>6, <1>7, <4>1 DEF HasAll, Buf
    <3>2. HadBefore(task[t]) => HadBefore(task[t])'
      BY <1>2, <1>6, <1>7 DEF HadBefore, Seqd
    <3> QED  BY <1>6, <1>7, <1>8, <3>1, <3>2 DEF Recovers, ReportsAll
  <2>3. DeliversNext(t)' /\ FetchesFromNext(t)' /\ GapTaskTakesPage(t)'
    BY <1>2, <1>6, <1>7 DEF DeliversNext, FetchesFromNext, GapTaskTakesPage, InLineNow, OnHistory, Handling
  <2> QED  BY <2>1, <2>2, <2>3 DEF Recovers
<1>10. /\ \A u \in Tasks \ {t} : StaysAt(u, [task EXCEPT ![t] = r])
       /\ Commit(states, [task EXCEPT ![t] = r], objs)
  BY <1>2, OneTaskWrites DEF GoesOn
<1> QED  BY <1>2, <1>9, <1>10, SameSeqs, QuietRecovery
\* A step that takes one object further passes no message over.
LEMMA OneObjectRecovers ==
    ASSUME ~AsyncHandlers, OrderTyped, OrderTyped', RecoverInv, NEW t \in Tasks, Runs(t),
           NEW sts, NEW tsk, NEW obs, Commit(sts, tsk, obs), NEW o \in ObjIds,
           \A x \in ObjIds \ {o} : obs[x].next = objs[x].next /\ obs[x].started = objs[x].started,
           obs[o].next \in Nat, objs[o].next <= obs[o].next,
           \A c \in Conv : states[c] = o =>
              \A m \in Seqd(c) :
                 (IF obs[o].started # 0 THEN obs[o].started ELSE obs[o].next) <= SeqOf[m]
                    /\ SeqOf[m] < obs[o].next => m \in handed',
           handed \subseteq handed', \A c \in Conv : sts[c] \in {states[c], None},
           \A u \in Tasks \ {t} : StaysAt(u, tsk), Recovers(t)'
    PROVE  RecoverInv'
<1>1. NextsGrow(obs)
  <2>1. \A x \in ObjIds : objs[x].next \in Nat
    BY DEF OrderTyped, OrderState
  <2> QED  BY <2>1 DEF NextsGrow
<1>2. \A u \in Tasks \ {t} : Recovers(u)'
  BY <1>1, OthersRecover
<1>3. ASSUME NEW c \in Conv PROVE Tracks(c)'
  <2> SUFFICES ASSUME sts[c] # None PROVE Begun(c)' /\ NonePassed(c)'
    BY CommitEffect DEF Tracks
  <2>1. states'[c] = states[c] /\ states[c] \in ObjIds /\ objs'[states[c]] = obs[states[c]]
    BY CommitEffect DEF OrderTyped
  <2>2. Begun(c) /\ NonePassed(c)
    BY <2>1 DEF RecoverInv, Tracks
  <2>3. objs[states[c]].next \in Nat /\ \A x \in Seqd(c) : SeqOf[x] \in Nat
    BY <2>1, MessagesAssumption DEF OrderTyped, OrderState, Seqd
  <2>4. Seqd(c)' = Seqd(c)
    BY DEF Seqd
  <2>5. CASE states[c] = o
    <3>1. Begun(c)'
      BY <2>1, <2>2, <2>3, <2>4, <2>5 DEF Begun
    <3>2. NonePassed(c)'
      BY <2>1, <2>4, <2>5 DEF NonePassed, Base
    <3> QED  BY <3>1, <3>2
  <2>6. CASE states[c] # o
    <3>1. /\ objs'[states'[c]].next = objs[states[c]].next
          /\ objs'[states'[c]].started = objs[states[c]].started
      BY <2>1, <2>6
    <3>2. Begun(c)'
      BY <2>2, <2>4, <3>1 DEF Begun
    <3>3. NonePassed(c)'
      BY <2>2, <2>4, <3>1 DEF NonePassed, Base
    <3> QED  BY <3>2, <3>3
  <2> QED  BY <2>5, <2>6
<1> QED  BY <1>2, <1>3 DEF RecoverInv

LEMMA SweepEndRecovers ==
    ASSUME ~AsyncHandlers, OrderTyped, OrderTyped', SyncInv, RecoverInv, NEW t \in Tasks, SweepEnd(t)
    PROVE  RecoverInv'
<1>0. PICK o, timer : o = task[t].o /\ timer = objs[o].timer
  OBVIOUS
<1> DEFINE stop == IF task[t].pc = "resolving" /\ timer # None THEN {timer} ELSE {}
           q == [[task[t] EXCEPT !.pc = "notify"] EXCEPT !.m = NoMsg]
           ended == [objs[o] EXCEPT !.buf = <<>>]
           new == [ended EXCEPT !.next = task[t].high + 1, !.timer = None, !.started = 0,
                                !.fill = Unfill(objs, stop)[o].fill]
           tsk == Cancel([task EXCEPT ![t] = q], stop)
           obs == [Unfill(objs, stop) EXCEPT ![o] = IF task[t].pc = "resolving" THEN new ELSE ended]
<1>1. /\ Runs(t) /\ task[t].pc \in {"resolving", "flushing"} /\ task[t].todo = {}
      /\ handed' = handed /\ pub' = pub
  BY DEF SweepEnd, AtSweep, server, app
<1>2. task[t] \in GoodTask /\ o \in ObjIds /\ objs[o] \in OrderState /\ task[t].high \in Int
  BY <1>0, <1>1 DEF OrderTyped, GoodTask, Sound, OnObject, TaskState
<1>3. Commit(states, tsk, obs)
  <2>1. [task EXCEPT ![t].pc = "notify", ![t].m = NoMsg] = [task EXCEPT ![t] = q]
    BY DEF OrderTyped
  <2> QED  BY <1>0, <2>1 DEF SweepEnd
<1>4. /\ q.pc = "notify" /\ q.c = task[t].c /\ q.o = o /\ q.exp = task[t].exp /\ q.rec = task[t].rec
      /\ q.from = task[t].from /\ q.read = task[t].read
  BY <1>0, <1>2 DEF GoodTask, TaskState
<1>5. /\ obs[o].buf = <<>>
      /\ \/ obs[o].next = objs[o].next /\ obs[o].started = objs[o].started
         \/ obs[o].next = task[t].high + 1 /\ obs[o].started = 0
      /\ \A x \in ObjIds \ {o} : obs[x].next = objs[x].next /\ obs[x].started = objs[x].started
  <2>1. DOMAIN Unfill(objs, stop) = ObjIds
    BY DEF Unfill
  <2>2. \A x \in ObjIds : /\ Unfill(objs, stop)[x].next = objs[x].next
                          /\ Unfill(objs, stop)[x].started = objs[x].started
    BY UnfillEffect
  <2> DEFINE u == Unfill(objs, stop)
  <2>3. /\ ended.buf = <<>> /\ ended.next = objs[o].next /\ ended.started = objs[o].started
        /\ new.buf = <<>> /\ new.next = task[t].high + 1 /\ new.started = 0
    BY <1>2 DEF OrderState
  <2>4. obs = [u EXCEPT ![o] = IF task[t].pc = "resolving" THEN new ELSE ended]
    OBVIOUS
  <2>5. DOMAIN u = ObjIds
    BY <2>1
  <2> HIDE DEF u, new, ended, obs
  <2>6. obs[o] = (IF task[t].pc = "resolving" THEN new ELSE ended) /\ \A x \in ObjIds \ {o} : obs[x] = u[x]
    BY <1>2, <2>4, <2>5
  <2> QED  BY <2>2, <2>3, <2>6 DEF u
<1>6. tsk[t] \in {q, Idle} /\ \A u \in Tasks \ {t} : StaysAt(u, tsk)
  BY OneTaskCancels
<1> HIDE DEF q, obs, tsk
<1>7. task' = tsk /\ Idle.pc = "idle" /\ (tsk[t] = q => objs'[o] = obs[o])
  BY <1>2, <1>3, <1>4, CommitEffect DEF Idle
<1>8. Sweeping(task[t]) /\ Recovers(t) /\ Fits(t)
  BY <1>1 DEF Sweeping, RecoverInv, SyncInv
<1>9. Recovers(t)'
  <2>1. CASE tsk[t] = Idle
    BY <1>7, <2>1, OutsideRecovers
  <2>2. CASE tsk[t] = q
    <3>1. task'[t] = q
      BY <1>7, <2>2
    <3>2. ReportsAll(t)'
      <4> SUFFICES ASSUME q.rec PROVE q.exp # 0 /\ HasAll(task[t])' /\ HadBefore(task[t])'
        BY <3>1 DEF ReportsAll
      <4>1. task[t].exp # 0 /\ HasAll(task[t]) /\ HadBefore(task[t])
        BY <1>4, <1>8 DEF Recovers, ReportsAll
      <4>2. Buf(o) \subseteq handed
        <5>1. InHand(task[t]) = {}
          BY <1>1 DEF InHand, Handling
        <5> QED  BY <1>0, <1>1, <1>8, <5>1 DEF Fits, SweepKnows
      <4>3. InHand(task[t]) = {}
        BY <1>1 DEF InHand, Handling
      <4>4. HadBefore(task[t])'
        BY <1>1, <1>4, <3>1, <4>1 DEF HadBefore, Seqd
      <4>5. HasAll(task[t])'
        BY <1>0, <1>1, <1>4, <3>1, <4>1, <4>2, <4>3 DEF HasAll
      <4> QED  BY <1>4, <4>1, <4>4, <4>5
    <3>3. /\ ~InLineNow(q) /\ ~OnHistory(q) /\ ~Sweeping(q) /\ ~Handling(q)
          /\ q.pc \notin {"inorder", "fetch"}
      BY <1>4 DEF InLineNow, OnHistory, Sweeping, Handling
    <3> QED  BY <3>1, <3>2, <3>3 DEF Recovers, DeliversNext, FetchesFromNext, GapTaskTakesPage, SweepsUpward
  <2> QED  BY <1>6, <2>1, <2>2
<1>10. objs[o].next <= task[t].high + 1
  BY <1>0, <1>8 DEF Recovers, SweepsUpward
<1>11. objs[o].next \in Nat /\ obs[o].next \in Nat /\ objs[o].next <= obs[o].next
  BY <1>2, <1>5, <1>10 DEF OrderState
<1>12. ASSUME NEW c \in Conv, states[c] = o, NEW m \in Seqd(c),
              (IF obs[o].started # 0 THEN obs[o].started ELSE obs[o].next) <= SeqOf[m],
              SeqOf[m] < obs[o].next
       PROVE  m \in handed'
  <2>1. SeqOf[m] \in Nat
    BY MessagesAssumption DEF Seqd
  <2>2. obs[o].started # 0
    BY <1>11, <1>12, <2>1
  <2>3. obs[o].next = objs[o].next /\ obs[o].started = objs[o].started
    BY <1>5, <2>2
  <2>4. Tracks(c) /\ states[c] # None
    BY <1>2, <1>12, IdentitiesAssumption DEF RecoverInv
  <2> QED  BY <1>1, <1>12, <2>2, <2>3, <2>4 DEF Tracks, NonePassed, Base
<1>13. \A c \in Conv : states[c] = o =>
          \A m \in Seqd(c) :
             (IF obs[o].started # 0 THEN obs[o].started ELSE obs[o].next) <= SeqOf[m]
             /\ SeqOf[m] < obs[o].next => m \in handed'
  BY <1>12
<1>14. \A x \in ObjIds \ {o} : obs[x].next = objs[x].next /\ obs[x].started = objs[x].started
  BY <1>5
<1>15. handed \subseteq handed' /\ \A c \in Conv : states[c] \in {states[c], None}
  BY <1>1
<1>16. Runs(t) /\ o \in ObjIds
  BY <1>1, <1>2
<1> QED  BY <1>3, <1>6, <1>9, <1>11, <1>13, <1>14, <1>15, <1>16, OneObjectRecovers
----------------------------------------------------------------------------
(* The chain *)

\* Two messages of a conversation do not share a seq.
LEMMA SeqsDiffer ==
    ASSUME NEW c, NEW m \in Seqd(c), NEW n \in Seqd(c), SeqOf[m] = SeqOf[n]
    PROVE  m = n
<1>1. m \in Msgs /\ n \in Msgs /\ SeqOf[m] \in Nat /\ Msgs \subseteq Int
  BY MessagesAssumption DEF Seqd, Msgs
<1>2. ~(m < n) /\ ~(n < m)
  BY <1>1, MessagesAssumption DEF Seqd
<1> QED  BY <1>1, <1>2

\* On its next test the chain expects the same seq or, the expected message
\* being handed over, the one behind it.
LEMMA LinePassesNone ==
    ASSUME OrderTyped, SyncInv, RecoverInv,
           NEW t \in Tasks, task[t].pc \in {"inorder", "chained", "chain"},
           NEW N, N = NextInLine(t), NEW o, o = task[t].o
    PROVE  /\ N \in Nat /\ objs[o].next <= N
           /\ \A c \in Conv : states[c] = o => N # 0
           /\ \A c \in Conv : states[c] = o =>
                 \A m \in Seqd(c) :
                    (IF objs[o].started # 0 THEN objs[o].started ELSE N) <= SeqOf[m]
                       /\ SeqOf[m] < N => m \in handed
<1>1. o \in ObjIds /\ objs[o].next \in Nat /\ objs[o].started \in Nat /\ task[t].c \in Conv
  BY DEF OrderTyped, GoodTask, Sound, OnObject, OrderState
<1>2. /\ \A c : \A m \in Seqd(c) : SeqOf[m] \in Nat
  BY MessagesAssumption DEF Seqd
<1>3. \A c \in Conv : states[c] = o => Begun(c) /\ NonePassed(c)
  BY <1>1, IdentitiesAssumption DEF RecoverInv, Tracks
<1>4. \A c \in Conv : states[c] = o => objs[o].next # 0
  BY <1>1, <1>2, <1>3 DEF Begun
<1>5. CASE task[t].pc = "chain"
  <2>1. N = objs[o].next
    BY <1>5 DEF NextInLine
  <2> QED  BY <1>1, <1>3, <1>4, <2>1 DEF NonePassed, Base
<1>6. CASE task[t].pc \in {"inorder", "chained"}
  <2> DEFINE x == task[t].m
             d == task[t].c
  <2>1. states[d] = o /\ x \in Seqd(d) /\ SeqOf[x] = objs[o].next /\ x \in handed
    BY <1>6 DEF RecoverInv, Recovers, DeliversNext, InLineNow, Handling
  <2>2. N = objs[o].next + 1
    BY <1>6, <2>1 DEF NextInLine
  <2>3. ASSUME NEW c \in Conv, states[c] = o, NEW m \in Seqd(c),
               (IF objs[o].started # 0 THEN objs[o].started ELSE N) <= SeqOf[m], SeqOf[m] < N
        PROVE  m \in handed
    <3>1. SeqOf[m] \in Nat /\ objs[o].started # 0
      BY <1>1, <1>2, <2>2, <2>3
    <3>2. CASE SeqOf[m] < objs[o].next
      BY <1>3, <2>3, <3>1, <3>2 DEF NonePassed, Base
    <3>3. CASE SeqOf[m] = objs[o].next
      <4>1. c = d
        BY <1>1, <2>1, <2>3, IdentitiesAssumption DEF SyncInv, OneEach
      <4> QED  BY <2>1, <2>3, <3>3, <4>1, SeqsDiffer
    <3> QED  BY <1>1, <2>2, <2>3, <3>1, <3>2, <3>3
  <2> QED  BY <1>1, <2>2, <2>3
<1> QED  BY <1>5, <1>6

LEMMA ChainNextRecovers ==
    ASSUME ~AsyncHandlers, OrderTyped, OrderTyped', SyncInv, RecoverInv, NEW t \in Tasks, ChainNext(t)
    PROVE  RecoverInv'
<1>0. PICK o, c, N : o = task[t].o /\ c = task[t].c /\ N = NextInLine(t)
  OBVIOUS
<1>1. /\ Runs(t) /\ task[t].pc \in {"inorder", "chained", "chain"} /\ handed' = handed /\ pub' = pub
  BY DEF ChainNext, AtChain, server, app
<1>2. /\ task[t] \in GoodTask /\ o \in ObjIds /\ c \in Conv /\ objs[o] \in OrderState
  BY <1>0, <1>1 DEF OrderTyped, GoodTask, Sound, OnObject
<1>3. PICK m \in Buf(o) :
          /\ SeqOf[m] = N
          /\ Commit(states,
                    [task EXCEPT ![t] = Deliver(t, m, objs[o].buf[m], "chained", o)],
                    [objs EXCEPT ![o].next = N, ![o].buf = [x \in DOMAIN @ \ {m} |-> @[x]]])
  BY <1>0 DEF ChainNext, InLine, Buf
<1> DEFINE r == Deliver(t, m, objs[o].buf[m], "chained", o)
           ob == [[objs[o] EXCEPT !.next = N] EXCEPT !.buf = [x \in DOMAIN @ \ {m} |-> @[x]]]
           tsk == [task EXCEPT ![t] = r]
           obs == [objs EXCEPT ![o] = ob]
<1>4. Commit(states, tsk, obs)
  <2>1. [objs EXCEPT ![o].next = N, ![o].buf = [x \in DOMAIN @ \ {m} |-> @[x]]] = obs
    BY ZenonT(60), <1>2 DEF OrderTyped
  <2> QED  BY <1>3, <2>1
<1>5. Working(task[t]) /\ Recovers(t)
  BY <1>1 DEF Working, RecoverInv
<1>6. states[c] = o /\ ConvOf[m] = c /\ m \in Msgs
  <2>1. DOMAIN objs[o].buf \subseteq Msgs
    BY <1>2 DEF OrderState
  <2> QED  BY <1>0, <1>3, <1>5, <2>1, FrameOfPlace DEF Buf
<1>7. /\ r.pc = "deliver" /\ r.site = "chained" /\ r.m = m /\ r.c = c /\ r.o = o
      /\ r.exp = task[t].exp /\ r.rec = task[t].rec
      /\ r.from = task[t].from /\ r.read = task[t].read
  BY <1>2, <1>6, Fields
<1>8. ob.next = N /\ ob.started = objs[o].started /\ DOMAIN ob.buf = Buf(o) \ {m}
  BY <1>2 DEF OrderState, Buf
<1>9. /\ tsk[t] = r /\ \A u \in Tasks \ {t} : StaysAt(u, tsk)
      /\ obs[o] = ob /\ \A x \in ObjIds \ {o} : obs[x] = objs[x]
  BY <1>2, OneTaskWrites DEF OrderTyped
<1> HIDE DEF r, ob, tsk, obs
<1>10. /\ N \in Nat /\ objs[o].next <= N /\ N # 0
       /\ \A d \in Conv : states[d] = o =>
                 \A x \in Seqd(d) :
                    (IF objs[o].started # 0 THEN objs[o].started ELSE N) <= SeqOf[x]
                       /\ SeqOf[x] < N => x \in handed
  BY <1>0, <1>1, <1>2, <1>6, LinePassesNone
<1>11. task'[t] = r /\ states' = states /\ objs'[o] = ob
  BY <1>2, <1>4, <1>7, <1>9, CommitEffect
<1>12. m \in Seqd(c)
  BY <1>3, <1>6, <1>10 DEF Seqd, NoSeq
<1>13. Recovers(t)'
  <2>1. DeliversNext(t)'
    BY <1>3, <1>6, <1>7, <1>8, <1>11, <1>12 DEF DeliversNext, Handling, Seqd
  <2>2. GapTaskTakesPage(t)'
    <3> SUFFICES ASSUME t \in GapTasks PROVE task[t].from <= N /\ HasAll(task[t])'
      BY <1>6, <1>7, <1>8, <1>11 DEF GapTaskTakesPage, Handling
    <3>1. OnHistory(task[t]) /\ InHand(task[t]) = {}
      BY <1>1, <1>5 DEF Recovers, GapTaskTakesPage, OnHistory, InHand, Handling
    <3>2. task[t].from <= objs[o].next /\ HasAll(task[t])
      BY <1>0, <1>5, <3>1 DEF Recovers, GapTaskTakesPage
    <3>3. task[t].from <= N
      BY <1>2, <1>10, <3>2 DEF GoodTask, TaskState, OrderState
    <3>4. InHand(r) = {m} /\ Buf(o)' = Buf(o) \ {m}
      BY <1>7, <1>8, <1>11 DEF InHand, Handling, Buf
    <3>5. HasAll(task[t])'
      BY <1>0, <1>1, <1>7, <1>11, <3>1, <3>2, <3>4 DEF HasAll
    <3> QED  BY <3>3, <3>5
  <2>3. ~Sweeping(r) /\ r.pc \notin {"fetch", "notify"}
    BY <1>7 DEF Sweeping, Handling
  <2> QED  BY <1>11, <2>1, <2>2, <2>3 DEF Recovers, FetchesFromNext, SweepsUpward, ReportsAll
<1>14. \A d \in Conv : states[d] = o =>
          \A x \in Seqd(d) :
             (IF obs[o].started # 0 THEN obs[o].started ELSE obs[o].next) <= SeqOf[x]
                /\ SeqOf[x] < obs[o].next => x \in handed'
  BY <1>1, <1>8, <1>9, <1>10
<1>15. /\ \A x \in ObjIds \ {o} : obs[x].next = objs[x].next /\ obs[x].started = objs[x].started
       /\ obs[o].next \in Nat /\ objs[o].next <= obs[o].next
  BY <1>8, <1>9, <1>10
<1>16. handed \subseteq handed' /\ Runs(t) /\ \A d \in Conv : states[d] \in {states[d], None}
  BY <1>1
<1> QED  BY <1>2, <1>4, <1>9, <1>13, <1>14, <1>15, <1>16, OneObjectRecovers

\* The gap fill reports as recovered what it has taken from history, or what was
\* handed over before.
LEMMA ChainToResolveRecovers ==
    ASSUME ~AsyncHandlers, OrderTyped, OrderTyped', SyncInv, RecoverInv, NEW t \in GapTasks, ChainEnd(t)
    PROVE  RecoverInv'
<1>t. t \in Tasks
  BY DEF Tasks
<1>0. PICK o, c, N : o = task[t].o /\ c = task[t].c /\ N = NextInLine(t)
  OBVIOUS
<1>1. /\ Runs(t) /\ task[t].pc \in {"inorder", "chained", "chain"} /\ handed' = handed /\ pub' = pub
  BY DEF ChainEnd, AtChain, server, app
<1>2. /\ task[t] \in GoodTask /\ o \in ObjIds /\ c \in Conv /\ objs[o] \in OrderState
      /\ states \in [Conv -> ObjIds \cup {None}]
  BY <1>t, <1>0, <1>1 DEF OrderTyped, GoodTask, Sound, OnObject
<1> DEFINE drained == task[t].pc = "chained"
           ob == [objs[o] EXCEPT !.next = N]
           r == Resolve(t, c, o, ob, drained)
           sts == IF drained THEN Cleanup(states, c, ob) ELSE states
           tsk == [task EXCEPT ![t] = r]
           obs == [objs EXCEPT ![o] = ob]
<1>3. Commit(sts, tsk, obs)
  BY <1>0 DEF ChainEnd
<1>4. ob.buf = objs[o].buf /\ ob.next = N /\ ob.started = objs[o].started
  BY <1>2 DEF OrderState
<1> HIDE DEF ob
<1>5. /\ r.pc = "resolving" /\ r.c = c /\ r.o = o /\ r.rec = drained /\ r.high = N - 1
      /\ r.exp = IF ob.started # 0 THEN ob.started ELSE N
      /\ r.from = task[t].from /\ r.read = task[t].read
  BY <1>t, <1>2, <1>4, Fields
<1> HIDE DEF r
<1>6. /\ tsk[t] = r /\ \A u \in Tasks \ {t} : StaysAt(u, tsk)
      /\ obs[o] = ob /\ \A x \in ObjIds \ {o} : obs[x] = objs[x]
  BY <1>t, <1>2, OneTaskWrites DEF OrderTyped
<1>7. \A d \in Conv : sts[d] \in {states[d], None}
  <2>1. CASE drained
    BY <1>2, <2>1, CleanupEffect
  <2>2. CASE ~drained
    BY <2>2
  <2> QED  BY <2>1, <2>2
<1> HIDE DEF tsk, obs, sts
<1>8. task'[t] = r /\ objs'[o] = ob
  BY <1>t, <1>2, <1>3, <1>5, <1>6, CommitEffect
<1>9. Recovers(t)
  BY <1>t DEF RecoverInv
<1>10. /\ N \in Nat /\ objs[o].next <= N /\ (states[c] = o => N # 0)
       /\ \A d \in Conv : states[d] = o =>
                 \A x \in Seqd(d) :
                    (IF objs[o].started # 0 THEN objs[o].started ELSE N) <= SeqOf[x]
                       /\ SeqOf[x] < N => x \in handed
  BY <1>t, <1>0, <1>1, <1>2, LinePassesNone
<1>11. Recovers(t)'
  <2>1. SweepsUpward(t)'
    BY <1>4, <1>5, <1>8, <1>10 DEF SweepsUpward
  <2>2. ReportsAll(t)'
    <3> SUFFICES ASSUME drained
                 PROVE  r.exp # 0 /\ HasAll(task[t])' /\ HadBefore(task[t])'
      BY <1>5, <1>8 DEF ReportsAll
    <3>1. OnHistory(task[t]) /\ InHand(task[t]) = {}
      BY DEF OnHistory, InHand, Handling
    <3>2. states[c] = o /\ task[t].from <= objs[o].next /\ HasAll(task[t])
      BY <1>0, <1>9, <3>1 DEF Recovers, GapTaskTakesPage
    <3>3. r.exp # 0
      BY <1>4, <1>5, <1>10, <3>2
    <3>4. task[t].from \in Nat /\ objs[o].next \in Nat
      BY <1>2 DEF GoodTask, TaskState, OrderState
    <3>5. ASSUME NEW m \in Seqd(c), r.exp <= SeqOf[m], SeqOf[m] < task[t].from
          PROVE  m \in handed
      <4>1. SeqOf[m] \in Nat
        BY MessagesAssumption DEF Seqd
      <4>2. SeqOf[m] < N
        BY <1>10, <3>2, <3>4, <3>5, <4>1
      <4>3. (IF objs[o].started # 0 THEN objs[o].started ELSE N) <= SeqOf[m]
        BY <1>4, <1>5, <3>5
      <4> QED  BY <1>2, <1>10, <3>2, <4>2, <4>3
    <3>6. Buf(o)' = Buf(o)
      BY <1>4, <1>8 DEF Buf
    <3>7. HasAll(task[t])'
      BY <1>0, <1>1, <1>5, <1>8, <3>1, <3>2, <3>6 DEF HasAll
    <3>8. HadBefore(task[t])'
      BY <1>1, <1>5, <1>8, <3>5 DEF HadBefore, Seqd
    <3> QED  BY <3>3, <3>7, <3>8
  <2>3. ~InLineNow(r) /\ ~OnHistory(r) /\ ~Handling(r) /\ r.pc \notin {"fetch", "inorder"}
    BY <1>5 DEF InLineNow, OnHistory, Handling
  <2> QED  BY <1>8, <2>1, <2>2, <2>3 DEF Recovers, DeliversNext, FetchesFromNext, GapTaskTakesPage
<1>12. \A d \in Conv : states[d] = o =>
          \A x \in Seqd(d) :
             (IF obs[o].started # 0 THEN obs[o].started ELSE obs[o].next) <= SeqOf[x]
                /\ SeqOf[x] < obs[o].next => x \in handed'
  BY <1>1, <1>4, <1>6, <1>10
<1>13. /\ \A x \in ObjIds \ {o} : obs[x].next = objs[x].next /\ obs[x].started = objs[x].started
       /\ obs[o].next \in Nat /\ objs[o].next <= obs[o].next
  BY <1>4, <1>6, <1>10
<1>14. handed \subseteq handed' /\ Runs(t)
  BY <1>1
<1> QED  BY <1>t, <1>2, <1>3, <1>6, <1>7, <1>11, <1>12, <1>13, <1>14, OneObjectRecovers

LEMMA ChainHomeRecovers ==
    ASSUME ~AsyncHandlers, OrderTyped, OrderTyped', SyncInv, RecoverInv, NEW t \in Tasks \ GapTasks,
           ChainEnd(t)
    PROVE  RecoverInv'
<1>0. PICK o, c, N : o = task[t].o /\ c = task[t].c /\ N = NextInLine(t)
  OBVIOUS
<1>1. /\ Runs(t) /\ task[t].pc \in {"inorder", "chained", "chain"} /\ handed' = handed
  BY DEF ChainEnd, AtChain, app
<1>2. /\ task[t] \in GoodTask /\ o \in ObjIds /\ c \in Conv /\ objs[o] \in OrderState
      /\ states \in [Conv -> ObjIds \cup {None}]
  BY <1>0, <1>1 DEF OrderTyped, GoodTask, Sound, OnObject
<1> DEFINE ob == [objs[o] EXCEPT !.next = N]
           stop == IF ob.buf = <<>> /\ ob.timer # None THEN {ob.timer} ELSE {}
           calm == IF stop = {} THEN ob ELSE [ob EXCEPT !.timer = None, !.started = 0]
           r == [Idle EXCEPT !.pc = Home(t)]
           tsk == Cancel([task EXCEPT ![t] = r], stop)
           obs == [Unfill(objs, stop) EXCEPT ![o] = calm]
           sts == Cleanup(states, c, calm)
<1>3. Commit(sts, tsk, obs)
  BY <1>0 DEF ChainEnd
<1>4. calm.next = N /\ calm.started \in {objs[o].started, 0}
  BY <1>2 DEF OrderState
<1>5. Away(r) /\ Away(Idle)
  BY HomeIsAPlace DEF Away, Idle
<1> HIDE DEF calm, r
<1>6. \A d \in Conv : sts[d] \in {states[d], None}
  BY <1>2, CleanupEffect
<1>7. Away(tsk[t]) /\ \A u \in Tasks \ {t} : StaysAt(u, tsk)
  BY <1>5, OneTaskCancels
<1>8. /\ obs[o] = calm
      /\ \A x \in ObjIds \ {o} : obs[x].next = objs[x].next /\ obs[x].started = objs[x].started
  <2>1. DOMAIN Unfill(objs, stop) = ObjIds
    BY DEF Unfill
  <2>2. \A x \in ObjIds : /\ Unfill(objs, stop)[x].next = objs[x].next
                          /\ Unfill(objs, stop)[x].started = objs[x].started
    BY UnfillEffect
  <2> HIDE DEF stop
  <2> QED  BY <1>2, <2>1, <2>2
<1> HIDE DEF stop, tsk, obs, sts
<1>9. /\ N \in Nat /\ objs[o].next <= N
      /\ \A d \in Conv : states[d] = o =>
                 \A x \in Seqd(d) :
                    (IF objs[o].started # 0 THEN objs[o].started ELSE N) <= SeqOf[x]
                       /\ SeqOf[x] < N => x \in handed
  BY <1>0, <1>1, LinePassesNone
<1>10. ASSUME NEW d \in Conv, states[d] = o, NEW x \in Seqd(d),
              (IF obs[o].started # 0 THEN obs[o].started ELSE obs[o].next) <= SeqOf[x],
              SeqOf[x] < obs[o].next
       PROVE  x \in handed'
  <2>1. SeqOf[x] \in Nat
    BY MessagesAssumption DEF Seqd
  <2>2. obs[o].started # 0 /\ obs[o].started = objs[o].started
    BY <1>4, <1>8, <1>9, <1>10, <2>1
  <2> QED  BY <1>1, <1>4, <1>8, <1>9, <1>10, <2>2
<1>11. \A d \in Conv : states[d] = o =>
          \A x \in Seqd(d) :
             (IF obs[o].started # 0 THEN obs[o].started ELSE obs[o].next) <= SeqOf[x]
                /\ SeqOf[x] < obs[o].next => x \in handed'
  BY <1>10
<1>12. obs[o].next \in Nat /\ objs[o].next <= obs[o].next /\ handed \subseteq handed'
  BY <1>1, <1>4, <1>8, <1>9
<1>13. Recovers(t)'
  <2>1. task'[t] = tsk[t]
    BY <1>3, CommitEffect
  <2> QED  BY <1>7, <2>1, OutsideRecovers DEF Away
<1> QED  BY <1>1, <1>2, <1>3, <1>6, <1>7, <1>8, <1>11, <1>12, <1>13, OneObjectRecovers
----------------------------------------------------------------------------
(* The flush, and the routing of a frame *)

LEMMA FlushConversationRecovers ==
    ASSUME ~AsyncHandlers, OrderTyped, OrderTyped', RecoverInv, NEW t \in Tasks, FlushConversation(t)
    PROVE  RecoverInv'
<1>1. Runs(t) /\ task[t].pc = "flush" /\ handed' = handed
  BY DEF FlushConversation, At, app
<1>2. task[t] \in GoodTask /\ task[t].work \in SUBSET (Conv \X ObjIds)
  BY DEF OrderTyped, GoodTask, TaskState
<1>3. PICK w \in task[t].work :
        LET o == w[2]
            ob == [objs[o] EXCEPT !.timer = None]
            stop == {objs[o].timer} \ {None}
            rest == [task[t] EXCEPT !.work = @ \ {w}]
        IN
        Commit(states,
                  Cancel([task EXCEPT ![t] =
                      IF ob.buf = <<>> THEN rest
                      ELSE [rest EXCEPT !.pc = "flushing", !.c = w[1], !.o = o,
                                        !.todo = DOMAIN ob.buf, !.high = ob.next - 1, !.rec = FALSE,
                                        !.exp = IF ob.started # 0 THEN ob.started ELSE ob.next]],
                      stop),
                  [Unfill(objs, stop) EXCEPT ![o].timer = None])
  BY DEF FlushConversation
<1>4. PICK c, o : c = w[1] /\ o = w[2]
  OBVIOUS
<1>5. o \in ObjIds /\ objs[o] \in OrderState
  BY <1>2, <1>3, <1>4 DEF OrderTyped
<1> DEFINE ob == [objs[o] EXCEPT !.timer = None]
           stop == {objs[o].timer} \ {None}
           rest == [task[t] EXCEPT !.work = @ \ {w}]
           sweep == [rest EXCEPT !.pc = "flushing", !.c = c, !.o = o,
                                 !.todo = DOMAIN ob.buf, !.high = ob.next - 1, !.rec = FALSE,
                                 !.exp = IF ob.started # 0 THEN ob.started ELSE ob.next]
           r == IF ob.buf = <<>> THEN rest ELSE sweep
           tsk == Cancel([task EXCEPT ![t] = r], stop)
           obs == [Unfill(objs, stop) EXCEPT ![o].timer = None]
<1>6. Commit(states, tsk, obs)
  BY <1>3, <1>4
<1>7. ob.next = objs[o].next
  BY <1>5 DEF OrderState
<1>8. \/ r.pc = "flush"
      \/ r.pc = "flushing" /\ r.o = o /\ ~r.rec /\ r.high = ob.next - 1
  <2>1. rest.pc = "flush"
    BY <1>1, <1>2 DEF GoodTask, TaskState
  <2>2. sweep.pc = "flushing" /\ sweep.o = o /\ ~sweep.rec /\ sweep.high = ob.next - 1
    <3> HIDE DEF ob
    <3> QED  BY <1>2 DEF GoodTask, TaskState
  <2> HIDE DEF rest, sweep, ob
  <2> QED  BY <2>1, <2>2
<1>9. SeqsStay(obs)
  <2> DEFINE u == Unfill(objs, stop)
  <2>1. DOMAIN u = ObjIds /\ u[o] \in OrderState
    <3>1. \A x \in ObjIds : objs[x] \in OrderState
      BY DEF OrderTyped
    <3> QED  BY <1>5, <3>1, UnfillTyped DEF Unfill
  <2>2. \A x \in ObjIds : u[x].next = objs[x].next /\ u[x].started = objs[x].started
    BY UnfillEffect
  <2>3. obs = [u EXCEPT ![o] = [u[o] EXCEPT !.timer = None]]
    OBVIOUS
  <2> HIDE DEF u, obs
  <2> DEFINE q == [u[o] EXCEPT !.timer = None]
  <2>4. q.next = u[o].next /\ q.started = u[o].started
    BY <2>1 DEF OrderState
  <2>5. obs[o] = q /\ \A x \in ObjIds \ {o} : obs[x] = u[x]
    BY <1>5, <2>1, <2>3
  <2> HIDE DEF q
  <2> QED  BY <1>5, <2>2, <2>4, <2>5 DEF SeqsStay
<1> HIDE DEF r, stop, ob
<1>10. tsk[t] \in {r, Idle} /\ \A u \in Tasks \ {t} : StaysAt(u, tsk)
  BY OneTaskCancels
<1> HIDE DEF tsk, obs
<1>11. Recovers(t)'
  <2>1. task'[t] = tsk[t] /\ Idle.pc = "idle"
    BY <1>6, CommitEffect DEF Idle
  <2>2. CASE task'[t].pc \in {"idle", "flush"}
    BY <2>2, OutsideRecovers
  <2>3. CASE tsk[t] = r /\ r.pc = "flushing" /\ r.o = o /\ ~r.rec /\ r.high = ob.next - 1
    <3>1. objs'[o] = obs[o]
      BY <1>5, <1>6, <2>3, CommitEffect
    <3>2. r.high = objs'[o].next - 1
      BY <1>5, <1>7, <1>9, <2>3, <3>1 DEF SeqsStay
    <3> QED  BY <2>1, <2>3, <3>2, SweepStartRecovers
  <2> QED  BY <1>8, <1>10, <2>1, <2>2, <2>3
<1> QED  BY <1>1, <1>6, <1>9, <1>10, <1>11, QuietRecovery

\* The frame a router delivers at once
LEMMA RouteAsideRecovers ==
    ASSUME ~AsyncHandlers, OrderTyped, OrderTyped', RecoverInv, NEW t \in Tasks, Runs(t),
           handed' = handed, NEW m, NEW e, NEW spent,
           RouteUnsequenced(t, m, e) \/ RouteBelow(t, m, spent)
    PROVE  RecoverInv'
<1>1. Home(t) \in {"idle", "row"} /\ task[t] \in GoodTask
  BY HomeIsAPlace DEF OrderTyped
<1>2. ASSUME NEW f PROVE Away(Deliver(t, m, f, Home(t), None))
  BY <1>1, Fields DEF Away, Handling
<1>3. Away([Idle EXCEPT !.pc = Home(t)])
  BY <1>1 DEF Away, Idle
<1>4. \E r : Commit(states, [task EXCEPT ![t] = r], objs) /\ Away(r)
  BY <1>2, <1>3 DEF RouteUnsequenced, RouteBelow
<1> QED  BY <1>4, GoingAwayRecovers

LEMMA RouteInOrderRecovers ==
    ASSUME ~AsyncHandlers, OrderTyped, OrderTyped', RecoverInv, NEW t \in Tasks \ GapTasks, Runs(t),
           handed' = handed, NEW m \in Msgs, NEW e, RouteInOrder(t, m, e)
    PROVE  RecoverInv'
<1>0. PICK c, o : c = ConvOf[m] /\ o = states[c]
  OBVIOUS
<1>1. /\ task[t] \in GoodTask /\ o \in ObjIds
      /\ m \in Seqd(c) /\ SeqOf[m] = objs[o].next
  BY <1>0, MessagesAssumption DEF OrderTyped, RouteInOrder, Tracked, Unsequenced, Expected, Seqd
<1> DEFINE r == Deliver(t, m, e, "inorder", o)
<1>2. GoesOn(t, r)
  BY <1>0 DEF RouteInOrder, GoesOn
<1>3. r.pc = "deliver" /\ r.site = "inorder" /\ r.m = m /\ r.c = c /\ r.o = o
  BY <1>0, <1>1, Fields
<1> HIDE DEF r
<1>4. states' = states /\ task'[t] = r /\ objs'[o] = objs[o]
  BY <1>1, <1>2, <1>3, GoesOnEffect
<1>5. Recovers(t)'
  <2>1. DeliversNext(t)'
    BY <1>0, <1>1, <1>3, <1>4 DEF DeliversNext, Handling, Seqd
  <2>2. ~Sweeping(r) /\ r.pc \notin {"fetch", "notify"}
    BY <1>3 DEF Sweeping, Handling
  <2> QED  BY <1>4, <2>1, <2>2 DEF Recovers, FetchesFromNext, GapTaskTakesPage, SweepsUpward, ReportsAll
<1>6. /\ \A u \in Tasks \ {t} : StaysAt(u, [task EXCEPT ![t] = r])
      /\ Commit(states, [task EXCEPT ![t] = r], objs)
  BY <1>2, OneTaskWrites DEF GoesOn
<1> QED  BY <1>5, <1>6, SameSeqs, QuietRecovery

\* A conversation begins with the message that anchors it.
LEMMA RouteAnchorRecovers ==
    ASSUME ~AsyncHandlers, OrderTyped, OrderTyped', RecoverInv, NEW t \in Tasks, Runs(t),
           handed' = handed, NEW m \in Msgs, NEW e, RouteAnchor(t, m, e)
    PROVE  RecoverInv'
<1>0. PICK c : c = ConvOf[m]
  OBVIOUS
<1>1. /\ task[t] \in GoodTask /\ c \in Conv /\ states[c] = None /\ SeqOf[m] \in Nat /\ m \in Seqd(c)
      /\ states \in [Conv -> ObjIds \cup {None}] /\ objs \in [ObjIds -> OrderState]
  BY <1>0, MessagesAssumption DEF OrderTyped, RouteAnchor, Anchors, Unsequenced, Seqd
<1>2. PICK o \in FreeObjs :
         Commit([states EXCEPT ![c] = o],
                [task EXCEPT ![t] = Deliver(t, m, e, Home(t), None)],
                [objs EXCEPT ![o] = [FreshObj EXCEPT !.next = SeqOf[m] + 1]])
  BY <1>0 DEF RouteAnchor
<1>3. o \in ObjIds /\ (\A d \in Conv : states[d] # o) /\ \A u \in Tasks : task[u].o # o
  BY <1>2 DEF FreeObjs, Referenced
<1> DEFINE r == Deliver(t, m, e, Home(t), None)
           new == [FreshObj EXCEPT !.next = SeqOf[m] + 1]
           sts == [states EXCEPT ![c] = o]
           tsk == [task EXCEPT ![t] = r]
           obs == [objs EXCEPT ![o] = new]
<1>4. Commit(sts, tsk, obs)
  BY <1>2
<1>5. Away(r)
  BY <1>1, HomeIsAPlace, Fields DEF Away, Handling
<1>6. new.next = SeqOf[m] + 1 /\ new.started = 0
  BY DEF FreshObj
<1>7. /\ sts[c] = o /\ \A d \in Conv \ {c} : sts[d] = states[d]
      /\ obs[o] = new /\ \A x \in ObjIds \ {o} : obs[x] = objs[x]
  BY <1>1, <1>3
<1>8. tsk[t] = r /\ \A u \in Tasks \ {t} : StaysAt(u, tsk)
  BY OneTaskWrites
<1> HIDE DEF r, new, sts, tsk, obs
<1>9. /\ states' = sts /\ task'[t] = r
      /\ \A d \in Conv : sts[d] \in ObjIds => objs'[sts[d]] = obs[sts[d]]
  BY <1>4, <1>8, CommitEffect
<1>10. NextsGrow(obs)
  <2>1. \A x \in ObjIds : objs[x].next \in Nat
    BY <1>1 DEF OrderState
  <2> QED  BY <1>3, <1>7, <2>1 DEF NextsGrow
<1>11. \A u \in Tasks \ {t} : Recovers(u)'
  BY <1>4, <1>8, <1>10, OthersRecover
<1>12. Recovers(t)'
  BY <1>5, <1>9, OutsideRecovers DEF Away
<1>13. Tracks(c)'
  <2>1. objs'[states'[c]] = new
    BY <1>1, <1>3, <1>7, <1>9
  <2>2. Begun(c)'
    BY <1>1, <1>6, <2>1 DEF Begun, Seqd
  <2>3. NonePassed(c)'
    <3>1. \A x \in Seqd(c) : SeqOf[x] \in Nat
      BY MessagesAssumption DEF Seqd
    <3> QED  BY <1>1, <1>6, <2>1, <3>1 DEF NonePassed, Base, Seqd
  <2> QED  BY <2>2, <2>3 DEF Tracks
<1>14. ASSUME NEW d \in Conv \ {c} PROVE Tracks(d)'
  <2> SUFFICES ASSUME states[d] # None PROVE Begun(d)' /\ NonePassed(d)'
    BY <1>7, <1>9 DEF Tracks
  <2>1. states'[d] = states[d] /\ objs'[states[d]] = objs[states[d]]
    BY <1>1, <1>3, <1>7, <1>9
  <2>2. Begun(d) /\ NonePassed(d)
    BY DEF RecoverInv, Tracks
  <2> QED  BY <2>1, <2>2 DEF Begun, NonePassed, Base, Seqd
<1> QED  BY <1>11, <1>12, <1>13, <1>14 DEF RecoverInv

\* What is parked at once lies ahead: nothing is passed over.
LEMMA RouteParkRecovers ==
    ASSUME ~AsyncHandlers, OrderTyped, OrderTyped', RecoverInv, NEW t \in Tasks \ GapTasks, Runs(t),
           handed' = handed, NEW m \in Msgs, NEW e, RoutePark(t, m, e)
    PROVE  RecoverInv'
<1>0. PICK c, o : c = ConvOf[m] /\ o = states[c]
  OBVIOUS
<1>1. /\ task[t] \in GoodTask /\ o \in ObjIds /\ objs[o] \in OrderState /\ objs[o].next \in Nat
      /\ objs \in [ObjIds -> OrderState] /\ task \in [Tasks -> GoodTask]
      /\ \A g \in GapTasks : g \in Tasks
  BY <1>0, MessagesAssumption DEF OrderTyped, OrderState, Tasks, RoutePark, Tracked
<1> DEFINE kept == [objs[o] EXCEPT !.buf = [x \in DOMAIN @ \cup {m} |-> IF x = m THEN e ELSE @[x]]]
           home == [Idle EXCEPT !.pc = Home(t)]
<1>2. kept.next = objs[o].next /\ kept.started = objs[o].started
  BY <1>1 DEF OrderState
<1>3. Away(home)
  BY HomeIsAPlace DEF Away, Idle
<1>4. ASSUME NEW new, new.next = objs[o].next, new.started = objs[o].started
      PROVE  SeqsStay([objs EXCEPT ![o] = new])
  BY <1>1, <1>4 DEF SeqsStay
<1>5. CASE Commit(states, [task EXCEPT ![t] = Resolve(t, c, o, kept, FALSE)], [objs EXCEPT ![o] = kept])
  <2> HIDE DEF kept
  <2> DEFINE r == Resolve(t, c, o, kept, FALSE)
             tsk == [task EXCEPT ![t] = r]
             obs == [objs EXCEPT ![o] = kept]
  <2>1. Commit(states, tsk, obs) /\ SeqsStay(obs) /\ obs[o] = kept
    BY <1>1, <1>2, <1>4, <1>5
  <2>2. r.pc = "resolving" /\ r.o = o /\ ~r.rec /\ r.high = kept.next - 1
    BY <1>1 DEF Resolve, GoodTask, TaskState
  <2> HIDE DEF r
  <2>3. tsk[t] = r /\ \A u \in Tasks \ {t} : StaysAt(u, tsk)
    BY OneTaskWrites
  <2> HIDE DEF tsk, obs
  <2>4. task'[t] = r /\ objs'[o] = kept
    BY <1>1, <2>1, <2>2, <2>3, CommitEffect
  <2>5. Recovers(t)'
    BY <2>2, <2>4, SweepStartRecovers
  <2> QED  BY <2>1, <2>3, <2>5, QuietRecovery
<1>6. CASE Commit(states, [task EXCEPT ![t] = home], [objs EXCEPT ![o] = kept])
  <2> HIDE DEF kept, home
  <2> DEFINE tsk == [task EXCEPT ![t] = home]
             obs == [objs EXCEPT ![o] = kept]
  <2>1. Commit(states, tsk, obs) /\ SeqsStay(obs)
    BY <1>2, <1>4, <1>6
  <2>2. tsk[t] = home /\ \A u \in Tasks \ {t} : StaysAt(u, tsk)
    BY OneTaskWrites
  <2> HIDE DEF tsk, obs
  <2> QED  BY <1>3, <2>1, <2>2, AwayRecovery
<1>7. CASE \E g \in FreeGapTasks :
              Commit(states,
                     [task EXCEPT ![t] = home, ![g] = [Idle EXCEPT !.pc = "asleep", !.c = c]],
                     [objs EXCEPT ![o] = [kept EXCEPT !.timer = g, !.started = kept.next]])
  <2>1. PICK g \in FreeGapTasks :
              Commit(states,
                     [task EXCEPT ![t] = home, ![g] = [Idle EXCEPT !.pc = "asleep", !.c = c]],
                     [objs EXCEPT ![o] = [kept EXCEPT !.timer = g, !.started = kept.next]])
    BY <1>7
  <2> DEFINE tsk == [task EXCEPT ![t] = home, ![g] = [Idle EXCEPT !.pc = "asleep", !.c = c]]
             new == [kept EXCEPT !.timer = g, !.started = kept.next]
             obs == [objs EXCEPT ![o] = new]
  <2>2. g \in GapTasks /\ g # t
    BY DEF FreeGapTasks
  <2>3. new.next = objs[o].next /\ new.started = objs[o].next
    BY <1>1 DEF OrderState
  <2> HIDE DEF kept, home
  <2>4. tsk[t] = home /\ \A u \in Tasks \ {t} : StaysAt(u, tsk)
    <3>1. [Idle EXCEPT !.pc = "asleep", !.c = c].pc = "asleep"
      BY DEF Idle
    <3> QED  BY <1>1, <2>2, <3>1 DEF StaysAt
  <2>5. Commit(states, tsk, obs) /\ obs[o] = new /\ \A x \in ObjIds \ {o} : obs[x] = objs[x]
    BY <1>1, <2>1
  <2> HIDE DEF tsk, new, obs
  <2>6. Recovers(t)'
    <3>1. task'[t] = home
      BY <2>4, <2>5, CommitEffect
    <3> QED  BY <1>3, <3>1, OutsideRecovers DEF Away
  <2>7. ASSUME NEW d \in Conv, states[d] = o, NEW x \in Seqd(d),
               (IF obs[o].started # 0 THEN obs[o].started ELSE obs[o].next) <= SeqOf[x],
               SeqOf[x] < obs[o].next
        PROVE  FALSE
    <3>1. SeqOf[x] \in Nat
      BY MessagesAssumption DEF Seqd
    <3> QED  BY <1>1, <2>3, <2>5, <2>7, <3>1
  <2>8. \A d \in Conv : states[d] = o =>
           \A x \in Seqd(d) :
              (IF obs[o].started # 0 THEN obs[o].started ELSE obs[o].next) <= SeqOf[x]
                 /\ SeqOf[x] < obs[o].next => x \in handed'
    BY <2>7
  <2>9. /\ \A x \in ObjIds \ {o} : obs[x].next = objs[x].next /\ obs[x].started = objs[x].started
        /\ obs[o].next \in Nat /\ objs[o].next <= obs[o].next
        /\ handed \subseteq handed' /\ \A d \in Conv : states[d] \in {states[d], None}
    BY <1>1, <2>3, <2>5
  <2> QED  BY <1>1, <2>4, <2>5, <2>6, <2>8, <2>9, OneObjectRecovers
<1> HIDE DEF kept, home
<1> QED  BY <1>0, <1>5, <1>6, <1>7 DEF RoutePark, kept, home

LEMMA RouteRecovers ==
    ASSUME ~AsyncHandlers, OrderTyped, OrderTyped', RecoverInv, NEW t \in {"recv", "drain"}, Runs(t),
           handed' = handed, NEW m \in Msgs, NEW e, NEW spent, Route(t, m, e, spent)
    PROVE  RecoverInv'
<1>1. t \in Tasks \ GapTasks
  BY IdentitiesAssumption DEF Tasks
<1> QED  BY <1>1, RouteAsideRecovers, RouteAnchorRecovers, RouteInOrderRecovers, RouteParkRecovers DEF Route

LEMMA RecvFrameRecovers ==
    ASSUME ~AsyncHandlers, OrderTyped, OrderTyped', RecoverInv, NEW m \in Msgs, RecvFrame(m)
    PROVE  RecoverInv'
<1>1. /\ Runs("recv") /\ handed' = handed
      /\ Route("recv", m, [ws |-> ~AckOnReceipt, row |-> FALSE], AckOnReceipt)
  BY DEF RecvFrame, At, app
<1> QED  BY <1>1, RouteRecovers

----------------------------------------------------------------------------
(* The drain *)

LEMMA NewPageRecovers ==
    ASSUME ~AsyncHandlers, OrderTyped, OrderTyped', RecoverInv, Runs("drain"), handed' = handed,
           Commit(states,
                  [t \in Tasks |-> IF t = "drain" THEN [Idle EXCEPT !.pc = "row"]
                                   ELSE [task[t] EXCEPT !.row = FALSE]],
                  ForgetRows(objs))
    PROVE  RecoverInv'
<1>1. /\ "drain" \in Tasks /\ objs \in [ObjIds -> OrderState]
      /\ \A t \in Tasks : task[t] \in TaskState
  BY DEF Tasks, OrderTyped, GoodTask
<1> DEFINE tsk == [t \in Tasks |-> IF t = "drain" THEN [Idle EXCEPT !.pc = "row"]
                                   ELSE [task[t] EXCEPT !.row = FALSE]]
           obs == ForgetRows(objs)
<1>2. Commit(states, tsk, obs)
  OBVIOUS
<1>3. Away(tsk["drain"])
  BY <1>1 DEF Away, Idle
<1>4. \A u \in Tasks \ {"drain"} : StaysAt(u, tsk)
  BY <1>1 DEF StaysAt, TaskState
<1>5. SeqsStay(obs)
  BY <1>1 DEF SeqsStay, ForgetRows, OrderState
<1> HIDE DEF tsk, obs
<1> QED  BY <1>1, <1>2, <1>3, <1>4, <1>5, AwayRecovery

LEMMA DrainRecovers ==
    ASSUME ~AsyncHandlers, DeliveryInv, OrderTyped', RecoverInv, Drain
    PROVE  RecoverInv'
<1>1. OrderTyped /\ "drain" \in Tasks /\ handed' = handed
  BY DEF DeliveryInv, Tasks, Drain, SyncFails, SyncAnswers, DrainRow, DrainRouted, CheckRow, PageChecked,
     SyncAck, app
<1>2. ASSUME Runs("drain"), NEW pc \in {"idle", "sync", "check", "syncack"},
             Commit(states, DrainTo(pc), objs)
      PROVE  RecoverInv'
  <2> DEFINE r == [Idle EXCEPT !.pc = pc]
  <2>1. Commit(states, [task EXCEPT !["drain"] = r], objs)
    BY <1>2 DEF DrainTo
  <2>2. Away(r)
    BY DEF Away, Idle
  <2> HIDE DEF r
  <2> QED  BY <1>1, <1>2, <2>1, <2>2, GoingAwayRecovers
<1>3. CASE SyncFails
  BY <1>2, <1>3 DEF SyncFails, At, DrainEnds
<1>4. CASE SyncAnswers
  BY <1>1, <1>2, <1>4, NewPageRecovers DEF SyncAnswers, At, DrainEnds
<1>5. CASE DrainRow
  <2>1. PICK m \in drain.left : Route("drain", m, [ws |-> FALSE, row |-> TRUE], FALSE)
    BY <1>5 DEF DrainRow, Lowest
  <2>2. Runs("drain") /\ m \in Msgs
    BY <1>5, <2>1 DEF DrainRow, At, DeliveryInv, ConfirmInv, DrainState
  <2> QED  BY <1>1, <2>1, <2>2, RouteRecovers
<1>6. CASE DrainRouted
  BY <1>2, <1>6, EndPageTo DEF DrainRouted, At
<1>7. CASE CheckRow
  BY <1>1, <1>7, UntouchedRecovers DEF CheckRow, server
<1>8. CASE PageChecked
  BY <1>2, <1>8, EndPageTo DEF PageChecked, At
<1>9. CASE \E applied, answered \in BOOLEAN : SyncAck(applied, answered)
  BY <1>2, <1>9, EndPageTo DEF SyncAck, At
<1> QED  BY <1>3, <1>4, <1>5, <1>6, <1>7, <1>8, <1>9 DEF Drain
----------------------------------------------------------------------------
(* The gap fill *)

LEMMA GapTimerFiresRecovers ==
    ASSUME ~AsyncHandlers, OrderTyped, OrderTyped', RecoverInv, NEW t \in Tasks, GapTimerFires(t)
    PROVE  RecoverInv'
<1>0. PICK c, o : c = task[t].c /\ o = states[c]
  OBVIOUS
<1>1. t \in GapTasks /\ Runs(t) /\ task[t].pc = "asleep" /\ handed' = handed
  BY DEF GapTimerFires, At, app
<1>2. /\ c \in Conv /\ task[t] \in GoodTask /\ states \in [Conv -> ObjIds \cup {None}]
      /\ objs \in [ObjIds -> OrderState] /\ Away(Idle)
  BY <1>0, <1>1 DEF OrderTyped, GoodTask, Sound, Away, Idle
<1>3. CASE o = None
  BY <1>0, <1>1, <1>2, <1>3, GoingAwayRecovers DEF GapTimerFires
<1>4. CASE o # None
  <2>1. o \in ObjIds /\ objs[o] \in OrderState /\ objs[o].next \in Nat
    BY <1>0, <1>2, <1>4 DEF OrderState
  <2> DEFINE ob == [objs[o] EXCEPT !.timer = None]
             busy == [ob EXCEPT !.fill = TRUE]
             q == [task[t] EXCEPT !.pc = "fetch", !.o = o, !.exp = ob.next,
                                  !.from = ob.next, !.read = pub]
             z == Resolve(t, c, o, ob, FALSE)
  <2>2. PICK sts, r, new :
           /\ Commit(sts, [task EXCEPT ![t] = r], [objs EXCEPT ![o] = new])
           /\ sts \in {states, Cleanup(states, c, ob)} /\ new \in {ob, busy}
           /\ \/ r = Idle
              \/ r = z
              \/ r = q
    <3>1. \/ Commit(Cleanup(states, c, ob), [task EXCEPT ![t] = Idle], [objs EXCEPT ![o] = ob])
          \/ Commit(states, [task EXCEPT ![t] = z], [objs EXCEPT ![o] = ob])
          \/ Commit(states, [task EXCEPT ![t] = Idle], [objs EXCEPT ![o] = ob])
          \/ Commit(states, [task EXCEPT ![t] = q], [objs EXCEPT ![o] = busy])
      BY <1>0, <1>4 DEF GapTimerFires
    <3> HIDE DEF ob, busy, q, z
    <3> QED  BY <3>1
  <2>3. /\ ob.next = objs[o].next /\ ob.started = objs[o].started
        /\ busy.next = objs[o].next /\ busy.started = objs[o].started
    BY <2>1 DEF OrderState
  <2>4. q.pc = "fetch" /\ q.o = o /\ q.c = c /\ q.from = ob.next
    <3> HIDE DEF ob
    <3> QED  BY <1>0, <1>2 DEF GoodTask, TaskState
  <2>5. z.pc = "resolving" /\ z.o = o /\ ~z.rec /\ z.high = ob.next - 1
    <3> HIDE DEF ob
    <3> QED  BY <1>2 DEF Resolve, GoodTask, TaskState
  <2> HIDE DEF ob, busy, q, z
  <2> DEFINE tsk == [task EXCEPT ![t] = r]
             obs == [objs EXCEPT ![o] = new]
  <2>6. tsk[t] = r /\ \A u \in Tasks \ {t} : StaysAt(u, tsk)
    BY OneTaskWrites
  <2>7. SeqsStay(obs) /\ obs[o] = new
    BY <1>2, <2>1, <2>2, <2>3 DEF SeqsStay
  <2>8. \A d \in Conv : sts[d] \in {states[d], None}
    BY <1>2, <2>2, CleanupEffect
  <2>9. Commit(sts, tsk, obs)
    BY <2>2
  <2> HIDE DEF tsk, obs
  <2>10. task'[t] = r /\ (r.o = o => objs'[o] = new)
    BY <2>1, <2>6, <2>7, <2>9, CommitEffect
  <2>11. Recovers(t)'
    <3>1. CASE r = Idle
      BY <1>2, <2>10, <3>1, OutsideRecovers DEF Away
    <3>2. CASE r = z
      <4>1. r.high = objs'[r.o].next - 1
        BY <2>2, <2>3, <2>5, <2>10, <3>2
      <4> QED  BY <2>5, <2>10, <3>2, <4>1, SweepStartRecovers
    <3>3. CASE r = q
      <4>2. objs'[o].next = objs[o].next /\ r.from = objs[o].next
        BY <2>2, <2>3, <2>4, <2>10, <3>3
      <4>3. FetchesFromNext(t)'
        BY <2>1, <2>4, <2>10, <3>3, <4>2 DEF FetchesFromNext
      <4>4. ~InLineNow(r) /\ ~OnHistory(r) /\ ~Sweeping(r) /\ ~Handling(r) /\ r.pc \notin {"notify", "inorder"}
        BY <2>4, <3>3 DEF InLineNow, OnHistory, Sweeping, Handling
      <4> QED  BY <2>10, <4>3, <4>4 DEF Recovers, DeliversNext, GapTaskTakesPage, SweepsUpward, ReportsAll
    <3> QED  BY <2>2, <3>1, <3>2, <3>3
  <2>12. handed \subseteq handed'
    BY <1>1
  <2> QED  BY <1>1, <2>6, <2>7, <2>8, <2>9, <2>11, <2>12, QuietRecovery
<1> QED  BY <1>3, <1>4

LEMMA GapFillFailsRecovers ==
    ASSUME ~AsyncHandlers, OrderTyped, OrderTyped', RecoverInv, NEW t \in Tasks, GapFillFails(t)
    PROVE  RecoverInv'
<1>0. PICK c, o : c = task[t].c /\ o = task[t].o
  OBVIOUS
<1> DEFINE ob == [objs[o] EXCEPT !.fill = FALSE]
           r == IF states[c] # o THEN Idle ELSE Resolve(t, c, o, ob, FALSE)
           tsk == [task EXCEPT ![t] = r]
           obs == [objs EXCEPT ![o] = ob]
<1>1. Runs(t) /\ task[t].pc = "fetch" /\ Commit(states, tsk, obs) /\ handed' = handed
  BY <1>0 DEF GapFillFails, At, app
<1>2. task[t] \in GoodTask /\ o \in ObjIds /\ objs[o] \in OrderState /\ objs \in [ObjIds -> OrderState]
  BY <1>0, <1>1 DEF OrderTyped, GoodTask, Sound, OnObject
<1>3. ob.next = objs[o].next /\ ob.started = objs[o].started
  BY <1>2 DEF OrderState
<1>4. \/ r = Idle
      \/ r.pc = "resolving" /\ r.o = o /\ ~r.rec /\ r.high = ob.next - 1
  <2> HIDE DEF ob
  <2> QED  BY <1>2 DEF Resolve, GoodTask, TaskState
<1> HIDE DEF ob, r
<1>5. SeqsStay(obs) /\ obs[o] = ob
  BY <1>2, <1>3 DEF SeqsStay
<1>6. tsk[t] = r /\ \A u \in Tasks \ {t} : StaysAt(u, tsk)
  BY OneTaskWrites
<1> HIDE DEF tsk, obs
<1>7. task'[t] = r /\ (r.o = o => objs'[o] = ob)
  BY <1>1, <1>2, <1>5, <1>6, CommitEffect
<1>8. Recovers(t)'
  <2>1. CASE r = Idle
    <3>1. Idle.pc = "idle"
      BY DEF Idle
    <3> QED  BY <1>7, <2>1, <3>1, OutsideRecovers
  <2>2. CASE r.pc = "resolving" /\ r.o = o /\ ~r.rec /\ r.high = ob.next - 1
    BY <1>7, <2>2, SweepStartRecovers
  <2> QED  BY <1>4, <2>1, <2>2
<1> QED  BY <1>1, <1>5, <1>6, <1>8, QuietRecovery

LEMMA GapFillAnswersRecovers ==
    ASSUME ~AsyncHandlers, OrderTyped, OrderTyped', RecoverInv, NEW t \in Tasks, GapFillAnswers(t)
    PROVE  RecoverInv'
<1>0. PICK c, o, read : c = task[t].c /\ o = task[t].o /\ TakesPage(t, read)
  BY DEF GapFillAnswers
<1> DEFINE rows == HistoryPage(c, task[t].from, read) \ Buf(o)
           buf == [m \in Buf(o) \cup rows |->
                      IF m \in Buf(o) THEN objs[o].buf[m] ELSE [ws |-> ~AckOnReceipt, row |-> FALSE]]
           new == [objs[o] EXCEPT !.fill = FALSE, !.buf = buf]
           r == [task[t] EXCEPT !.pc = "chain", !.read = read]
           tsk == [task EXCEPT ![t].pc = "chain", ![t].read = read]
           obs == [objs EXCEPT ![o].fill = FALSE,
                               ![o].buf = [m \in DOMAIN @ \cup rows |->
                                   IF m \in DOMAIN @ THEN @[m]
                                   ELSE [ws |-> ~AckOnReceipt, row |-> FALSE]]]
<1>1. /\ t \in GapTasks /\ Runs(t) /\ task[t].pc = "fetch" /\ states[c] = o
      /\ handed' = handed /\ Commit(states, tsk, obs)
  BY <1>0 DEF GapFillAnswers, TakesPage, At, app, Buf
<1>2. /\ c \in Conv /\ task[t] \in GoodTask /\ o \in ObjIds /\ objs[o] \in OrderState
      /\ objs \in [ObjIds -> OrderState]
  BY <1>0, <1>1 DEF OrderTyped, GoodTask, Sound, OnObject
<1>3. obs[o] = new /\ \A x \in ObjIds \ {o} : obs[x] = objs[x]
  BY <1>2 DEF OrderState, Buf
<1>4. new.next = objs[o].next /\ new.started = objs[o].started /\ DOMAIN new.buf = Buf(o) \cup rows
  <2>1. DOMAIN buf = Buf(o) \cup rows
    OBVIOUS
  <2> HIDE DEF buf
  <2> QED  BY <1>2, <2>1 DEF OrderState
<1>5. tsk[t] = r /\ \A u \in Tasks \ {t} : StaysAt(u, tsk)
  <2>1. tsk = [task EXCEPT ![t] = r]
    BY DEF OrderTyped
  <2> HIDE DEF tsk, r
  <2> QED  BY <2>1, OneTaskWrites
<1>6. r.pc = "chain" /\ r.o = o /\ r.c = c /\ r.from = task[t].from /\ r.read = read
  BY <1>0, <1>2 DEF GoodTask, TaskState
<1>7. HistoryPage(c, task[t].from, read) \subseteq Buf(o) \cup rows
  OBVIOUS
<1> HIDE DEF rows, buf, new, r, tsk, obs
<1>8. task'[t] = r /\ objs'[o] = new /\ states' = states
  BY <1>1, <1>2, <1>3, <1>5, <1>6, CommitEffect
<1>9. task[t].from <= objs[o].next
  BY <1>0, <1>1, <1>2 DEF RecoverInv, Recovers, FetchesFromNext
<1>10. HasAll(task[t])'
  BY <1>1, <1>4, <1>6, <1>7, <1>8 DEF HasAll, Buf
<1>11. Recovers(t)'
  <2>1. GapTaskTakesPage(t)'
    BY <1>1, <1>4, <1>6, <1>8, <1>9, <1>10 DEF GapTaskTakesPage, Handling
  <2>2. ~InLineNow(r) /\ ~Sweeping(r) /\ r.pc \notin {"fetch", "notify"}
    BY <1>6 DEF InLineNow, Sweeping, Handling
  <2> QED  BY <1>8, <2>1, <2>2 DEF Recovers, DeliversNext, FetchesFromNext, SweepsUpward, ReportsAll
<1>12. SeqsStay(obs)
  BY <1>3, <1>4 DEF SeqsStay
<1>13. handed \subseteq handed'
  BY <1>1
<1> QED  BY <1>1, <1>5, <1>11, <1>12, <1>13, QuietRecovery

----------------------------------------------------------------------------
(* The theorems about recovered gaps *)

LEMMA RecoverInitially == Init => RecoverInv
<1> SUFFICES ASSUME Init PROVE RecoverInv
  OBVIOUS
<1>1. /\ \A t \in Tasks : task[t] = Idle
      /\ \A c \in Conv : states[c] = None
      /\ Idle.pc = "idle"
  BY DEF Init, Idle
<1>2. \A t \in Tasks : Recovers(t)
  BY <1>1 DEF Recovers, DeliversNext, FetchesFromNext, GapTaskTakesPage, SweepsUpward, ReportsAll,
     InLineNow, OnHistory, Sweeping, Handling
<1>3. \A c \in Conv : Tracks(c)
  BY <1>1 DEF Tracks
<1> QED  BY <1>2, <1>3 DEF RecoverInv

LEMMA RecoverStep ==
    ASSUME ~AsyncHandlers, DeliveryInv, SyncInv, RecoverInv, [Next]_vars
    PROVE  RecoverInv'
<1>1. OrderTyped /\ OrderTyped' /\ pub \in 0..Total
  BY OrderStaysTyped DEF DeliveryInv, ConfirmInv
<1>2. ASSUME NEW t \in Tasks, Step(t) PROVE RecoverInv'
  <2>1. CASE DedupHit(t) \/ Dispatch(t)
    BY <1>1, <2>1, ChokePointRecovers
  <2>2. CASE ChainNext(t)
    BY <1>1, <2>2, ChainNextRecovers
  <2>3. CASE ChainEnd(t)
    BY <1>1, <2>3, ChainToResolveRecovers, ChainHomeRecovers
  <2>4. CASE SweepNext(t)
    BY <1>1, <2>4, SweepNextRecovers
  <2>5. CASE SweepEnd(t)
    BY <1>1, <2>5, SweepEndRecovers
  <2>6. CASE MissingFrame(t)
    BY <2>6, NoFrameIsMissing
  <2>7. CASE FlushConversation(t)
    BY <1>1, <2>7, FlushConversationRecovers
  <2>8. CASE FlushEnd(t)
    BY <1>1, <2>8, FlushEndRecovers
  <2> QED  BY <1>2, <2>1, <2>2, <2>3, <2>4, <2>5, <2>6, <2>7, <2>8 DEF Step
<1>3. ASSUME NEW t \in Tasks, HandlerReturns(t) PROVE RecoverInv'
  BY <1>1, <1>3, ChokePointRecovers, NotifiedRecovers DEF HandlerReturns
<1>4. ASSUME NEW t \in Tasks, GapTimer(t) PROVE RecoverInv'
  BY <1>1, <1>4, GapTimerFiresRecovers, GapFillFailsRecovers, GapFillAnswersRecovers DEF GapTimer
<1>5. CASE Drain
  BY <1>1, <1>5, DrainRecovers
<1>6. CASE Socket
  BY <1>1, <1>6, SocketRecovers DEF Socket
<1>7. CASE Environment
  BY <1>1, <1>7, RecvFrameRecovers, SocketRecovers DEF Environment
<1>8. CASE UNCHANGED vars
  BY <1>8, UntouchedRecovers DEF vars, server, app
<1> QED  BY <1>2, <1>3, <1>4, <1>5, <1>6, <1>7, <1>8 DEF Next

\* The invariant a recovered gap rests on, by induction over the steps
THEOREM RecoverInvariant ==
    ASSUME ~AsyncHandlers
    PROVE  Spec => []RecoverInv
<1>1. DeliveryInv /\ SyncInv /\ RecoverInv /\ [Next]_vars => RecoverInv'
  BY RecoverStep
<1> QED  BY <1>1, RecoverInitially, SyncInvariant, DeliveryInvariant, PTL DEF Spec

\* When handlers do not suspend, a gap that on_sequence_gap reports as recovered
\* has left out nothing but what history hides, what was published after the
\* server read the page of the gap fill, and what lay behind a full page.
THEOREM RecoveredLeavesNothingOut ==
    ASSUME ~AsyncHandlers
    PROVE  Spec => []RecoveredIsComplete
<1>1. DeliveryInv /\ SyncInv /\ RecoverInv => RecoveredIsComplete
  <2> SUFFICES ASSUME DeliveryInv, SyncInv, RecoverInv, NEW t \in Tasks, Recovered(t),
                      NEW m \in Hole(t), m \notin Hidden, ~(m > task[t].read)
               PROVE  Before(Visible(task[t].c, task[t].from, task[t].read), m) >= GapFillLimit
    BY DEF RecoveredIsComplete
  <2> DEFINE rows == Visible(task[t].c, task[t].from, task[t].read)
  <2>1. task[t].exp # 0 /\ HasAll(task[t]) /\ HadBefore(task[t])
    BY DEF RecoverInv, Recovers, ReportsAll, Recovered
  <2>2. Buf(task[t].o) = {} /\ InHand(task[t]) = {}
    BY DEF SyncInv, Fits, ReportsEmpty, InHand, Handling, Recovered
  <2>3. /\ task[t].exp \in Nat /\ task[t].from \in Nat /\ task[t].read \in Nat
        /\ task[t].high \in Int /\ pub \in 0..Total /\ 1..pub \subseteq Msgs
    BY MessagesAssumption DEF DeliveryInv, OrderTyped, GoodTask, TaskState, ConfirmInv, Msgs
  <2>4. m \in 1..pub \ Hidden /\ ConvOf[m] = task[t].c /\ SeqOf[m] >= task[t].exp /\ m \notin handed
    BY <2>3 DEF Hole
  <2>5. SeqOf[m] # NoSeq /\ m \in Msgs
    BY <2>1, <2>3, <2>4, MessagesAssumption DEF NoSeq
  <2>6. m \in Seqd(task[t].c)
    BY <2>4, <2>5 DEF Seqd
  <2>7. SeqOf[m] \in Nat /\ GapFillLimit \in Nat /\ Total \in Nat
    BY <2>5, MessagesAssumption, OptionsAssumption
  <2>8. SeqOf[m] >= task[t].from
    BY <2>1, <2>3, <2>4, <2>6, <2>7 DEF HadBefore
  <2>9. m \in rows
    BY <2>3, <2>4, <2>5, <2>8 DEF Visible, Msgs
  <2>10. m \notin HistoryPage(task[t].c, task[t].from, task[t].read)
    BY <2>1, <2>2, <2>4 DEF HasAll
  <2>11. ~(Before(rows, m) < GapFillLimit)
    BY <2>9, <2>10 DEF HistoryPage
  <2>12. Before(rows, m) \in Nat
    <3>1. {n \in rows : n < m} \subseteq 1..task[t].read
      BY DEF Visible
    <3>2. IsFiniteSet(1..task[t].read)
      <4>1. \A n \in Int : IsFiniteSet(1..n)
        BY FS_Interval
      <4>2. task[t].read \in Int
        BY <2>3
      <4> QED  BY <4>1, <4>2
    <3> QED  BY <3>1, <3>2, FS_Subset, FS_CardinalityType DEF Before
  <2> QED  BY <2>7, <2>11, <2>12
<1> QED  BY <1>1, RecoverInvariant, SyncInvariant, DeliveryInvariant, PTL

=============================================================================
