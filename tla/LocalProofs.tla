----------------------------- MODULE LocalProofs -----------------------------
(***************************************************************************)
(* The parts that need no other: the delays and notices of Backoff, for    *)
(* every choice of its intervals and thresholds and however often a        *)
(* connection comes and goes; a walk of Pagination over a list of any      *)
(* length that changes between its pages; what the LRU set of the dedup    *)
(* cache holds after any sequence of uses; which exception an answer is    *)
(* raised as; what the reply gate reads out of an answer of any length;    *)
(* and what of a signature header of any length is verified.               *)
(***************************************************************************)
EXTENDS MCLocal, SharedLemmas

----------------------------------------------------------------------------
(* Backoff *)

\* The doublings of an interval only grow.
LEMMA PowersGrow ==
    ASSUME NEW i \in 0 .. 20, NEW j \in 0 .. 20, i <= j
    PROVE  2^i \in Nat /\ 2^i <= 2^j
<1>0. \A k : k = 0 => 2^k = 1  OBVIOUS
<1>1. \A k : k = 1 => 2^k = 2  OBVIOUS
<1>2. \A k : k = 2 => 2^k = 4  OBVIOUS
<1>3. \A k : k = 3 => 2^k = 8  OBVIOUS
<1>4. \A k : k = 4 => 2^k = 16  OBVIOUS
<1>5. \A k : k = 5 => 2^k = 32  OBVIOUS
<1>6. \A k : k = 6 => 2^k = 64  OBVIOUS
<1>7. \A k : k = 7 => 2^k = 128  OBVIOUS
<1>8. \A k : k = 8 => 2^k = 256  OBVIOUS
<1>9. \A k : k = 9 => 2^k = 512  OBVIOUS
<1>10. \A k : k = 10 => 2^k = 1024  OBVIOUS
<1>11. \A k : k = 11 => 2^k = 2048  OBVIOUS
<1>12. \A k : k = 12 => 2^k = 4096  OBVIOUS
<1>13. \A k : k = 13 => 2^k = 8192  OBVIOUS
<1>14. \A k : k = 14 => 2^k = 16384  OBVIOUS
<1>15. \A k : k = 15 => 2^k = 32768  OBVIOUS
<1>16. \A k : k = 16 => 2^k = 65536  OBVIOUS
<1>17. \A k : k = 17 => 2^k = 131072  OBVIOUS
<1>18. \A k : k = 18 => 2^k = 262144  OBVIOUS
<1>19. \A k : k = 19 => 2^k = 524288  OBVIOUS
<1>20. \A k : k = 20 => 2^k = 1048576  OBVIOUS
<1> QED  BY <1>0, <1>1, <1>2, <1>3, <1>4, <1>5, <1>6, <1>7, <1>8, <1>9, <1>10,
            <1>11, <1>12, <1>13, <1>14, <1>15, <1>16, <1>17, <1>18, <1>19, <1>20

LEMMA LeastOfTwo ==
    ASSUME NEW m \in Nat, NEW n \in Nat
    PROVE  Min({m, n}) = IF m <= n THEN m ELSE n
BY DEF Min

LEMMA GreatestOfTwo ==
    ASSUME NEW m \in Nat, NEW n \in Nat
    PROVE  Max({m, n}) = IF m <= n THEN n ELSE m
BY DEF Max

\* The cap of the delay before the given attempt
Cap(attempt) == IF attempt > LongAfter THEN Max({MaxInterval, LongInterval}) ELSE MaxInterval

LEMMA CapIsWide ==
    ASSUME NEW attempt \in Nat
    PROVE  Cap(attempt) \in Nat /\ MaxInterval <= Cap(attempt)
BY BackoffAssumption, GreatestOfTwo DEF Cap

\* The delay after f failures, when at least f attempts were counted, is long
\* enough for f failures and not above the cap.
LEMMA DelaysGrow ==
    ASSUME NEW attempt \in Nat, NEW f \in 1 .. attempt, NEW d \in ReconnectDelays(attempt)
    PROVE  /\ d \in Nat /\ d <= Cap(attempt)
           /\ 4 * (d + 1) > 3 * Min({Interval * 2^Min({f - 1, 20}), MaxInterval})
<1> DEFINE i == Min({f - 1, 20})
           j == Min({attempt - 1, 20})
           ms == Min({Interval * 2^j, Cap(attempt)})
<1>1. i \in 0 .. 20 /\ j \in 0 .. 20 /\ i <= j
  BY LeastOfTwo
<1> HIDE DEF i, j
<1>2. 2^i \in Nat /\ 2^j \in Nat /\ 2^i <= 2^j
  <2>1. \A k, n \in 0 .. 20 : k <= n => 2^k \in Nat /\ 2^k <= 2^n
    BY PowersGrow
  <2>2. j <= j
    BY <1>1
  <2>3. 2^i \in Nat /\ 2^i <= 2^j
    BY <1>1, <2>1, Zenon
  <2>4. 2^j \in Nat
    BY <1>1, <2>1, <2>2, Zenon
  <2> QED  BY <2>3, <2>4
<1> DEFINE p == 2^i
           q == 2^j
<1> HIDE DEF p, q
<1>3. Interval * p \in Nat /\ Interval * q \in Nat /\ Interval * p <= Interval * q
  <2>1. p \in Nat /\ q \in Nat /\ p <= q
    BY <1>2 DEF p, q
  <2> QED  BY <2>1, BackoffAssumption
<1>4. Interval * 2^i \in Nat /\ Interval * 2^j \in Nat /\ Interval * 2^i <= Interval * 2^j
  BY <1>3 DEF p, q
<1>5. ms \in Nat /\ ms <= Cap(attempt) /\ Min({Interval * 2^i, MaxInterval}) <= ms
      /\ Min({Interval * 2^i, MaxInterval}) \in Nat
  BY SMTT(30), <1>4, CapIsWide, LeastOfTwo, BackoffAssumption
<1>6. d \in 0 .. ms /\ 4 * (d + 1) > 3 * ms
  BY DEF ReconnectDelays, Cap, j
<1> HIDE DEF ms
<1>7. 4 * (d + 1) > 3 * Min({Interval * 2^i, MaxInterval})
  BY <1>5, <1>6
<1> QED  BY <1>5, <1>6, <1>7, CapIsWide DEF i

\* The counters against the history: the code counts at least what happened, and
\* a notice was given exactly when its counter has passed its threshold.
Counted(l, s) ==
    /\ s.failures <= l.attempts
    /\ s.flaps <= l.rapid
    /\ s.outages = IF l.announced THEN 1 ELSE 0
    /\ l.attempts > LongAfter => l.announced
    /\ s.warnings = IF l.rapid >= WarnAt THEN 1 ELSE 0

Fields(l, s) ==
    /\ l = [pc |-> l.pc, timer |-> l.timer, attempts |-> l.attempts, rapid |-> l.rapid,
            announced |-> l.announced, delay |-> l.delay]
    /\ s = [failures |-> s.failures, flaps |-> s.flaps, outages |-> s.outages,
            warnings |-> s.warnings]
    /\ l.attempts \in Nat /\ l.rapid \in Nat /\ l.announced \in BOOLEAN /\ l.timer \in BOOLEAN
    /\ s.failures \in Nat /\ s.flaps \in Nat /\ s.outages \in Nat /\ s.warnings \in Nat

\* While the stability timer runs, no backoff does, so it cannot clear the
\* counter under one.
BackoffInv ==
    /\ Fields(link, story) /\ Counted(link, story)
    /\ age \in Nat
    /\ link.timer => link.pc \in {"ready", "failing"}
    /\ link.pc = "backoff" =>
         /\ link.delay \in ReconnectDelays(link.attempts)
         /\ story.failures \in 1 .. link.attempts

USE BackoffAssumption

\* A backoff that starts from counters in order leaves them in order.
LEMMA ScheduleKeeps ==
    ASSUME NEW l, NEW s, Fields(l, s), Counted(l, s), ~l.timer, ScheduleReconnect(l, s),
           age' \in Nat
    PROVE  BackoffInv'
<1> DEFINE attempt == l.attempts + 1
           long == Announces(attempt, l.announced)
<1>1. PICK d \in ReconnectDelays(attempt) :
          link' = [l EXCEPT !.pc = "backoff", !.attempts = attempt, !.delay = d,
                            !.announced = @ \/ long]
  BY DEF ScheduleReconnect
<1>2. /\ link' = [pc |-> "backoff", timer |-> FALSE, attempts |-> attempt, rapid |-> l.rapid,
                  announced |-> (l.announced \/ long), delay |-> d]
  BY <1>1 DEF Fields
<1>3. story' = [failures |-> s.failures + 1, flaps |-> s.flaps,
                outages |-> s.outages + IF long THEN 1 ELSE 0, warnings |-> s.warnings]
  BY DEF ScheduleReconnect, Fields
<1>4. long \in BOOLEAN /\ (long <=> attempt > LongAfter /\ ~l.announced)
  BY DEF Announces
<1> HIDE DEF long
<1>5. Fields(link', story') /\ Counted(link', story')
  BY <1>2, <1>3, <1>4 DEF Fields, Counted
<1>6. /\ link'.pc = "backoff" /\ ~link'.timer /\ link'.delay \in ReconnectDelays(link'.attempts)
      /\ story'.failures \in 1 .. link'.attempts
  BY <1>2, <1>3 DEF Fields, Counted
<1> QED  BY <1>5, <1>6 DEF BackoffInv

\* What the end of a connection makes of the counters is in order.
LEMMA NotedKeeps ==
    ASSUME BackoffInv
    PROVE  /\ Fields(Noted.link, Noted.story) /\ Counted(Noted.link, Noted.story)
<1>0. Fields(link, story) /\ Counted(link, story) /\ age \in Nat
  BY DEF BackoffInv
<1>1. CASE age >= Rapid
  <2>1. /\ Noted.link = [link EXCEPT !.rapid = 0]
        /\ Noted.story = [story EXCEPT !.flaps = 0, !.warnings = 0]
    BY <1>1 DEF Noted
  <2>2. Noted.link = [pc |-> link.pc, timer |-> link.timer, attempts |-> link.attempts,
                      rapid |-> 0, announced |-> link.announced, delay |-> link.delay]
    BY <1>0, <2>1 DEF Fields
  <2>3. Noted.story = [failures |-> story.failures, flaps |-> 0, outages |-> story.outages,
                       warnings |-> 0]
    BY <1>0, <2>1 DEF Fields
  <2> QED  BY <1>0, <2>2, <2>3 DEF Fields, Counted
<1>2. CASE ~(age >= Rapid)
  <2> DEFINE n == IF Warns(link.rapid + 1) THEN 1 ELSE 0
  <2>1. /\ Noted.link = [link EXCEPT !.rapid = @ + 1]
        /\ Noted.story = [story EXCEPT !.flaps = IF age < Stable THEN @ + 1 ELSE 0,
                                       !.warnings = @ + n]
    BY <1>2 DEF Noted
  <2>2. n = IF link.rapid + 1 = WarnAt THEN 1 ELSE 0
    BY DEF Warns
  <2> HIDE DEF n
  <2>3. Noted.link = [pc |-> link.pc, timer |-> link.timer, attempts |-> link.attempts,
                      rapid |-> link.rapid + 1, announced |-> link.announced,
                      delay |-> link.delay]
    BY <1>0, <2>1 DEF Fields
  <2>4. Noted.story = [failures |-> story.failures,
                       flaps |-> IF age < Stable THEN story.flaps + 1 ELSE 0,
                       outages |-> story.outages, warnings |-> story.warnings + n]
    BY <1>0, <2>1 DEF Fields
  <2> QED  BY <1>0, <2>2, <2>3, <2>4 DEF Fields, Counted
<1> QED  BY <1>1, <1>2

LEMMA EndedKeeps ==
    ASSUME BackoffInv, Ended
    PROVE  BackoffInv'
<1>1. PICK l : l = [Noted.link EXCEPT !.timer = FALSE]
  OBVIOUS
<1>2. PICK s : s = IF age >= Stable THEN [Noted.story EXCEPT !.failures = 0] ELSE Noted.story
  OBVIOUS
<1>3. ScheduleReconnect(l, s) /\ age' = 0
  BY <1>1, <1>2 DEF Ended
<1>4. PICK n, t : n = Noted.link /\ t = Noted.story
  OBVIOUS
<1>5. Fields(n, t) /\ Counted(n, t)
  BY <1>4, NotedKeeps
<1>6. l = [pc |-> n.pc, timer |-> FALSE, attempts |-> n.attempts, rapid |-> n.rapid,
           announced |-> n.announced, delay |-> n.delay]
  BY <1>1, <1>4, <1>5 DEF Fields
<1>7. s = [failures |-> IF age >= Stable THEN 0 ELSE t.failures, flaps |-> t.flaps,
           outages |-> t.outages, warnings |-> t.warnings]
  BY <1>2, <1>4, <1>5 DEF Fields
<1>8. Fields(l, s) /\ Counted(l, s) /\ ~l.timer
  BY <1>5, <1>6, <1>7 DEF Fields, Counted
<1> QED  BY <1>3, <1>8, ScheduleKeeps

LEMMA BackoffStep ==
    ASSUME BackoffInv, BackoffNext
    PROVE  BackoffInv'
<1> USE DEF BackoffInv
<1>1. CASE Reconnects
  BY <1>1 DEF Reconnects, Fields, Counted
<1>2. CASE CannotConnect
  BY <1>2, ScheduleKeeps DEF CannotConnect
<1>3. CASE Connects
  BY <1>3 DEF Connects, Fields, Counted
<1>4. CASE Handshaken
  <2>1. link' = [pc |-> "ready", timer |-> TRUE, attempts |-> link.attempts,
                 rapid |-> link.rapid, announced |-> link.announced, delay |-> link.delay]
    BY <1>4 DEF Handshaken, StabilityStarts, Fields
  <2>2. UNCHANGED story /\ age' = 0
    BY <1>4 DEF Handshaken
  <2>3. Fields(link', story')
    BY <2>1, <2>2 DEF Fields
  <2>4. Counted(link', story') /\ link'.pc = "ready"
    BY <2>1, <2>2 DEF Counted
  <2> QED  BY <2>2, <2>3, <2>4
<1>5. CASE Rejected
  <2>1. PICK d \in RetryDelays : link' = [link EXCEPT !.pc = "blocked", !.delay = d]
    BY <1>5 DEF Rejected
  <2>2. link' = [pc |-> "blocked", timer |-> link.timer, attempts |-> link.attempts,
                 rapid |-> link.rapid, announced |-> link.announced, delay |-> d]
    BY <2>1 DEF Fields
  <2> QED  BY <1>5, <2>2 DEF Rejected, Fields, Counted
<1>6. CASE Unanswered
  BY <1>6, ScheduleKeeps DEF Unanswered
<1>7. CASE MarkStable
  <2>1. link' = [pc |-> link.pc, timer |-> FALSE, attempts |-> 0, rapid |-> 0,
                 announced |-> FALSE, delay |-> link.delay]
    BY <1>7 DEF MarkStable, Fields
  <2>2. link.pc # "backoff"
    BY <1>7 DEF MarkStable
  <2>3. story' = [failures |-> 0, flaps |-> 0, outages |-> 0, warnings |-> 0] /\ age' = age
    BY <1>7 DEF MarkStable
  <2>4. Fields(link', story')
    BY <2>1, <2>3 DEF Fields
  <2>5. Counted(link', story') /\ link'.pc # "backoff" /\ ~link'.timer
    BY <2>1, <2>2, <2>3 DEF Counted
  <2> QED  BY <2>3, <2>4, <2>5
<1>8. CASE SocketBreaks
  BY <1>8 DEF SocketBreaks, Fields, Counted
<1>9. CASE Ended
  BY <1>9, EndedKeeps
<1>10. CASE TimePasses
  BY <1>10 DEF TimePasses, Fields, Counted
<1> QED  BY <1>1, <1>2, <1>3, <1>4, <1>5, <1>6, <1>7, <1>8, <1>9, <1>10 DEF BackoffNext

LEMMA BackoffInvariant == BackoffSpec => []BackoffInv
<1>1. BackoffInit => BackoffInv
  BY DEF BackoffInit, BackoffInv, Fields, Counted
<1>2. BackoffInv /\ [BackoffNext]_backoffVars => BackoffInv'
  <2>1. BackoffInv /\ UNCHANGED backoffVars => BackoffInv'
    BY DEF backoffVars, BackoffInv
  <2> QED  BY <2>1, BackoffStep
<1> QED  BY <1>1, <1>2, PTL DEF BackoffSpec

\* Only a connection that stayed up for Stable puts the delay back to its floor,
\* and no delay is above its cap (_realtime.py 748-756, 1358-1366), whatever the
\* intervals, and however many backoffs follow each other.
THEOREM DelaysGrowToTheCap == BackoffSpec => []YoungDeathsSlowDown
<1>1. BackoffInv => YoungDeathsSlowDown
  <2> SUFFICES ASSUME BackoffInv, link.pc = "backoff"
               PROVE  /\ 4 * (link.delay + 1)
                           > 3 * Min({Interval * 2^Min({story.failures - 1, 20}), MaxInterval})
                      /\ link.delay <= Cap(link.attempts)
    BY DEF YoungDeathsSlowDown, Cap
  <2>1. /\ link.attempts \in Nat /\ story.failures \in 1 .. link.attempts
        /\ link.delay \in ReconnectDelays(link.attempts)
    BY DEF BackoffInv, Fields
  <2> QED  BY <2>1, DelaysGrow
<1> QED  BY <1>1, BackoffInvariant, PTL

\* The operator is told of a long outage and of a flapping connection, and once
\* each until a connection is stable again (_realtime.py 595, 784-809, 1275-1285).
THEOREM NoticesAreGivenOnce == BackoffSpec => []OperatorIsToldOnce
<1>1. BackoffInv => OperatorIsToldOnce
  BY DEF BackoffInv, Fields, Counted, OperatorIsToldOnce
<1> QED  BY <1>1, BackoffInvariant, PTL

----------------------------------------------------------------------------
(* Pagination *)

\* A piece of a sequence, which may reach past its end
LEMMA Piece ==
    ASSUME NEW S, NEW s \in Seq(S), NEW m \in Nat, NEW n \in Nat, n <= Len(s)
    PROVE  /\ SubSeq(s, m + 1, n) \in Seq(S)
           /\ Len(SubSeq(s, m + 1, n)) = IF m < n THEN n - m ELSE 0
           /\ \A i \in 1 .. (n - m) : SubSeq(s, m + 1, n)[i] = s[m + i]
OBVIOUS

LEMMA InsertAtProperties ==
    ASSUME NEW S, NEW s \in Seq(S), NEW at \in 1 .. Len(s) + 1, NEW e \in S
    PROVE  /\ InsertAt(s, at, e) \in Seq(S)
           /\ Len(InsertAt(s, at, e)) = Len(s) + 1
           /\ \A i \in 1 .. Len(s) + 1 :
                InsertAt(s, at, e)[i] = IF i < at THEN s[i] ELSE IF i = at THEN e ELSE s[i - 1]
<1> DEFINE a == SubSeq(s, 1, at - 1)
           b == SubSeq(s, at, Len(s))
           ae == a \o <<e>>
<1>0. Len(s) \in Nat
  OBVIOUS
<1>1. /\ a \in Seq(S) /\ Len(a) = at - 1
      /\ \A i \in 1 .. at - 1 : a[i] = s[i]
  OBVIOUS
<1>2. /\ b \in Seq(S) /\ Len(b) = Len(s) - at + 1
      /\ \A i \in 1 .. Len(s) - at + 1 : b[i] = s[at + i - 1]
  OBVIOUS
<1> HIDE DEF a, b
<1>3. /\ ae \in Seq(S) /\ Len(ae) = at
      /\ \A i \in 1 .. at : ae[i] = IF i < at THEN a[i] ELSE e
  BY <1>0, <1>1
<1>4. InsertAt(s, at, e) = ae \o b
  BY DEF InsertAt, a, b
<1> HIDE DEF ae
<1>5. /\ ae \o b \in Seq(S) /\ Len(ae \o b) = Len(s) + 1
      /\ \A i \in 1 .. Len(s) + 1 : (ae \o b)[i] = IF i <= at THEN ae[i] ELSE b[i - at]
  <2>1. /\ ae \o b \in Seq(S) /\ Len(ae \o b) = Len(ae) + Len(b)
        /\ \A i \in 1 .. Len(ae) + Len(b) :
             (ae \o b)[i] = IF i <= Len(ae) THEN ae[i] ELSE b[i - Len(ae)]
    BY <1>2, <1>3, ConcatProperties
  <2>2. Len(ae) = at /\ Len(ae) + Len(b) = Len(s) + 1
    BY <1>0, <1>2, <1>3
  <2> QED  BY <2>1, <2>2
<1>6. ASSUME NEW i \in 1 .. Len(s) + 1
      PROVE  (ae \o b)[i] = IF i < at THEN s[i] ELSE IF i = at THEN e ELSE s[i - 1]
  <2>1. CASE i <= at
    BY <1>0, <1>1, <1>3, <1>5, <2>1
  <2>2. CASE ~(i <= at)
    <3>1. i - at \in 1 .. Len(s) - at + 1 /\ at + (i - at) - 1 = i - 1
      BY <1>0, <2>2
    <3>2. (ae \o b)[i] = b[i - at]
      BY <1>5, <2>2
    <3>3. b[i - at] = s[at + (i - at) - 1]
      BY <1>2, <3>1
    <3> QED  BY <2>2, <3>1, <3>2, <3>3
  <2> QED  BY <2>1, <2>2
<1> QED  BY <1>4, <1>5, <1>6

LEMMA RemoveAtProperties ==
    ASSUME NEW S, NEW s \in Seq(S), NEW at \in 1 .. Len(s)
    PROVE  /\ RemoveAt(s, at) \in Seq(S)
           /\ Len(RemoveAt(s, at)) = Len(s) - 1
           /\ \A i \in 1 .. Len(s) - 1 :
                RemoveAt(s, at)[i] = IF i < at THEN s[i] ELSE s[i + 1]
<1> DEFINE a == SubSeq(s, 1, at - 1)
           b == SubSeq(s, at + 1, Len(s))
<1>0. Len(s) \in Nat
  OBVIOUS
<1>1. /\ a \in Seq(S) /\ Len(a) = at - 1
      /\ \A i \in 1 .. at - 1 : a[i] = s[i]
  OBVIOUS
<1>2. /\ b \in Seq(S) /\ Len(b) = Len(s) - at
      /\ \A i \in 1 .. Len(s) - at : b[i] = s[at + i]
  OBVIOUS
<1>3. RemoveAt(s, at) = a \o b
  BY DEF RemoveAt
<1> HIDE DEF a, b
<1>4. /\ a \o b \in Seq(S) /\ Len(a \o b) = Len(s) - 1
      /\ \A i \in 1 .. Len(s) - 1 : (a \o b)[i] = IF i <= at - 1 THEN a[i] ELSE b[i - (at - 1)]
  <2>1. /\ a \o b \in Seq(S) /\ Len(a \o b) = Len(a) + Len(b)
        /\ \A i \in 1 .. Len(a) + Len(b) :
             (a \o b)[i] = IF i <= Len(a) THEN a[i] ELSE b[i - Len(a)]
    BY <1>1, <1>2, ConcatProperties
  <2>2. Len(a) = at - 1 /\ Len(a) + Len(b) = Len(s) - 1
    BY <1>0, <1>1, <1>2
  <2> QED  BY <2>1, <2>2
<1> QED  BY <1>0, <1>1, <1>2, <1>3, <1>4

Held(s) == {s[i] : i \in 1 .. Len(s)}

LEMMA DistinctIsInjective ==
    ASSUME NEW S, NEW s \in Seq(S)
    PROVE  /\ IsInjective(s) <=> Distinct(s)
           /\ Range(s) = Held(s)
BY DEF IsInjective, Distinct, Range, Held

USE PaginationAssumption

\* A list is any sequence of distinct items.
LEMMA ListsAre == Lists = {s \in Seq(Items) : Distinct(s)}
<1>1. ASSUME NEW s \in Lists  PROVE s \in Seq(Items) /\ Distinct(s)
  <2>1. PICK n \in 0 .. Cardinality(Items) : s \in [1 .. n -> Items] /\ IsInjective(s)
    BY DEF Lists
  <2>2. n \in Nat
    BY FS_CardinalityType
  <2>3. s \in Seq(Items)
    BY <2>1, <2>2
  <2> QED  BY <2>1, <2>3, DistinctIsInjective
<1>2. ASSUME NEW s \in Seq(Items), Distinct(s)  PROVE s \in Lists
  <2>1. Len(s) \in Nat /\ s \in [1 .. Len(s) -> Items] /\ IsInjective(s)
    BY <1>2, DistinctIsInjective
  <2>2. Len(s) <= Cardinality(Items) /\ Cardinality(Items) \in Nat
    BY <1>2, DistinctIsShort, FS_CardinalityType
  <2> QED  BY <2>1, <2>2 DEF Lists
<1> QED  BY <1>1, <1>2

\* The page the server gives: the items behind the offset, as many as it gives
LEMMA PageIs ==
    ASSUME NEW offset \in Nat, list \in Seq(Items)
    PROVE  LET n == Smaller(PageSize, ServerMax)
               page == Page(offset, PageSize)
           IN  /\ page \in Seq(Items) /\ n \in Nat \ {0} /\ Len(page) <= n
               /\ \A i \in 1 .. Len(page) : /\ offset + i \in 1 .. Len(list)
                                            /\ page[i] = list[offset + i]
               /\ page = <<>> => Len(list) <= offset
<1> DEFINE n == Smaller(PageSize, ServerMax)
           m == Smaller(Len(list), offset + n)
<1>1. n \in Nat \ {0} /\ Len(list) \in Nat
  BY DEF Smaller
<1>2. m \in Nat /\ m <= Len(list) /\ m <= offset + n /\ (m = Len(list) \/ m = offset + n)
  BY <1>1 DEF Smaller
<1>3. Page(offset, PageSize) = SubSeq(list, offset + 1, m)
  BY DEF Page
<1> HIDE DEF m, n
<1>4. /\ SubSeq(list, offset + 1, m) \in Seq(Items)
      /\ Len(SubSeq(list, offset + 1, m)) = IF offset < m THEN m - offset ELSE 0
      /\ \A i \in 1 .. (m - offset) : SubSeq(list, offset + 1, m)[i] = list[offset + i]
  BY <1>2, Piece
<1>5. PICK page : page = Page(offset, PageSize)
  OBVIOUS
<1>6. /\ page \in Seq(Items) /\ Len(page) = IF offset < m THEN m - offset ELSE 0
      /\ \A i \in 1 .. (m - offset) : page[i] = list[offset + i]
  BY <1>3, <1>4, <1>5
<1>7. Len(page) <= n /\ (page = <<>> => Len(list) <= offset)
  BY <1>1, <1>2, <1>6
<1>8. ASSUME NEW i \in 1 .. Len(page)
      PROVE  offset + i \in 1 .. Len(list) /\ page[i] = list[offset + i]
  BY SMTT(30), <1>1, <1>2, <1>6
<1> QED  BY <1>1, <1>5, <1>6, <1>7, <1>8 DEF n

\* The items of a list behind an offset
AheadOf(s, b) == {s[p] : p \in {q \in 1 .. Len(s) : q > b}}

\* An insertion keeps the items distinct, and none leaves the part ahead.
LEMMA InsertionKeeps ==
    ASSUME NEW S, NEW s \in Seq(S), NEW at \in 1 .. Len(s) + 1, NEW e \in S \ Held(s),
           NEW b \in Nat, Distinct(s)
    PROVE  /\ Distinct(InsertAt(s, at, e))
           /\ AheadOf(s, b) \subseteq AheadOf(InsertAt(s, at, e), b)
<1> DEFINE t == InsertAt(s, at, e)
<1>1. /\ t \in Seq(S) /\ Len(t) = Len(s) + 1 /\ Len(s) \in Nat
      /\ \A i \in 1 .. Len(s) + 1 : t[i] = IF i < at THEN s[i] ELSE IF i = at THEN e ELSE s[i - 1]
  BY InsertAtProperties
<1> HIDE DEF t
<1>2. ASSUME NEW i \in 1 .. Len(t), NEW j \in 1 .. Len(t), t[i] = t[j]  PROVE i = j
  <2> DEFINE Old(k) == IF k < at THEN k ELSE k - 1
  <2>1. \A k \in 1 .. Len(t) : k = at \/ (Old(k) \in 1 .. Len(s) /\ t[k] = s[Old(k)])
    BY <1>1
  <2>2. \A k \in 1 .. Len(s) : s[k] # e
    BY DEF Held
  <2>3. t[at] = e
    BY <1>1
  <2>4. \A k, m \in 1 .. Len(t) : k # at /\ m # at /\ Old(k) = Old(m) => k = m
    BY <1>1
  <2> HIDE DEF Old
  <2> QED  BY <1>2, <2>1, <2>2, <2>3, <2>4 DEF Distinct
<1>3. ASSUME NEW p \in 1 .. Len(s), p > b  PROVE s[p] \in AheadOf(t, b)
  <2>1. \E q \in 1 .. Len(t) : q > b /\ t[q] = s[p]
    <3>1. CASE p < at
      BY <1>1, <1>3, <3>1
    <3>2. CASE p >= at
      <4>1. t[p + 1] = s[p] /\ p + 1 \in 1 .. Len(t) /\ p + 1 > b
        BY <1>1, <1>3, <3>2
      <4> QED  BY <4>1
    <3> QED  BY <3>1, <3>2
  <2> QED  BY <2>1 DEF AheadOf
<1> QED  BY <1>2, <1>3 DEF Distinct, AheadOf, t

\* A deletion keeps the items distinct, and none enters the part ahead.
LEMMA DeletionKeeps ==
    ASSUME NEW S, NEW s \in Seq(S), NEW at \in 1 .. Len(s), NEW b \in Nat, Distinct(s)
    PROVE  /\ Distinct(RemoveAt(s, at))
           /\ AheadOf(RemoveAt(s, at), b) \subseteq AheadOf(s, b)
<1> DEFINE t == RemoveAt(s, at)
<1>1. /\ t \in Seq(S) /\ Len(t) = Len(s) - 1 /\ Len(s) \in Nat
      /\ \A i \in 1 .. Len(s) - 1 : t[i] = IF i < at THEN s[i] ELSE s[i + 1]
  BY RemoveAtProperties
<1> HIDE DEF t
<1> DEFINE Old(k) == IF k < at THEN k ELSE k + 1
<1>2. /\ \A k \in 1 .. Len(t) : Old(k) \in 1 .. Len(s) /\ Old(k) >= k /\ t[k] = s[Old(k)]
      /\ \A k, m \in 1 .. Len(t) : Old(k) = Old(m) => k = m
  BY <1>1
<1> HIDE DEF Old
<1>3. ASSUME NEW i \in 1 .. Len(t), NEW j \in 1 .. Len(t), t[i] = t[j]  PROVE i = j
  BY <1>2, <1>3 DEF Distinct
<1>4. ASSUME NEW p \in 1 .. Len(t), p > b  PROVE t[p] \in AheadOf(s, b)
  <2>1. Old(p) \in 1 .. Len(s) /\ Old(p) > b /\ t[p] = s[Old(p)]
    BY <1>1, <1>2, <1>4
  <2> QED  BY <2>1 DEF AheadOf
<1> QED  BY <1>3, <1>4 DEF Distinct, AheadOf, t

\* A page is what was first ahead, and nothing of it is ahead any more.
LEMMA PageLeaves ==
    ASSUME NEW S, NEW s \in Seq(S), Distinct(s), NEW offset \in Nat, NEW page \in Seq(S),
           \A i \in 1 .. Len(page) : offset + i \in 1 .. Len(s) /\ page[i] = s[offset + i]
    PROVE  /\ Distinct(page)
           /\ AheadOf(s, offset) = Held(page) \cup AheadOf(s, offset + Len(page))
           /\ Held(page) \cap AheadOf(s, offset + Len(page)) = {}
<1>0. Len(s) \in Nat /\ Len(page) \in Nat
  OBVIOUS
<1>1. Distinct(page)
  <2> SUFFICES ASSUME NEW i \in 1 .. Len(page), NEW j \in 1 .. Len(page), page[i] = page[j]
               PROVE  i = j
    BY DEF Distinct
  <2>1. s[offset + i] = s[offset + j] /\ offset + i \in 1 .. Len(s) /\ offset + j \in 1 .. Len(s)
    OBVIOUS
  <2>2. offset + i = offset + j
    BY <2>1 DEF Distinct
  <2> QED  BY <2>2
<1>2. ASSUME NEW p \in 1 .. Len(s), p > offset
      PROVE  s[p] \in Held(page) \cup AheadOf(s, offset + Len(page))
  <2>1. CASE p > offset + Len(page)
    BY <2>1 DEF AheadOf
  <2>2. CASE ~(p > offset + Len(page))
    <3>1. p - offset \in 1 .. Len(page) /\ offset + (p - offset) = p
      BY <1>0, <1>2, <2>2
    <3>2. page[p - offset] = s[p]
      BY <3>1
    <3> QED  BY <3>1, <3>2 DEF Held
  <2> QED  BY <2>1, <2>2
<1>3. ASSUME NEW i \in 1 .. Len(page)
      PROVE  page[i] \in AheadOf(s, offset) /\ page[i] \notin AheadOf(s, offset + Len(page))
  <2>1. offset + i \in 1 .. Len(s) /\ page[i] = s[offset + i]
        /\ offset + i > offset /\ offset + i <= offset + Len(page)
    BY <1>0
  <2>2. page[i] \in AheadOf(s, offset)
    BY <2>1 DEF AheadOf
  <2>3. ASSUME NEW q \in 1 .. Len(s), q > offset + Len(page)  PROVE s[q] # page[i]
    <3>1. q # offset + i
      BY <1>0, <2>1, <2>3
    <3> QED  BY <2>1, <3>1 DEF Distinct
  <2> QED  BY <2>2, <2>3 DEF AheadOf
<1>4. AheadOf(s, offset + Len(page)) \subseteq AheadOf(s, offset)
  BY <1>0 DEF AheadOf
<1>5. AheadOf(s, offset) \subseteq Held(page) \cup AheadOf(s, offset + Len(page))
  BY <1>2 DEF AheadOf
<1>6. \A e \in Held(page) : e \in AheadOf(s, offset) /\ e \notin AheadOf(s, offset + Len(page))
  BY <1>3 DEF Held
<1> QED  BY <1>1, <1>4, <1>5, <1>6

\* The first item behind which the walk has not looked
Behind(w) == IF w.pc = "yielding" THEN w.offset + w.got ELSE w.offset

Ahead == AheadOf(list, Behind(walk))
Taken == Held(yielded) \cup Held(walk.page)

WalkTypes ==
    /\ list \in Seq(Items) /\ Distinct(list)
    /\ start \in Starts /\ cap \in Caps
    /\ walk \in [pc : {"asking", "yielding", "done"}, offset : Nat, page : Seq(Items),
                 got : 0 .. Smaller(PageSize, ServerMax), total : Nat]
    /\ walk.pc = "asking" => walk.page = <<>>
    /\ yielded \in Seq(Items) /\ Len(yielded) <= cap
    /\ changes \in [inserted : Nat, deleted : Nat, uncounted : Nat]

\* While nothing is inserted, what is ahead was never taken.
TakenOnce ==
    changes.inserted = 0 =>
        /\ Distinct(yielded) /\ Distinct(walk.page)
        /\ Held(yielded) \cap Held(walk.page) = {}
        /\ walk.pc # "done" => Ahead \cap Taken = {}

\* While nothing is deleted, what was in range all the time is taken or ahead; a
\* page that reaches a full total leaves nothing of it ahead.
NoneMissed ==
    changes.deleted = 0 =>
        /\ walk.pc # "done" => since \subseteq Taken \cup Ahead
        /\ changes.uncounted = 0 =>
             /\ walk.pc = "yielding" /\ Behind(walk) >= walk.total => since \subseteq Taken
             /\ walk.pc = "done" => Len(yielded) >= cap \/ since \subseteq Held(yielded)

WalkInv == WalkTypes /\ TakenOnce /\ NoneMissed

LEMMA BehindType ==
    ASSUME WalkTypes
    PROVE  Behind(walk) \in Nat
<1>1. Smaller(PageSize, ServerMax) \in Nat
  BY DEF Smaller
<1>2. walk.offset \in Nat /\ walk.got \in Nat
  BY <1>1 DEF WalkTypes
<1> QED  BY <1>2 DEF Behind

LEMMA WalkBegins ==
    ASSUME Init
    PROVE  WalkInv
<1>1. list \in Seq(Items) /\ Distinct(list) /\ start \in Nat /\ Len(list) \in Nat
  BY ListsAre DEF Init
<1>2. /\ walk = [pc |-> "asking", offset |-> start, page |-> <<>>, got |-> 0, total |-> 0]
      /\ yielded = <<>> /\ Held(yielded) = {} /\ Held(walk.page) = {} /\ Taken = {}
      /\ changes = [inserted |-> 0, deleted |-> 0, uncounted |-> 0]
  BY DEF Init, Taken, Held
<1>3. Smaller(PageSize, ServerMax) \in Nat
  BY DEF Smaller
<1>4. WalkTypes
  BY <1>1, <1>2, <1>3 DEF Init, WalkTypes
<1>5. since \subseteq Ahead
  <2> DEFINE rest == SubSeq(list, start + 1, Len(list))
  <2>1. /\ rest \in Seq(Items) /\ Len(rest) = IF start < Len(list) THEN Len(list) - start ELSE 0
        /\ \A i \in 1 .. Len(list) - start : rest[i] = list[start + i]
    BY <1>1, Piece
  <2>2. since = Held(rest)
    BY <2>1, DistinctIsInjective DEF Init
  <2> HIDE DEF rest
  <2>3. ASSUME NEW i \in 1 .. Len(rest)  PROVE rest[i] \in AheadOf(list, start)
    <3>1. start + i \in 1 .. Len(list) /\ start + i > start /\ rest[i] = list[start + i]
      BY <1>1, <2>1
    <3> QED  BY <3>1 DEF AheadOf
  <2>4. Ahead = AheadOf(list, start)
    BY <1>2 DEF Ahead, Behind
  <2> QED  BY <2>2, <2>3, <2>4 DEF Held
<1>6. Distinct(yielded) /\ Distinct(walk.page)
  BY <1>2 DEF Distinct
<1> QED  BY <1>2, <1>4, <1>5, <1>6 DEF WalkInv, TakenOnce, NoneMissed

LEMMA WalkInserts ==
    ASSUME WalkInv, Inserts
    PROVE  WalkInv'
<1>1. PICK item \in Items \ Range(list), at \in 1 .. Len(list) + 1 : list' = InsertAt(list, at, item)
  BY DEF Inserts
<1>2. /\ list \in Seq(Items) /\ Distinct(list) /\ Range(list) = Held(list)
      /\ Behind(walk) \in Nat
  BY BehindType, DistinctIsInjective DEF WalkInv, WalkTypes
<1>3. Distinct(list') /\ AheadOf(list, Behind(walk)) \subseteq AheadOf(list', Behind(walk))
  BY <1>1, <1>2, InsertionKeeps
<1>4. list' \in Seq(Items)
  BY <1>1, <1>2, InsertAtProperties
<1>5. /\ UNCHANGED <<start, cap, walk, yielded, since>>
      /\ changes' = [changes EXCEPT !.inserted = @ + 1]
  BY DEF Inserts
<1>6. changes \in [inserted : Nat, deleted : Nat, uncounted : Nat]
  BY DEF WalkInv, WalkTypes
<1>7. /\ changes' \in [inserted : Nat, deleted : Nat, uncounted : Nat]
      /\ changes'.inserted # 0 /\ changes'.deleted = changes.deleted
      /\ changes'.uncounted = changes.uncounted
  <2>1. changes' = [inserted |-> changes.inserted + 1, deleted |-> changes.deleted,
                    uncounted |-> changes.uncounted]
    BY <1>5, <1>6
  <2> QED  BY <1>6, <2>1
<1>8. WalkTypes'
  BY <1>3, <1>4, <1>5, <1>7 DEF WalkInv, WalkTypes
<1>9. Ahead \subseteq Ahead' /\ Taken' = Taken /\ Behind(walk)' = Behind(walk)
  BY <1>3, <1>5 DEF Ahead, Taken, Behind
<1>10. NoneMissed'
  BY <1>5, <1>7, <1>9 DEF WalkInv, NoneMissed
<1> QED  BY <1>7, <1>8, <1>10 DEF WalkInv, TakenOnce

LEMMA WalkDeletes ==
    ASSUME WalkInv, Deletes
    PROVE  WalkInv'
<1>1. PICK at \in 1 .. Len(list) : list' = RemoveAt(list, at)
  BY DEF Deletes
<1>2. list \in Seq(Items) /\ Distinct(list) /\ Behind(walk) \in Nat
  BY BehindType DEF WalkInv, WalkTypes
<1>3. Distinct(list') /\ AheadOf(list', Behind(walk)) \subseteq AheadOf(list, Behind(walk))
  BY <1>1, <1>2, DeletionKeeps
<1>4. list' \in Seq(Items)
  BY <1>1, <1>2, RemoveAtProperties
<1>5. /\ UNCHANGED <<start, cap, walk, yielded>>
      /\ changes' = [changes EXCEPT !.deleted = @ + 1]
  BY DEF Deletes
<1>6. changes \in [inserted : Nat, deleted : Nat, uncounted : Nat]
  BY DEF WalkInv, WalkTypes
<1>7. /\ changes' \in [inserted : Nat, deleted : Nat, uncounted : Nat]
      /\ changes'.deleted # 0 /\ changes'.inserted = changes.inserted
  BY SMTT(30), <1>5, <1>6
<1>8. WalkTypes'
  BY <1>3, <1>4, <1>5, <1>7 DEF WalkInv, WalkTypes
<1>9. Ahead' \subseteq Ahead /\ Taken' = Taken
  BY <1>3, <1>5 DEF Ahead, Taken, Behind
<1>10. TakenOnce'
  BY <1>5, <1>7, <1>9 DEF WalkInv, TakenOnce
<1> QED  BY <1>7, <1>8, <1>10 DEF WalkInv, NoneMissed

\* What the walk's record is after a step
WalkRecord == [pc |-> walk.pc, offset |-> walk.offset, page |-> walk.page, got |-> walk.got,
               total |-> walk.total]

LEMMA WalkIsRecord ==
    ASSUME WalkTypes
    PROVE  /\ walk = WalkRecord
           /\ walk.pc \in {"asking", "yielding", "done"} /\ walk.offset \in Nat
           /\ walk.page \in Seq(Items) /\ walk.got \in 0 .. Smaller(PageSize, ServerMax)
           /\ walk.total \in Nat
BY DEF WalkTypes, WalkRecord

LEMMA WalkFetches ==
    ASSUME WalkInv, Fetches
    PROVE  WalkInv'
<1>1. PICK total \in Totals :
        /\ walk' = [walk EXCEPT !.pc = IF EndsEarly(Page(walk.offset, PageSize)) THEN "done"
                                       ELSE "yielding",
                                !.page = Page(walk.offset, PageSize),
                                !.got = Len(Page(walk.offset, PageSize)), !.total = total]
        /\ changes' = [changes EXCEPT !.uncounted = IF total < Len(list) THEN 1 ELSE @]
  BY DEF Fetches
<1>2. PICK page : page = Page(walk.offset, PageSize)
  OBVIOUS
<1>3. /\ walk.pc = "asking" /\ walk.page = <<>> /\ walk.offset \in Nat /\ list \in Seq(Items)
      /\ Distinct(list) /\ Len(list) \in Nat /\ yielded \in Seq(Items)
      /\ walk = WalkRecord
      /\ changes \in [inserted : Nat, deleted : Nat, uncounted : Nat]
      /\ UNCHANGED <<list, start, cap, yielded, since>>
  BY WalkIsRecord DEF Fetches, WalkInv, WalkTypes
<1>4. /\ page \in Seq(Items) /\ Len(page) \in 0 .. Smaller(PageSize, ServerMax)
      /\ \A i \in 1 .. Len(page) : /\ walk.offset + i \in 1 .. Len(list)
                                   /\ page[i] = list[walk.offset + i]
      /\ page = <<>> => Len(list) <= walk.offset
  <2>1. /\ page \in Seq(Items) /\ Smaller(PageSize, ServerMax) \in Nat \ {0}
        /\ Len(page) <= Smaller(PageSize, ServerMax)
        /\ \A i \in 1 .. Len(page) : /\ walk.offset + i \in 1 .. Len(list)
                                     /\ page[i] = list[walk.offset + i]
        /\ page = <<>> => Len(list) <= walk.offset
    BY <1>2, <1>3, PageIs
  <2>2. Len(page) \in Nat
    BY <2>1
  <2> QED  BY <2>1, <2>2
<1>5. /\ Distinct(page)
      /\ AheadOf(list, walk.offset) = Held(page) \cup AheadOf(list, walk.offset + Len(page))
      /\ Held(page) \cap AheadOf(list, walk.offset + Len(page)) = {}
  BY <1>3, <1>4, PageLeaves
<1>6. walk' = [pc |-> IF page = <<>> THEN "done" ELSE "yielding", offset |-> walk.offset,
               page |-> page, got |-> Len(page), total |-> total]
  BY <1>1, <1>2, <1>3 DEF WalkRecord, EndsEarly
<1>7. /\ changes'.inserted = changes.inserted /\ changes'.deleted = changes.deleted
      /\ changes'.uncounted = IF total < Len(list) THEN 1 ELSE changes.uncounted
      /\ changes' \in [inserted : Nat, deleted : Nat, uncounted : Nat]
  <2>1. changes' = [inserted |-> changes.inserted, deleted |-> changes.deleted,
                    uncounted |-> IF total < Len(list) THEN 1 ELSE changes.uncounted]
    BY <1>1, <1>3
  <2> QED  BY <1>3, <2>1
<1>8. total \in Nat
  BY SMTT(30), <1>1, <1>3 DEF Totals
<1>9. WalkTypes'
  BY <1>3, <1>4, <1>6, <1>7, <1>8 DEF WalkInv, WalkTypes
<1>10. /\ Held(walk.page) = {} /\ Taken = Held(yielded) /\ Taken' = Held(yielded) \cup Held(page)
       /\ Ahead = AheadOf(list, walk.offset) /\ Behind(walk') = walk.offset + Len(page)
       /\ Ahead' = AheadOf(list, walk.offset + Len(page))
  <2>1. Held(walk.page) = {} /\ Taken = Held(yielded) /\ Ahead = AheadOf(list, walk.offset)
    BY <1>3 DEF Taken, Held, Ahead, Behind
  <2>2. Taken' = Held(yielded) \cup Held(page)
    BY <1>3, <1>6 DEF Taken, Held
  <2>3. Behind(walk') = walk.offset + Len(page)
    <3>1. page = <<>> => Len(page) = 0
      OBVIOUS
    <3> QED  BY <1>3, <1>6, <3>1 DEF Behind
  <2> QED  BY <1>3, <2>1, <2>2, <2>3 DEF Ahead
<1>11. TakenOnce'
  <2>1. ASSUME changes.inserted = 0
        PROVE  /\ Distinct(yielded) /\ Held(yielded) \cap AheadOf(list, walk.offset) = {}
    BY <1>3, <1>10, <2>1 DEF WalkInv, TakenOnce
  <2>2. ASSUME changes.inserted = 0
        PROVE  /\ Held(yielded) \cap Held(page) = {}
               /\ AheadOf(list, walk.offset + Len(page)) \cap (Held(yielded) \cup Held(page)) = {}
    BY <1>5, <2>1, <2>2
  <2>3. yielded' = yielded /\ walk'.page = page /\ changes'.inserted = changes.inserted
    BY <1>3, <1>6, <1>7
  <2> QED  BY <1>5, <1>10, <2>1, <2>2, <2>3 DEF TakenOnce
<1>12. NoneMissed'
  <2>1. changes.deleted = 0 => since' \subseteq Held(yielded) \cup Held(page)
                                              \cup AheadOf(list, walk.offset + Len(page))
    BY <1>3, <1>5, <1>10 DEF WalkInv, NoneMissed
  <2>2. Len(list) <= walk.offset + Len(page) => AheadOf(list, walk.offset + Len(page)) = {}
    BY <1>3, <1>4 DEF AheadOf
  <2>3. ASSUME changes'.uncounted = 0, walk'.pc = "yielding", Behind(walk') >= walk'.total
        PROVE  Len(list) <= walk.offset + Len(page)
    <3>1. total >= Len(list)
      BY <1>3, <1>7, <1>8, <2>3
    <3>2. walk'.total = total
      BY <1>6
    <3> QED  BY <1>3, <1>4, <1>8, <1>10, <2>3, <3>1, <3>2
  <2>4. ASSUME walk'.pc = "done"
        PROVE  Held(page) = {} /\ Len(list) <= walk.offset + Len(page)
    <3>1. page = <<>> /\ Len(page) = 0
      BY <1>6, <2>4
    <3> QED  BY <1>3, <1>4, <3>1 DEF Held
  <2>5. yielded' = yielded
    BY <1>3
  <2> QED  BY <1>7, <1>10, <2>1, <2>2, <2>3, <2>4, <2>5 DEF NoneMissed
<1> QED  BY <1>9, <1>11, <1>12 DEF WalkInv

LEMMA WalkYields ==
    ASSUME WalkInv, Yields
    PROVE  WalkInv'
<1>1. /\ walk.pc = "yielding" /\ walk.page # <<>> /\ Len(yielded) < cap
      /\ yielded' = Append(yielded, Head(walk.page))
      /\ walk' = [walk EXCEPT !.page = Tail(@)]
      /\ UNCHANGED <<list, start, cap, since, changes>>
  BY DEF Yields, UnderCap
<1>2. /\ yielded \in Seq(Items) /\ Len(yielded) \in Nat /\ cap \in Nat
      /\ walk = WalkRecord /\ walk.page \in Seq(Items)
  BY WalkIsRecord DEF WalkInv, WalkTypes
<1>3. PICK page, item, rest : page = walk.page /\ item = Head(page) /\ rest = Tail(page)
  OBVIOUS
<1>4. /\ item \in Items /\ rest \in Seq(Items) /\ Len(page) \in Nat
      /\ Len(rest) = Len(page) - 1 /\ Len(page) > 0 /\ item = page[1]
      /\ \A i \in 1 .. Len(rest) : rest[i] = page[i + 1]
  <2>1. page \in Seq(Items) /\ page # <<>>
    BY <1>1, <1>2, <1>3
  <2>2. Head(page) = page[1] /\ Len(page) \in Nat /\ Len(page) > 0
    BY <2>1
  <2> QED  BY <1>3, <2>1, <2>2, HeadTailProperties
<1>5. walk' = [pc |-> "yielding", offset |-> walk.offset, page |-> rest, got |-> walk.got,
               total |-> walk.total]
  BY <1>1, <1>2, <1>3 DEF WalkRecord
<1>6. /\ yielded' \in Seq(Items) /\ Len(yielded') = Len(yielded) + 1
      /\ \A i \in 1 .. Len(yielded) + 1 :
           yielded'[i] = IF i <= Len(yielded) THEN yielded[i] ELSE item
  BY SMTT(30), <1>1, <1>2, <1>3, <1>4
<1>7. WalkTypes'
  <2>1. /\ list' \in Seq(Items) /\ Distinct(list') /\ start' \in Starts /\ cap' \in Caps
        /\ changes' \in [inserted : Nat, deleted : Nat, uncounted : Nat]
    BY <1>1 DEF WalkInv, WalkTypes
  <2>2. /\ walk' \in [pc : {"asking", "yielding", "done"}, offset : Nat, page : Seq(Items),
                      got : 0 .. Smaller(PageSize, ServerMax), total : Nat]
        /\ walk'.pc # "asking"
    BY <1>4, <1>5, WalkIsRecord DEF WalkInv
  <2>3. Len(yielded') <= cap'
    BY <1>1, <1>2, <1>6
  <2> QED  BY <1>6, <2>1, <2>2, <2>3 DEF WalkTypes
<1>8. Held(yielded') = Held(yielded) \cup {item} /\ Held(page) = Held(rest) \cup {item}
  <2>1. ASSUME NEW i \in 1 .. Len(page)  PROVE page[i] \in Held(rest) \cup {item}
    <3>1. CASE i = 1
      BY <1>4, <3>1
    <3>2. CASE i # 1
      <4>1. i - 1 \in 1 .. Len(rest) /\ rest[i - 1] = page[i]
        BY <1>4, <3>2
      <4> QED  BY <4>1 DEF Held
    <3> QED  BY <3>1, <3>2
  <2>2. Held(rest) \cup {item} \subseteq Held(page)
    <3>1. \A i \in 1 .. Len(rest) : i + 1 \in 1 .. Len(page)
      BY <1>4
    <3> QED  BY <1>4, <3>1 DEF Held
  <2>3. Held(yielded') \subseteq Held(yielded) \cup {item}
    BY <1>2, <1>6 DEF Held
  <2>4. Len(yielded) + 1 \in 1 .. Len(yielded') /\ yielded'[Len(yielded) + 1] = item
        /\ \A i \in 1 .. Len(yielded) : i \in 1 .. Len(yielded') /\ yielded'[i] = yielded[i]
    BY <1>2, <1>6
  <2>5. Held(yielded) \cup {item} \subseteq Held(yielded')
    BY <2>4 DEF Held
  <2>6. Held(page) \subseteq Held(rest) \cup {item}
    BY <2>1 DEF Held
  <2> QED  BY <2>2, <2>3, <2>5, <2>6
<1>9. Taken' = Taken /\ Ahead' = Ahead /\ Behind(walk') = Behind(walk)
  <2>1. Taken' = Held(yielded') \cup Held(rest) /\ Taken = Held(yielded) \cup Held(page)
    BY <1>3, <1>5 DEF Taken
  <2>2. Behind(walk') = Behind(walk)
    BY <1>1, <1>5 DEF Behind
  <2> QED  BY <1>1, <1>8, <2>1, <2>2 DEF Ahead
<1>10. TakenOnce'
  <2> SUFFICES ASSUME changes.inserted = 0
               PROVE  /\ Distinct(yielded') /\ Distinct(rest) /\ Held(yielded') \cap Held(rest) = {}
                      /\ Ahead \cap Taken = {}
    <3>1. walk'.page = rest /\ changes' = changes
      BY <1>1, <1>5
    <3>2. Ahead' \cap Taken' = Ahead \cap Taken
      BY <1>9
    <3> QED  BY <3>1, <3>2 DEF TakenOnce
  <2>1. /\ Distinct(yielded) /\ Distinct(page) /\ Held(yielded) \cap Held(page) = {}
        /\ Ahead \cap Taken = {}
    BY <1>1, <1>3 DEF WalkInv, TakenOnce
  <2>2. Distinct(rest) /\ item \notin Held(rest)
    <3>1. \A i \in 1 .. Len(rest) : i + 1 \in 1 .. Len(page) /\ i + 1 # 1 /\ 1 \in 1 .. Len(page)
      BY <1>4
    <3>2. \A i \in 1 .. Len(rest) : rest[i] # item
      BY <1>4, <2>1, <3>1 DEF Distinct
    <3>3. \A i, j \in 1 .. Len(rest) : rest[i] = rest[j] => i + 1 = j + 1
      BY <1>4, <2>1, <3>1 DEF Distinct
    <3> QED  BY <1>4, <3>2, <3>3 DEF Distinct, Held
  <2>3. item \notin Held(yielded)
    BY <1>8, <2>1
  <2>4. Distinct(yielded')
    BY <1>2, <1>6, <2>1, <2>3 DEF Distinct, Held
  <2>5. Held(rest) \subseteq Held(page)
    BY <1>8
  <2> QED  BY <1>8, <2>1, <2>2, <2>4, <2>5
<1>11. NoneMissed'
  BY <1>1, <1>5, <1>9 DEF WalkInv, NoneMissed
<1> QED  BY <1>7, <1>10, <1>11 DEF WalkInv

LEMMA WalkStops ==
    ASSUME WalkInv, Stops
    PROVE  WalkInv'
<1>1. /\ Len(yielded) >= cap
      /\ walk' = [walk EXCEPT !.pc = "done"]
      /\ UNCHANGED <<list, start, cap, yielded, since, changes>>
  <2>1. Len(yielded) \in Nat /\ cap \in Nat
    BY DEF WalkInv, WalkTypes
  <2> QED  BY <2>1 DEF Stops, UnderCap
<1>2. walk' = [pc |-> "done", offset |-> walk.offset, page |-> walk.page, got |-> walk.got,
               total |-> walk.total]
  BY <1>1, WalkIsRecord DEF WalkRecord, WalkInv
<1>3. WalkTypes'
  BY <1>1, <1>2 DEF WalkInv, WalkTypes
<1>4. TakenOnce' /\ NoneMissed'
  BY <1>1, <1>2 DEF WalkInv, TakenOnce, NoneMissed
<1> QED  BY <1>3, <1>4 DEF WalkInv

LEMMA WalkTurns ==
    ASSUME WalkInv, Turns
    PROVE  WalkInv'
<1>1. /\ walk.pc = "yielding" /\ walk.page = <<>>
      /\ walk' = [walk EXCEPT !.offset = Advanced(walk),
                              !.pc = IF Advanced(walk) >= walk.total THEN "done" ELSE "asking"]
      /\ UNCHANGED <<list, start, cap, yielded, since, changes>>
  BY DEF Turns
<1>2. walk = WalkRecord /\ Behind(walk) \in Nat /\ walk.total \in Nat
  BY WalkIsRecord, BehindType DEF WalkInv
<1>3. Advanced(walk) = Behind(walk)
  BY <1>1 DEF Advanced, Behind
<1>4. walk' = [pc |-> IF Behind(walk) >= walk.total THEN "done" ELSE "asking",
               offset |-> Behind(walk), page |-> <<>>, got |-> walk.got, total |-> walk.total]
  BY <1>1, <1>2, <1>3 DEF WalkRecord
<1>5. WalkTypes'
  BY <1>1, <1>2, <1>4 DEF WalkInv, WalkTypes
<1>6. Behind(walk') = Behind(walk) /\ Ahead' = Ahead /\ Taken' = Taken /\ Taken = Held(yielded)
  <2>1. Behind(walk') = Behind(walk)
    BY <1>4 DEF Behind
  <2>2. Held(walk.page) = {} /\ Held(walk'.page) = {}
    BY <1>1, <1>4 DEF Held
  <2> QED  BY <1>1, <2>1, <2>2 DEF Ahead, Taken
<1>7. TakenOnce'
  BY <1>1, <1>4, <1>6 DEF WalkInv, TakenOnce
<1>8. NoneMissed'
  <2>1. walk'.pc = "done" => Behind(walk) >= walk.total
    BY <1>4
  <2> QED  BY <1>1, <1>4, <1>6, <2>1 DEF WalkInv, NoneMissed
<1> QED  BY <1>5, <1>7, <1>8 DEF WalkInv

LEMMA WalkInvariant == Spec => []WalkInv
<1>1. WalkInv /\ [Next]_vars => WalkInv'
  <2>1. WalkInv /\ UNCHANGED vars => WalkInv'
    BY DEF vars, WalkInv, WalkTypes, TakenOnce, NoneMissed, Ahead, Taken, Behind
  <2> QED  BY <2>1, WalkInserts, WalkDeletes, WalkFetches, WalkYields, WalkStops, WalkTurns
           DEF Next, Steps
<1> QED  BY <1>1, WalkBegins, PTL DEF Spec

\* The type of a walk's state, for lists, pages and caps of every size.
THEOREM WalkIsTyped == Spec => []TypeOK
<1>1. WalkInv => TypeOK
  BY ListsAre DEF WalkInv, WalkTypes, TypeOK
<1> QED  BY <1>1, WalkInvariant, PTL

\* However many items go while a walk is on, it yields none of them twice as long
\* as none comes (_pagination.py 49-61).
THEOREM NoItemTwice == Spec => []NothingRepeated
<1>1. WalkInv => NothingRepeated
  BY DistinctIsInjective DEF WalkInv, WalkTypes, TakenOnce, NothingRepeated
<1> QED  BY <1>1, WalkInvariant, PTL

\* However many items come while a walk is on, and however small the pages, it
\* ends with all that was in its range as long as none goes (_pagination.py 49-61).
THEOREM NoItemMissed == Spec => []NothingSkipped
<1>1. WalkInv => NothingSkipped
  <2> SUFFICES ASSUME WalkInv, walk.pc = "done", changes.deleted = 0, changes.uncounted = 0,
                      Len(yielded) < cap
               PROVE  since \subseteq Range(yielded)
    BY DEF NothingSkipped
  <2>1. Len(yielded) \in Nat /\ cap \in Nat /\ Range(yielded) = Held(yielded)
    BY DistinctIsInjective DEF WalkInv, WalkTypes
  <2> QED  BY <2>1 DEF WalkInv, NoneMissed
<1> QED  BY <1>1, WalkInvariant, PTL

----------------------------------------------------------------------------
(* The bounded set of seen ids *)

\* LastUse and UsedSince, of any history u
LastIn(u, k) == CHOOSE i \in 1 .. Len(u) : u[i] = k /\ \A j \in (i + 1) .. Len(u) : u[j] # k
SinceIn(u, k) == {u[j] : j \in (LastIn(u, k) + 1) .. Len(u)}

HasLast(u, k) == \E i \in 1 .. Len(u) : u[i] = k /\ \A j \in (i + 1) .. Len(u) : u[j] # k

LEMMA LastIsLast ==
    ASSUME NEW u \in Seq(Keys), NEW k, HasLast(u, k)
    PROVE  /\ LastIn(u, k) \in 1 .. Len(u) /\ u[LastIn(u, k)] = k
           /\ \A i \in 1 .. Len(u) :
                u[i] = k /\ (\A j \in (i + 1) .. Len(u) : u[j] # k) => i = LastIn(u, k)
<1> DEFINE l == LastIn(u, k)
<1>0. Len(u) \in Nat
  OBVIOUS
<1>1. l \in 1 .. Len(u) /\ u[l] = k /\ \A j \in (l + 1) .. Len(u) : u[j] # k
  BY DEF HasLast, LastIn
<1> HIDE DEF l
<1>2. ASSUME NEW i \in 1 .. Len(u), u[i] = k, \A j \in (i + 1) .. Len(u) : u[j] # k
      PROVE  i = l
  BY <1>0, <1>1, <1>2
<1> QED  BY <1>1, <1>2 DEF l

\* The key used now is the last; every other one has one more used since.
LEMMA UseNow ==
    ASSUME NEW u \in Seq(Keys), NEW k \in Keys
    PROVE  LET v == Append(u, k)
           IN  /\ v \in Seq(Keys) /\ Len(v) = Len(u) + 1
               /\ HasLast(v, k) /\ SinceIn(v, k) = {} /\ Seen(v, k)
               /\ \A x : x # k => (Seen(v, x) <=> Seen(u, x))
               /\ \A x : x # k /\ HasLast(u, x) =>
                    HasLast(v, x) /\ SinceIn(v, x) = SinceIn(u, x) \cup {k}
<1> DEFINE n == Len(u)
<1>1. PICK v : v = Append(u, k)
  OBVIOUS
<1>2. /\ v \in Seq(Keys) /\ Len(v) = n + 1 /\ n \in Nat /\ v[n + 1] = k
      /\ \A i \in 1 .. n : v[i] = u[i]
  BY <1>1
<1> HIDE DEF n
<1>3. HasLast(v, k)
  BY <1>2 DEF HasLast
<1>4. SinceIn(v, k) = {}
  <2>1. LastIn(v, k) = n + 1
    BY <1>2, <1>3, LastIsLast
  <2> QED  BY <1>2, <2>1 DEF SinceIn
<1>5. ASSUME NEW x, x # k  PROVE Seen(v, x) <=> Seen(u, x)
  BY <1>2, <1>5 DEF Seen, n
<1>6. ASSUME NEW x, x # k, HasLast(u, x)
      PROVE  HasLast(v, x) /\ SinceIn(v, x) = SinceIn(u, x) \cup {k}
  <2>1. PICK l : l = LastIn(u, x)
    OBVIOUS
  <2>2. l \in 1 .. n /\ u[l] = x /\ \A j \in (l + 1) .. n : u[j] # x
    <3>1. \E i \in 1 .. Len(u) : u[i] = x /\ \A j \in (i + 1) .. Len(u) : u[j] # x
      BY <1>6 DEF HasLast
    <3> QED  BY <2>1, <3>1 DEF LastIn, n
  <2>3. l \in 1 .. Len(v) /\ v[l] = x /\ \A j \in (l + 1) .. Len(v) : v[j] # x
    BY <1>2, <1>6, <2>2
  <2>4. HasLast(v, x) /\ LastIn(v, x) = l
    BY <1>2, <2>3, LastIsLast DEF HasLast
  <2>5. SinceIn(v, x) = {v[j] : j \in (l + 1) .. (n + 1)}
    BY <1>2, <2>4 DEF SinceIn
  <2>6. SinceIn(u, x) = {u[j] : j \in (l + 1) .. n}
    BY <2>1 DEF SinceIn, n
  <2>7. \A j \in (l + 1) .. (n + 1) : j = n + 1 \/ (j \in (l + 1) .. n /\ v[j] = u[j])
    BY <1>2, <2>2
  <2>8. n + 1 \in (l + 1) .. (n + 1)
    BY <1>2, <2>2
  <2>9. \A j \in (l + 1) .. n : j \in (l + 1) .. (n + 1) /\ v[j] = u[j]
    BY <1>2, <2>2
  <2>10. SinceIn(v, x) \subseteq SinceIn(u, x) \cup {k}
    BY <1>2, <2>5, <2>6, <2>7
  <2>11. SinceIn(u, x) \cup {k} \subseteq SinceIn(v, x)
    BY <1>2, <2>5, <2>6, <2>8, <2>9
  <2> QED  BY <2>4, <2>10, <2>11
<1>7. Seen(v, k)
  BY <1>2 DEF Seen
<1> QED  BY <1>1, <1>2, <1>3, <1>4, <1>5, <1>6, <1>7 DEF n

\* The keys behind slot i
After(es, i) == {es[j] : j \in (i + 1) .. Len(es)}

\* The keys and their history, however many they are: behind a key stand the keys
\* used since, and those that stay were all used since the ones that are gone.
InOrder(es, u) ==
    /\ es \in Seq(Keys) /\ u \in Seq(Keys)
    /\ Distinct(es)
    /\ \A x : Seen(u, x) => HasLast(u, x)
    /\ \A i \in 1 .. Len(es) : Seen(u, es[i]) /\ SinceIn(u, es[i]) = After(es, i)
    /\ \A x : Seen(u, x) /\ ~Seen(es, x) => Held(es) \subseteq SinceIn(u, x)

LEMMA SeenIsHeld ==
    ASSUME NEW es
    PROVE  \A x : Seen(es, x) <=> x \in Held(es)
BY DEF Seen, Held

\* A use moves a key behind all others.
LEMMA UseOrders ==
    ASSUME NEW es, NEW u, InOrder(es, u), NEW k \in Keys
    PROVE  InOrder(MoveToEnd(es, k), Append(u, k))
<1>1. PICK g, v, n : g = MoveToEnd(es, k) /\ v = Append(u, k) /\ n = Len(es)
  OBVIOUS
<1>2. /\ es \in Seq(Keys) /\ u \in Seq(Keys) /\ n \in Nat /\ Distinct(es)
      /\ g \in Seq(Keys) /\ v \in Seq(Keys) /\ Distinct(g)
      /\ Held(g) = Held(es) \cup {k}
  <2>1. es \in Seq(Keys) /\ u \in Seq(Keys) /\ Distinct(es)
    BY DEF InOrder
  <2>2. g \in Seq(Keys) /\ v \in Seq(Keys) /\ n \in Nat
    BY <1>1, <2>1, MoveToEndType
  <2>3. Distinct(g) /\ \A x : Seen(g, x) <=> Seen(es, x) \/ x = k
    BY <1>1, <2>1, MoveToEndKeeps
  <2> QED  BY <2>1, <2>2, <2>3, SeenIsHeld
<1>3. /\ HasLast(v, k) /\ SinceIn(v, k) = {} /\ Seen(v, k)
      /\ \A x : x # k => (Seen(v, x) <=> Seen(u, x))
      /\ \A x : x # k /\ HasLast(u, x) => HasLast(v, x) /\ SinceIn(v, x) = SinceIn(u, x) \cup {k}
  BY <1>1, <1>2, UseNow
<1>4. \A x : Seen(v, x) => HasLast(v, x)
  BY <1>3 DEF InOrder
<1>5. \A x : x # k /\ Seen(u, x) => SinceIn(v, x) = SinceIn(u, x) \cup {k}
  BY <1>3 DEF InOrder
<1>6. ASSUME NEW x, Seen(v, x), ~Seen(g, x)  PROVE Held(g) \subseteq SinceIn(v, x)
  <2>1. x \notin Held(es) /\ x # k
    BY <1>2, <1>6, SeenIsHeld
  <2>2. Seen(u, x) /\ Held(es) \subseteq SinceIn(u, x)
    BY <1>3, <1>6, <2>1, SeenIsHeld DEF InOrder
  <2> QED  BY <1>2, <1>5, <2>1, <2>2
<1>7. PICK from \in [1 .. Len(g) -> 1 .. n + 1] :
        \A i \in 1 .. Len(g) - 1 :
          /\ from[i] \in 1 .. n /\ g[i] = es[from[i]] /\ g[i] # k
          /\ \A j \in (i + 1) .. Len(g) - 1 : from[j] > from[i]
          /\ \A m \in (from[i] + 1) .. n : es[m] # k => \E j \in (i + 1) .. Len(g) - 1 : m = from[j]
  <2>1. CASE Seen(es, k)
    <3>1. PICK at \in 1 .. n :
            /\ es[at] = k /\ Len(g) = n /\ g[n] = k
            /\ \A j \in 1 .. n - 1 : g[j] = IF j < at THEN es[j] ELSE es[j + 1]
      <4>0. es \in Seq(Keys)
        BY <1>2
      <4>1. MovedUp(es, k, MoveToEnd(es, k))
        BY <4>0, <2>1, MoveToEndSlots
      <4> QED  BY <1>1, <4>1 DEF MovedUp
    <3> DEFINE f == [i \in 1 .. n |-> IF i < at THEN i ELSE i + 1]
    <3>2. f \in [1 .. Len(g) -> 1 .. n + 1]
      BY <1>2, <3>1
    <3>3. ASSUME NEW i \in 1 .. Len(g) - 1
          PROVE  /\ f[i] \in 1 .. n /\ g[i] = es[f[i]] /\ g[i] # k
                 /\ \A j \in (i + 1) .. Len(g) - 1 : f[j] > f[i]
      <4>1. f[i] \in 1 .. n /\ g[i] = es[f[i]] /\ f[i] # at
        BY <1>2, <3>1
      <4>2. g[i] # k
        BY <1>1, <1>2, <3>1, <4>1 DEF Distinct
      <4>3. \A j \in (i + 1) .. Len(g) - 1 : f[j] > f[i]
        BY <1>2, <3>1
      <4> QED  BY <4>1, <4>2, <4>3
    <3>4. ASSUME NEW i \in 1 .. Len(g) - 1, NEW m \in (f[i] + 1) .. n, es[m] # k
          PROVE  \E j \in (i + 1) .. Len(g) - 1 : m = f[j]
      <4>1. m # at /\ f[i] \in 1 .. n
        BY <3>1, <3>3, <3>4
      <4>2. CASE m < at
        <5>1. m \in (i + 1) .. Len(g) - 1 /\ f[m] = m
          BY <1>2, <3>1, <4>1, <4>2
        <5> QED  BY <5>1
      <4>3. CASE m > at
        <5>1. m - 1 \in (i + 1) .. Len(g) - 1 /\ f[m - 1] = m
          BY <1>2, <3>1, <4>1, <4>3
        <5> QED  BY <5>1
      <4>4. m < at \/ m > at
        <5>1. m \in Int /\ at \in Int
          BY <3>1, <4>1
        <5> QED  BY <4>1, <5>1
      <4> QED  BY <4>2, <4>3, <4>4
    <3> HIDE DEF f
    <3> QED  BY <3>2, <3>3, <3>4
  <2>2. CASE ~Seen(es, k)
    <3>1. Len(g) = n + 1 /\ \A j \in 1 .. n : g[j] = es[j] /\ es[j] # k
      BY <1>1, <1>2, <2>2, NewSlots DEF Seen
    <3> DEFINE f == [i \in 1 .. n + 1 |-> i]
    <3>2. f \in [1 .. Len(g) -> 1 .. n + 1] /\ \A i \in 1 .. n : f[i] = i
      BY <1>2, <3>1
    <3> HIDE DEF f
    <3>3. ASSUME NEW i \in 1 .. Len(g) - 1
          PROVE  /\ f[i] \in 1 .. n /\ g[i] = es[f[i]] /\ g[i] # k
                 /\ \A j \in (i + 1) .. Len(g) - 1 : f[j] > f[i]
                 /\ \A m \in (f[i] + 1) .. n :
                      es[m] # k => \E j \in (i + 1) .. Len(g) - 1 : m = f[j]
      <4>1. i \in 1 .. n /\ f[i] = i /\ Len(g) - 1 = n
        BY <1>2, <3>1, <3>2
      <4>2. \A j \in (i + 1) .. n : f[j] = j
        BY <1>2, <3>2, <4>1
      <4>3. \A j \in (i + 1) .. n : j > i
        BY <1>2, <4>1
      <4> QED  BY <3>1, <4>1, <4>2, <4>3
    <3> QED  BY <3>2, <3>3
  <2> QED  BY <2>1, <2>2
<1>8. Len(g) \in Nat \ {0} /\ g[Len(g)] = k
  <2>1. CASE Seen(es, k)
    <3>1. es \in Seq(Keys)
      BY <1>2
    <3>2. MovedUp(es, k, MoveToEnd(es, k))
      BY <2>1, <3>1, MoveToEndSlots
    <3> QED  BY <1>1, <1>2, <3>2 DEF MovedUp
  <2>2. CASE ~Seen(es, k)
    BY <1>1, <1>2, <2>2, NewSlots
  <2> QED  BY <2>1, <2>2
<1>9. ASSUME NEW i \in 1 .. Len(g)
      PROVE  Seen(v, g[i]) /\ SinceIn(v, g[i]) = After(g, i)
  <2>1. CASE i = Len(g)
    <3>1. After(g, i) = {}
      BY <1>8, <2>1 DEF After
    <3> QED  BY <1>3, <1>8, <2>1, <3>1
  <2>2. CASE i # Len(g)
    <3>1. i \in 1 .. Len(g) - 1
      BY <1>8, <2>2
    <3>2. /\ from[i] \in 1 .. n /\ g[i] = es[from[i]] /\ g[i] # k
      BY <1>7, <3>1
    <3>3. Seen(u, g[i]) /\ SinceIn(u, g[i]) = After(es, from[i])
      BY <1>1, <3>2 DEF InOrder
    <3>4. Seen(v, g[i]) /\ SinceIn(v, g[i]) = After(es, from[i]) \cup {k}
      BY <1>3, <1>5, <3>2, <3>3
    <3>5. After(g, i) = {g[j] : j \in (i + 1) .. Len(g) - 1} \cup {k}
      <4>1. \A j \in (i + 1) .. Len(g) : j \in (i + 1) .. Len(g) - 1 \/ j = Len(g)
        BY <1>8
      <4>2. \A j \in (i + 1) .. Len(g) - 1 : j \in (i + 1) .. Len(g)
        BY <1>8
      <4>3. Len(g) \in (i + 1) .. Len(g)
        BY <1>8, <3>1
      <4> QED  BY <1>8, <4>1, <4>2, <4>3 DEF After
    <3>6. ASSUME NEW j \in (i + 1) .. Len(g) - 1  PROVE g[j] \in After(es, from[i])
      <4>1. j \in 1 .. Len(g) - 1
        BY <1>8, <3>1
      <4>2. from[j] \in 1 .. n /\ g[j] = es[from[j]] /\ from[j] > from[i]
        BY <1>7, <3>1, <4>1
      <4>3. from[j] \in (from[i] + 1) .. n
        BY <1>2, <3>2, <4>2
      <4> QED  BY <1>1, <4>2, <4>3 DEF After
    <3>7. ASSUME NEW m \in (from[i] + 1) .. n, es[m] # k
          PROVE  es[m] \in {g[j] : j \in (i + 1) .. Len(g) - 1}
      <4>1. PICK j \in (i + 1) .. Len(g) - 1 : m = from[j]
        BY <1>7, <3>1, <3>7
      <4>2. j \in 1 .. Len(g) - 1
        BY <1>8, <3>1
      <4> QED  BY <1>7, <4>1, <4>2
    <3>8. After(es, from[i]) \subseteq {g[j] : j \in (i + 1) .. Len(g) - 1} \cup {k}
      BY <1>1, <3>7 DEF After
    <3> QED  BY <3>4, <3>5, <3>6, <3>8
  <2> QED  BY <2>1, <2>2
<1> QED  BY <1>1, <1>2, <1>4, <1>6, <1>9 DEF InOrder

\* Without its first key the set is in order if the ones that stay were all used
\* since that key.
LEMMA EvictionOrders ==
    ASSUME NEW es, NEW u, InOrder(es, u), es # <<>>
    PROVE  InOrder(Tail(es), u) /\ Len(Tail(es)) = Len(es) - 1
<1>1. PICK t, n : t = Tail(es) /\ n = Len(es)
  OBVIOUS
<1>2. /\ es \in Seq(Keys) /\ u \in Seq(Keys) /\ Distinct(es)
      /\ t \in Seq(Keys) /\ n \in Nat /\ n > 0 /\ Len(t) = n - 1
      /\ \A i \in 1 .. n - 1 : t[i] = es[i + 1]
  <2>1. es \in Seq(Keys) /\ u \in Seq(Keys) /\ Distinct(es)
    BY DEF InOrder
  <2>2. n \in Nat /\ n > 0
    BY <1>1, <2>1
  <2> QED  BY <1>1, <2>1, <2>2, HeadTailProperties
<1>3. \A i \in 1 .. n - 1 : i + 1 \in 1 .. n
  BY <1>2
<1>4. Distinct(t)
  BY <1>1, <1>2, <1>3 DEF Distinct
<1>5. ASSUME NEW i \in 1 .. n - 1  PROVE After(t, i) = After(es, i + 1)
  <2>1. \A j \in (i + 1) .. n - 1 : j + 1 \in (i + 2) .. n /\ t[j] = es[j + 1]
    BY <1>2
  <2>2. \A j \in (i + 2) .. n : j - 1 \in (i + 1) .. n - 1 /\ t[j - 1] = es[j]
    <3>1. ASSUME NEW j \in (i + 2) .. n  PROVE j - 1 \in (i + 1) .. n - 1 /\ t[j - 1] = es[j]
      <4>1. j - 1 \in 1 .. n - 1 /\ (j - 1) + 1 = j /\ j - 1 \in (i + 1) .. n - 1
        BY <1>2
      <4>2. t[j - 1] = es[(j - 1) + 1]
        BY <1>2, <4>1
      <4> QED  BY <4>1, <4>2
    <3> QED  BY <3>1
  <2>3. After(t, i) = {t[j] : j \in (i + 1) .. n - 1}
        /\ After(es, i + 1) = {es[j] : j \in (i + 2) .. n}
    BY <1>1, <1>2 DEF After
  <2>4. {t[j] : j \in (i + 1) .. n - 1} \subseteq {es[j] : j \in (i + 2) .. n}
    BY <2>1
  <2>5. {es[j] : j \in (i + 2) .. n} \subseteq {t[j] : j \in (i + 1) .. n - 1}
    BY <2>2
  <2> QED  BY <2>3, <2>4, <2>5
<1>6. ASSUME NEW i \in 1 .. Len(t)
      PROVE  Seen(u, t[i]) /\ SinceIn(u, t[i]) = After(t, i)
  <2>1. i \in 1 .. n - 1 /\ i + 1 \in 1 .. n /\ t[i] = es[i + 1]
    BY <1>2
  <2> QED  BY <1>1, <1>5, <2>1 DEF InOrder
<1>7. Held(t) = After(es, 1) /\ Held(t) \subseteq Held(es) /\ 1 \in 1 .. n
  <2>1. \A i \in 1 .. n - 1 : i + 1 \in 2 .. n
    BY <1>2
  <2>2. \A j \in 2 .. n : j \in 1 .. n /\ t[j - 1] = es[j] /\ j - 1 \in 1 .. n - 1
    <3>1. ASSUME NEW j \in 2 .. n  PROVE j \in 1 .. n /\ t[j - 1] = es[j] /\ j - 1 \in 1 .. n - 1
      <4>1. j - 1 \in 1 .. n - 1 /\ (j - 1) + 1 = j /\ j \in 1 .. n
        BY <1>2
      <4>2. t[j - 1] = es[(j - 1) + 1]
        BY <1>2, <4>1
      <4> QED  BY <4>1, <4>2
    <3> QED  BY <3>1
  <2>3. After(es, 1) = {es[j] : j \in 2 .. n}
    BY <1>1 DEF After
  <2>4. Held(t) = {t[i] : i \in 1 .. n - 1}
    BY <1>2 DEF Held
  <2>5. {t[i] : i \in 1 .. n - 1} \subseteq {es[j] : j \in 2 .. n}
    BY <1>2, <2>1
  <2>6. {es[j] : j \in 2 .. n} \subseteq {t[i] : i \in 1 .. n - 1}
    BY <2>2
  <2>7. {es[j] : j \in 2 .. n} \subseteq Held(es)
    BY <1>1, <2>2 DEF Held
  <2>8. 1 \in 1 .. n
    BY <1>2
  <2> QED  BY <2>3, <2>4, <2>5, <2>6, <2>7, <2>8
<1>8. ASSUME NEW x, Seen(u, x), ~Seen(t, x)  PROVE Held(t) \subseteq SinceIn(u, x)
  <2>1. CASE Seen(es, x)
    <3>1. PICK i \in 1 .. n : es[i] = x
      BY <1>1, <2>1 DEF Seen
    <3>2. i = 1
      <4> SUFFICES ASSUME i # 1 PROVE FALSE
        OBVIOUS
      <4>1. i - 1 \in 1 .. n - 1 /\ (i - 1) + 1 = i
        BY <1>2
      <4>2. t[i - 1] = x
        BY <1>2, <3>1, <4>1
      <4> QED  BY <1>2, <1>8, <4>1, <4>2 DEF Seen
    <3> QED  BY <1>1, <1>7, <3>1, <3>2 DEF InOrder
  <2>2. CASE ~Seen(es, x)
    BY <1>7, <1>8, <2>2 DEF InOrder
  <2> QED  BY <2>1, <2>2
<1>9. \A x : Seen(u, x) => HasLast(u, x)
  BY DEF InOrder
<1> QED  BY <1>1, <1>2, <1>4, <1>6, <1>8, <1>9 DEF InOrder

\* Besides, the set is no larger than its capacity, and as large as it may be once
\* a key is gone.
LruOk(es, u) ==
    /\ InOrder(es, u)
    /\ es # <<>> => Len(es) <= Capacity
    /\ \A x : Seen(u, x) /\ ~Seen(es, x) => Len(es) >= Capacity

USE CapacityAssumption

LEMMA HitOrders ==
    ASSUME NEW es, NEW u, LruOk(es, u), NEW k \in Keys, Seen(es, k)
    PROVE  LruOk(MoveToEnd(es, k), Append(u, k)) /\ Len(MoveToEnd(es, k)) <= Capacity
<1>1. PICK g, v : g = MoveToEnd(es, k) /\ v = Append(u, k)
  OBVIOUS
<1>2. es \in Seq(Keys) /\ u \in Seq(Keys) /\ Distinct(es)
  BY DEF LruOk, InOrder
<1>3. InOrder(g, v)
  BY <1>1, UseOrders DEF LruOk
<1>4. Len(g) = Len(es) /\ es # <<>> /\ Len(es) \in Nat
  <2>1. Len(g) = Len(es)
    BY <1>1, <1>2, MoveToEndType
  <2>2. PICK i \in 1 .. Len(es) : es[i] = k
    BY DEF Seen
  <2>3. Len(es) \in Nat /\ (es = <<>> => Len(es) = 0)
    BY <1>2
  <2> QED  BY <2>1, <2>2, <2>3
<1>5. \A x : Seen(g, x) <=> Seen(es, x) \/ x = k
  BY <1>1, <1>2, MoveToEndKeeps
<1>6. \A x : x # k => (Seen(v, x) <=> Seen(u, x))
  BY <1>1, <1>2, UseNow
<1> QED  BY <1>1, <1>3, <1>4, <1>5, <1>6 DEF LruOk

LEMMA AddOrders ==
    ASSUME NEW es, NEW u, LruOk(es, u), NEW k \in Keys
    PROVE  LruOk(Add(es, k, Capacity), Append(u, k))
<1>1. PICK g, v, n : g = MoveToEnd(es, k) /\ v = Append(u, k) /\ n = Len(es)
  OBVIOUS
<1>2. es \in Seq(Keys) /\ u \in Seq(Keys) /\ Distinct(es) /\ n \in Nat
  BY <1>1 DEF LruOk, InOrder
<1>3. InOrder(g, v) /\ g \in Seq(Keys)
  BY <1>1, UseOrders DEF LruOk, InOrder
<1>4. /\ \A x : x # k => (Seen(v, x) <=> Seen(u, x))
      /\ \A x : x # k /\ HasLast(u, x) =>
            HasLast(v, x) /\ SinceIn(v, x) = SinceIn(u, x) \cup {k}
      /\ HasLast(v, k) /\ v \in Seq(Keys)
  BY <1>1, <1>2, UseNow
<1>5. \A x : Seen(g, x) <=> Seen(es, x) \/ x = k
  BY <1>1, <1>2, MoveToEndKeeps
<1>6. CASE Capacity <= 0
  <2>1. n = 0 /\ es = <<>>
    <3>1. es # <<>> => n > 0 /\ n <= Capacity
      BY <1>1, <1>2 DEF LruOk
    <3> QED  BY <1>1, <1>2, <1>6, <3>1
  <2>2. Add(es, k, Capacity) = es
    BY <1>6 DEF Add
  <2>3. Held(es) = {} /\ Len(es) = 0 /\ Distinct(es)
    BY <1>1, <2>1 DEF Held, Distinct
  <2>4. \A x : Seen(v, x) => HasLast(v, x)
    BY <1>3 DEF InOrder
  <2>5. InOrder(es, v)
    BY <1>2, <1>4, <2>3, <2>4 DEF InOrder
  <2> QED  BY <1>1, <1>6, <2>1, <2>2, <2>3, <2>5 DEF LruOk
<1>7. CASE Capacity > 0 /\ Seen(es, k)
  <2>1. LruOk(g, v) /\ Len(g) <= Capacity /\ Len(g) \in Nat
    BY <1>1, <1>3, <1>7, HitOrders
  <2>2. Add(es, k, Capacity) = g
    BY <1>1, <1>7, <2>1 DEF Add
  <2> QED  BY <1>1, <2>1, <2>2
<1>8. CASE Capacity > 0 /\ ~Seen(es, k)
  <2>1. Len(g) = n + 1
    BY <1>1, <1>2, <1>8, NewSlots
  <2>2. n <= Capacity
    <3>1. es = <<>> => n = 0
      BY <1>1
    <3> QED  BY <1>1, <1>2, <1>8, <3>1 DEF LruOk
  <2>3. CASE n < Capacity
    <3>1. Add(es, k, Capacity) = g
      BY <1>1, <1>2, <1>8, <2>1, <2>3 DEF Add
    <3>2. ASSUME NEW x, Seen(v, x), ~Seen(g, x)  PROVE FALSE
      <4>1. Seen(u, x) /\ ~Seen(es, x)
        BY <1>4, <1>5, <3>2
      <4> QED  BY <1>1, <1>2, <2>3, <4>1 DEF LruOk
    <3> QED  BY <1>1, <1>2, <1>3, <2>1, <2>3, <3>1, <3>2 DEF LruOk
  <2>4. CASE n = Capacity
    <3>1. g # <<>> /\ Add(es, k, Capacity) = Tail(g)
      BY <1>1, <1>2, <1>3, <1>8, <2>1, <2>4 DEF Add
    <3>2. InOrder(Tail(g), v) /\ Len(Tail(g)) = Capacity
      BY <1>2, <1>3, <2>1, <2>4, <3>1, EvictionOrders
    <3> QED  BY <1>1, <3>1, <3>2 DEF LruOk
  <2> QED  BY <1>2, <2>2, <2>3, <2>4
<1> QED  BY <1>6, <1>7, <1>8

\* How many keys a piece of a sequence holds
LEMMA PieceCount ==
    ASSUME NEW s \in Seq(Keys), NEW i \in 0 .. Len(s)
    PROVE  /\ IsFiniteSet(After(s, i)) /\ Cardinality(After(s, i)) \in Nat
           /\ Distinct(s) => Cardinality(After(s, i)) = Len(s) - i
<1> DEFINE f == [j \in (i + 1) .. Len(s) |-> s[j]]
<1>1. Len(s) \in Nat /\ i \in Nat /\ i <= Len(s)
  OBVIOUS
<1>2. f \in Surjection((i + 1) .. Len(s), After(s, i))
  BY DEF After, Surjection
<1>3. /\ IsFiniteSet((i + 1) .. Len(s))
      /\ Cardinality((i + 1) .. Len(s)) = Len(s) - i
  <2>1. /\ IsFiniteSet((i + 1) .. Len(s))
        /\ Cardinality((i + 1) .. Len(s)) = IF i + 1 > Len(s) THEN 0 ELSE Len(s) - (i + 1) + 1
    <3>1. \A a, b \in Int : /\ IsFiniteSet(a .. b)
                            /\ Cardinality(a .. b) = IF a > b THEN 0 ELSE b - a + 1
      BY FS_Interval
    <3>2. i + 1 \in Int /\ Len(s) \in Int
      BY <1>1
    <3> QED  BY <3>1, <3>2
  <2> QED  BY <1>1, <2>1
<1>4. Distinct(s) => f \in Injection((i + 1) .. Len(s), After(s, i))
  <2> SUFFICES ASSUME Distinct(s) PROVE \A a, b \in (i + 1) .. Len(s) : s[a] = s[b] => a = b
    BY <1>2 DEF Injection, Surjection, IsInjective
  <2>1. \A a \in (i + 1) .. Len(s) : a \in 1 .. Len(s)
    BY <1>1
  <2> QED  BY <2>1 DEF Distinct
<1> HIDE DEF f
<1>5. /\ IsFiniteSet(After(s, i))
      /\ Cardinality(After(s, i)) = Cardinality((i + 1) .. Len(s))
           <=> f \in Injection((i + 1) .. Len(s), After(s, i))
  BY <1>2, <1>3, FS_Surjection
<1>6. Cardinality(After(s, i)) \in Nat
  BY <1>5, FS_CardinalityType
<1> QED  BY <1>3, <1>4, <1>5, <1>6

LEMMA LruInvariant == LocalSpec => []LruOk(entries, uses)
<1>1. LocalInit => LruOk(entries, uses)
  <2> SUFFICES ASSUME LocalInit PROVE LruOk(entries, uses)
    OBVIOUS
  <2>1. entries = <<>> /\ uses = <<>>
    BY DEF LocalInit
  <2>2. \A x : ~Seen(<<>>, x)
    BY DEF Seen
  <2>3. <<>> \in Seq(Keys) /\ Len(<<>>) = 0 /\ Distinct(<<>>)
    BY DEF Distinct
  <2> QED  BY <2>1, <2>2, <2>3 DEF LruOk, InOrder
<1>2. LruOk(entries, uses) /\ [LocalNext]_<<local, vars, backoffVars>> => LruOk(entries, uses)'
  <2> SUFFICES ASSUME LruOk(entries, uses), [LocalNext]_<<local, vars, backoffVars>>
               PROVE  LruOk(entries', uses')
    OBVIOUS
  <2>1. ASSUME NEW k \in Keys, Lookup(k)  PROVE LruOk(entries', uses')
    <3>1. CASE Seen(entries, k)
      <4>1. entries' = MoveToEnd(entries, k) /\ uses' = Append(uses, k)
        BY <2>1, <3>1 DEF Lookup, Hit
      <4> QED  BY <3>1, <4>1, HitOrders
    <3>2. CASE ~Seen(entries, k)
      BY <2>1, <3>2 DEF Lookup, Hit
    <3> QED  BY <3>1, <3>2
  <2>2. ASSUME NEW k \in Keys, Insert(k)  PROVE LruOk(entries', uses')
    <3>1. entries' = Add(entries, k, Capacity) /\ uses' = Append(uses, k)
      BY <2>2 DEF Insert
    <3> QED  BY <3>1, AddOrders
  <2>3. CASE UNCHANGED local
    BY <2>3 DEF local
  <2> QED  BY <2>1, <2>2, <2>3 DEF LocalNext, Walks, Waits
<1> QED  BY <1>1, <1>2, PTL DEF LocalSpec

\* After any history of lookups and insertions, of any length and any ids, the set
\* holds exactly the most recently used ids in order of use (_BoundedLruSet).
THEOREM TheMostRecentStay == LocalSpec => []KeepsMostRecent
<1>1. LruOk(entries, uses) => KeepsMostRecent
  <2> SUFFICES ASSUME LruOk(entries, uses)
               PROVE  /\ Held(entries) = MostRecent
                      /\ \A i, j \in 1 .. Len(entries) :
                            i < j => LastUse(entries[i]) < LastUse(entries[j])
    BY DistinctIsInjective DEF LruOk, InOrder, KeepsMostRecent
  <2>1. /\ entries \in Seq(Keys) /\ uses \in Seq(Keys) /\ Len(entries) \in Nat
        /\ Len(uses) \in Nat /\ Distinct(entries)
    BY DEF LruOk, InOrder
  <2>2. \A k : LastUse(k) = LastIn(uses, k) /\ UsedSince(k) = SinceIn(uses, k)
    BY DEF LastUse, LastIn, UsedSince, SinceIn
  <2>3. ASSUME NEW k, Seen(uses, k)
        PROVE  /\ LastIn(uses, k) \in 1 .. Len(uses) /\ uses[LastIn(uses, k)] = k
               /\ IsFiniteSet(SinceIn(uses, k)) /\ Cardinality(SinceIn(uses, k)) \in Nat
    <3>1. LastIn(uses, k) \in 1 .. Len(uses) /\ uses[LastIn(uses, k)] = k
      BY <2>1, <2>3, LastIsLast DEF LruOk, InOrder
    <3>2. PICK l \in 1 .. Len(uses) : l = LastIn(uses, k)
      BY <3>1
    <3>3. SinceIn(uses, k) = After(uses, l)
      BY <3>2 DEF SinceIn, After
    <3>4. l \in 0 .. Len(uses)
      BY <2>1
    <3> QED  BY <2>1, <3>1, <3>3, <3>4, PieceCount
  <2>4. ASSUME NEW i \in 1 .. Len(entries)
        PROVE  /\ entries[i] \in Keys /\ Seen(uses, entries[i])
               /\ SinceIn(uses, entries[i]) = After(entries, i)
               /\ Cardinality(SinceIn(uses, entries[i])) < Capacity
    <3>1. entries[i] \in Keys /\ Seen(uses, entries[i])
          /\ SinceIn(uses, entries[i]) = After(entries, i)
      BY <2>1 DEF LruOk, InOrder
    <3>2. i \in 0 .. Len(entries) /\ i > 0
      BY <2>1
    <3>3. Cardinality(After(entries, i)) = Len(entries) - i
      BY <2>1, <3>2, PieceCount
    <3>4. entries # <<>> /\ Len(entries) <= Capacity
      <4>1. entries = <<>> => Len(entries) = 0
        OBVIOUS
      <4>2. Len(entries) # 0
        BY <2>1
      <4> QED  BY <4>1, <4>2 DEF LruOk
    <3> QED  BY <2>1, <3>1, <3>2, <3>3, <3>4
  <2>5. ASSUME NEW k \in Keys, Seen(uses, k), Cardinality(SinceIn(uses, k)) < Capacity
        PROVE  k \in Held(entries)
    <3> SUFFICES ASSUME ~Seen(entries, k) PROVE FALSE
      BY SeenIsHeld
    <3>1. Held(entries) \subseteq SinceIn(uses, k) /\ Len(entries) >= Capacity
      BY <2>5 DEF LruOk, InOrder
    <3>2. Held(entries) = After(entries, 0) /\ 0 \in 0 .. Len(entries)
      BY <2>1 DEF Held, After
    <3>3. Cardinality(Held(entries)) = Len(entries)
      BY <2>1, <3>2, PieceCount
    <3>4. Cardinality(Held(entries)) <= Cardinality(SinceIn(uses, k))
      BY <2>3, <2>5, <3>1, FS_Subset
    <3> QED  BY <2>1, <2>3, <2>5, <3>1, <3>3, <3>4
  <2>6. Held(entries) = MostRecent
    <3>1. \A k : k \in Held(entries) => k \in MostRecent
      BY <2>2, <2>4 DEF Held, MostRecent
    <3>2. \A k : k \in MostRecent => k \in Held(entries)
      BY <2>2, <2>5 DEF MostRecent
    <3> QED  BY <3>1, <3>2
  <2>7. ASSUME NEW i \in 1 .. Len(entries), NEW j \in 1 .. Len(entries), i < j
        PROVE  LastUse(entries[i]) < LastUse(entries[j])
    <3>1. PICK a, b : a = LastIn(uses, entries[i]) /\ b = LastIn(uses, entries[j])
      OBVIOUS
    <3>2. a \in 1 .. Len(uses) /\ b \in 1 .. Len(uses)
      BY <2>3, <2>4, <3>1
    <3>3. entries[j] \in SinceIn(uses, entries[i])
      <4>1. j \in (i + 1) .. Len(entries)
        BY <2>1, <2>7
      <4> QED  BY <2>4, <4>1 DEF After
    <3>4. PICK m \in (a + 1) .. Len(uses) : uses[m] = entries[j]
      BY <3>1, <3>3 DEF SinceIn
    <3>5. HasLast(uses, entries[j])
      BY <2>4 DEF LruOk, InOrder
    <3>6. \A q \in (b + 1) .. Len(uses) : uses[q] # entries[j]
      BY <3>1, <3>5 DEF HasLast, LastIn
    <3>7. m <= b
      BY <2>1, <3>2, <3>4, <3>6
    <3>8. a < b
      BY <2>1, <3>2, <3>4, <3>7
    <3> QED  BY <2>2, <3>1, <3>8
  <2> QED  BY <2>6, <2>7
<1> QED  BY <1>1, LruInvariant, PTL
----------------------------------------------------------------------------
(* Errors *)

\* The table of errors.py, row by row
LEMMA ClassesAndCodes ==
  /\ DOMAIN CodesOf =
       {"RateLimitedError", "SuspendedError", "RestrictedError", "RecipientBackloggedError",
        "AwaitingReplyError", "BlockedError", "ValidationError", "UnauthorizedError",
        "ForbiddenError", "NotFoundError", "GroupDeletedError", "SystemAgentProtectedError",
        "EmailLimitReachedError", "EmailExhaustedError", "HandleRequiredError", "ServerError"}
  /\ CodesOf.RateLimitedError = {"RATE_LIMITED"}
  /\ CodesOf.SuspendedError = {"SUSPENDED", "AGENT_SUSPENDED"}
  /\ CodesOf.RestrictedError = {"RESTRICTED"}
  /\ CodesOf.RecipientBackloggedError = {"RECIPIENT_BACKLOGGED"}
  /\ CodesOf.AwaitingReplyError = {"AWAITING_REPLY"}
  /\ CodesOf.BlockedError = {"BLOCKED"}
  /\ CodesOf.ValidationError = {"VALIDATION_ERROR"}
  /\ CodesOf.UnauthorizedError = {"UNAUTHORIZED", "INVALID_API_KEY"}
  /\ CodesOf.ForbiddenError = {"FORBIDDEN", "AGENT_PAUSED_BY_OWNER"}
  /\ CodesOf.NotFoundError = {"AGENT_NOT_FOUND", "CONVERSATION_NOT_FOUND", "MESSAGE_NOT_FOUND",
                              "OWNER_NOT_FOUND", "CLAIM_NOT_FOUND"}
  /\ CodesOf.GroupDeletedError = {"GROUP_DELETED"}
  /\ CodesOf.SystemAgentProtectedError = {"SYSTEM_AGENT_PROTECTED"}
  /\ CodesOf.EmailLimitReachedError = {"EMAIL_LIMIT_REACHED", "EMAIL_TAKEN"}
  /\ CodesOf.EmailExhaustedError = {"EMAIL_EXHAUSTED"}
  /\ CodesOf.HandleRequiredError = {"HANDLE_REQUIRED"}
  /\ CodesOf.ServerError = {"INTERNAL_ERROR"}
BY DEF CodesOf

\* The exception of a code that has a class is of that class.
LEMMA ClassOfCode ==
  ASSUME NEW status
  PROVE  /\ ErrorClass("UNAUTHORIZED", status) = "UnauthorizedError"
         /\ ErrorClass("FORBIDDEN", status) = "ForbiddenError"
         /\ ErrorClass("AGENT_NOT_FOUND", status) = "NotFoundError"
         /\ ErrorClass("RATE_LIMITED", status) = "RateLimitedError"
         /\ ErrorClass("INTERNAL_ERROR", status) = "ServerError"
         /\ ErrorClass("A_NEW_CODE", status) = ByStatus(status)
<1>1. \A e \in DOMAIN CodesOf :
         /\ "UNAUTHORIZED" \in CodesOf[e] <=> e = "UnauthorizedError"
         /\ "FORBIDDEN" \in CodesOf[e] <=> e = "ForbiddenError"
         /\ "AGENT_NOT_FOUND" \in CodesOf[e] <=> e = "NotFoundError"
  BY ClassesAndCodes
<1>2. \A e \in DOMAIN CodesOf :
         /\ "RATE_LIMITED" \in CodesOf[e] <=> e = "RateLimitedError"
         /\ "INTERNAL_ERROR" \in CodesOf[e] <=> e = "ServerError"
         /\ "A_NEW_CODE" \notin CodesOf[e]
  BY ClassesAndCodes
<1>3. {"UnauthorizedError", "ForbiddenError", "NotFoundError", "RateLimitedError",
       "ServerError"} \subseteq DOMAIN CodesOf
  BY ClassesAndCodes
<1> QED  BY <1>1, <1>2, <1>3 DEF ErrorClass

\* Without a body, a status with a class of its own is raised as that class.
LEMMA StatusesWithAClass ==
  ASSUME NEW status \in Int, status \in {401, 403, 404, 429} \/ status >= 500
  PROVE  Raised(NoCode, status) = Raised("A_NEW_CODE", status)
<1>1. "A_NEW_CODE" # NoCode => Raised("A_NEW_CODE", status) = ByStatus(status)
  BY ClassOfCode DEF Raised
<1>2. Raised(NoCode, status) = ByStatus(status)
  <2>1. Raised(NoCode, status) = ErrorClass(StatusToCode(status), status)
    BY DEF Raised
  <2>2. CASE status = 401  BY <2>1, <2>2, ClassOfCode DEF StatusToCode, ByStatus
  <2>3. CASE status = 403  BY <2>1, <2>3, ClassOfCode DEF StatusToCode, ByStatus
  <2>4. CASE status = 404  BY <2>1, <2>4, ClassOfCode DEF StatusToCode, ByStatus
  <2>5. CASE status = 429  BY <2>1, <2>5, ClassOfCode DEF StatusToCode, ByStatus
  <2>6. CASE status >= 500
    <3>1. StatusToCode(status) = "INTERNAL_ERROR"  BY <2>6 DEF StatusToCode
    <3>2. ByStatus(status) = "ServerError"  BY <2>6 DEF ByStatus
    <3> QED  BY <2>1, <3>1, <3>2, ClassOfCode
  <2> QED  BY <2>2, <2>3, <2>4, <2>5, <2>6
<1> QED  BY <1>1, <1>2

\* A code that has a class is raised as it under every status.
LEMMA CodesWithAClass ==
  ASSUME NEW code \in ErrorCodes \ Unclassed, NEW status, NEW other
  PROVE  Raised(code, other) = Raised(code, status)
<1>1. code # NoCode /\ \E e \in DOMAIN CodesOf : code \in CodesOf[e]
  BY NoCodeAssumption DEF ErrorCodes
<1> QED  BY <1>1 DEF Raised, ErrorClass

----------------------------------------------------------------------------
(* Questions that are answered at once: what they ask never changes *)

Inputs ==
    {[of |-> "pages"], [of |-> "ids"], [of |-> "backoff"]}
    \cup ErrorInputs \cup VerdictInputs \cup SignatureInputs

LEMMA InputsAreAsked == LocalSpec => [](input \in Inputs)
<1>1. LocalInit => input \in Inputs
  BY DEF LocalInit, Inputs
<1>2. input \in Inputs /\ [LocalNext]_<<local, vars, backoffVars>> => (input \in Inputs)'
  BY DEF LocalNext, Lookup, Insert, Walks, Waits, local
<1> QED  BY <1>1, <1>2, PTL DEF LocalSpec

\* For the statuses with a class of their own nothing is lost with the body, and
\* the class of a code does not depend on the status (errors.py 352-433, _http.py
\* 240-290): StatusDecides, for every value of NoCode.
THEOREM StatusDecidesTheClass == LocalSpec => []StatusDecides
<1>1. input \in Inputs => StatusDecides
  <2> SUFFICES ASSUME input \in Inputs, input.of = "error" PROVE StatusDecides
    BY DEF StatusDecides
  <2>1. input.status \in Statuses
    BY DEF Inputs, ErrorInputs, VerdictInputs, SignatureInputs
  <2>2. input.status \in Int
    BY <2>1 DEF Statuses
  <2> QED  BY <2>2, StatusesWithAClass, CodesWithAClass DEF StatusDecides
<1> QED  BY <1>1, InputsAreAsked, PTL
----------------------------------------------------------------------------
(* Verdicts *)

VerdictOf(item) == [conv |-> item.conv, decision |-> NormalizeDecision(item.token)]

\* Item j is usable and no item before it decides the same conversation.
DecidesFirst(answer, known, j) ==
    /\ Usable(answer[j], known)
    /\ \A k \in 1 .. j - 1 :
          answer[k].conv = answer[j].conv => ~Usable(answer[k], known)

\* The verdicts v are those of the first i items: one per conversation, and the
\* first usable item's.
SaysFirst(v, answer, known, i) ==
    /\ v \in Seq({VerdictOf(answer[j]) : j \in 1 .. Len(answer)})
    /\ \A a, b \in 1 .. Len(v) : v[a].conv = v[b].conv => a = b
    /\ \A a \in 1 .. Len(v) :
          \E j \in 1 .. i : DecidesFirst(answer, known, j) /\ v[a] = VerdictOf(answer[j])
    /\ \A j \in 1 .. i :
          DecidesFirst(answer, known, j) => \E a \in 1 .. Len(v) : v[a] = VerdictOf(answer[j])

\* A usable item comes with or after the one that decides its conversation.
LEMMA SomeItemIsFirst ==
  ASSUME NEW S, NEW answer \in Seq(S), NEW known, NEW j \in 1 .. Len(answer),
         Usable(answer[j], known)
  PROVE  \E k \in 1 .. j : DecidesFirst(answer, known, k) /\ answer[k].conv = answer[j].conv
<1> DEFINE T == {k \in 1 .. j : answer[k].conv = answer[j].conv /\ Usable(answer[k], known)}
<1>1. Len(answer) \in Nat /\ T \in SUBSET Nat /\ j \in T
  BY LenProperties
<1>2. PICK k \in T : \A m \in T : k <= m
  <2> HIDE DEF T
  <2> QED  BY <1>1, LeastNatural
<1>3. k \in 1 .. j /\ answer[k].conv = answer[j].conv /\ Usable(answer[k], known)
  OBVIOUS
<1>4. ASSUME NEW m \in 1 .. k - 1, answer[m].conv = answer[k].conv, Usable(answer[m], known)
      PROVE  FALSE
  <2>1. m \in T
    BY <1>1, <1>3, <1>4
  <2> HIDE DEF T
  <2> QED  BY <1>1, <1>2, <1>4, <2>1
<1> QED  BY <1>3, <1>4 DEF DecidesFirst

\* One more item is taken exactly when it is the first to decide.
LEMMA TakeSaysFirst ==
  ASSUME NEW S, NEW answer \in Seq(S), NEW known, NEW i \in 0 .. Len(answer) - 1,
         NEW v, SaysFirst(v, answer, known, i)
  PROVE  SaysFirst(Take(v, answer[i + 1], known), answer, known, i + 1)
<1> DEFINE item == answer[i + 1]
           W == {VerdictOf(answer[j]) : j \in 1 .. Len(answer)}
           u == Append(v, VerdictOf(item))
<1>1. /\ Len(answer) \in Nat /\ i \in Nat /\ i + 1 \in 1 .. Len(answer)
      /\ 1 .. i \subseteq 1 .. i + 1
      /\ \A j \in 1 .. i + 1 : j \in 1 .. i \/ j = i + 1
  BY LenProperties
<1>2. v \in Seq(W) /\ Len(v) \in Nat /\ DOMAIN v = 1 .. Len(v)
  BY DEF SaysFirst
<1>3. \A j : VerdictOf(answer[j]).conv = answer[j].conv
  BY DEF VerdictOf
<1>4. item.conv \in Decided(v) <=> \E j \in 1 .. i : DecidesFirst(answer, known, j)
                                                    /\ answer[j].conv = item.conv
  <2>1. ASSUME NEW a \in 1 .. Len(v), v[a].conv = item.conv
        PROVE  \E j \in 1 .. i : DecidesFirst(answer, known, j) /\ answer[j].conv = item.conv
    <3>1. PICK j \in 1 .. i : DecidesFirst(answer, known, j) /\ v[a] = VerdictOf(answer[j])
      BY DEF SaysFirst
    <3>2. answer[j].conv = item.conv
      BY <1>3, <2>1, <3>1
    <3> QED  BY <3>1, <3>2
  <2>2. ASSUME NEW j \in 1 .. i, DecidesFirst(answer, known, j), answer[j].conv = item.conv
        PROVE  \E a \in 1 .. Len(v) : v[a].conv = item.conv
    <3>1. PICK a \in 1 .. Len(v) : v[a] = VerdictOf(answer[j])
      BY <2>2 DEF SaysFirst
    <3>2. v[a].conv = item.conv
      BY <1>3, <2>2, <3>1
    <3> QED  BY <3>2
  <2> QED  BY <1>2, <2>1, <2>2 DEF Decided
<1>5. DecidesFirst(answer, known, i + 1)
        <=> Usable(item, known) /\ item.conv \notin Decided(v)
  <2>1. ASSUME NEW k \in 1 .. i, Usable(answer[k], known), answer[k].conv = item.conv
        PROVE  \E j \in 1 .. i : DecidesFirst(answer, known, j) /\ answer[j].conv = item.conv
    <3>1. k \in 1 .. Len(answer) /\ 1 .. k \subseteq 1 .. i
      BY <1>1
    <3>2. PICK j \in 1 .. k : DecidesFirst(answer, known, j) /\ answer[j].conv = answer[k].conv
      BY <2>1, <3>1, SomeItemIsFirst
    <3> QED  BY <2>1, <3>1, <3>2
  <2>2. (i + 1) - 1 = i
    BY <1>1
  <2>3. DecidesFirst(answer, known, i + 1)
          <=> /\ Usable(item, known)
              /\ \A k \in 1 .. i : answer[k].conv = item.conv => ~Usable(answer[k], known)
    BY <2>2 DEF DecidesFirst
  <2>4. \A j : DecidesFirst(answer, known, j) => Usable(answer[j], known)
    BY DEF DecidesFirst
  <2> HIDE DEF item
  <2> QED  BY <1>4, <2>1, <2>3, <2>4
<1>6. CASE ~DecidesFirst(answer, known, i + 1)
  <2>1. Take(v, item, known) = v
    BY <1>5, <1>6 DEF Take, Usable
  <2>2. SaysFirst(v, answer, known, i + 1)
    BY <1>1, <1>6 DEF SaysFirst
  <2> QED  BY <2>1, <2>2
<1>7. CASE DecidesFirst(answer, known, i + 1)
  <2>1. Take(v, item, known) = u
    BY <1>5, <1>7 DEF Take, Usable, VerdictOf
  <2>2. VerdictOf(item) \in W
    BY <1>1
  <2>3. /\ u \in Seq(W) /\ Len(u) = Len(v) + 1
        /\ \A a \in 1 .. Len(v) : u[a] = v[a]
        /\ u[Len(v) + 1] = VerdictOf(item)
    <3> HIDE DEF W
    <3> QED  BY <1>2, <2>2
  <2>4. \A a \in 1 .. Len(v) : v[a].conv # item.conv
    BY <1>2, <1>5, <1>7 DEF Decided
  <2>5. 1 .. Len(v) \subseteq 1 .. Len(u) /\ Len(v) + 1 \in 1 .. Len(u)
        /\ \A a \in 1 .. Len(u) : a \in 1 .. Len(v) \/ a = Len(v) + 1
    BY <1>2, <2>3
  <2>6. u[Len(v) + 1].conv = item.conv
    BY <1>3, <2>3
  <2> HIDE DEF u, W
  <2>7. \A a, b \in 1 .. Len(u) : u[a].conv = u[b].conv => a = b
    BY <2>3, <2>4, <2>5, <2>6 DEF SaysFirst
  <2>8. \A a \in 1 .. Len(u) :
          \E j \in 1 .. i + 1 : DecidesFirst(answer, known, j) /\ u[a] = VerdictOf(answer[j])
    <3> TAKE a \in 1 .. Len(u)
    <3>1. CASE a \in 1 .. Len(v)
      <4>1. PICK j \in 1 .. i : DecidesFirst(answer, known, j) /\ v[a] = VerdictOf(answer[j])
        BY <3>1 DEF SaysFirst
      <4> QED  BY <1>1, <2>3, <3>1, <4>1
    <3>2. CASE a = Len(v) + 1
      <4>1. i + 1 \in 1 .. i + 1
        BY <1>1
      <4> QED  BY <1>7, <2>3, <3>2, <4>1
    <3> QED  BY <2>5, <3>1, <3>2
  <2>9. \A j \in 1 .. i + 1 : DecidesFirst(answer, known, j)
          => \E a \in 1 .. Len(u) : u[a] = VerdictOf(answer[j])
    <3> SUFFICES ASSUME NEW j \in 1 .. i + 1, DecidesFirst(answer, known, j)
                 PROVE  \E a \in 1 .. Len(u) : u[a] = VerdictOf(answer[j])
      OBVIOUS
    <3>1. CASE j \in 1 .. i
      <4>1. PICK a \in 1 .. Len(v) : v[a] = VerdictOf(answer[j])
        BY <3>1 DEF SaysFirst
      <4> QED  BY <2>3, <2>5, <4>1
    <3>2. CASE j = i + 1
      BY <2>3, <2>5, <3>2
    <3>3. j \in 1 .. i \/ j = i + 1
      BY <1>1
    <3> QED  BY <3>1, <3>2, <3>3
  <2>10. SaysFirst(u, answer, known, i + 1)
    <3>1. u \in Seq({VerdictOf(answer[j]) : j \in 1 .. Len(answer)})
      BY <2>3 DEF W
    <3> QED  BY <2>7, <2>8, <2>9, <3>1 DEF SaysFirst
  <2> QED  BY <2>1, <2>10
<1> QED  BY <1>6, <1>7

\* parse_verdicts returns the first verdict on each conversation of the tray
\* (gate.py 301-321), whatever the answer's length.
LEMMA ParsedSaysFirst ==
  ASSUME NEW S, NEW answer \in Seq(S), answer # None, NEW known
  PROVE  SaysFirst(ParseVerdicts(answer, known), answer, known, Len(answer))
<1> DEFINE n == Len(answer)
           Good == Seq({VerdictOf(answer[j]) : j \in 1 .. Len(answer)})
           next == [i \in 1 .. n |-> [v \in Good |-> Take(v, answer[i], known)]]
           Obeys(f) == f = [i \in 0 .. n |-> IF i = 0 THEN <<>>
                                             ELSE Take(f[i - 1], answer[i], known)]
<1>1. n \in Nat /\ \A i \in 1 .. n : answer[i] \in S
  BY LenProperties, ElementOfSeq
<1>2. <<>> \in Good
  OBVIOUS
<1>3. next \in [1 .. n -> [Good -> Good]]
  <2>1. \A v \in Good, i \in 1 .. n : Take(v, answer[i], known) \in Good
    <3> SUFFICES ASSUME NEW v \in Good, NEW i \in 1 .. n
                 PROVE  Take(v, answer[i], known) \in Good
      OBVIOUS
    <3>1. Append(v, VerdictOf(answer[i])) \in Good
      BY AppendProperties
    <3> QED  BY <3>1 DEF Take, VerdictOf
  <2> QED  BY <2>1
<1>4. PICK g \in [0 .. n -> Good] : Follows(g, n, <<>>, next)
  <2> HIDE DEF n, Good, next
  <2> QED  BY <1>1, <1>2, <1>3, RecursionIsDefined
<1>5. Obeys(g)
  <2>1. \A i \in 1 .. n : next[i][g[i - 1]] = Take(g[i - 1], answer[i], known)
    <3> HIDE DEF Good
    <3>1. ASSUME NEW i \in 1 .. n PROVE i - 1 \in 0 .. n
      BY <1>1
    <3> QED  BY <1>4, <3>1
  <2> HIDE DEF next
  <2>2. g = [i \in 0 .. n |-> IF i = 0 THEN <<>> ELSE next[i][g[i - 1]]]
    BY <1>4 DEF Follows
  <2>3. \A i \in 0 .. n : i = 0 \/ i \in 1 .. n
    BY <1>1
  <2> QED  BY <2>1, <2>2, <2>3
<1> DEFINE f == CHOOSE h : Obeys(h)
<1>6. Obeys(f)
  BY <1>5
<1>7. ParseVerdicts(answer, known) = f[n]
  BY DEF ParseVerdicts
<1> HIDE DEF f
<1>8. SaysFirst(f[n], answer, known, n)
  <2> DEFINE T == {i \in 0 .. n : SaysFirst(f[i], answer, known, i)}
  <2>1. 0 \in T
    <3>1. f[0] = <<>>
      BY <1>1, <1>6
    <3>2. SaysFirst(<<>>, answer, known, 0)
      BY DEF SaysFirst
    <3> QED  BY <1>1, <3>1, <3>2
  <2>2. ASSUME NEW i \in 0 .. n - 1, i \in T PROVE i + 1 \in T
    <3>1. f[i + 1] = Take(f[i], answer[i + 1], known)
      BY <1>1, <1>6
    <3> QED  BY <1>1, <2>2, <3>1, TakeSaysFirst
  <2>3. 0 .. n \subseteq T
    <3> HIDE DEF T
    <3> QED  BY <1>1, <2>1, <2>2, StepByStep
  <2> QED  BY <1>1, <2>3
<1> QED  BY <1>7, <1>8

\* The item the property finds for a conversation is the one that decides it.
FirstOn(answer, known, c) ==
    SelectInSeq(answer, LAMBDA item : item.conv = c /\ Usable(item, known))

LEMMA FirstIsFound ==
  ASSUME NEW S, NEW answer \in Seq(S), NEW known, NEW c
  PROVE  LET at == FirstOn(answer, known, c)
         IN  /\ at # 0 => /\ at \in 1 .. Len(answer) /\ answer[at].conv = c
                          /\ DecidesFirst(answer, known, at)
             /\ \A j \in 1 .. Len(answer) :
                   answer[j].conv = c /\ DecidesFirst(answer, known, j) => at = j
<1> DEFINE I == {i \in 1 .. Len(answer) : answer[i].conv = c /\ Usable(answer[i], known)}
           at == FirstOn(answer, known, c)
<1>1. Len(answer) \in Nat /\ I \in SUBSET Nat
  BY LenProperties
<1>2. at = IF I # {} THEN Min(I) ELSE 0
  BY DEF SelectInSeq, FirstOn
<1>3. I # {} => Min(I) \in I /\ \A m \in I : Min(I) <= m
  <2> HIDE DEF I
  <2> QED  BY <1>1, LeastNatural DEF Min
<1>4. ASSUME at # 0
      PROVE  /\ at \in 1 .. Len(answer) /\ answer[at].conv = c
             /\ DecidesFirst(answer, known, at)
  <2>1. at \in I /\ \A m \in I : at <= m
    BY <1>2, <1>3, <1>4
  <2> HIDE DEF at
  <2>2. at \in 1 .. Len(answer) /\ answer[at].conv = c /\ Usable(answer[at], known)
    BY <2>1
  <2>3. ASSUME NEW k \in 1 .. at - 1, answer[k].conv = c, Usable(answer[k], known)
        PROVE  FALSE
    <3>1. k \in I /\ k < at
      BY <1>1, <2>2, <2>3
    <3> HIDE DEF I
    <3> QED  BY <1>1, <2>1, <3>1
  <2> QED  BY <2>2, <2>3 DEF DecidesFirst
<1>5. ASSUME NEW j \in 1 .. Len(answer), answer[j].conv = c, DecidesFirst(answer, known, j)
      PROVE  at = j
  <2>1. j \in I
    BY <1>5 DEF DecidesFirst
  <2>2. ASSUME NEW k \in I, k < j PROVE FALSE
    <3>1. k \in 1 .. j - 1
      BY <1>1, <2>2
    <3> QED  BY <1>5, <2>2, <3>1 DEF DecidesFirst
  <2>3. at \in I /\ at <= j
    <3> HIDE DEF I
    <3> QED  BY <1>2, <1>3, <2>1
  <2> HIDE DEF at, I
  <2>4. at \in Nat /\ j \in Nat
    BY <1>1, <2>1, <2>3
  <2> QED  BY <2>2, <2>3, <2>4
<1> HIDE DEF at
<1> QED  BY <1>4, <1>5 DEF at

\* A conversation on the tray is decided exactly when some item of the answer
\* decides it, and as the first such item says (gate.py 301-321): FirstUsableItemCounts,
\* for answers of any length.
THEOREM TheFirstUsableItemCounts == LocalSpec => []FirstUsableItemCounts
<1>1. input \in Inputs => FirstUsableItemCounts
  <2> SUFFICES ASSUME input \in Inputs, input.of = "verdicts", input.answer # None
               PROVE  FirstUsableItemCounts
    BY DEF FirstUsableItemCounts
  <2> DEFINE answer == input.answer
             known == input.known
             n == Len(answer)
             verdicts == ParseVerdicts(answer, known)
             First(c) == FirstOn(answer, known, c)
             decided == {c \in known : First(c) # 0}
  <2>1. answer \in Seq(AnswerItems)
    <3>1. answer \in BoundedSeq(AnswerItems, MaxItems)
      BY DEF Inputs, ErrorInputs, VerdictInputs, SignatureInputs
    <3>2. PICK m \in 0 .. MaxItems : answer \in [1 .. m -> AnswerItems]
      BY <3>1 DEF BoundedSeq, SeqOf
    <3> QED  BY <3>2, LengthsAssumption
  <2>2. SaysFirst(verdicts, answer, known, n)
    BY <2>1, ParsedSaysFirst
  <2>3. \A c : First(c) # 0 => /\ First(c) \in 1 .. n /\ answer[First(c)].conv = c
                               /\ DecidesFirst(answer, known, First(c))
    BY <2>1, FirstIsFound
  <2>4. \A j \in 1 .. n : DecidesFirst(answer, known, j) => First(answer[j].conv) = j
    BY <2>1, FirstIsFound
  <2>5. \A j \in 1 .. n : j # 0 /\ (DecidesFirst(answer, known, j) => answer[j].conv \in known)
    BY <2>1 DEF DecidesFirst, Usable
  <2>6. DOMAIN verdicts = 1 .. Len(verdicts)
    BY <2>2 DEF SaysFirst
  <2> HIDE DEF answer, known, n, verdicts, First
  <2>7. IsInjective(verdicts)
    BY <2>2, <2>6 DEF SaysFirst, IsInjective
  <2>8. ASSUME NEW a \in 1 .. Len(verdicts)
        PROVE  \E c \in decided :
                  verdicts[a] = [conv |-> c, decision |-> NormalizeDecision(answer[First(c)].token)]
    <3>1. PICK j \in 1 .. n : DecidesFirst(answer, known, j) /\ verdicts[a] = VerdictOf(answer[j])
      BY <2>2, <2>8 DEF SaysFirst
    <3>2. First(answer[j].conv) = j /\ answer[j].conv \in decided
      BY <2>4, <2>5, <3>1
    <3> QED  BY <3>1, <3>2 DEF VerdictOf
  <2>9. ASSUME NEW c \in decided
        PROVE  \E a \in 1 .. Len(verdicts) :
                  verdicts[a] = [conv |-> c, decision |-> NormalizeDecision(answer[First(c)].token)]
    <3>1. First(c) \in 1 .. n /\ answer[First(c)].conv = c /\ DecidesFirst(answer, known, First(c))
      BY <2>3
    <3>2. PICK a \in 1 .. Len(verdicts) : verdicts[a] = VerdictOf(answer[First(c)])
      BY <2>2, <3>1 DEF SaysFirst
    <3> QED  BY <3>1, <3>2 DEF VerdictOf
  <2>10. Range(verdicts) = {[conv |-> c, decision |-> NormalizeDecision(answer[First(c)].token)] :
                               c \in decided}
    BY <2>6, <2>8, <2>9 DEF Range
  <2> QED  BY <2>7, <2>10 DEF FirstUsableItemCounts, FirstOn, First, verdicts, answer, known
<1> QED  BY <1>1, InputsAreAsked, PTL
----------------------------------------------------------------------------
(* Signatures *)

\* The parts that give a timestamp, and those that give a digest
Readable(parts) ==
    {j \in 1 .. Len(parts) : parts[j].key = "t" /\ Finite(parts[j].value)}
Signing(parts) == {j \in 1 .. Len(parts) : parts[j].key = "v1"}

\* What a part says: a timestamp without its fraction, a digest as it is
Word(part) == IF part.key = "t" THEN Seconds(part.value) ELSE part.value

\* The value is what the last of the parts in W among the first i says, if any.
IsOfLast(value, parts, W, i) ==
    \/ value = Missing /\ \A j \in W : j > i
    \/ \E j \in W : j <= i /\ value = Word(parts[j]) /\ \A k \in W : k <= i => k <= j

ReadSoFar(parsed, parts, i) ==
    /\ parsed = [at |-> parsed.at, digest |-> parsed.digest]
    /\ IsOfLast(parsed.at, parts, Readable(parts), i)
    /\ IsOfLast(parsed.digest, parts, Signing(parts), i)

\* One more part counts as the last of its kind, or changes nothing.
LEMMA LastOfMore ==
  ASSUME NEW parts, NEW n \in Nat, NEW W \in SUBSET (1 .. n), NEW i \in 0 .. n - 1, NEW value,
         IsOfLast(value, parts, W, i)
  PROVE  IsOfLast(IF i + 1 \in W THEN Word(parts[i + 1]) ELSE value, parts, W, i + 1)
<1>1. \A j \in W : j \in Nat /\ (j <= i + 1 <=> j <= i \/ j = i + 1)
  OBVIOUS
<1>2. CASE i + 1 \in W
  <2>1. \A k \in W : k <= i + 1 => k <= i + 1
    OBVIOUS
  <2>2. i + 1 <= i + 1
    OBVIOUS
  <2> QED  BY <1>2, <2>1, <2>2 DEF IsOfLast
<1>3. CASE i + 1 \notin W
  <2>1. \A j \in W : j <= i + 1 <=> j <= i
    BY <1>1, <1>3
  <2>2. \A j \in W : j > i => j > i + 1
    BY <1>1, <1>3
  <2> QED  BY <1>3, <2>1, <2>2 DEF IsOfLast
<1> QED  BY <1>2, <1>3

LEMMA ReadsOneMore ==
  ASSUME NEW S, NEW parts \in Seq(S), NEW i \in 0 .. Len(parts) - 1,
         NEW parsed, ReadSoFar(parsed, parts, i)
  PROVE  ReadSoFar(ReadsPart(parsed, parts[i + 1]), parts, i + 1)
<1> DEFINE part == parts[i + 1]
           R == Readable(parts)
           D == Signing(parts)
<1>1. Len(parts) \in Nat /\ i + 1 \in 1 .. Len(parts)
  BY LenProperties
<1>2. R \in SUBSET (1 .. Len(parts)) /\ D \in SUBSET (1 .. Len(parts))
  BY DEF Readable, Signing
<1>3. /\ i + 1 \in R <=> part.key = "t" /\ Finite(part.value)
      /\ i + 1 \in D <=> part.key = "v1"
  BY <1>1 DEF Readable, Signing
<1>4. ReadsPart(parsed, part)
        = [at |-> IF i + 1 \in R THEN Word(part) ELSE parsed.at,
           digest |-> IF i + 1 \in D THEN Word(part) ELSE parsed.digest]
  <2>1. PICK a, d : parsed = [at |-> a, digest |-> d]
    BY DEF ReadSoFar
  <2> HIDE DEF part, R, D
  <2>2. CASE part.key = "t" /\ Finite(part.value)
    BY <1>3, <2>1, <2>2 DEF ReadsPart, Word
  <2>3. CASE part.key = "v1"
    BY <1>3, <2>1, <2>3 DEF ReadsPart, Word
  <2>4. CASE ~(part.key = "t" /\ Finite(part.value)) /\ part.key # "v1"
    BY <1>3, <2>1, <2>4 DEF ReadsPart
  <2> QED  BY <2>2, <2>3, <2>4
<1>5. /\ IsOfLast(IF i + 1 \in R THEN Word(part) ELSE parsed.at, parts, R, i + 1)
      /\ IsOfLast(IF i + 1 \in D THEN Word(part) ELSE parsed.digest, parts, D, i + 1)
  BY <1>1, <1>2, LastOfMore DEF ReadSoFar
<1> HIDE DEF part, R, D
<1>6. ReadSoFar(ReadsPart(parsed, part), parts, i + 1)
  BY <1>4, <1>5 DEF ReadSoFar, R, D
<1> QED  BY <1>6 DEF part

\* _parse_signature_header reads the last readable timestamp and the last digest
\* (_webhook_verify.py 132-152), however many parts there are.
LEMMA ParsedReadsAll ==
  ASSUME NEW S, NEW header, header.form = "pairs", header.parts \in Seq(S)
  PROVE  ReadSoFar(Parsed(header), header.parts, Len(header.parts))
<1> DEFINE parts == header.parts
           n == Len(parts)
           nothing == [at |-> Missing, digest |-> Missing]
           V == {parts[j].value : j \in 1 .. n} \cup {Seconds(parts[j].value) : j \in 1 .. n}
                \cup {Missing}
           Good == [at : V, digest : V]
           next == [i \in 1 .. n |-> [p \in Good |-> ReadsPart(p, parts[i])]]
           Obeys(f) == f = [i \in 0 .. n |-> IF i = 0 THEN nothing
                                             ELSE ReadsPart(f[i - 1], parts[i])]
<1>1. n \in Nat /\ parts \in Seq(S)
  BY LenProperties
<1>2. nothing \in Good
  OBVIOUS
<1>3. next \in [1 .. n -> [Good -> Good]]
  <2>1. ASSUME NEW p \in Good, NEW i \in 1 .. n
        PROVE  ReadsPart(p, parts[i]) \in Good
    <3>1. parts[i].value \in V /\ Seconds(parts[i].value) \in V
      OBVIOUS
    <3> HIDE DEF V
    <3>2. \A v \in V : [p EXCEPT !.at = v] \in Good /\ [p EXCEPT !.digest = v] \in Good
      OBVIOUS
    <3> QED  BY <3>1, <3>2 DEF ReadsPart
  <2> HIDE DEF Good
  <2> QED  BY <2>1
<1>4. PICK g \in [0 .. n -> Good] : Follows(g, n, nothing, next)
  <2> HIDE DEF n, Good, next, nothing
  <2> QED  BY <1>1, <1>2, <1>3, RecursionIsDefined
<1>5. Obeys(g)
  <2>1. \A i \in 1 .. n : next[i][g[i - 1]] = ReadsPart(g[i - 1], parts[i])
    <3> HIDE DEF Good
    <3>1. ASSUME NEW i \in 1 .. n PROVE i - 1 \in 0 .. n
      BY <1>1
    <3> QED  BY <1>4, <3>1
  <2> HIDE DEF next, nothing
  <2>2. g = [i \in 0 .. n |-> IF i = 0 THEN nothing ELSE next[i][g[i - 1]]]
    BY <1>4 DEF Follows
  <2>3. \A i \in 0 .. n : i = 0 \/ i \in 1 .. n
    BY <1>1
  <2> QED  BY <2>1, <2>2, <2>3
<1> DEFINE f == CHOOSE h : Obeys(h)
<1>6. Obeys(f)
  BY <1>5
<1>7. Parsed(header) = f[n]
  BY DEF Parsed
<1> HIDE DEF f
<1>8. ReadSoFar(f[n], parts, n)
  <2> DEFINE T == {i \in 0 .. n : ReadSoFar(f[i], parts, i)}
  <2>1. 0 \in T
    <3>1. f[0] = nothing
      BY <1>1, <1>6
    <3>2. (\A j \in Readable(parts) : j > 0) /\ (\A j \in Signing(parts) : j > 0)
      BY <1>1 DEF Readable, Signing
    <3>3. ReadSoFar(nothing, parts, 0)
      BY <3>2 DEF ReadSoFar, IsOfLast
    <3> QED  BY <1>1, <3>1, <3>3
  <2>2. ASSUME NEW i \in 0 .. n - 1, i \in T PROVE i + 1 \in T
    <3>1. f[i + 1] = ReadsPart(f[i], parts[i + 1])
      BY <1>1, <1>6
    <3> QED  BY <1>1, <2>2, <3>1, ReadsOneMore
  <2>3. 0 .. n \subseteq T
    <3> HIDE DEF T
    <3> QED  BY <1>1, <2>1, <2>2, StepByStep
  <2> QED  BY <1>1, <2>3
<1> QED  BY <1>7, <1>8

KeysApart(parts) == \A i, j \in 1 .. Len(parts) : parts[i].key = parts[j].key => i = j

\* With one part per key, what was read is what the parts say.
LEMMA OnePerKey ==
  ASSUME NEW S, NEW parts \in Seq(S), KeysApart(parts),
         NEW parsed, ReadSoFar(parsed, parts, Len(parts))
  PROVE  /\ \A j \in Readable(parts) : parsed.at = Word(parts[j])
         /\ Readable(parts) = {} => parsed.at = Missing
         /\ \A j \in Signing(parts) : parsed.digest = Word(parts[j])
         /\ Signing(parts) = {} => parsed.digest = Missing
<1>1. Len(parts) \in Nat
  BY LenProperties
<1>2. /\ \A j \in Readable(parts) : j \in 1 .. Len(parts) /\ parts[j].key = "t"
      /\ \A j \in Signing(parts) : j \in 1 .. Len(parts) /\ parts[j].key = "v1"
  BY DEF Readable, Signing
<1>3. /\ \A i, j \in Readable(parts) : i = j
      /\ \A i, j \in Signing(parts) : i = j
  BY <1>2 DEF KeysApart
<1>4. /\ \A j \in Readable(parts) : ~(j > Len(parts))
      /\ \A j \in Signing(parts) : ~(j > Len(parts))
  BY <1>1, <1>2
<1> QED  BY <1>3, <1>4 DEF ReadSoFar, IsOfLast

\* The parts of a header in the opposite order
LEMMA ReversedParts ==
  ASSUME NEW S, NEW parts \in Seq(S)
  PROVE  /\ Reverse(parts) \in [1 .. Len(parts) -> S]
         /\ Len(Reverse(parts)) = Len(parts)
         /\ KeysApart(parts) => KeysApart(Reverse(parts))
         /\ \A j \in Readable(parts) :
               \E i \in Readable(Reverse(parts)) : Reverse(parts)[i] = parts[j]
         /\ \A j \in Signing(parts) :
               \E i \in Signing(Reverse(parts)) : Reverse(parts)[i] = parts[j]
         /\ Readable(parts) = {} => Readable(Reverse(parts)) = {}
         /\ Signing(parts) = {} => Signing(Reverse(parts)) = {}

<1> DEFINE q == Reverse(parts)
           n == Len(parts)
           Other(i) == (n - i) + 1
<1>1. n \in Nat /\ \A i \in 1 .. n : parts[i] \in S
  BY LenProperties, ElementOfSeq
<1>2. \A i \in 1 .. n : Other(i) \in 1 .. n /\ Other(Other(i)) = i
  BY <1>1
<1>3. q = [i \in 1 .. n |-> parts[Other(i)]]
  BY DEF Reverse
<1>4. q \in [1 .. n -> S] /\ \A i \in 1 .. n : q[i] = parts[Other(i)]
  BY <1>1, <1>2, <1>3
<1>5. Len(q) = n
  BY <1>1, <1>4
<1>6. \A i \in 1 .. n : parts[i] = q[Other(i)]
  BY <1>2, <1>4
<1>7. \A i, j \in 1 .. n : Other(i) = Other(j) => i = j
  BY <1>1
<1> HIDE DEF q, n, Other
<1>8. KeysApart(parts) => KeysApart(q)
  BY <1>2, <1>4, <1>5, <1>7 DEF KeysApart, n
<1>9. \A j \in 1 .. n : /\ j \in Readable(parts) => Other(j) \in Readable(q)
                        /\ j \in Signing(parts) => Other(j) \in Signing(q)
  BY <1>2, <1>5, <1>6 DEF Readable, Signing, n
<1>10. \A j \in 1 .. n : /\ j \in Readable(q) => Other(j) \in Readable(parts)
                         /\ j \in Signing(q) => Other(j) \in Signing(parts)
  BY <1>2, <1>4, <1>5 DEF Readable, Signing, n
<1>11. /\ Readable(parts) \subseteq 1 .. n /\ Signing(parts) \subseteq 1 .. n
       /\ Readable(q) \subseteq 1 .. n /\ Signing(q) \subseteq 1 .. n
  BY <1>5 DEF Readable, Signing, n
<1>12. /\ \A j \in Readable(parts) : \E i \in Readable(q) : q[i] = parts[j]
       /\ \A j \in Signing(parts) : \E i \in Signing(q) : q[i] = parts[j]
  BY <1>6, <1>9, <1>11
<1>13. /\ Readable(parts) = {} => Readable(q) = {}
       /\ Signing(parts) = {} => Signing(q) = {}
  BY <1>10, <1>11
<1> QED  BY <1>4, <1>5, <1>8, <1>12, <1>13 DEF q, n

LEMMA ReversedHasTheSame ==
  ASSUME NEW S, NEW parts \in Seq(S)
  PROVE  /\ DOMAIN parts = 1 .. Len(parts) /\ DOMAIN Reverse(parts) = 1 .. Len(parts)
         /\ \A i \in 1 .. Len(parts) : \E j \in 1 .. Len(parts) : Reverse(parts)[j] = parts[i]
         /\ \A j \in 1 .. Len(parts) : \E i \in 1 .. Len(parts) : parts[i] = Reverse(parts)[j]
<1> DEFINE n == Len(parts)
           Other(i) == (n - i) + 1
<1>1. n \in Nat /\ DOMAIN parts = 1 .. n
  BY LenProperties
<1>2. Reverse(parts) = [i \in 1 .. n |-> parts[Other(i)]]
  BY DEF Reverse
<1>3. \A i \in 1 .. n : Other(i) \in 1 .. n /\ Other(Other(i)) = i
  BY <1>1
<1> HIDE DEF n, Other
<1> QED  BY <1>1, <1>2, <1>3 DEF n

LEMMA OverflowsIn ==
  ASSUME NEW header, header.form = "pairs", NEW parts, header.parts = parts
  PROVE  Overflows(header)
           <=> \E i \in DOMAIN parts : parts[i].key = "t" /\ parts[i].value = Infinite
BY DEF Overflows

\* A header of pairs with one part per key is read alike in either order.
LEMMA OrderDoesNotMatter ==
  ASSUME NEW S, NEW parts \in Seq(S), KeysApart(parts), NEW a, NEW b,
         a.form = "pairs", a.parts = parts, b.form = "pairs", b.parts = Reverse(parts)
  PROVE  Parsed(a) = Parsed(b) /\ (Overflows(a) <=> Overflows(b))
<1> DEFINE q == Reverse(parts)
<1>1. q \in Seq(S) /\ Len(parts) \in Nat
  BY ReversedParts, LenProperties
<1>2. ReadSoFar(Parsed(a), parts, Len(parts))
  BY ParsedReadsAll
<1>3. ReadSoFar(Parsed(b), q, Len(q))
  BY <1>1, ParsedReadsAll
<1>4. KeysApart(q)
  BY ReversedParts
<1>5. Parsed(a).at = Parsed(b).at
  <2>1. CASE Readable(parts) = {}
    <3>1. Readable(q) = {}
      BY <2>1, ReversedParts
    <3> QED  BY <1>1, <1>2, <1>3, <1>4, <2>1, <3>1, OnePerKey
  <2>2. CASE Readable(parts) # {}
    <3>1. PICK j \in Readable(parts) : TRUE
      BY <2>2
    <3>2. PICK i \in Readable(q) : q[i] = parts[j]
      BY ReversedParts
    <3>3. Parsed(a).at = Word(parts[j])
      BY <1>2, OnePerKey
    <3>4. Parsed(b).at = Word(q[i])
      BY <1>1, <1>3, <1>4, OnePerKey
    <3> QED  BY <3>2, <3>3, <3>4
  <2> QED  BY <2>1, <2>2
<1>6. Parsed(a).digest = Parsed(b).digest
  <2>1. CASE Signing(parts) = {}
    <3>1. Signing(q) = {}
      BY <2>1, ReversedParts
    <3> QED  BY <1>1, <1>2, <1>3, <1>4, <2>1, <3>1, OnePerKey
  <2>2. CASE Signing(parts) # {}
    <3>1. PICK j \in Signing(parts) : TRUE
      BY <2>2
    <3>2. PICK i \in Signing(q) : q[i] = parts[j]
      BY ReversedParts
    <3>3. Parsed(a).digest = Word(parts[j])
      BY <1>2, OnePerKey
    <3>4. Parsed(b).digest = Word(q[i])
      BY <1>1, <1>3, <1>4, OnePerKey
    <3> QED  BY <3>2, <3>3, <3>4
  <2> QED  BY <2>1, <2>2
<1>7. Overflows(a) <=> Overflows(b)
  <2> DEFINE D == 1 .. Len(parts)
  <2>1. DOMAIN parts = D /\ DOMAIN q = D
    BY ReversedHasTheSame
  <2>2. /\ \A i \in D : \E j \in D : q[j] = parts[i]
        /\ \A j \in D : \E i \in D : parts[i] = q[j]
    BY ReversedHasTheSame
  <2>3. /\ Overflows(a) <=> \E i \in DOMAIN parts : parts[i].key = "t" /\ parts[i].value = Infinite
        /\ Overflows(b) <=> \E i \in DOMAIN q : q[i].key = "t" /\ q[i].value = Infinite
    BY OverflowsIn
  <2> HIDE DEF q, D
  <2>4. ASSUME NEW i \in D, parts[i].key = "t", parts[i].value = Infinite PROVE Overflows(b)
    <3>1. PICK j \in D : q[j] = parts[i]
      BY <2>2
    <3> QED  BY <2>1, <2>3, <2>4, <3>1
  <2>5. ASSUME NEW j \in D, q[j].key = "t", q[j].value = Infinite PROVE Overflows(a)
    <3>1. PICK i \in D : parts[i] = q[j]
      BY <2>2
    <3> QED  BY <2>1, <2>3, <2>5, <3>1
  <2> QED  BY <2>1, <2>3, <2>4, <2>5
<1> QED  BY <1>2, <1>3, <1>5, <1>6, <1>7 DEF ReadSoFar

\* What "verified" takes (_webhook_verify.py 86-120)
LEMMA VerifiedMeans ==
  ASSUME NEW header, header # Missing, NEW body, NEW tolerance \in Nat
  PROVE  Verify(header, body, "ours", Now, tolerance) = "verified"
           <=> LET parsed == Parsed(header)
               IN  /\ ~Overflows(header)
                   /\ parsed.digest \notin {Missing, Garbled}
                   /\ ~Skewed(parsed.at, Now, tolerance)
                   /\ parsed.digest = Hmac("ours", parsed.at, body)
                   /\ body = "object"
<1> DEFINE parsed == Parsed(header)
<1>1. Verify(header, body, "ours", Now, tolerance)
        = IF Overflows(header) THEN "OverflowError"
          ELSE CASE parsed.digest \in {Missing, Garbled} -> "malformed_signature"
                 [] parsed.digest \notin {Missing, Garbled} /\ Skewed(parsed.at, Now, tolerance) ->
                        "timestamp_skew"
                 [] OTHER -> IF parsed.digest # Hmac("ours", parsed.at, body) THEN "bad_signature"
                             ELSE IF body # "object" THEN "malformed_payload"
                             ELSE "verified"
  BY DEF Verify
<1> HIDE DEF parsed
<1>2. Skewed(parsed.at, Now, tolerance) \in BOOLEAN
  BY DEF Skewed
<1> QED  BY <1>1, <1>2 DEF parsed

\* Only what the secret's holder signed with the very timestamp held against the
\* clock, past or future, is verified, an honestly signed object always, and the
\* order of the parts does not matter (_webhook_verify.py 86-120, 132-152):
\* VerifiesTheSigned, for headers of any number of parts.
THEOREM TheSignedIsVerified == LocalSpec => []VerifiesTheSigned
<1>1. input \in Inputs => VerifiesTheSigned
  <2> SUFFICES ASSUME input \in Inputs, input.of = "signature", input.header # Missing
               PROVE  VerifiesTheSigned
    BY DEF VerifiesTheSigned
  <2> DEFINE header == input.header
             body == input.body
             parsed == Parsed(header)
             parts == header.parts
             keys == [i \in DOMAIN header.parts |-> header.parts[i].key]
             reversed == [header EXCEPT !.parts = Reverse(@)]
  <2>1. /\ header \in Signatures /\ body \in {"object", "list"}
        /\ input.tolerance \in {0, 1} /\ header # Missing
    BY DEF Inputs, ErrorInputs, VerdictInputs, SignatureInputs, Headers
  <2>2. Verified(header)
          <=> /\ ~Overflows(header)
              /\ parsed.digest \notin {Missing, Garbled}
              /\ ~Skewed(parsed.at, Now, input.tolerance)
              /\ parsed.digest = Hmac("ours", parsed.at, body)
              /\ body = "object"
    <3>1. input.tolerance \in Nat
      BY <2>1
    <3> HIDE DEF header
    <3> QED  BY <2>1, <3>1, VerifiedMeans DEF Verified
  <2>3. ASSUME header.form = "pairs"
        PROVE  /\ header \in [form : {"pairs"}, parts : BoundedSeq(Parts, MaxParts)]
               /\ parts \in Seq(Parts) /\ Len(parts) \in 0 .. MaxParts
               /\ parsed.at \in Times
    <3>1. header \in [form : {"pairs"}, parts : BoundedSeq(Parts, MaxParts)]
      BY <2>1, <2>3 DEF Signatures
    <3>2. PICK m \in 0 .. MaxParts : parts \in [1 .. m -> Parts]
      BY <3>1 DEF BoundedSeq, SeqOf
    <3>3. parts \in Seq(Parts) /\ Len(parts) = m
      BY <3>2, LengthsAssumption
    <3>4. ReadSoFar(parsed, parts, Len(parts))
      BY <2>3, <3>3, ParsedReadsAll
    <3>5. \A j \in Readable(parts) : Word(parts[j]) \in Times
      <4>1. \A j \in 1 .. Len(parts) : parts[j] \in Parts
        BY <3>3, ElementOfSeq
      <4>2. \A j \in Readable(parts) : parts[j].key = "t" /\ parts[j].value \in Sent
        BY <4>1 DEF Readable, Parts, Finite
      <4> QED  BY <4>2 DEF Word, Times
    <3> HIDE DEF parsed, parts
    <3>6. parsed.at \in Times
      BY <3>4, <3>5 DEF ReadSoFar, IsOfLast, Times
    <3> QED  BY <3>1, <3>2, <3>3, <3>6 DEF parts
  <2>4. parsed.at \in Times
    <3>1. CASE header.form = "pairs"
      BY <2>3, <3>1
    <3>2. CASE header.form # "pairs"
      <4>1. header.form = "bare"
        BY <2>1, <3>2 DEF Signatures
      <4> QED  BY <4>1 DEF Parsed, Times
    <3> QED  BY <3>1, <3>2
  <2>5. \A sent \in Sent : Seconds(sent) \in {3, 4, 6, 7}
    BY DEF Sent, Seconds, Second
  <2>6. Verified(header) =>
          /\ parsed.digest = Hmac("ours", parsed.at, "object")
          /\ body = "object"
          /\ parsed.at = Missing \/ input.tolerance = 0 \/ Fresh(parsed.at)
    <3> HIDE DEF parsed, header, body
    <3>1. parsed.at \in {3, 4, 6, 7, Missing}
      BY <2>4, <2>5 DEF Times
    <3> QED  BY <2>1, <2>2, <3>1 DEF Skewed, Fresh, Now, Second
  <2>7. ASSUME header.form = "pairs", IsInjective(keys)
        PROVE  /\ Verified(header) <=> Verified(reversed)
               /\ \A sent \in Sent :
                    /\ body = "object" /\ Range(Honest(sent)) \subseteq Range(parts)
                    /\ input.tolerance = 0 \/ Fresh(Seconds(sent))
                    => Verified(header)
    <3>1. DOMAIN parts = 1 .. Len(parts) /\ Len(parts) \in Nat
      BY <2>3, <2>7, LenProperties
    <3>2. KeysApart(parts)
      BY <2>7, <3>1 DEF KeysApart, IsInjective
    <3>3. ReadSoFar(parsed, parts, Len(parts))
      BY <2>3, <2>7, ParsedReadsAll
    <3>4. reversed.form = "pairs" /\ reversed.parts = Reverse(parts)
      BY <2>3, <2>7
    <3>5. Parsed(reversed) = parsed /\ (Overflows(header) <=> Overflows(reversed))
      <4> HIDE DEF reversed
      <4> QED  BY <2>3, <2>7, <3>2, <3>4, OrderDoesNotMatter
    <3>6. reversed # Missing
      <4>1. Reverse(parts) \in BoundedSeq(Parts, MaxParts)
        BY <2>3, <2>7, ReversedParts DEF BoundedSeq, SeqOf
      <4>2. reversed \in Signatures
        BY <2>3, <2>7, <4>1 DEF Signatures
      <4> QED  BY <4>2, SignatureAssumption
    <3>7. Verified(header) <=> Verified(reversed)
      <4> HIDE DEF reversed
      <4> QED  BY <2>1, <2>2, <3>5, <3>6, VerifiedMeans DEF Verified
    <3>8. ASSUME NEW sent \in Sent, body = "object", Range(Honest(sent)) \subseteq Range(parts),
                 input.tolerance = 0 \/ Fresh(Seconds(sent))
          PROVE  Verified(header)
      <4> DEFINE at == Seconds(sent)
                 stamp == [key |-> "t", value |-> sent]
                 seal == [key |-> "v1", value |-> Hmac("ours", at, body)]
      <4>1. stamp \in Range(parts) /\ seal \in Range(parts)
        <5>1. Honest(sent) = <<stamp, seal>>
          BY DEF Honest
        <5>2. DOMAIN <<stamp, seal>> = 1 .. 2
          OBVIOUS
        <5>3. stamp \in Range(Honest(sent)) /\ seal \in Range(Honest(sent))
          <6> HIDE DEF stamp, seal
          <6> QED  BY <5>1, <5>2 DEF Range
        <5> QED  BY <3>8, <5>3
      <4>2. PICK i \in 1 .. Len(parts) : parts[i] = stamp
        BY <3>1, <4>1 DEF Range
      <4>3. PICK j \in 1 .. Len(parts) : parts[j] = seal
        BY <3>1, <4>1 DEF Range
      <4>4. i \in Readable(parts) /\ j \in Signing(parts)
        <5>1. sent # Garbled /\ sent # Infinite
          <6>1. sent \in Int
            BY DEF Sent
          <6>2. Garbled \notin Int /\ Infinite \notin Int
            BY SignatureAssumption, Zenon
          <6> QED  BY <6>1, <6>2, Zenon
        <5>2. stamp.key = "t" /\ stamp.value = sent /\ seal.key = "v1"
          OBVIOUS
        <5>3. parts[i].key = "t" /\ parts[i].value = sent /\ parts[j].key = "v1"
          BY <4>2, <4>3, <5>2
        <5>4. Finite(sent)
          BY <5>1 DEF Finite
        <5> HIDE DEF stamp, seal, parts
        <5> QED  BY <5>3, <5>4 DEF Readable, Signing
      <4>5. Word(stamp) = at /\ Word(seal) = Hmac("ours", at, body)
        BY DEF Word
      <4>6. parsed.at = at /\ parsed.digest = Hmac("ours", at, body)
        <5> HIDE DEF parsed, parts, stamp, seal, at
        <5> QED  BY <2>3, <2>7, <3>2, <3>3, <4>2, <4>3, <4>4, <4>5, OnePerKey
      <4>7. Hmac("ours", at, body) \in Digests
        <5>1. at \in Times
          BY DEF Times
        <5>2. body \in {"object", "list"}
          BY <2>1
        <5> HIDE DEF at, body
        <5> QED  BY <5>1, <5>2 DEF Digests
      <4>8. parsed.digest \notin {Missing, Garbled}
        BY <4>6, <4>7, SignatureAssumption
      <4>9. at \in {3, 4, 6, 7}
        BY <2>5
      <4>10. ~Skewed(parsed.at, Now, input.tolerance)
        <5> HIDE DEF at, parsed
        <5> QED  BY <2>1, <3>8, <4>6, <4>9 DEF Skewed, Fresh, Now, Second, at
      <4>11. ~Overflows(header)
        <5> SUFFICES ASSUME NEW k \in 1 .. Len(parts), parts[k].key = "t", parts[k].value = Infinite
                     PROVE  FALSE
          BY <2>3, <2>7, <3>1 DEF Overflows
        <5>1. k = i
          BY <3>2, <4>2 DEF KeysApart
        <5>2. sent # Infinite
          BY SignatureAssumption DEF Sent
        <5> QED  BY <4>2, <5>1, <5>2
      <4> QED  BY <2>2, <3>8, <4>6, <4>8, <4>10, <4>11
    <3> QED  BY <3>7, <3>8
  <2> QED  BY <2>6, <2>7 DEF VerifiesTheSigned
<1> QED  BY <1>1, InputsAreAsked, PTL

=============================================================================
