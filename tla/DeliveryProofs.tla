--------------------------- MODULE DeliveryProofs ---------------------------
(***************************************************************************)
(* In the default mode a message is confirmed to the server only after     *)
(* every handler settled it: for any number of messages, conversations,    *)
(* tasks, frames and connections, for async handlers that interleave at    *)
(* every await, for lost acks, failing requests and an evicting cache.     *)
(***************************************************************************)
EXTENDS Delivery, SharedLemmas, FiniteSetTheorems

USE MessagesAssumption, IdentitiesAssumption, OptionsAssumption DEF Msgs, NoMsg, NoSeq

\* Nothing is taken back, and in the default mode only clean messages are confirmed.
AcksWell == acked \subseteq acked' /\ (AckOnReceipt \/ acked' \subseteq clean)

\* Frames that are acked join the confirmed messages.
LEMMA AcksGrow ==
    ASSUME NEW ms, NEW new \in Acks(ms)
    PROVE  acked \subseteq new /\ new \subseteq acked \cup ms
BY DEF Acks

\* A step that leaves the drain's locals, the cache and the history of clean
\* dispatches alone keeps the invariant if it acks clean messages only.
LEMMA ConfirmFrame ==
    ASSUME ConfirmInv, UNCHANGED <<drain, dedup, clean>>, pub' \in 0..Total,
           AcksWell
    PROVE  ConfirmInv'
BY DEF ConfirmInv, AcksWell, AckedWasDispatched, DedupIsClean, SettledIsClean, ReadIsCovered,
       SkippedIsCovered, CheckedIsClean, CursorIsCovered, Covered, DrainState

\* So does one that also resets the drain: NoDrain claims nothing.
LEMMA ConfirmReset ==
    ASSUME ConfirmInv, drain' = NoDrain, UNCHANGED <<dedup, clean, pub>>,
           AcksWell
    PROVE  ConfirmInv'
BY DEF ConfirmInv, AcksWell, AckedWasDispatched, DedupIsClean, SettledIsClean, ReadIsCovered,
       SkippedIsCovered, CheckedIsClean, CursorIsCovered, Covered, DrainState, NoDrain

\* The next page is read from the last delivery_id of this one: if the drain is
\* not frozen every row up to it has been checked or jumped over.
LEMMA ConfirmEndPage ==
    ASSUME ConfirmInv, EndPage, drain.frozen \/ drain.unchecked = {},
           UNCHANGED <<dedup, clean, pub>>, AcksWell
    PROVE  ConfirmInv'
<1>1. CASE drain' = NoDrain
  BY <1>1, ConfirmReset
<1>2. CASE \E m \in NextAfter : drain' = [NoDrain EXCEPT !.after = m, !.frozen = drain.frozen]
  <2>1. PICK m \in NextAfter : drain' = [NoDrain EXCEPT !.after = m, !.frozen = drain.frozen]
    BY <1>2
  <2>2. /\ m \in drain.page /\ m \in 1..Total /\ Total \in Nat
        /\ drain.after \in Nat /\ drain.frozen \in BOOLEAN
    BY DEF NextAfter, ConfirmInv, DrainState
  <2>3. /\ drain'.after = m /\ drain'.frozen = drain.frozen /\ drain'.page = {}
        /\ drain'.unchecked = {} /\ drain'.cursor = 0
        /\ drain'.settled = [x \in Msgs |-> "none"]
    BY <2>1 DEF NoDrain
  <2>3a. drain' \in DrainState
    <3>1. drain' = [after |-> m, frozen |-> drain.frozen, page |-> {}, bad |-> FALSE,
                    full |-> FALSE, left |-> {}, unchecked |-> {}, dups |-> {}, cursor |-> 0,
                    settled |-> [x \in Msgs |-> "none"]]
      BY <2>1 DEF NoDrain
    <3> QED  BY <2>2, <3>1 DEF DrainState
  <2>4. ReadIsCovered'
    <3>0. Covered \subseteq Covered'
      BY DEF AcksWell, Covered
    <3> SUFFICES ASSUME ~drain.frozen, NEW x \in 1..m PROVE x \in Covered
      BY <2>3, <3>0, Zenon DEF ReadIsCovered
    <3>1. CASE x <= drain.after
      <4>1. x \in 1..drain.after
        BY <2>2, <3>1
      <4> QED  BY <4>1 DEF ConfirmInv, ReadIsCovered
    <3>2. CASE x > drain.after /\ x \in drain.page
      BY <3>2 DEF ConfirmInv, CheckedIsClean, Covered
    <3>3. CASE x > drain.after /\ x \notin drain.page
      <4>1. x < m /\ x \in Msgs
        BY <2>2, <3>3
      <4> QED  BY <2>2, <3>3, <4>1 DEF ConfirmInv, SkippedIsCovered
    <3> QED  BY SMTT(30), <2>2, <3>1, <3>2, <3>3
  <2> QED
    BY <2>3, <2>3a, <2>4 DEF ConfirmInv, AcksWell, AckedWasDispatched, DedupIsClean, SettledIsClean,
       SkippedIsCovered, CheckedIsClean, CursorIsCovered, Covered
<1> QED  BY <1>1, <1>2 DEF EndPage, DrainEnds

\* A clean dispatch adds one message to the clean ones, the cache and, if the row
\* is of the drain's page, the settled rows.
LEMMA ConfirmHandled ==
    ASSUME ConfirmInv, NEW t \in Tasks, HandledCleanly(t)
    PROVE  ConfirmInv'
<1> DEFINE m == task[t].m
<1>1. /\ clean' = clean \cup {m} /\ pub' = pub
      /\ acked \subseteq acked' /\ acked' \subseteq acked \cup {m}
  BY AcksGrow DEF HandledCleanly
<1>2. dedup \in Seq(clean') /\ m \in clean' /\ DedupCapacity \in Nat
  BY <1>1, SeqMonotonic DEF ConfirmInv, DedupIsClean
<1>3. DedupIsClean'
  BY <1>2, AddType DEF HandledCleanly, DedupIsClean
<1>4. /\ drain' \in DrainState
      /\ \A x \in Msgs : drain'.settled[x] = "clean" => drain.settled[x] = "clean" \/ x = m
      /\ drain'.after = drain.after /\ drain'.frozen = drain.frozen /\ drain'.page = drain.page
      /\ drain'.unchecked = drain.unchecked /\ drain'.cursor = drain.cursor
  BY DEF HandledCleanly, Settle, ConfirmInv, DrainState
<1> HIDE DEF m
<1> QED
  BY <1>1, <1>3, <1>4 DEF ConfirmInv, AckedWasDispatched, SettledIsClean, ReadIsCovered,
     SkippedIsCovered, CheckedIsClean, CursorIsCovered, Covered

\* A lookup in the cache keeps it within the clean messages.
LEMMA HitIsClean ==
    ASSUME DedupIsClean, NEW m
    PROVE  Hit(dedup, m) \in Seq(clean)
BY HitType DEF DedupIsClean

\* Neither a dedup hit nor a handler that raised makes a message clean; a hit is
\* the proof that it is.
LEMMA ConfirmNotHandled ==
    ASSUME ConfirmInv, NEW t \in Tasks, DedupHit(t) \/ HandlerRaised(t)
    PROVE  ConfirmInv'
<1> DEFINE m == task[t].m
<1>1. /\ clean' = clean /\ pub' = pub
      /\ acked \subseteq acked' /\ acked' \subseteq acked \cup (clean \cap {m})
  <2>1. CASE DedupHit(t)
    <3>1. m \in clean
      BY <2>1, ElementOfSeq DEF DedupHit, Seen, ConfirmInv, DedupIsClean
    <3> QED  BY <2>1, <3>1, AcksGrow DEF DedupHit, app
  <2> QED  BY <2>1 DEF HandlerRaised, server, app
<1>2. DedupIsClean'
  BY <1>1, HitIsClean DEF ConfirmInv, DedupIsClean, DedupHit, HandlerRaised
<1>3. /\ drain' \in DrainState
      /\ \A x \in Msgs : drain'.settled[x] = "clean" => drain.settled[x] = "clean" \/ x \in clean
      /\ drain'.after = drain.after /\ drain'.frozen = drain.frozen /\ drain'.page = drain.page
      /\ drain'.unchecked = drain.unchecked /\ drain'.cursor = drain.cursor
  <2>1. CASE DedupHit(t)
    <3>1. m \in clean
      BY <2>1, ElementOfSeq DEF DedupHit, Seen, ConfirmInv, DedupIsClean
    <3> QED  BY <2>1, <3>1 DEF DedupHit, Settle, ConfirmInv, DrainState
  <2>2. CASE HandlerRaised(t)
    BY <2>2 DEF HandlerRaised, Settle, ConfirmInv, DrainState
  <2> QED  BY <2>1, <2>2
<1> HIDE DEF m
<1> QED
  BY <1>1, <1>2, <1>3 DEF ConfirmInv, AckedWasDispatched, SettledIsClean, ReadIsCovered,
     SkippedIsCovered, CheckedIsClean, CursorIsCovered, Covered

\* A page is the oldest rows not yet confirmed, so what it jumps over is confirmed.
LEMMA SyncRowsOldest ==
    ASSUME pub \in 0..Total, NEW m \in 1..pub, m \notin acked, m > drain.after,
           NEW n \in SyncRows, m < n
    PROVE  m \in SyncRows
<1> DEFINE waiting == {x \in 1..pub \ acked : x > drain.after}
           before(k) == {x \in waiting : x < k}
<1>1. m \in waiting /\ n \in waiting /\ n \in Nat
  BY DEF SyncRows
<1>2. IsFiniteSet(waiting)
  <2>1. waiting \subseteq 1..pub /\ 1 \in Int /\ pub \in Int
    OBVIOUS
  <2> QED  BY <2>1, FS_Interval, FS_Subset
<1>3. before(m) \subseteq before(n) /\ IsFiniteSet(before(n))
  BY <1>1, <1>2, FS_Subset
<1>4. Cardinality(before(m)) <= Cardinality(before(n))
  BY <1>3, FS_Subset
<1>5. Cardinality(before(n)) < PageSize
  BY DEF SyncRows
<1>6. Cardinality(before(m)) \in Nat /\ Cardinality(before(n)) \in Nat
  BY <1>3, FS_Subset, FS_CardinalityType
<1>7. Cardinality(before(m)) < PageSize
  BY <1>4, <1>5, <1>6
<1> QED  BY <1>1, <1>7 DEF SyncRows

\* A new page starts with nothing checked and nothing settled.
LEMMA ConfirmSyncAnswers ==
    ASSUME ConfirmInv, SyncAnswers
    PROVE  ConfirmInv'
<1>1. UNCHANGED <<dedup, clean, pub, acked>>
  BY DEF SyncAnswers, server, app
<1>2. CASE drain' = NoDrain
  BY <1>1, <1>2, ConfirmReset DEF ConfirmInv, AcksWell, AckedWasDispatched
<1>3. CASE drain' # NoDrain
  <2> DEFINE prefix == {m \in SyncRows : \A n \in SyncRows \cap Malformed : m < n}
  <2>1. drain' = [drain EXCEPT
            !.page = prefix, !.left = prefix, !.unchecked = prefix, !.bad = prefix # SyncRows,
            !.full = Cardinality(SyncRows) = PageSize,
            !.dups = {}, !.cursor = 0, !.settled = [m \in Msgs |-> "none"]]
    BY <1>3 DEF SyncAnswers, DrainEnds
  <2>2. prefix \subseteq Msgs
    BY DEF SyncRows, ConfirmInv
  <2>3. drain' \in DrainState
    <3> DEFINE bad == prefix # SyncRows
               full == Cardinality(SyncRows) = PageSize
    <3>1. bad \in BOOLEAN /\ full \in BOOLEAN /\ drain \in DrainState
      BY DEF ConfirmInv
    <3>2. drain' = [drain EXCEPT
              !.page = prefix, !.left = prefix, !.unchecked = prefix, !.bad = bad,
              !.full = full, !.dups = {}, !.cursor = 0, !.settled = [m \in Msgs |-> "none"]]
      BY <2>1
    <3> HIDE DEF bad, full, prefix
    <3>3. drain' = [after |-> drain.after, frozen |-> drain.frozen, page |-> prefix,
                    bad |-> bad, full |-> full, left |-> prefix, unchecked |-> prefix,
                    dups |-> {}, cursor |-> 0, settled |-> [m \in Msgs |-> "none"]]
      BY <3>1, <3>2 DEF DrainState
    <3>4. drain.after \in 0..Total /\ drain.frozen \in BOOLEAN
      BY <3>1 DEF DrainState
    <3>5. 0 \in 0..Total /\ {} \in SUBSET Msgs /\ prefix \in SUBSET Msgs
      BY <2>2
    <3> QED  BY <3>1, <3>3, <3>4, <3>5 DEF DrainState
  <2>4. /\ drain'.after = drain.after /\ drain'.frozen = drain.frozen /\ drain'.cursor = 0
        /\ drain'.page = prefix /\ drain'.unchecked = prefix
        /\ drain'.settled = [m \in Msgs |-> "none"]
    BY <2>1 DEF ConfirmInv, DrainState
  <2>5. SkippedIsCovered'
    <3> SUFFICES ASSUME NEW m \in Msgs \ prefix, NEW n \in prefix, drain.after < m, m < n
                 PROVE  m \in acked
      BY <1>1, <2>4 DEF SkippedIsCovered, Covered
    <3>1. m \in 1..pub
      BY DEF SyncRows, ConfirmInv
    <3>2. m \notin SyncRows
      <4> SUFFICES ASSUME m \in SyncRows, NEW k \in SyncRows \cap Malformed PROVE m < k
        OBVIOUS
      <4>1. n \in SyncRows /\ n < k
        OBVIOUS
      <4>2. SyncRows \subseteq Nat
        BY DEF SyncRows, ConfirmInv
      <4>3. m \in Nat /\ n \in Nat /\ k \in Nat /\ m < n
        BY <4>1, <4>2
      <4> QED  BY <4>1, <4>3
    <3>3. m > drain.after /\ n \in SyncRows /\ pub \in 0..Total
      BY DEF ConfirmInv, DrainState
    <3> QED  BY <3>1, <3>2, <3>3, SyncRowsOldest
  <2> HIDE DEF prefix
  <2> QED
    BY <1>1, <2>3, <2>4, <2>5 DEF ConfirmInv, AckedWasDispatched, DedupIsClean,
       SettledIsClean, ReadIsCovered, CheckedIsClean, CursorIsCovered, Covered
<1> QED  BY <1>2, <1>3

\* The ordering layer touches the cache by a lookup at most.
LEMMA RouteLooksUp ==
    ASSUME DedupIsClean, NEW t, NEW m, NEW e, NEW spent, Route(t, m, e, spent), clean' = clean
    PROVE  DedupIsClean'
<1>1. dedup' \in {dedup, Hit(dedup, m)}
  BY DEF Route, RouteUnsequenced, RouteAnchor, RouteBelow, RouteInOrder, RoutePark
<1> QED  BY <1>1, HitIsClean DEF DedupIsClean

\* Of the drain's locals the claims leave out those that only say what is left
\* to route and which rows arrived below their anchor; a lookup is harmless.
LEMMA ConfirmLookup ==
    ASSUME ConfirmInv, DedupIsClean',
           drain' \in DrainState, drain'.settled = drain.settled, drain'.after = drain.after,
           drain'.frozen = drain.frozen, drain'.page = drain.page,
           drain'.unchecked = drain.unchecked, drain'.cursor = drain.cursor,
           clean' = clean, pub' \in 0..Total, AcksWell
    PROVE  ConfirmInv'
BY DEF ConfirmInv, AcksWell, AckedWasDispatched, SettledIsClean, ReadIsCovered,
     SkippedIsCovered, CheckedIsClean, CursorIsCovered, Covered

LEMMA ConfirmRecvFrame ==
    ASSUME ConfirmInv, NEW m \in Msgs, RecvFrame(m)
    PROVE  ConfirmInv'
<1>1. PICK t, e, spent : Route(t, m, e, spent)
  BY DEF RecvFrame
<1>2. DedupIsClean'
  BY <1>1, RouteLooksUp DEF RecvFrame, app, ConfirmInv
<1>3. /\ drain' = drain /\ clean' = clean /\ pub' \in 0..Total
      /\ AcksWell
  BY AcksGrow DEF RecvFrame, app, ConfirmInv, AcksWell, AckedWasDispatched
<1>4. drain \in DrainState
  BY DEF ConfirmInv
<1> QED  BY <1>2, <1>3, <1>4, ConfirmLookup

LEMMA ConfirmDrainRow ==
    ASSUME ConfirmInv, DrainRow
    PROVE  ConfirmInv'
<1>1. PICK m \in Lowest(drain.left) :
          /\ drain' = [drain EXCEPT !.left = @ \ {m}, !.dups = IF Below(m) THEN @ \cup {m} ELSE @]
          /\ \E t, e, spent : Route(t, m, e, spent)
  BY DEF DrainRow
<1> DEFINE left == drain.left \ {m}
           dups == IF Below(m) THEN drain.dups \cup {m} ELSE drain.dups
<1>2. left \in SUBSET Msgs /\ dups \in SUBSET Msgs
  BY DEF ConfirmInv, DrainState, Lowest
<1>3. drain' = [drain EXCEPT !.left = left, !.dups = dups]
  BY <1>1 DEF ConfirmInv, DrainState
<1>4. DedupIsClean'
  BY <1>1, RouteLooksUp DEF DrainRow, app, ConfirmInv
<1>5. /\ clean' = clean /\ pub' \in 0..Total
      /\ AcksWell
  BY DEF DrainRow, server, app, ConfirmInv, AcksWell, AckedWasDispatched
<1> HIDE DEF left, dups
<1>6. /\ drain' \in DrainState /\ drain'.settled = drain.settled
      /\ drain'.after = drain.after /\ drain'.frozen = drain.frozen /\ drain'.page = drain.page
      /\ drain'.unchecked = drain.unchecked /\ drain'.cursor = drain.cursor
  BY <1>2, <1>3 DEF ConfirmInv, DrainState
<1> QED  BY <1>4, <1>5, <1>6, ConfirmLookup

\* A row the cursor may cover is a clean one.
LEMMA AckableIsClean ==
    ASSUME ConfirmInv, NEW m \in Msgs, Ackable(m)
    PROVE  m \in clean
<1>1. CASE drain.settled[m] = "clean"
  BY <1>1 DEF ConfirmInv, SettledIsClean
<1>2. CASE Seen(dedup, m)
  BY <1>2, ElementOfSeq DEF Seen, ConfirmInv, DedupIsClean
<1> QED  BY <1>1, <1>2 DEF Ackable

\* The cursor moves to the row checked: what is before it in the page has been
\* checked, what the page jumps over is clean, and the rest was read before.
LEMMA ConfirmCheckRow ==
    ASSUME ConfirmInv, CheckRow
    PROVE  ConfirmInv'
<1>1. PICK m \in Lowest(drain.unchecked) :
          /\ drain' = IF Ackable(m)
                      THEN [drain EXCEPT !.unchecked = @ \ {m},
                                         !.cursor = IF m \in NullCursor THEN @ ELSE m]
                      ELSE [drain EXCEPT !.frozen = TRUE]
          /\ dedup' = IF drain.settled[m] = "none" /\ m \in drain.dups
                      THEN Hit(dedup, m) ELSE dedup
  BY DEF CheckRow
<1>2. /\ drain \in DrainState /\ ~drain.frozen /\ m \in drain.unchecked /\ m \in Msgs
      /\ \A n \in drain.unchecked : m <= n
  BY DEF CheckRow, Checked, ConfirmInv, DrainState, Lowest
<1>3. DedupIsClean' /\ clean' = clean /\ pub' = pub /\ acked' = acked
  BY <1>1, HitIsClean DEF ConfirmInv, DedupIsClean, CheckRow, server, app
<1>4. CASE ~Ackable(m)
  <2>1. /\ drain' \in DrainState /\ drain'.settled = drain.settled /\ drain'.frozen
        /\ drain'.after = drain.after /\ drain'.page = drain.page
        /\ drain'.unchecked = drain.unchecked /\ drain'.cursor = drain.cursor
    BY <1>1, <1>2, <1>4 DEF DrainState
  <2> QED
    BY <1>3, <2>1 DEF ConfirmInv, AckedWasDispatched, SettledIsClean, ReadIsCovered,
       SkippedIsCovered, CheckedIsClean, CursorIsCovered, Covered
<1>5. CASE Ackable(m)
  <2> DEFINE cursor == IF m \in NullCursor THEN drain.cursor ELSE m
  <2>1. m \in clean
    BY <1>2, <1>5, AckableIsClean
  <2>2. /\ drain' \in DrainState /\ drain'.settled = drain.settled /\ ~drain'.frozen
        /\ drain'.after = drain.after /\ drain'.page = drain.page
        /\ drain'.unchecked = drain.unchecked \ {m} /\ drain'.cursor = cursor
    <3>1. cursor \in 0..Total /\ drain.unchecked \ {m} \in SUBSET Msgs
      BY <1>2 DEF DrainState
    <3>2. drain' = [drain EXCEPT !.unchecked = drain.unchecked \ {m}, !.cursor = cursor]
      BY <1>1, <1>2, <1>5 DEF DrainState
    <3> HIDE DEF cursor
    <3> QED  BY <1>2, <3>1, <3>2 DEF DrainState
  <2>3. CheckedIsClean'
    <3>1. \A n \in drain.unchecked : ~(n < m)
      BY <1>2 DEF DrainState
    <3> QED  BY <1>2, <1>3, <2>1, <2>2, <3>1 DEF ConfirmInv, CheckedIsClean
  <2>4. 1..m \subseteq Covered
    <3> SUFFICES ASSUME NEW x \in 1..m PROVE x \in Covered
      OBVIOUS
    <3>1. x \in Msgs /\ drain.after \in Nat /\ (x <= drain.after => x \in 1..drain.after)
      BY <1>2 DEF DrainState
    <3>2. CASE x <= drain.after
      BY <1>2, <3>1, <3>2 DEF ConfirmInv, ReadIsCovered
    <3>3. CASE x \in drain.page /\ x # m
      <4>1. x \notin drain.unchecked
        BY <1>2, <3>1, <3>3
      <4> QED  BY <1>2, <3>3, <4>1 DEF ConfirmInv, CheckedIsClean, Covered
    <3>4. CASE x = m
      BY <2>1, <3>4 DEF Covered
    <3>5. CASE x > drain.after /\ x \notin drain.page
      <4>1. m \in drain.page /\ x < m
        BY <1>2, <3>1, <3>5 DEF ConfirmInv, CheckedIsClean, Covered
      <4> QED  BY <1>2, <3>1, <3>5, <4>1 DEF ConfirmInv, SkippedIsCovered
    <3> QED  BY <3>1, <3>2, <3>3, <3>4, <3>5
  <2>5. CursorIsCovered'
    BY <1>3, <2>2, <2>4 DEF ConfirmInv, CursorIsCovered, Covered
  <2> HIDE DEF cursor
  <2> QED
    BY <1>2, <1>3, <2>2, <2>3, <2>5 DEF ConfirmInv, AckedWasDispatched, SettledIsClean, ReadIsCovered,
       SkippedIsCovered, Covered
<1> QED  BY <1>4, <1>5

\* The end of a drain, for whatever reason, and the end of a page
LEMMA ConfirmDrain ==
    ASSUME ConfirmInv, Drain
    PROVE  ConfirmInv'
<1>1. acked' = acked => AcksWell
  BY DEF ConfirmInv, AcksWell, AckedWasDispatched
<1>2. CASE SyncFails
  BY <1>1, <1>2, ConfirmReset DEF SyncFails, DrainEnds, server, app
<1>3. CASE SyncAnswers
  BY <1>3, ConfirmSyncAnswers
<1>4. CASE DrainRow
  BY <1>4, ConfirmDrainRow
<1>5. CASE DrainRouted
  <2>1. UNCHANGED <<dedup, clean, pub, acked>>
    BY <1>5 DEF DrainRouted, server, app
  <2>2. CASE drain.frozen /\ EndPage
    BY <1>1, <2>1, <2>2, ConfirmEndPage
  <2>3. CASE drain' = NoDrain
    BY <1>1, <2>1, <2>3, ConfirmReset
  <2>4. CASE drain' = drain
    BY <1>1, <2>1, <2>4, ConfirmFrame DEF ConfirmInv
  <2> QED  BY <1>5, <2>2, <2>3, <2>4 DEF DrainRouted, EndPage, DrainEnds
<1>6. CASE CheckRow
  BY <1>6, ConfirmCheckRow
<1>7. CASE PageChecked
  <2>1. UNCHANGED <<dedup, clean, pub, acked>> /\ (drain.unchecked = {} \/ drain.frozen)
    BY <1>7 DEF PageChecked, server, app, Checked
  <2>2. CASE EndPage
    BY <1>1, <2>1, <2>2, ConfirmEndPage
  <2>3. CASE drain' = drain
    BY <1>1, <2>1, <2>3, ConfirmFrame DEF ConfirmInv
  <2> QED  BY <1>7, <2>2, <2>3 DEF PageChecked
<1>8. CASE \E applied, answered \in BOOLEAN : SyncAck(applied, answered)
  <2>1. /\ UNCHANGED <<dedup, clean, pub>> /\ (drain.unchecked = {} \/ drain.frozen)
        /\ acked \subseteq acked' /\ acked' \subseteq acked \cup 1..drain.cursor
        /\ EndPage \/ DrainEnds
    BY <1>8 DEF SyncAck, app, Checked
  <2>2. AcksWell
    BY <2>1 DEF ConfirmInv, AckedWasDispatched, AcksWell, CursorIsCovered, Covered
  <2>3. CASE EndPage
    BY <2>1, <2>2, <2>3, ConfirmEndPage
  <2>4. CASE DrainEnds
    BY <2>1, <2>2, <2>4, ConfirmReset DEF DrainEnds
  <2> QED  BY <2>1, <2>3, <2>4
<1> QED  BY <1>2, <1>3, <1>4, <1>5, <1>6, <1>7, <1>8 DEF Drain

\* Everything else only moves frames, objects and the connection about.
LEMMA ConfirmOthers ==
    ASSUME ConfirmInv,
           \/ \E t \in Tasks : Step(t) \/ HandlerReturns(t) \/ GapTimer(t)
           \/ Socket \/ Environment
    PROVE  ConfirmInv'
<1>1. (acked' = acked => AcksWell) /\ pub \in 0..Total
  BY DEF ConfirmInv, AcksWell, AckedWasDispatched
<1>2. ASSUME UNCHANGED <<server, drain, dedup, clean>> PROVE ConfirmInv'
  BY <1>1, <1>2, ConfirmFrame DEF server
<1>3. ASSUME drain' = NoDrain, UNCHANGED <<server, dedup, clean>> PROVE ConfirmInv'
  BY <1>1, <1>3, ConfirmReset DEF server
<1>4. ASSUME NEW t \in Tasks, Step(t) PROVE ConfirmInv'
  <2>1. CASE DedupHit(t)
    BY <2>1, ConfirmNotHandled
  <2>2. CASE MissingFrame(t)
    BY <1>2, <1>3, <2>2 DEF MissingFrame, DrainEnds, app
  <2>3. CASE Dispatch(t)
    BY <1>2, <2>3 DEF Dispatch
  <2>4. CASE ChainNext(t) \/ ChainEnd(t)
    BY <1>2, <2>4 DEF ChainNext, ChainEnd, app
  <2>5. CASE SweepNext(t) \/ SweepEnd(t)
    BY <1>2, <2>5 DEF SweepNext, SweepEnd, app
  <2>6. CASE FlushConversation(t) \/ FlushEnd(t)
    BY <1>2, <2>6 DEF FlushConversation, FlushEnd, app
  <2> QED  BY <1>4, <2>1, <2>2, <2>3, <2>4, <2>5, <2>6 DEF Step
<1>5. ASSUME NEW t \in Tasks, HandlerReturns(t) PROVE ConfirmInv'
  <2>1. CASE HandledCleanly(t)
    BY <2>1, ConfirmHandled
  <2>2. CASE HandlerRaised(t)
    BY <2>2, ConfirmNotHandled
  <2>3. CASE Notified(t)
    BY <1>2, <2>3 DEF Notified, app
  <2> QED  BY <1>5, <2>1, <2>2, <2>3 DEF HandlerReturns
<1>6. ASSUME NEW t \in Tasks, GapTimer(t) PROVE ConfirmInv'
  <2>1. CASE GapTimerFires(t)
    BY <1>2, <2>1 DEF GapTimerFires, app
  <2>2. CASE GapFillFails(t)
    BY <1>2, <2>2 DEF GapFillFails, app
  <2>3. CASE GapFillAnswers(t)
    <3>1. AcksWell
      <4>1. PICK read : TakesPage(t, read)
        BY <2>3 DEF GapFillAnswers
      <4> QED  BY <1>1, <4>1, AcksGrow DEF TakesPage, AcksWell
    <3> QED  BY <1>1, <2>3, <3>1, ConfirmFrame DEF GapFillAnswers, app
  <2> QED  BY <1>6, <2>1, <2>2, <2>3 DEF GapTimer
<1>7. CASE Socket
  <2>1. CASE CloseOrderState
    BY <1>2, <2>1 DEF CloseOrderState, app
  <2>2. CASE Release
    BY <1>2, <1>3, <2>2 DEF Release, app
  <2> QED  BY <1>7, <2>1, <2>2 DEF Socket
<1>8. CASE Environment
  <2>1. ASSUME NEW m \in Msgs, RecvFrame(m) PROVE ConfirmInv'
    BY <2>1, ConfirmRecvFrame
  <2>2. CASE Connect
    BY <1>2, <2>2 DEF Connect
  <2>3. CASE SocketCloses
    BY <1>2, <2>3 DEF SocketCloses, app
  <2>4. CASE Disconnect
    BY <1>2, <2>4 DEF Disconnect, app
  <2> QED  BY <1>8, <2>1, <2>2, <2>3, <2>4 DEF Environment
<1> QED  BY <1>4, <1>5, <1>6, <1>7, <1>8

LEMMA ConfirmInitially ==
    ASSUME Init
    PROVE  ConfirmInv
<1>1. NoDrain \in DrainState
  BY DEF NoDrain, DrainState
<1>2. dedup \in Seq(clean)
  BY DEF Init
<1> QED
  BY <1>1, <1>2 DEF Init, ConfirmInv, AckedWasDispatched, DedupIsClean, SettledIsClean,
     ReadIsCovered, SkippedIsCovered, CheckedIsClean, CursorIsCovered, NoDrain

LEMMA ConfirmStep ==
    ASSUME ConfirmInv, [Next]_vars
    PROVE  ConfirmInv'
<1>1. CASE Drain
  BY <1>1, ConfirmDrain
<1>2. CASE \/ \E t \in Tasks : Step(t) \/ HandlerReturns(t) \/ GapTimer(t)
           \/ Socket \/ Environment
  BY <1>2, ConfirmOthers
<1>3. CASE UNCHANGED vars
  <2>1. UNCHANGED <<drain, dedup, clean, pub, acked>>
    BY <1>3 DEF vars, server, app
  <2> QED  BY <2>1, ConfirmFrame DEF ConfirmInv, AcksWell, AckedWasDispatched
<1> QED  BY <1>1, <1>2, <1>3 DEF Next

\* What the drain and the dedup cache know of a message is true, in either mode
\* (the ack cursor of _run_drain, _drain_row_ackable): by induction over the steps.
THEOREM ConfirmInvariant == Spec => []ConfirmInv
<1>1. Init => ConfirmInv
  BY ConfirmInitially
<1>2. ConfirmInv /\ [Next]_vars => ConfirmInv'
  BY ConfirmStep
<1> QED  BY <1>1, <1>2, PTL DEF Spec

\* Whatever is confirmed to the server, every handler of the application settled
\* it cleanly first (_deliver_message_new acks last, the drain's cursor stops at
\* the first row whose fate it does not know).
THEOREM AcksFollowHandlers == Spec => []AckedWasDispatched
<1>1. ConfirmInv => AckedWasDispatched
  BY DEF ConfirmInv
<1> QED  BY <1>1, ConfirmInvariant, PTL

=============================================================================
