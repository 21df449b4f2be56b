-------------------------------- MODULE Gate --------------------------------
(***************************************************************************)
(* The reply gate.  A wake fetches the tray, asks the model about its      *)
(* cards, records dismiss and defer verdicts at once and hands the reply   *)
(* verdicts to the host, which runs a turn for each and records it when    *)
(* the turn has completed.  Messages keep arriving, wakes overlap, answers *)
(* of the server get lost and hosts crash: a crashed run takes no more      *)
(* steps, and what it posted may have been taken without its knowing.      *)
(*                                                                         *)
(* A message is its position in its conversation; a conversation is read   *)
(* through a position.  run() and run_async() take the same steps.         *)
(***************************************************************************)
EXTENDS Integers, FiniteSets, Verdicts

CONSTANTS
    Convs,        \* conversations
    MaxMessages,  \* bound: messages of each conversation
    Wakes,        \* bound: runs of the gate, by one host or several
    MaxCards,     \* bound: cards on the tray of each run
    Recorders,    \* how many record() calls of one reply a host may overlap
    Answers       \* what the model may answer: None (no JSON) or its items

ASSUME GateAssumption ==
    /\ IsFiniteSet(Convs)
    /\ MaxMessages \in [Convs -> Nat \ {0}]
    /\ Recorders \in Nat
    /\ \A answer \in Answers \ {None} : answer \in Seq({answer[i] : i \in DOMAIN answer})

VARIABLES
    newest,    \* server: the messages of each conversation
    read,      \* server: read through here
    blind,     \* history: conversations decided without an anchor
    wake,      \* per run: where it is, its cards and its result
    reply      \* per run and conversation: the GateReply handed to the host

vars == <<newest, read, blind, wake, reply>>

----------------------------------------------------------------------------
(* The tray *)

\* preview: the message shown; last: the newest one when the server says so;
\* 0 where there is none.  served is a history: the newest at that time.
NoCard == [preview |-> 0, last |-> 0, served |-> 0]

\* Mutant: the thread's newest message is preferred to the one shown.
AnchorOfLast(card) == IF card.last # 0 THEN card.last ELSE card.preview

AnchorOf(card) == IF card.preview # 0 THEN card.preview ELSE card.last

IdsOf(w) == {c \in Convs : wake[w].cards[c] # NoCard}

Idle == [pc |-> "idle", cards |-> [c \in Convs |-> NoCard], verdicts |-> <<>>, i |-> 1,
         recorded |-> 0, failures |-> {}, undecided |-> {}, outcome |-> None]
NoReply == [pc |-> "none", decision |-> FALSE, posting |-> 0]

Init ==
    /\ newest = [c \in Convs |-> 1]
    /\ read = [c \in Convs |-> 0]
    /\ blind = {}
    /\ wake = [w \in Wakes |-> Idle]
    /\ reply = [w \in Wakes |-> [c \in Convs |-> NoReply]]

Arrives(c) ==
    /\ newest[c] < MaxMessages[c]
    /\ newest' = [newest EXCEPT ![c] = @ + 1]
    /\ UNCHANGED <<read, blind, wake, reply>>

Unread == {c \in Convs : read[c] < newest[c]}

\* The tray has at most one card per conversation with unread messages, and
\* may be truncated.
Cards(c) ==
    {[preview |-> p, last |-> newest[c], served |-> newest[c]] :
        p \in {0} \cup (read[c] + 1 .. newest[c])}
    \cup {[preview |-> 0, last |-> 0, served |-> newest[c]]}

\* The tray is fetched and the run prepared: nothing to decide on an empty one.
Fetch(w) ==
    /\ wake[w].pc = "idle"
    /\ \E shown \in {S \in SUBSET Unread : Cardinality(S) <= MaxCards[w]} :
          \E cards \in [Convs -> {NoCard} \cup UNION {Cards(c) : c \in shown}] :
             /\ \A c \in Convs : IF c \in shown THEN cards[c] \in Cards(c) ELSE cards[c] = NoCard
             /\ wake' = [wake EXCEPT ![w].cards = cards,
                                     ![w].pc = IF shown = {} THEN "done" ELSE "asking",
                                     ![w].outcome = IF shown = {} THEN "empty" ELSE None]
    /\ UNCHANGED <<newest, read, blind, reply>>

Closed(w) ==
    [wake[w] EXCEPT !.pc = "done", !.outcome = "fail_closed", !.undecided = IdsOf(w)]

\* No question on the tray, or the model call raises
ModelFails(w) ==
    /\ wake[w].pc = "asking"
    /\ wake' = [wake EXCEPT ![w] = Closed(w)]
    /\ UNCHANGED <<newest, read, blind, reply>>

\* Mutant: an answer without a usable verdict counts as one that decides nothing.
UsableEvenEmpty(verdicts) == verdicts # None

Usable(verdicts) == verdicts \notin {None, <<>>}

ModelAnswers(w) ==
    /\ wake[w].pc = "asking"
    /\ \E answer \in Answers :
          LET verdicts == ParseVerdicts(answer, IdsOf(w))
          IN  wake' = [wake EXCEPT ![w] = IF Usable(verdicts)
                                          THEN [@ EXCEPT !.pc = "recording", !.verdicts = verdicts]
                                          ELSE Closed(w)]
    /\ UNCHANGED <<newest, read, blind, reply>>

----------------------------------------------------------------------------
(* Recording *)

\* The server takes a verdict: reply and dismiss read through the anchor, or
\* through everything without one; defer reads nothing.
Takes(c, decision, anchor) ==
    LET through == IF anchor = 0 THEN newest[c] ELSE anchor
    IN  /\ read' = [read EXCEPT ![c] = IF decision # "defer" /\ through > @ THEN through ELSE @]
        /\ blind' = IF decision # "defer" /\ anchor = 0 THEN blind \cup {c} ELSE blind

\* Mutant: a call that failed is counted as recorded.
CountedAnyway(r, ok, c) == [r EXCEPT !.i = @ + 1, !.recorded = @ + 1]

\* A call that returned is counted, the error of one that raised is kept.
Counted(r, ok, c) ==
    [r EXCEPT !.i = @ + 1, !.recorded = IF ok THEN @ + 1 ELSE @,
              !.failures = IF ok THEN @ ELSE @ \cup {c}]

Verdict(w) == wake[w].verdicts[wake[w].i]

\* The next verdict asks for a reply.
DefersToHost(w) == Verdict(w).decision = "reply"

HandsOver(w) ==
    /\ wake[w].pc = "recording" /\ wake[w].i <= Len(wake[w].verdicts)
    /\ DefersToHost(w)
    /\ reply' = [reply EXCEPT ![w][Verdict(w).conv].pc = "handed"]
    /\ wake' = [wake EXCEPT ![w].i = @ + 1]
    /\ UNCHANGED <<newest, read, blind>>

\* A dismiss or defer verdict is posted: taken and confirmed, taken without a
\* (valid) answer, or not taken.
Records(w) ==
    /\ wake[w].pc = "recording" /\ wake[w].i <= Len(wake[w].verdicts)
    /\ ~DefersToHost(w)
    /\ LET c == Verdict(w).conv IN
         \/ /\ Takes(c, Verdict(w).decision, AnchorOf(wake[w].cards[c]))
            /\ \E ok \in BOOLEAN : wake' = [wake EXCEPT ![w] = Counted(@, ok, c)]
         \/ wake' = [wake EXCEPT ![w] = Counted(@, FALSE, c)] /\ UNCHANGED <<read, blind>>
    /\ UNCHANGED <<newest, reply>>

Finishes(w) ==
    /\ wake[w].pc = "recording" /\ wake[w].i > Len(wake[w].verdicts)
    /\ wake' = [wake EXCEPT ![w].pc = "done", ![w].outcome = "decided",
                            ![w].undecided = IdsOf(w) \ Decided(wake[w].verdicts)]
    /\ UNCHANGED <<newest, read, blind, reply>>

----------------------------------------------------------------------------
(* The host *)

\* The turn of a reply verdict completes; one that is abandoned never does.
TurnEnds(w, c) ==
    /\ wake[w].pc = "done"
    /\ reply[w][c].pc = "handed"
    /\ reply' = [reply EXCEPT ![w][c].pc = "turned"]
    /\ UNCHANGED <<newest, read, blind, wake>>

\* record() of a completed turn, up to the await of the request; once it has
\* the decision a call returns it and does nothing.
RecordBegins(w, c) ==
    /\ reply[w][c].pc = "turned"
    /\ reply[w][c].posting < Recorders
    /\ ~reply[w][c].decision
    /\ reply' = [reply EXCEPT ![w][c].posting = @ + 1]
    /\ UNCHANGED <<newest, read, blind, wake>>

\* The request of one record() ends, as above.
RecordEnds(w, c) ==
    /\ reply[w][c].posting > 0
    /\ \/ /\ Takes(c, "reply", AnchorOf(wake[w].cards[c]))
          /\ \E ok \in BOOLEAN :
                reply' = [reply EXCEPT ![w][c].posting = @ - 1, ![w][c].decision = @ \/ ok]
       \/ /\ reply' = [reply EXCEPT ![w][c].posting = @ - 1]
          /\ UNCHANGED <<read, blind>>
    /\ UNCHANGED <<newest, wake>>

----------------------------------------------------------------------------
Next ==
    \/ \E c \in Convs : Arrives(c)
    \/ \E w \in Wakes :
          \/ Fetch(w) \/ ModelFails(w) \/ ModelAnswers(w)
          \/ HandsOver(w) \/ Records(w) \/ Finishes(w)
          \/ \E c \in Convs : TurnEnds(w, c) \/ RecordBegins(w, c) \/ RecordEnds(w, c)

Spec == Init /\ [][Next]_vars

----------------------------------------------------------------------------
(* Properties *)

Verdicts == [conv : Convs, decision : {"reply", "dismiss", "defer"}]

\* The type of the state; a run never holds a verdict on a conversation that
\* has no card, nor two on one (gate.py 301-321).
TypeOK ==
    /\ \A c \in Convs : newest[c] \in 0 .. MaxMessages[c]
    /\ \A c \in Convs : read[c] \in 0 .. newest[c]
    /\ blind \subseteq Convs
    /\ \A w \in Wakes :
         /\ wake[w].pc \in {"idle", "asking", "recording", "done"}
         /\ wake[w].verdicts \in Seq(Verdicts)
         /\ Decided(wake[w].verdicts) \subseteq IdsOf(w)
         /\ wake[w].i \in 1 .. Len(wake[w].verdicts) + 1
         /\ \A c \in Convs :
              /\ reply[w][c].pc \in {"none", "handed", "turned"}
              /\ reply[w][c].posting \in 0 .. Recorders

\* The verdicts of a run that it has dealt with
Past(w) == {wake[w].verdicts[i] : i \in 1 .. wake[w].i - 1}

\* The last message that a run's verdict on a conversation is about
Judged(w, c) ==
    IF \/ [conv |-> c, decision |-> "dismiss"] \in Past(w)
       \/ reply[w][c].pc = "turned"
    THEN IF wake[w].cards[c].preview # 0 THEN wake[w].cards[c].preview
         ELSE wake[w].cards[c].served
    ELSE 0

\* No message is read behind the agent's back: unless the server named neither
\* message of a card, a conversation is read no further than the card of some
\* run showed it, and then the model dismissed that card or asked for a reply
\* whose turn completed.  What arrived while the model was thinking, or during
\* the turn, stays on the tray, and so does what a crashed turn was to answer
\* (gate.py 407-418, 459-473, 548-571).
OnlyJudgedIsRead ==
    \A c \in Convs \ blind : read[c] = 0 \/ \E w \in Wakes : read[c] <= Judged(w, c)

\* What a run or a reply reports as recorded the server has: the conversation is
\* read through the card (gate.py 561-570, 416-418).
RecordedIsRead ==
    \A w \in Wakes, c \in Convs :
        \/ reply[w][c].decision
        \/ /\ wake[w].pc = "done"
           /\ [conv |-> c, decision |-> "dismiss"] \in Past(w)
           /\ wake[w].recorded = Cardinality({v \in Past(w) : v.decision # "reply"})
        => read[c] >= AnchorOf(wake[w].cards[c])

\* The result accounts for every card once: as undecided, as a verdict the
\* server took or did not take, or as a reply handed to the host; and a run
\* without a usable verdict has touched nothing (gate.py 374-378, 654-670).
Accounted ==
    \A w \in Wakes : wake[w].pc = "done" =>
        LET replies == {c \in Convs : reply[w][c].pc # "none"}
        IN  /\ wake[w].undecided = IdsOf(w) \ Decided(wake[w].verdicts)
            /\ Cardinality(IdsOf(w)) = Cardinality(wake[w].undecided) + wake[w].recorded
                                         + Cardinality(wake[w].failures) + Cardinality(replies)
            /\ wake[w].outcome = "decided" <=> Decided(wake[w].verdicts) # {}
=============================================================================
