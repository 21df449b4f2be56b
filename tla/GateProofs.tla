----------------------------- MODULE GateProofs -----------------------------
(***************************************************************************)
(* What the gate reads of a conversation was judged, what it reports as    *)
(* recorded was read, and its result accounts for every card: for any      *)
(* conversations, overlapping runs and answers of the model.               *)
(***************************************************************************)
EXTENDS Gate, SharedLemmas

----------------------------------------------------------------------------
(* Parsing *)

\* No conversation is decided twice.
Apart(verdicts) ==
    \A i, j \in 1 .. Len(verdicts) : verdicts[i].conv = verdicts[j].conv => i = j

\* What parse_verdicts may return of an answer about the conversations known
Judgements(known) ==
    {v \in Seq(Verdicts) : Decided(v) \subseteq known /\ Apart(v)}

LEMMA NormalizeType ==
  \A token : NormalizeDecision(token) \in {"reply", "dismiss", "defer", None}
  BY DEF NormalizeDecision

\* An item adds a verdict on a conversation that had none, or nothing.
LEMMA TakeIsJudgement ==
  ASSUME NEW known \in SUBSET Convs, NEW v \in Judgements(known), NEW item
  PROVE  Take(v, item, known) \in Judgements(known)
<1> DEFINE d == NormalizeDecision(item.token)
           new == [conv |-> item.conv, decision |-> d]
<1>1. CASE Take(v, item, known) = v
  BY <1>1
<1>2. CASE Take(v, item, known) # v
  <2>1. /\ item.conv \in known /\ item.conv \notin Decided(v) /\ d # None
        /\ Take(v, item, known) = Append(v, new)
    BY <1>2 DEF Take
  <2>2. d \in {"reply", "dismiss", "defer"}
    BY <2>1, NormalizeType
  <2>3. new \in Verdicts /\ new.conv = item.conv
    BY <2>1, <2>2 DEF Verdicts
  <2> HIDE DEF new
  <2>4. v \in Seq(Verdicts) /\ Apart(v) /\ Decided(v) \subseteq known
    BY DEF Judgements
  <2>5. /\ Append(v, new) \in Seq(Verdicts) /\ Len(Append(v, new)) = Len(v) + 1
        /\ \A i \in 1 .. Len(v) : Append(v, new)[i] = v[i]
        /\ Append(v, new)[Len(v) + 1] = new
    BY <2>3, <2>4
  <2>6. \A i \in 1 .. Len(v) : v[i].conv # item.conv
    BY <2>1, <2>4 DEF Decided
  <2> DEFINE u == Append(v, new)
  <2> HIDE DEF u
  <2>7. Apart(u)
    BY <2>3, <2>4, <2>5, <2>6 DEF Apart, u
  <2>8. Decided(u) \subseteq known
    <3>1. DOMAIN u = 1 .. Len(v) + 1 /\ DOMAIN v = 1 .. Len(v)
      BY <2>4, <2>5 DEF u
    <3> QED BY <2>1, <2>3, <2>4, <2>5, <3>1 DEF Decided, u
  <2> QED BY <2>1, <2>5, <2>7, <2>8 DEF Judgements, u
<1> QED BY <1>1, <1>2

\* parse_verdicts keeps the first verdict on each conversation of the tray, and
\* no other (gate.py 301-321).
LEMMA ParsedIsJudgement ==
  ASSUME NEW answer \in Answers, answer # None, NEW known \in SUBSET Convs
  PROVE  ParseVerdicts(answer, known) \in Judgements(known)
<1> DEFINE n == Len(answer)
           next == [i \in 1 .. n |-> [v \in Judgements(known) |-> Take(v, answer[i], known)]]
           Taken(f) == f = [i \in 0 .. n |-> IF i = 0 THEN <<>>
                                             ELSE Take(f[i - 1], answer[i], known)]
<1>1. n \in Nat
  BY GateAssumption
<1>2. <<>> \in Judgements(known)
  BY DEF Judgements, Decided, Apart
<1>3. next \in [1 .. n -> [Judgements(known) -> Judgements(known)]]
  BY TakeIsJudgement
<1>4. PICK g \in [0 .. n -> Judgements(known)] : Follows(g, n, <<>>, next)
  BY <1>1, <1>2, <1>3, RecursionIsDefined
<1>5. Taken(g)
  <2>1. \A i \in 1 .. n : next[i][g[i - 1]] = Take(g[i - 1], answer[i], known)
    BY <1>1, <1>4
  <2> HIDE DEF next
  <2>2. g = [i \in 0 .. n |-> IF i = 0 THEN <<>> ELSE next[i][g[i - 1]]]
    BY <1>4 DEF Follows
  <2>3. \A i \in 0 .. n : i = 0 \/ i \in 1 .. n
    BY <1>1
  <2> QED BY <2>1, <2>2, <2>3
<1> DEFINE f == CHOOSE h : Taken(h)
<1>6. Taken(f)
  BY <1>5
<1>7. ParseVerdicts(answer, known) = f[n]
  BY DEF ParseVerdicts
<1> HIDE DEF f
<1>8. f[n] \in Judgements(known)
  <2> DEFINE T == {i \in 0 .. n : f[i] \in Judgements(known)}
  <2>1. 0 \in T
    BY <1>1, <1>2, <1>6
  <2>2. ASSUME NEW i \in 0 .. n - 1, i \in T PROVE i + 1 \in T
    <3>1. f[i + 1] = Take(f[i], answer[i + 1], known)
      BY <1>1, <1>6
    <3> QED BY <1>1, <2>2, <3>1, TakeIsJudgement
  <2>3. 0 .. n \subseteq T
    <3> HIDE DEF T
    <3> QED BY <1>1, <2>1, <2>2, StepByStep
  <2> QED BY <1>1, <2>3
<1> QED BY <1>7, <1>8

----------------------------------------------------------------------------
(* The inductive invariant *)

CardType == [preview : Nat, last : Nat, served : Nat]

RunType ==
    [pc : {"idle", "asking", "recording", "done"}, cards : [Convs -> CardType],
     verdicts : Seq(Verdicts), i : Nat \ {0}, recorded : Nat, failures : SUBSET Convs,
     undecided : SUBSET Convs, outcome : {None, "empty", "fail_closed", "decided"}]

ReplyType == [pc : {"none", "handed", "turned"}, decision : BOOLEAN, posting : 0 .. Recorders]

Typed ==
    /\ newest \in [Convs -> Nat] /\ read \in [Convs -> Nat]
    /\ \A c \in Convs : newest[c] \in 1 .. MaxMessages[c] /\ read[c] <= newest[c]
    /\ blind \subseteq Convs
    /\ wake \in [Wakes -> RunType]
    /\ reply \in [Wakes -> [Convs -> ReplyType]]

\* The cards of a run, the verdicts it has dealt with, those of them it posted
\* itself, and the conversations of verdicts
CardsOf(r) == {c \in Convs : r.cards[c] # NoCard}
PastOf(r) == {r.verdicts[i] : i \in 1 .. r.i - 1}
PostedOf(r) == {v \in PastOf(r) : v.decision # "reply"}
ConvsOf(S) == {v.conv : v \in S}
Replying(c) == [conv |-> c, decision |-> "reply"]
Dismissing(c) == [conv |-> c, decision |-> "dismiss"]

\* Verdicts are on cards, one on each, and there are none before the model
\* has answered.
Judging(r) ==
    /\ Decided(r.verdicts) \subseteq CardsOf(r)
    /\ Apart(r.verdicts)
    /\ r.i <= Len(r.verdicts) + 1
    /\ r.pc \in {"idle", "asking"} => r.verdicts = <<>>

\* Every verdict posted was counted or is among the failures.
Tallied(r) ==
    /\ IsFiniteSet(PostedOf(r))
    /\ Cardinality(ConvsOf(PostedOf(r))) = Cardinality(PostedOf(r))
    /\ r.recorded + Cardinality(r.failures) = Cardinality(PostedOf(r))
    /\ r.failures \subseteq ConvsOf(PostedOf(r))

\* Handed to the host are the reply verdicts dealt with, and only a completed
\* turn is recorded.
Replied(r, p) ==
    \A c \in Convs :
        /\ p[c].pc # "none" <=> Replying(c) \in PastOf(r)
        /\ p[c].pc # "turned" => p[c].posting = 0 /\ ~p[c].decision

Closing(r) ==
    /\ r.pc = "idle" => r.undecided = {}
    /\ r.pc = "recording" => r.verdicts # <<>>
    /\ r.pc = "done" => /\ r.undecided = CardsOf(r) \ Decided(r.verdicts)
                        /\ r.outcome = "decided" <=> r.verdicts # <<>>
                        /\ r.i = Len(r.verdicts) + 1

RunsAreSound ==
    \A w \in Wakes : /\ Judging(wake[w]) /\ Tallied(wake[w])
                     /\ Replied(wake[w], reply[w]) /\ Closing(wake[w])

\* A card shows what the server had when it was served.
Served ==
    \A w \in Wakes, c \in Convs :
        LET card == wake[w].cards[c]
        IN  card.preview <= card.served /\ card.last \in {0, card.served} /\ card.served <= newest[c]

\* What the server was told and confirmed is read.
Kept ==
    \A w \in Wakes, c \in Convs :
        \/ reply[w][c].decision
        \/ Dismissing(c) \in PastOf(wake[w]) /\ c \notin wake[w].failures
        => read[c] >= AnchorOf(wake[w].cards[c])

IInv == Typed /\ RunsAreSound /\ Served /\ Kept /\ OnlyJudgedIsRead

----------------------------------------------------------------------------
(* What a run makes of one verdict *)

LEMMA NothingIsPast ==
  ASSUME NEW r \in RunType, r.i = 1
  PROVE  PastOf(r) = {} /\ PostedOf(r) = {}
  BY DEF PastOf, PostedOf, RunType

LEMMA EmptyTally ==
  ASSUME NEW r \in RunType, r.i = 1, Tallied(r)
  PROVE  r.recorded = 0 /\ r.failures = {}
<1>1. PostedOf(r) = {} /\ ConvsOf(PostedOf(r)) = {}
  BY NothingIsPast DEF ConvsOf
<1>2. r.failures = {} /\ Cardinality({}) = 0
  BY <1>1, FS_EmptySet DEF Tallied
<1>3. r.recorded \in Nat /\ r.recorded + 0 = 0
  BY <1>1, <1>2 DEF Tallied, RunType
<1> QED BY <1>2, <1>3

\* A run that has not begun to record stands at its first verdict.
LEMMA UnjudgedIsFirst ==
  ASSUME NEW r \in RunType, Judging(r), r.pc \in {"idle", "asking"}
  PROVE  r.i = 1 /\ r.verdicts = <<>> /\ PastOf(r) = {}
<1>1. r.verdicts = <<>> /\ Len(<<>>) = 0 /\ r.i \in Nat \ {0} /\ r.i <= Len(r.verdicts) + 1
  BY DEF Judging, RunType
<1>2. r.i = 1
  BY <1>1
<1> QED BY <1>1, <1>2, NothingIsPast

\* The next verdict is on a conversation none of those before is on.
LEMMA Advanced ==
  ASSUME NEW r \in RunType, Judging(r), r.i <= Len(r.verdicts),
         NEW r2, r2.verdicts = r.verdicts, r2.i = r.i + 1
  PROVE  LET v == r.verdicts[r.i]
         IN  /\ v \in Verdicts /\ v.conv \in Convs
             /\ PastOf(r) \subseteq Verdicts
             /\ PastOf(r2) = PastOf(r) \cup {v}
             /\ \A u \in PastOf(r) : u.conv # v.conv
<1> DEFINE n == Len(r.verdicts)
<1>1. r.verdicts \in Seq(Verdicts) /\ r.i \in 1 .. n /\ n \in Nat
  BY DEF RunType
<1>2. \A j \in 1 .. n : r.verdicts[j] \in Verdicts
  BY <1>1
<1>3. r.verdicts[r.i].conv \in Convs
  BY <1>1, <1>2 DEF Verdicts
<1>4. 1 .. r2.i - 1 = (1 .. r.i - 1) \cup {r.i} /\ 1 .. r.i - 1 \subseteq 1 .. n
  BY <1>1
<1>5. \A u \in PastOf(r) : u.conv # r.verdicts[r.i].conv
  <2> SUFFICES ASSUME NEW j \in 1 .. r.i - 1, r.verdicts[j].conv = r.verdicts[r.i].conv
               PROVE  FALSE
    BY DEF PastOf
  <2>1. j \in 1 .. n /\ j # r.i
    BY <1>1
  <2> QED BY <1>1, <2>1 DEF Judging, Apart
<1> QED BY <1>1, <1>2, <1>3, <1>4, <1>5 DEF PastOf

\* A verdict that is posted is counted, whether the call returned or raised.
LEMMA PostedIsTallied ==
  ASSUME NEW r \in RunType, Judging(r), Tallied(r), r.i <= Len(r.verdicts),
         NEW ok \in BOOLEAN, r.verdicts[r.i].decision # "reply"
  PROVE  LET c == r.verdicts[r.i].conv
         IN  Tallied(Counted(r, ok, c)) /\ c \notin r.failures
<1> DEFINE v == r.verdicts[r.i]
           r2 == Counted(r, ok, v.conv)
<1>1. /\ r2.verdicts = r.verdicts /\ r2.i = r.i + 1
      /\ r2.recorded = IF ok THEN r.recorded + 1 ELSE r.recorded
      /\ r2.failures = IF ok THEN r.failures ELSE r.failures \cup {v.conv}
  BY DEF Counted, RunType
<1>2. r.recorded \in Nat /\ r.failures \subseteq Convs
  BY DEF RunType
<1> HIDE DEF r2
<1>3. /\ v \in Verdicts /\ PastOf(r2) = PastOf(r) \cup {v} /\ PastOf(r) \subseteq Verdicts
      /\ \A u \in PastOf(r) : u.conv # v.conv
  BY <1>1, Advanced
<1> HIDE DEF v
<1>4. PostedOf(r2) = PostedOf(r) \cup {v} /\ v \notin PostedOf(r)
  BY <1>3 DEF PostedOf, v
<1>5. /\ ConvsOf(PostedOf(r2)) = ConvsOf(PostedOf(r)) \cup {v.conv}
      /\ v.conv \notin ConvsOf(PostedOf(r)) /\ ConvsOf(PostedOf(r)) \subseteq Convs
  BY <1>3, <1>4 DEF ConvsOf, PostedOf, Verdicts
<1>6. IsFiniteSet(ConvsOf(PostedOf(r))) /\ IsFiniteSet(r.failures)
  BY <1>2, <1>5, GateAssumption, FS_Subset
<1>7. IsFiniteSet(PostedOf(r)) /\ v.conv \notin r.failures
  BY <1>5 DEF Tallied
<1>8. /\ IsFiniteSet(PostedOf(r2))
      /\ Cardinality(PostedOf(r2)) = Cardinality(PostedOf(r)) + 1
      /\ Cardinality(ConvsOf(PostedOf(r2))) = Cardinality(ConvsOf(PostedOf(r))) + 1
      /\ Cardinality(r.failures \cup {v.conv}) = Cardinality(r.failures) + 1
  BY ZenonT(60), <1>4, <1>5, <1>6, <1>7, FS_AddElement
<1>9. Cardinality(r.failures) \in Nat /\ Cardinality(PostedOf(r)) \in Nat
  BY <1>6, <1>7, FS_CardinalityType
<1>10. Tallied(r2)
  BY SMTT(30), <1>1, <1>2, <1>5, <1>8, <1>9 DEF Tallied
<1> QED BY <1>7, <1>10 DEF r2, v

LEMMA CountedType ==
  ASSUME NEW r \in RunType, NEW c \in Convs, NEW ok,
         r.i + 1 \in Nat \ {0}, r.recorded + 1 \in Nat
  PROVE  Counted(r, ok, c) \in RunType
  BY Zenon DEF Counted, RunType

LEMMA PostedIsSound ==
  ASSUME NEW r \in RunType, NEW p \in [Convs -> ReplyType], NEW ok \in BOOLEAN,
         Judging(r), Tallied(r), Replied(r, p), Closing(r),
         r.pc = "recording", r.i <= Len(r.verdicts), r.verdicts[r.i].decision # "reply"
  PROVE  LET v == r.verdicts[r.i]
             r2 == Counted(r, ok, v.conv)
         IN  /\ r2 \in RunType /\ r2.cards = r.cards /\ PastOf(r2) = PastOf(r) \cup {v}
             /\ r2.failures = IF ok THEN r.failures ELSE r.failures \cup {v.conv}
             /\ Judging(r2) /\ Tallied(r2) /\ Replied(r2, p) /\ Closing(r2)
<1> DEFINE v == r.verdicts[r.i]
           r2 == Counted(r, ok, v.conv)
<1>1. /\ r2.verdicts = r.verdicts /\ r2.i = r.i + 1 /\ r2.pc = r.pc /\ r2.cards = r.cards
      /\ r2.failures = IF ok THEN r.failures ELSE r.failures \cup {v.conv}
  BY DEF Counted, RunType
<1>2. /\ v \in Verdicts /\ v.conv \in Convs /\ PastOf(r2) = PastOf(r) \cup {v}
      /\ \A u \in PastOf(r) : u.conv # v.conv
  <2> HIDE DEF r2
  <2> QED BY <1>1, Advanced
<1>3. r2 \in RunType
  <2>1. r.i + 1 \in Nat \ {0} /\ r.recorded + 1 \in Nat
    BY DEF RunType
  <2> QED BY <1>2, <2>1, CountedType
<1>4. Tallied(r2)
  BY PostedIsTallied
<1> HIDE DEF r2
<1>5. Judging(r2)
  BY <1>1 DEF Judging, CardsOf, RunType
<1>6. Replied(r2, p)
  <2>1. \A c \in Convs : Replying(c) # v
    BY DEF Replying
  <2> QED BY <1>2, <2>1 DEF Replied
<1>7. Closing(r2)
  BY <1>1 DEF Closing
<1> QED BY <1>1, <1>2, <1>3, <1>4, <1>5, <1>6, <1>7 DEF r2

\* A reply verdict is handed to the host.
LEMMA HandedIsSound ==
  ASSUME NEW r \in RunType, NEW p \in [Convs -> ReplyType],
         Judging(r), Tallied(r), Replied(r, p), Closing(r),
         r.pc = "recording", r.i <= Len(r.verdicts), r.verdicts[r.i].decision = "reply"
  PROVE  LET v == r.verdicts[r.i]
             r2 == [r EXCEPT !.i = @ + 1]
             p2 == [p EXCEPT ![v.conv].pc = "handed"]
         IN  /\ r2 \in RunType /\ p2 \in [Convs -> ReplyType] /\ v.conv \in Convs
             /\ r2.cards = r.cards /\ r2.failures = r.failures
             /\ PastOf(r2) = PastOf(r) \cup {Replying(v.conv)}
             /\ p[v.conv].pc = "none"
             /\ Judging(r2) /\ Tallied(r2) /\ Replied(r2, p2) /\ Closing(r2)
<1> DEFINE v == r.verdicts[r.i]
           r2 == [r EXCEPT !.i = @ + 1]
           p2 == [p EXCEPT ![v.conv].pc = "handed"]
<1>1. /\ r2 \in RunType /\ r2.verdicts = r.verdicts /\ r2.i = r.i + 1 /\ r2.pc = r.pc
      /\ r2.cards = r.cards /\ r2.failures = r.failures /\ r2.recorded = r.recorded
  <2>1. r.i + 1 \in Nat \ {0}
    BY DEF RunType
  <2> QED BY <2>1 DEF RunType
<1> HIDE DEF r2
<1>2. /\ v \in Verdicts /\ v.conv \in Convs /\ PastOf(r2) = PastOf(r) \cup {v}
      /\ \A u \in PastOf(r) : u.conv # v.conv
  BY <1>1, Advanced
<1>3. v = Replying(v.conv)
  BY <1>2 DEF Verdicts, Replying
<1>4. p[v.conv].pc = "none"
  <2>1. Replying(v.conv) \notin PastOf(r)
    BY <1>2, <1>3
  <2> QED BY <1>2, <2>1 DEF Replied
<1>5. p2 \in [Convs -> ReplyType]
  BY <1>2 DEF ReplyType
<1>6. Judging(r2)
  BY <1>1 DEF Judging, CardsOf, RunType
<1>7. Tallied(r2)
  <2>1. PostedOf(r2) = PostedOf(r)
    BY <1>2 DEF PostedOf
  <2> QED BY <1>1, <2>1 DEF Tallied
<1>8. Replied(r2, p2)
  <2>1. p2[v.conv].pc = "handed" /\ p2[v.conv].posting = p[v.conv].posting
        /\ p2[v.conv].decision = p[v.conv].decision
    BY <1>2 DEF ReplyType
  <2>2. \A c \in Convs \ {v.conv} : p2[c] = p[c] /\ Replying(c) # v
    BY <1>3 DEF Replying
  <2> HIDE DEF p2, v
  <2> QED BY <1>2, <1>3, <1>4, <2>1, <2>2 DEF Replied
<1>9. Closing(r2)
  BY <1>1 DEF Closing
<1> QED BY <1>1, <1>2, <1>3, <1>4, <1>5, <1>6, <1>7, <1>8, <1>9 DEF r2

----------------------------------------------------------------------------
(* One step of a run or of the host *)

\* Judged, of a run and its replies
JudgedOf(r, p, c) ==
    IF Dismissing(c) \in PastOf(r) \/ p[c].pc = "turned"
    THEN IF r.cards[c].preview # 0 THEN r.cards[c].preview ELSE r.cards[c].served
    ELSE 0

LEMMA JudgedIs == \A w \in Wakes, c \in Convs : Judged(w, c) = JudgedOf(wake[w], reply[w], c)
  BY DEF Judged, JudgedOf, Past, PastOf, Dismissing

LEMMA JudgedType ==
  ASSUME NEW r \in RunType, NEW p, NEW c \in Convs
  PROVE  JudgedOf(r, p, c) \in Nat
<1>1. r.cards[c] \in CardType
  BY DEF RunType
<1> QED BY <1>1 DEF JudgedOf, CardType

\* Whoever has judged more has judged no less of each conversation.
LEMMA JudgedGrows ==
  ASSUME NEW r \in RunType, NEW r2 \in RunType, NEW p, NEW p2,
         r2.cards = r.cards, PastOf(r) \subseteq PastOf(r2),
         \A c \in Convs : p[c].pc = "turned" => p2[c].pc = "turned"
  PROVE  \A c \in Convs : JudgedOf(r, p, c) <= JudgedOf(r2, p2, c)
<1> SUFFICES ASSUME NEW c \in Convs
             PROVE  JudgedOf(r, p, c) <= JudgedOf(r2, p2, c)
  OBVIOUS
<1>1. JudgedOf(r, p, c) \in Nat /\ JudgedOf(r2, p2, c) \in Nat
  BY JudgedType
<1>2. JudgedOf(r, p, c) = 0 \/ JudgedOf(r, p, c) = JudgedOf(r2, p2, c)
  BY DEF JudgedOf
<1> QED BY <1>1, <1>2

\* The cards of a run, as the server served them
ServedTo(r) ==
    \A c \in Convs :
        LET card == r.cards[c]
        IN  card.preview <= card.served /\ card.last \in {0, card.served} /\ card.served <= newest[c]

\* The decisions of a run and its replies that the server has confirmed
Confirmed(r, p, c) ==
    \/ p[c].decision
    \/ Dismissing(c) \in PastOf(r) /\ c \notin r.failures

\* A step of one run, or of the host with one of its replies, keeps the
\* invariant if it reads no further than was judged and says no more than the
\* server has.
LEMMA OneRunSteps ==
  ASSUME IInv, NEW w \in Wakes, NEW r2 \in RunType, NEW p2 \in [Convs -> ReplyType],
         wake' = [wake EXCEPT ![w] = r2], reply' = [reply EXCEPT ![w] = p2], newest' = newest,
         Judging(r2), Tallied(r2), Replied(r2, p2), Closing(r2), ServedTo(r2),
         read' \in [Convs -> Nat], \A c \in Convs : read[c] <= read'[c] /\ read'[c] <= newest[c],
         blind \subseteq blind', blind' \subseteq Convs,
         \A c \in Convs : JudgedOf(wake[w], reply[w], c) <= JudgedOf(r2, p2, c),
         \A c \in Convs \ blind' : read'[c] # read[c] => read'[c] <= JudgedOf(r2, p2, c),
         \A c \in Convs : Confirmed(r2, p2, c) => read'[c] >= AnchorOf(r2.cards[c])
  PROVE  IInv'
<1>0. /\ wake \in [Wakes -> RunType] /\ reply \in [Wakes -> [Convs -> ReplyType]]
      /\ newest \in [Convs -> Nat] /\ read \in [Convs -> Nat]
  BY DEF IInv, Typed
<1>1. /\ wake'[w] = r2 /\ reply'[w] = p2
      /\ \A x \in Wakes \ {w} : wake'[x] = wake[x] /\ reply'[x] = reply[x]
  BY <1>0
<1>2. Typed'
  <2>1. wake' \in [Wakes -> RunType]
    BY <1>0
  <2>2. reply' \in [Wakes -> [Convs -> ReplyType]]
    BY <1>0
  <2> QED BY <2>1, <2>2 DEF IInv, Typed
<1>3. RunsAreSound'
  BY <1>1 DEF IInv, RunsAreSound
<1>4. Served'
  BY <1>1 DEF IInv, Served, ServedTo
<1>5. Kept'
  <2> SUFFICES ASSUME NEW x \in Wakes, NEW c \in Convs,
                      \/ reply'[x][c].decision
                      \/ Dismissing(c) \in PastOf(wake'[x]) /\ c \notin wake'[x].failures
               PROVE  read'[c] >= AnchorOf(wake'[x].cards[c])
    BY DEF Kept
  <2>0. Confirmed(wake'[x], reply'[x], c)
    BY DEF Confirmed
  <2>1. CASE x = w
    BY <1>1, <2>0, <2>1
  <2>2. CASE x # w
    <3>1. wake[x].cards[c] \in CardType
      BY <1>0 DEF RunType
    <3>2. AnchorOf(wake[x].cards[c]) \in Nat /\ read[c] \in Nat /\ read'[c] \in Nat
      BY <1>0, <3>1 DEF CardType, AnchorOf
    <3>3. read[c] >= AnchorOf(wake[x].cards[c])
      BY <1>1, <2>0, <2>2 DEF IInv, Kept, Confirmed
    <3> QED BY <1>1, <2>2, <3>2, <3>3
  <2> QED BY <2>1, <2>2
<1>6. OnlyJudgedIsRead'
  <2>1. \A x \in Wakes, c \in Convs : Judged(x, c)' = JudgedOf(wake'[x], reply'[x], c)
    BY DEF Judged, JudgedOf, Past, PastOf, Dismissing
  <2> SUFFICES ASSUME NEW c \in Convs \ blind', read'[c] # 0
               PROVE  \E x \in Wakes : read'[c] <= JudgedOf(wake'[x], reply'[x], c)
    BY <2>1 DEF OnlyJudgedIsRead
  <2>2. CASE read'[c] # read[c]
    BY <1>1, <2>2
  <2>3. CASE read'[c] = read[c]
    <3>1. PICK x \in Wakes : read[c] <= JudgedOf(wake[x], reply[x], c)
      BY <2>3, JudgedIs DEF IInv, OnlyJudgedIsRead
    <3>2. JudgedOf(wake[x], reply[x], c) <= JudgedOf(wake'[x], reply'[x], c)
      <4>1. JudgedOf(wake[x], reply[x], c) \in Nat
        BY <1>0, JudgedType
      <4> QED BY <1>1, <4>1
    <3>3. /\ JudgedOf(wake[x], reply[x], c) \in Nat
          /\ JudgedOf(wake'[x], reply'[x], c) \in Nat /\ read[c] \in Nat
      BY <1>0, <1>1, JudgedType
    <3> QED BY <2>3, <3>1, <3>2, <3>3
  <2> QED BY <2>2, <2>3
<1> QED BY <1>2, <1>3, <1>4, <1>5, <1>6 DEF IInv

\* The same of a step that reads nothing
LEMMA OneRunStepsBlindly ==
  ASSUME IInv, NEW w \in Wakes, NEW r2 \in RunType, NEW p2 \in [Convs -> ReplyType],
         wake' = [wake EXCEPT ![w] = r2], reply' = [reply EXCEPT ![w] = p2],
         newest' = newest, read' = read, blind' = blind,
         Judging(r2), Tallied(r2), Replied(r2, p2), Closing(r2), ServedTo(r2),
         \A c \in Convs : JudgedOf(wake[w], reply[w], c) <= JudgedOf(r2, p2, c),
         \A c \in Convs : Confirmed(r2, p2, c) =>
                             Confirmed(wake[w], reply[w], c) /\ r2.cards = wake[w].cards
  PROVE  IInv'
<1>1. read \in [Convs -> Nat] /\ blind \subseteq Convs
      /\ \A c \in Convs : read[c] \in Nat /\ read[c] <= newest[c]
  BY DEF IInv, Typed
<1>2. \A c \in Convs : Confirmed(r2, p2, c) => read[c] >= AnchorOf(r2.cards[c])
  BY DEF IInv, Kept, Confirmed
<1>3. \A c \in Convs : read[c] <= read[c]
  BY <1>1
<1> QED BY <1>1, <1>2, <1>3, OneRunSteps

\* A run that makes no decision and hands over no reply
LEMMA RunMoves ==
  ASSUME IInv, NEW w \in Wakes, NEW r2 \in RunType,
         wake' = [wake EXCEPT ![w] = r2], UNCHANGED <<newest, read, blind, reply>>,
         r2.i = wake[w].i, PastOf(r2) = PastOf(wake[w]),
         r2.recorded = wake[w].recorded, r2.failures = wake[w].failures,
         r2.cards = wake[w].cards \/ PastOf(r2) = {},
         Judging(r2), Closing(r2), ServedTo(r2)
  PROVE  IInv'
<1> DEFINE r == wake[w]
           p == reply[w]
<1>1. r \in RunType /\ p \in [Convs -> ReplyType] /\ reply' = [reply EXCEPT ![w] = p]
  BY DEF IInv, Typed
<1>2. Tallied(r) /\ Replied(r, p)
  BY DEF IInv, RunsAreSound
<1> HIDE DEF r, p
<1>3. Tallied(r2)
  BY <1>2 DEF Tallied, PostedOf, r
<1>4. Replied(r2, p)
  BY <1>2 DEF Replied, r
<1>5. \A c \in Convs : JudgedOf(r, p, c) <= JudgedOf(r2, p, c)
  <2>1. CASE r2.cards = r.cards
    BY <1>1, <2>1, JudgedGrows DEF r
  <2>2. CASE PastOf(r2) = {}
    <3>1. \A c \in Convs : p[c].pc = "none"
      BY <1>4, <2>2 DEF Replied
    <3>2. \A c \in Convs : JudgedOf(r, p, c) = 0 /\ JudgedOf(r2, p, c) = 0
      BY <2>2, <3>1 DEF JudgedOf, r
    <3> QED BY <3>2
  <2> QED BY <2>1, <2>2 DEF r
<1>6. \A c \in Convs : Confirmed(r2, p, c) => Confirmed(r, p, c) /\ r2.cards = r.cards
  <2>1. CASE r2.cards = r.cards
    BY <2>1 DEF Confirmed, r
  <2>2. CASE PastOf(r2) = {}
    BY <1>4, <2>2 DEF Confirmed, Replied
  <2> QED BY <2>1, <2>2 DEF r
<1> QED BY <1>1, <1>3, <1>4, <1>5, <1>6, OneRunStepsBlindly DEF r, p

----------------------------------------------------------------------------
(* The actions *)

LEMMA InitIInv == Init => IInv
<1> SUFFICES ASSUME Init PROVE IInv
  OBVIOUS
<1>1. Idle \in RunType /\ NoReply \in ReplyType
  <2>1. NoCard \in CardType /\ <<>> \in Seq(Verdicts)
    BY DEF NoCard, CardType
  <2> QED BY <2>1, GateAssumption DEF Idle, NoReply, RunType, ReplyType
<1>2. Typed
  <2>1. newest = [c \in Convs |-> 1] /\ read = [c \in Convs |-> 0]
    BY DEF Init
  <2>2. \A c \in Convs : MaxMessages[c] \in Nat \ {0}
    BY GateAssumption
  <2> QED BY <1>1, <2>1, <2>2 DEF Init, Typed
<1>3. PastOf(Idle) = {} /\ PostedOf(Idle) = {}
  <2>1. Idle.i = 1
    BY DEF Idle
  <2> QED BY <1>1, <2>1, NothingIsPast
<1>4. RunsAreSound
  <2>1. Judging(Idle)
    BY DEF Judging, Idle, Decided, Apart
  <2>2. Tallied(Idle)
    <3>1. ConvsOf(PostedOf(Idle)) = {}
      BY <1>3 DEF ConvsOf
    <3>2. Idle.recorded = 0 /\ Idle.failures = {}
      BY DEF Idle
    <3>3. IsFiniteSet({}) /\ Cardinality({}) = 0
      BY FS_EmptySet
    <3> QED BY <1>3, <3>1, <3>2, <3>3 DEF Tallied
  <2>3. Replied(Idle, [c \in Convs |-> NoReply])
    BY <1>3 DEF Replied, NoReply
  <2>4. Closing(Idle)
    BY DEF Closing, Idle
  <2> QED BY <2>1, <2>2, <2>3, <2>4 DEF Init, RunsAreSound
<1>5. Served
  BY DEF Init, Served, Idle, NoCard
<1>6. Kept
  <2>1. \A w \in Wakes, c \in Convs : /\ wake[w] = Idle /\ reply[w][c] = NoReply
                                      /\ ~ NoReply.decision
    BY DEF Init, NoReply
  <2> QED BY <1>3, <2>1 DEF Kept
<1>7. OnlyJudgedIsRead
  BY DEF Init, OnlyJudgedIsRead
<1> QED BY <1>2, <1>4, <1>5, <1>6, <1>7 DEF IInv

LEMMA ArrivesKeeps ==
  ASSUME IInv, NEW c \in Convs, Arrives(c)
  PROVE  IInv'
<1>1. /\ newest' \in [Convs -> Nat]
      /\ \A d \in Convs : newest'[d] \in 1 .. MaxMessages[d] /\ newest[d] <= newest'[d]
  <2>1. newest \in [Convs -> Nat] /\ \A d \in Convs : newest[d] \in 1 .. MaxMessages[d]
    BY DEF IInv, Typed
  <2>2. MaxMessages[c] \in Nat /\ newest[c] < MaxMessages[c]
    BY GateAssumption DEF Arrives
  <2>3. newest' = [newest EXCEPT ![c] = newest[c] + 1]
    BY DEF Arrives
  <2> QED BY <2>1, <2>2, <2>3
<1>2. UNCHANGED <<read, blind, wake, reply>>
  BY DEF Arrives
<1>3. Typed'
  BY <1>1, <1>2 DEF IInv, Typed
<1>4. Served'
  <2>1. \A w \in Wakes, d \in Convs : wake[w].cards[d].served \in Nat
    BY DEF IInv, Typed, RunType, CardType
  <2>2. newest \in [Convs -> Nat]
    BY DEF IInv, Typed
  <2> QED BY <1>1, <1>2, <2>1, <2>2 DEF IInv, Served
<1>5. RunsAreSound' /\ Kept' /\ OnlyJudgedIsRead'
  BY <1>2 DEF IInv, RunsAreSound, Kept, OnlyJudgedIsRead, Judged, Past
<1> QED BY <1>3, <1>4, <1>5 DEF IInv

\* What the invariant says of one run and its replies
LEMMA RunIsSound ==
  ASSUME IInv, NEW w \in Wakes
  PROVE  /\ wake \in [Wakes -> RunType] /\ reply \in [Wakes -> [Convs -> ReplyType]]
         /\ wake[w] \in RunType /\ reply[w] \in [Convs -> ReplyType]
         /\ Judging(wake[w]) /\ Tallied(wake[w]) /\ Replied(wake[w], reply[w])
         /\ Closing(wake[w]) /\ ServedTo(wake[w])
         /\ reply = [reply EXCEPT ![w] = reply[w]]
         /\ wake = [wake EXCEPT ![w] = wake[w]]
  BY DEF IInv, Typed, RunsAreSound, Served, ServedTo

LEMMA CardsAreServed ==
  ASSUME IInv, NEW c \in Convs, NEW card \in Cards(c)
  PROVE  /\ card \in CardType /\ card.preview <= card.served
         /\ card.last \in {0, card.served} /\ card.served <= newest[c]
<1>1. newest[c] \in Nat /\ read[c] \in Nat
  BY DEF IInv, Typed
<1> QED BY <1>1 DEF Cards, CardType

LEMMA FetchKeeps ==
  ASSUME IInv, NEW w \in Wakes, Fetch(w)
  PROVE  IInv'
<1> DEFINE r == wake[w]
<1>1. PICK shown \in SUBSET Unread :
        \E cards \in [Convs -> {NoCard} \cup UNION {Cards(c) : c \in shown}] :
             /\ \A c \in Convs : IF c \in shown THEN cards[c] \in Cards(c) ELSE cards[c] = NoCard
             /\ wake' = [wake EXCEPT ![w].cards = cards,
                                     ![w].pc = IF shown = {} THEN "done" ELSE "asking",
                                     ![w].outcome = IF shown = {} THEN "empty" ELSE None]
  BY DEF Fetch
<1>2. PICK cards \in [Convs -> {NoCard} \cup UNION {Cards(c) : c \in shown}] :
             /\ \A c \in Convs : IF c \in shown THEN cards[c] \in Cards(c) ELSE cards[c] = NoCard
             /\ wake' = [wake EXCEPT ![w].cards = cards,
                                     ![w].pc = IF shown = {} THEN "done" ELSE "asking",
                                     ![w].outcome = IF shown = {} THEN "empty" ELSE None]
  BY <1>1
<1> DEFINE r2 == [r EXCEPT !.cards = cards, !.pc = IF shown = {} THEN "done" ELSE "asking",
                           !.outcome = IF shown = {} THEN "empty" ELSE None]
<1>3. wake' = [wake EXCEPT ![w] = r2]
  BY <1>2, RunIsSound
<1>4. r \in RunType /\ Judging(r) /\ Closing(r) /\ r.pc = "idle"
  BY RunIsSound DEF Fetch
<1>5. r.i = 1 /\ r.verdicts = <<>> /\ PastOf(r) = {} /\ r.undecided = {}
  BY <1>4, UnjudgedIsFirst DEF Closing
<1>6. \A c \in Convs : /\ cards[c] \in CardType /\ cards[c].preview <= cards[c].served
                       /\ cards[c].last \in {0, cards[c].served} /\ cards[c].served <= newest[c]
                       /\ shown = {} => cards[c] = NoCard
  <2> SUFFICES ASSUME NEW c \in Convs
               PROVE  /\ cards[c] \in CardType /\ cards[c].preview <= cards[c].served
                      /\ cards[c].last \in {0, cards[c].served} /\ cards[c].served <= newest[c]
                      /\ shown = {} => cards[c] = NoCard
    OBVIOUS
  <2>1. newest[c] \in Nat
    BY DEF IInv, Typed
  <2>2. /\ NoCard \in CardType /\ NoCard.preview = 0 /\ NoCard.served = 0 /\ NoCard.last = 0
    BY DEF NoCard, CardType
  <2>3. CASE c \in shown
    <3>1. cards[c] \in Cards(c)
      BY <1>2, <2>3
    <3> QED BY <2>3, <3>1, CardsAreServed
  <2>4. CASE c \notin shown
    <3>1. cards[c] = NoCard
      BY <1>2, <2>4
    <3> QED BY <2>1, <2>2, <3>1
  <2> QED BY <2>3, <2>4
<1>7. /\ r2 \in RunType /\ r2.cards = cards /\ r2.verdicts = <<>> /\ r2.i = 1
      /\ r2.undecided = {} /\ r2.recorded = r.recorded /\ r2.failures = r.failures
      /\ r2.pc = (IF shown = {} THEN "done" ELSE "asking")
      /\ r2.outcome = (IF shown = {} THEN "empty" ELSE None)
  <2>1. cards \in [Convs -> CardType]
    BY <1>2, <1>6
  <2> QED BY <1>4, <1>5, <2>1 DEF RunType
<1> HIDE DEF r, r2
<1>8. PastOf(r2) = {}
  BY <1>7, NothingIsPast
<1>9. Judging(r2)
  BY <1>7 DEF Judging, Decided, Apart
<1>10. Closing(r2)
  <2>1. shown = {} => CardsOf(r2) = {}
    BY <1>6, <1>7 DEF CardsOf
  <2>2. Len(<<>>) = 0
    OBVIOUS
  <2> QED BY <1>7, <2>1, <2>2 DEF Closing
<1>11. ServedTo(r2)
  BY <1>6, <1>7 DEF ServedTo
<1> QED BY <1>3, <1>5, <1>7, <1>8, <1>9, <1>10, <1>11, RunMoves DEF Fetch, r

LEMMA ClosedKeeps ==
  ASSUME IInv, NEW w \in Wakes, wake[w].pc = "asking",
         wake' = [wake EXCEPT ![w] = Closed(w)], UNCHANGED <<newest, read, blind, reply>>
  PROVE  IInv'
<1> DEFINE r == wake[w]
           r2 == Closed(w)
<1>1. r \in RunType /\ Judging(r) /\ Closing(r) /\ ServedTo(r)
  BY RunIsSound
<1>2. r.i = 1 /\ r.verdicts = <<>> /\ PastOf(r) = {}
  BY <1>1, UnjudgedIsFirst
<1>3. /\ r2 \in RunType /\ r2.cards = r.cards /\ r2.verdicts = <<>> /\ r2.i = 1
      /\ r2.undecided = CardsOf(r) /\ r2.recorded = r.recorded /\ r2.failures = r.failures
      /\ r2.pc = "done" /\ r2.outcome = "fail_closed"
  <2>1. IdsOf(w) = CardsOf(r) /\ CardsOf(r) \subseteq Convs
    BY DEF IdsOf, CardsOf
  <2> QED BY <1>1, <1>2, <2>1 DEF Closed, RunType
<1> HIDE DEF r, r2
<1>4. PastOf(r2) = {} /\ CardsOf(r2) = CardsOf(r)
  BY <1>3, NothingIsPast DEF CardsOf
<1>5. Judging(r2)
  BY <1>3 DEF Judging, Decided, Apart
<1>6. Closing(r2)
  <2>1. Len(<<>>) = 0 /\ Decided(<<>>) = {}
    BY DEF Decided
  <2> QED BY <1>3, <1>4, <2>1 DEF Closing
<1>7. ServedTo(r2)
  BY <1>1, <1>3 DEF ServedTo
<1> QED BY <1>2, <1>3, <1>4, <1>5, <1>6, <1>7, RunMoves DEF r, r2

LEMMA ModelAnswersKeeps ==
  ASSUME IInv, NEW w \in Wakes, ModelAnswers(w)
  PROVE  IInv'
<1> DEFINE r == wake[w]
<1>0. wake[w].pc = "asking" /\ UNCHANGED <<newest, read, blind, reply>>
  BY DEF ModelAnswers
<1>1. PICK answer \in Answers :
        LET verdicts == ParseVerdicts(answer, IdsOf(w))
        IN  wake' = [wake EXCEPT ![w] = IF Usable(verdicts)
                                        THEN [@ EXCEPT !.pc = "recording", !.verdicts = verdicts]
                                        ELSE Closed(w)]
  BY DEF ModelAnswers
<1> DEFINE verdicts == ParseVerdicts(answer, IdsOf(w))
<1>2. CASE ~Usable(verdicts)
  <2>1. wake' = [wake EXCEPT ![w] = Closed(w)]
    BY <1>1, <1>2
  <2> QED BY <1>0, <2>1, ClosedKeeps
<1>3. CASE Usable(verdicts)
  <2> DEFINE r2 == [r EXCEPT !.pc = "recording", !.verdicts = verdicts]
  <2>1. wake' = [wake EXCEPT ![w] = r2]
    BY <1>1, <1>3
  <2>2. r \in RunType /\ Judging(r) /\ Closing(r) /\ ServedTo(r)
    BY RunIsSound
  <2>3. r.i = 1 /\ PastOf(r) = {}
    BY <1>0, <2>2, UnjudgedIsFirst
  <2>4. verdicts \in Judgements(CardsOf(r)) /\ verdicts # <<>>
    <3>1. answer # None
      BY <1>3 DEF Usable, ParseVerdicts
    <3>2. IdsOf(w) = CardsOf(r) /\ CardsOf(r) \in SUBSET Convs
      BY DEF IdsOf, CardsOf
    <3> HIDE DEF r
    <3> QED BY <1>3, <3>1, <3>2, ParsedIsJudgement DEF Usable
  <2> HIDE DEF verdicts
  <2>5. /\ r2 \in RunType /\ r2.cards = r.cards /\ r2.verdicts = verdicts /\ r2.i = 1
        /\ r2.recorded = r.recorded /\ r2.failures = r.failures /\ r2.pc = "recording"
    BY <2>2, <2>3, <2>4 DEF RunType, Judgements
  <2> HIDE DEF r, r2
  <2>6. PastOf(r2) = {} /\ CardsOf(r2) = CardsOf(r)
    BY <2>5, NothingIsPast DEF CardsOf
  <2>7. Judging(r2)
    <3>1. Len(verdicts) \in Nat
      BY <2>4 DEF Judgements
    <3> QED BY <2>4, <2>5, <2>6, <3>1 DEF Judging, Judgements
  <2>8. Closing(r2)
    BY <2>4, <2>5 DEF Closing
  <2>9. ServedTo(r2)
    BY <2>2, <2>5 DEF ServedTo
  <2> QED BY <1>0, <2>1, <2>3, <2>5, <2>6, <2>7, <2>8, <2>9, RunMoves DEF r
<1> QED BY <1>2, <1>3

LEMMA FinishesKeeps ==
  ASSUME IInv, NEW w \in Wakes, Finishes(w)
  PROVE  IInv'
<1> DEFINE r == wake[w]
           r2 == [r EXCEPT !.pc = "done", !.outcome = "decided",
                           !.undecided = CardsOf(r) \ Decided(r.verdicts)]
<1>1. /\ r \in RunType /\ Judging(r) /\ Closing(r) /\ ServedTo(r)
      /\ r.pc = "recording" /\ r.i > Len(r.verdicts)
  BY RunIsSound DEF Finishes
<1>2. wake' = [wake EXCEPT ![w] = r2]
  <2>1. IdsOf(w) = CardsOf(r)
    BY DEF IdsOf, CardsOf
  <2> QED BY <2>1 DEF Finishes
<1>3. /\ r2 \in RunType /\ r2.cards = r.cards /\ r2.verdicts = r.verdicts /\ r2.i = r.i
      /\ r2.undecided = CardsOf(r) \ Decided(r.verdicts)
      /\ r2.recorded = r.recorded /\ r2.failures = r.failures
      /\ r2.pc = "done" /\ r2.outcome = "decided"
  <2>1. CardsOf(r) \subseteq Convs
    BY DEF CardsOf
  <2> QED BY <1>1, <2>1 DEF RunType
<1> HIDE DEF r, r2
<1>4. PastOf(r2) = PastOf(r) /\ CardsOf(r2) = CardsOf(r)
  BY <1>3 DEF PastOf, CardsOf
<1>5. Judging(r2)
  BY <1>1, <1>3, <1>4 DEF Judging
<1>6. Closing(r2)
  <2>1. r.i = Len(r.verdicts) + 1
    <3>1. r.i \in Nat /\ Len(r.verdicts) \in Nat
      BY <1>1 DEF RunType
    <3> QED BY <1>1, <3>1 DEF Judging
  <2>2. r.verdicts # <<>>
    BY <1>1 DEF Closing
  <2> QED BY <1>3, <1>4, <2>1, <2>2 DEF Closing
<1>7. ServedTo(r2)
  BY <1>1, <1>3 DEF ServedTo
<1> QED BY <1>2, <1>3, <1>4, <1>5, <1>6, <1>7, RunMoves DEF Finishes, r

LEMMA HandsOverKeeps ==
  ASSUME IInv, NEW w \in Wakes, HandsOver(w)
  PROVE  IInv'
<1> DEFINE r == wake[w]
           p == reply[w]
           v == r.verdicts[r.i]
           r2 == [r EXCEPT !.i = @ + 1]
           p2 == [p EXCEPT ![v.conv].pc = "handed"]
<1>1. /\ r \in RunType /\ p \in [Convs -> ReplyType]
      /\ Judging(r) /\ Tallied(r) /\ Replied(r, p) /\ Closing(r) /\ ServedTo(r)
      /\ r.pc = "recording" /\ r.i <= Len(r.verdicts) /\ v.decision = "reply"
  BY RunIsSound DEF HandsOver, DefersToHost, Verdict
<1>2. /\ r2 \in RunType /\ p2 \in [Convs -> ReplyType] /\ v.conv \in Convs
      /\ r2.cards = r.cards /\ r2.failures = r.failures
      /\ PastOf(r2) = PastOf(r) \cup {Replying(v.conv)} /\ p[v.conv].pc = "none"
      /\ Judging(r2) /\ Tallied(r2) /\ Replied(r2, p2) /\ Closing(r2)
  <2> HIDE DEF r, p
  <2> QED BY <1>1, HandedIsSound
<1>3. /\ wake' = [wake EXCEPT ![w] = r2] /\ reply' = [reply EXCEPT ![w] = p2]
      /\ UNCHANGED <<newest, read, blind>>
  BY RunIsSound DEF HandsOver, Verdict
<1> HIDE DEF r2
<1>4. \A c \in Convs : p2[c].decision = p[c].decision /\ (p[c].pc = "turned" => p2[c].pc = "turned")
  <2>1. \A c \in Convs : p[c] \in ReplyType
    BY <1>1
  <2> HIDE DEF p, v, r
  <2> QED BY <1>2, <2>1 DEF ReplyType
<1> HIDE DEF r, p, v, p2
<1>5. \A c \in Convs : JudgedOf(r, p, c) <= JudgedOf(r2, p2, c)
  BY <1>1, <1>2, <1>4, JudgedGrows
<1>6. \A c \in Convs : Confirmed(r2, p2, c) => Confirmed(r, p, c) /\ r2.cards = r.cards
  <2>1. \A c \in Convs : Dismissing(c) # Replying(v.conv)
    BY DEF Dismissing, Replying
  <2> QED BY <1>2, <1>4, <2>1 DEF Confirmed
<1>7. ServedTo(r2)
  BY <1>1, <1>2 DEF ServedTo
<1> QED BY <1>2, <1>3, <1>5, <1>6, <1>7, OneRunStepsBlindly DEF r, p

\* What the server makes of a verdict it takes
LEMMA TakesReads ==
  ASSUME IInv, NEW c \in Convs, NEW decision, NEW anchor \in Nat, anchor <= newest[c],
         Takes(c, decision, anchor)
  PROVE  /\ read' \in [Convs -> Nat] /\ blind \subseteq blind' /\ blind' \subseteq Convs
         /\ \A d \in Convs : read[d] <= read'[d] /\ read'[d] <= newest[d]
         /\ \A d \in Convs \ blind' : read'[d] # read[d] =>
                d = c /\ decision # "defer" /\ anchor # 0 /\ read'[d] = anchor
         /\ decision # "defer" => read'[c] >= anchor
<1> DEFINE through == IF anchor = 0 THEN newest[c] ELSE anchor
<1>1. /\ read \in [Convs -> Nat] /\ newest \in [Convs -> Nat] /\ blind \subseteq Convs
      /\ \A d \in Convs : read[d] \in Nat /\ newest[d] \in Nat /\ read[d] <= newest[d]
  BY DEF IInv, Typed
<1>2. /\ read' = [read EXCEPT ![c] = IF decision # "defer" /\ through > @ THEN through ELSE @]
      /\ blind' = IF decision # "defer" /\ anchor = 0 THEN blind \cup {c} ELSE blind
  BY DEF Takes
<1>3. through \in Nat /\ through <= newest[c] /\ through >= anchor
  BY <1>1
<1>4. /\ read'[c] = IF decision # "defer" /\ through > read[c] THEN through ELSE read[c]
      /\ \A d \in Convs \ {c} : read'[d] = read[d]
      /\ read' \in [Convs -> Nat]
  BY <1>1, <1>2, <1>3
<1>5. read'[c] # read[c] => decision # "defer" /\ read'[c] = through
  BY <1>4
<1>6. read[c] <= read'[c] /\ read'[c] <= newest[c] /\ (decision # "defer" => read'[c] >= anchor)
  <2> HIDE DEF through
  <2> QED BY <1>1, <1>3, <1>4
<1> QED BY <1>1, <1>2, <1>4, <1>5, <1>6

LEMMA AnchorIsServed ==
  ASSUME IInv, NEW w \in Wakes, NEW c \in Convs
  PROVE  /\ AnchorOf(wake[w].cards[c]) \in Nat /\ AnchorOf(wake[w].cards[c]) <= newest[c]
         /\ AnchorOf(wake[w].cards[c]) # 0 =>
                AnchorOf(wake[w].cards[c]) = IF wake[w].cards[c].preview # 0
                                             THEN wake[w].cards[c].preview
                                             ELSE wake[w].cards[c].served
<1> DEFINE card == wake[w].cards[c]
<1>1. card \in CardType /\ newest[c] \in Nat
  BY DEF IInv, Typed, RunType
<1>2. card.preview <= card.served /\ card.last \in {0, card.served} /\ card.served <= newest[c]
  BY DEF IInv, Served
<1> HIDE DEF card
<1>3. card.preview \in Nat /\ card.served \in Nat /\ card.last \in Nat
  BY <1>1 DEF CardType
<1> QED BY <1>1, <1>2, <1>3 DEF AnchorOf, card

\* A step of a run and its replies after which they have judged no less, and
\* one after which they say no more of other conversations than before
JudgesOn(r, p, r2, p2) == \A d \in Convs : JudgedOf(r, p, d) <= JudgedOf(r2, p2, d)
ConfirmsOnly(r, p, r2, p2, c) ==
    \A d \in Convs : Confirmed(r2, p2, d) => Confirmed(r, p, d) \/ d = c

\* A step that may read: a verdict taken, as dismiss by the run or as reply by
\* the host, or not taken.
LEMMA JudgedStep ==
  ASSUME IInv, NEW w \in Wakes, NEW c \in Convs, NEW decision \in {"reply", "dismiss", "defer"},
         NEW r2 \in RunType, NEW p2 \in [Convs -> ReplyType],
         wake' = [wake EXCEPT ![w] = r2], reply' = [reply EXCEPT ![w] = p2], newest' = newest,
         Judging(r2), Tallied(r2), Replied(r2, p2), Closing(r2), r2.cards = wake[w].cards,
         \/ Takes(c, decision, AnchorOf(wake[w].cards[c]))
         \/ read' = read /\ blind' = blind,
         JudgesOn(wake[w], reply[w], r2, p2),
         decision # "defer" => Dismissing(c) \in PastOf(r2) \/ p2[c].pc = "turned",
         ConfirmsOnly(wake[w], reply[w], r2, p2, c),
         Confirmed(r2, p2, c) =>
             \/ Confirmed(wake[w], reply[w], c)
             \/ decision # "defer" /\ Takes(c, decision, AnchorOf(wake[w].cards[c]))
  PROVE  IInv'
<1> DEFINE card == wake[w].cards[c]
<1>0. ServedTo(r2)
  BY RunIsSound DEF ServedTo
<1>1. AnchorOf(card) \in Nat /\ AnchorOf(card) <= newest[c]
  BY AnchorIsServed
<1>2. /\ read' \in [Convs -> Nat] /\ blind \subseteq blind' /\ blind' \subseteq Convs
      /\ \A d \in Convs : read[d] <= read'[d] /\ read'[d] <= newest[d]
  <2>1. CASE Takes(c, decision, AnchorOf(card))
    BY <1>1, <2>1, TakesReads
  <2>2. CASE read' = read /\ blind' = blind
    <3>1. /\ read \in [Convs -> Nat] /\ blind \subseteq Convs
          /\ \A d \in Convs : read[d] \in Nat /\ read[d] <= newest[d]
      BY DEF IInv, Typed
    <3>2. \A d \in Convs : read[d] <= read[d]
      BY <3>1
    <3> QED BY <2>2, <3>1, <3>2
  <2> QED BY <2>1, <2>2
<1>3. ASSUME NEW d \in Convs \ blind', read'[d] # read[d]
      PROVE  read'[d] <= JudgedOf(r2, p2, d)
  <2>1. Takes(c, decision, AnchorOf(card))
    BY <1>3
  <2>2. d = c /\ decision # "defer" /\ AnchorOf(card) # 0 /\ read'[d] = AnchorOf(card)
    BY <1>1, <1>3, <2>1, TakesReads
  <2>3. JudgedOf(r2, p2, c) = IF card.preview # 0 THEN card.preview ELSE card.served
    BY <2>2 DEF JudgedOf
  <2>4. JudgedOf(r2, p2, c) = AnchorOf(card)
    BY <2>2, <2>3, AnchorIsServed
  <2> QED BY <1>1, <2>2, <2>4
<1>4. ASSUME NEW d \in Convs, Confirmed(r2, p2, d)
      PROVE  read'[d] >= AnchorOf(r2.cards[d])
  <2>1. CASE Confirmed(wake[w], reply[w], d)
    <3>1. read[d] >= AnchorOf(wake[w].cards[d])
      BY <2>1 DEF IInv, Kept, Confirmed
    <3>2. AnchorOf(wake[w].cards[d]) \in Nat /\ read[d] \in Nat /\ read'[d] \in Nat
      BY <1>2, AnchorIsServed DEF IInv, Typed
    <3> QED BY <1>2, <3>1, <3>2
  <2>2. CASE d = c /\ decision # "defer" /\ Takes(c, decision, AnchorOf(card))
    BY <1>1, <2>2, TakesReads
  <2> QED BY <1>4, <2>1, <2>2 DEF ConfirmsOnly
<1> QED BY <1>0, <1>2, <1>3, <1>4, OneRunSteps DEF JudgesOn

LEMMA RecordsKeeps ==
  ASSUME IInv, NEW w \in Wakes, Records(w)
  PROVE  IInv'
<1> DEFINE r == wake[w]
           p == reply[w]
           v == r.verdicts[r.i]
<1>1. /\ r \in RunType /\ p \in [Convs -> ReplyType]
      /\ Judging(r) /\ Tallied(r) /\ Replied(r, p) /\ Closing(r)
      /\ r.pc = "recording" /\ r.i <= Len(r.verdicts) /\ v.decision # "reply"
  BY RunIsSound DEF Records, DefersToHost, Verdict
<1>2. PICK ok \in BOOLEAN :
        /\ wake' = [wake EXCEPT ![w] = Counted(r, ok, v.conv)]
        /\ \/ Takes(v.conv, v.decision, AnchorOf(r.cards[v.conv]))
           \/ ~ok /\ read' = read /\ blind' = blind
  BY DEF Records, Verdict
<1> DEFINE r2 == Counted(r, ok, v.conv)
<1>3. v \in Verdicts /\ v.conv \in Convs /\ v.decision \in {"dismiss", "defer"}
  <2>1. r.verdicts \in Seq(Verdicts) /\ r.i \in 1 .. Len(r.verdicts)
    BY <1>1 DEF RunType
  <2>2. v \in Verdicts
    BY <2>1
  <2> QED BY <1>1, <2>2 DEF Verdicts
<1>4. /\ r2 \in RunType /\ r2.cards = r.cards /\ PastOf(r2) = PastOf(r) \cup {v}
      /\ r2.failures = IF ok THEN r.failures ELSE r.failures \cup {v.conv}
      /\ Judging(r2) /\ Tallied(r2) /\ Replied(r2, p) /\ Closing(r2)
  <2> HIDE DEF r, p
  <2> QED BY <1>1, PostedIsSound
<1>5. reply' = [reply EXCEPT ![w] = p] /\ newest' = newest
  BY RunIsSound DEF Records
<1> HIDE DEF r, p, v, r2
<1>6. \A c \in Convs : JudgedOf(r, p, c) <= JudgedOf(r2, p, c)
  BY <1>1, <1>4, JudgedGrows
<1>7. v = [conv |-> v.conv, decision |-> v.decision]
  BY <1>3 DEF Verdicts
<1>8. v.decision # "defer" => Dismissing(v.conv) \in PastOf(r2)
  BY <1>3, <1>4, <1>7 DEF Dismissing
<1>9. ASSUME NEW d \in Convs, Confirmed(r2, p, d)
      PROVE  \/ Confirmed(r, p, d)
             \/ /\ d = v.conv /\ v.decision # "defer"
                /\ Takes(v.conv, v.decision, AnchorOf(r.cards[v.conv]))
  <2>1. CASE p[d].decision \/ (Dismissing(d) \in PastOf(r) /\ d \notin r.failures)
    BY <2>1 DEF Confirmed
  <2>2. CASE Dismissing(d) = v /\ d \notin r2.failures
    <3>1. d = v.conv /\ v.decision = "dismiss"
      BY <2>2 DEF Dismissing
    <3>2. ok
      BY <1>4, <2>2, <3>1
    <3> QED BY <1>2, <3>1, <3>2 DEF r, v
  <2> QED BY <1>4, <1>9, <2>1, <2>2 DEF Confirmed
<1>10. /\ wake' = [wake EXCEPT ![w] = r2]
       /\ \/ Takes(v.conv, v.decision, AnchorOf(r.cards[v.conv]))
          \/ read' = read /\ blind' = blind
  BY <1>2 DEF r, v, r2
<1>11. PICK c \in Convs, decision \in {"reply", "dismiss", "defer"} :
          c = v.conv /\ decision = v.decision
  BY <1>3
<1>12. /\ r2.cards = wake[w].cards
       /\ \/ Takes(c, decision, AnchorOf(wake[w].cards[c]))
          \/ read' = read /\ blind' = blind
       /\ JudgesOn(wake[w], reply[w], r2, p)
       /\ decision # "defer" => Dismissing(c) \in PastOf(r2) \/ p[c].pc = "turned"
       /\ ConfirmsOnly(wake[w], reply[w], r2, p, c)
       /\ Confirmed(r2, p, c) =>
             \/ Confirmed(wake[w], reply[w], c)
             \/ decision # "defer" /\ Takes(c, decision, AnchorOf(wake[w].cards[c]))
  BY <1>4, <1>6, <1>8, <1>9, <1>10, <1>11 DEF r, p, JudgesOn, ConfirmsOnly
<1>13. /\ r2 \in RunType /\ p \in [Convs -> ReplyType]
       /\ wake' = [wake EXCEPT ![w] = r2] /\ reply' = [reply EXCEPT ![w] = p] /\ newest' = newest
       /\ Judging(r2) /\ Tallied(r2) /\ Replied(r2, p) /\ Closing(r2)
  BY <1>1, <1>4, <1>5, <1>10
<1> QED BY <1>12, <1>13, JudgedStep

\* A step of the host with one reply that a run handed over
LEMMA HostSteps ==
  ASSUME IInv, NEW w \in Wakes, NEW c \in Convs, NEW q \in ReplyType,
         reply[w][c].pc # "none", q.pc \in {"handed", "turned"},
         reply[w][c].pc = "turned" => q.pc = "turned",
         q.pc # "turned" => q.posting = 0 /\ ~q.decision,
         reply' = [reply EXCEPT ![w][c] = q], UNCHANGED <<newest, wake>>,
         \/ Takes(c, "reply", AnchorOf(wake[w].cards[c])) /\ q.pc = "turned"
         \/ read' = read /\ blind' = blind /\ (q.decision => reply[w][c].decision)
  PROVE  IInv'
<1> DEFINE r == wake[w]
           p == reply[w]
           p2 == [p EXCEPT ![c] = q]
<1>1. /\ r \in RunType /\ p \in [Convs -> ReplyType]
      /\ Judging(r) /\ Tallied(r) /\ Replied(r, p) /\ Closing(r) /\ ServedTo(r)
      /\ wake' = [wake EXCEPT ![w] = r]
  BY RunIsSound
<1>2. reply' = [reply EXCEPT ![w] = p2] /\ p2 \in [Convs -> ReplyType]
  BY RunIsSound
<1>3. p2[c] = q /\ \A d \in Convs \ {c} : p2[d] = p[d]
  BY <1>1
<1> HIDE DEF r, p2
<1>4. Replied(r, p2)
  BY <1>1, <1>3 DEF Replied
<1>5. \A d \in Convs : JudgedOf(r, p, d) <= JudgedOf(r, p2, d)
  <2>1. \A d \in Convs : p[d].pc = "turned" => p2[d].pc = "turned"
    BY <1>3
  <2> QED BY <1>1, <2>1, JudgedGrows
<1>6. CASE Takes(c, "reply", AnchorOf(wake[w].cards[c])) /\ q.pc = "turned"
  <2>1. \A d \in Convs : Confirmed(r, p2, d) => Confirmed(r, p, d) \/ d = c
    BY <1>3 DEF Confirmed
  <2>2. p2[c].pc = "turned"
    BY <1>3, <1>6
  <2> HIDE DEF p
  <2>3. JudgesOn(wake[w], reply[w], r, p2) /\ ConfirmsOnly(wake[w], reply[w], r, p2, c)
    BY <1>5, <2>1 DEF r, p, JudgesOn, ConfirmsOnly
  <2>4. /\ r \in RunType /\ r.cards = wake[w].cards
        /\ wake' = [wake EXCEPT ![w] = r] /\ reply' = [reply EXCEPT ![w] = p2] /\ newest' = newest
        /\ Judging(r) /\ Tallied(r) /\ Replied(r, p2) /\ Closing(r)
        /\ "reply" \in {"reply", "dismiss", "defer"} /\ "reply" # "defer"
    BY <1>1, <1>2, <1>4 DEF r
  <2> QED BY <1>2, <1>6, <2>2, <2>3, <2>4, JudgedStep
<1>7. CASE read' = read /\ blind' = blind /\ (q.decision => reply[w][c].decision)
  <2>1. \A d \in Convs : Confirmed(r, p2, d) => Confirmed(r, p, d)
    BY <1>3, <1>7 DEF Confirmed
  <2> HIDE DEF p
  <2> QED BY <1>1, <1>2, <1>4, <1>5, <1>7, <2>1, OneRunStepsBlindly DEF r, p
<1> QED BY <1>6, <1>7

LEMMA HostKeeps ==
  ASSUME IInv, NEW w \in Wakes, NEW c \in Convs,
         TurnEnds(w, c) \/ RecordBegins(w, c) \/ RecordEnds(w, c)
  PROVE  IInv'
<1> DEFINE p == reply[w][c]
<1>1. /\ p \in ReplyType /\ reply \in [Wakes -> [Convs -> ReplyType]]
      /\ p.pc # "turned" => p.posting = 0 /\ ~p.decision
  <2>1. reply \in [Wakes -> [Convs -> ReplyType]] /\ Replied(wake[w], reply[w])
    BY RunIsSound
  <2> QED BY <2>1 DEF Replied
<1>2. p.posting \in 0 .. Recorders /\ p.decision \in BOOLEAN /\ Recorders \in Nat
  BY <1>1, GateAssumption DEF ReplyType
<1>3. CASE TurnEnds(w, c)
  <2> DEFINE q == [p EXCEPT !.pc = "turned"]
  <2>1. /\ reply' = [reply EXCEPT ![w][c] = q] /\ p.pc = "handed"
        /\ UNCHANGED <<newest, wake, read, blind>>
    BY <1>1, <1>3 DEF TurnEnds
  <2>2. q \in ReplyType /\ q.pc = "turned" /\ q.decision = p.decision
    BY <1>1 DEF ReplyType
  <2> HIDE DEF q
  <2> QED BY <2>1, <2>2, HostSteps
<1>4. CASE RecordBegins(w, c)
  <2> DEFINE q == [p EXCEPT !.posting = @ + 1]
  <2>1. /\ reply' = [reply EXCEPT ![w][c] = q] /\ p.pc = "turned" /\ p.posting < Recorders
        /\ UNCHANGED <<newest, wake, read, blind>>
    BY <1>1, <1>4 DEF RecordBegins
  <2>2. p.posting + 1 \in 0 .. Recorders
    BY <1>2, <2>1
  <2>3. q \in ReplyType /\ q.pc = "turned" /\ q.decision = p.decision
    BY <1>1, <2>1, <2>2 DEF ReplyType
  <2> HIDE DEF q
  <2> QED BY <2>1, <2>3, HostSteps
<1>5. CASE RecordEnds(w, c)
  <2>1. p.posting > 0 /\ p.pc = "turned" /\ p.posting - 1 \in 0 .. Recorders
        /\ UNCHANGED <<newest, wake>>
    BY <1>1, <1>2, <1>5 DEF RecordEnds
  <2>2. CASE /\ Takes(c, "reply", AnchorOf(wake[w].cards[c]))
             /\ \E ok \in BOOLEAN :
                  reply' = [reply EXCEPT ![w][c].posting = @ - 1, ![w][c].decision = @ \/ ok]
    <3>1. PICK ok \in BOOLEAN :
            reply' = [reply EXCEPT ![w][c].posting = @ - 1, ![w][c].decision = @ \/ ok]
      BY <2>2
    <3> DEFINE q == [p EXCEPT !.posting = @ - 1, !.decision = @ \/ ok]
    <3>2. reply' = [reply EXCEPT ![w][c] = q]
      BY <1>1, <3>1
    <3>3. (p.decision \/ ok) \in BOOLEAN
      OBVIOUS
    <3>4. q \in ReplyType /\ q.pc = "turned"
      BY <1>1, <2>1, <3>3 DEF ReplyType
    <3> HIDE DEF q
    <3> QED BY <2>1, <2>2, <3>2, <3>4, HostSteps
  <2>3. CASE /\ reply' = [reply EXCEPT ![w][c].posting = @ - 1]
             /\ UNCHANGED <<read, blind>>
    <3> DEFINE q == [p EXCEPT !.posting = @ - 1]
    <3>1. reply' = [reply EXCEPT ![w][c] = q]
      BY <1>1, <2>3
    <3>2. q \in ReplyType /\ q.pc = "turned" /\ q.decision = p.decision
      BY <1>1, <2>1 DEF ReplyType
    <3> HIDE DEF q
    <3> QED BY ZenonT(60), <2>1, <2>3, <3>1, <3>2, HostSteps
  <2> QED BY <1>5, <2>2, <2>3 DEF RecordEnds
<1> QED BY <1>3, <1>4, <1>5

LEMMA NextKeeps ==
  ASSUME IInv, [Next]_vars
  PROVE  IInv'
<1>1. CASE UNCHANGED vars
  BY <1>1 DEF vars, IInv, Typed, RunsAreSound, Served, Kept, OnlyJudgedIsRead, Judged, Past
<1>2. ASSUME NEW c \in Convs, Arrives(c) PROVE IInv'
  BY <1>2, ArrivesKeeps
<1>3. ASSUME NEW w \in Wakes,
             \/ Fetch(w) \/ ModelFails(w) \/ ModelAnswers(w)
             \/ HandsOver(w) \/ Records(w) \/ Finishes(w)
             \/ \E c \in Convs : TurnEnds(w, c) \/ RecordBegins(w, c) \/ RecordEnds(w, c)
      PROVE  IInv'
  <2>1. CASE ModelFails(w)
    BY <2>1, ClosedKeeps DEF ModelFails
  <2> QED BY <1>3, <2>1, FetchKeeps, ModelAnswersKeeps, HandsOverKeeps, RecordsKeeps,
             FinishesKeeps, HostKeeps
<1> QED BY <1>1, <1>2, <1>3 DEF Next

LEMMA Invariance == Spec => []IInv
<1>1. IInv /\ [Next]_vars => IInv'
  BY NextKeeps
<1> QED BY <1>1, InitIInv, PTL DEF Spec

----------------------------------------------------------------------------
(* The theorems *)

\* Every variable keeps its type; a run never holds a verdict on a conversation
\* without a card (gate.py 301-321).
THEOREM TypeCorrect == Spec => []TypeOK
<1>1. IInv => TypeOK
  <2> SUFFICES ASSUME IInv PROVE TypeOK
    OBVIOUS
  <2>1. \A c \in Convs : newest[c] \in 0 .. MaxMessages[c] /\ read[c] \in 0 .. newest[c]
    <3> SUFFICES ASSUME NEW c \in Convs
                 PROVE  newest[c] \in 0 .. MaxMessages[c] /\ read[c] \in 0 .. newest[c]
      OBVIOUS
    <3>1. newest[c] \in 1 .. MaxMessages[c] /\ read[c] \in Nat /\ read[c] <= newest[c]
      BY DEF IInv, Typed
    <3>2. MaxMessages[c] \in Nat
      BY GateAssumption
    <3> QED BY <3>1, <3>2
  <2>2. ASSUME NEW w \in Wakes
        PROVE  /\ wake[w].pc \in {"idle", "asking", "recording", "done"}
               /\ wake[w].verdicts \in Seq(Verdicts)
               /\ Decided(wake[w].verdicts) \subseteq IdsOf(w)
               /\ wake[w].i \in 1 .. Len(wake[w].verdicts) + 1
    <3>1. wake[w] \in RunType /\ Judging(wake[w])
      BY RunIsSound
    <3>2. wake[w].i \in Nat \ {0} /\ Len(wake[w].verdicts) \in Nat
      BY <3>1 DEF RunType
    <3> QED BY <3>1, <3>2 DEF RunType, Judging, IdsOf, CardsOf
  <2>3. ASSUME NEW w \in Wakes, NEW c \in Convs
        PROVE  /\ reply[w][c].pc \in {"none", "handed", "turned"}
               /\ reply[w][c].posting \in 0 .. Recorders
    <3>1. reply[w][c] \in ReplyType
      BY DEF IInv, Typed
    <3> QED BY <3>1 DEF ReplyType
  <2>4. blind \subseteq Convs
    BY DEF IInv, Typed
  <2> QED BY <2>1, <2>2, <2>3, <2>4 DEF TypeOK
<1> QED BY <1>1, Invariance, PTL

\* Nothing is read of a conversation that no run judged, however runs overlap,
\* messages arrive and turns are abandoned (gate.py 407-418, 459-473, 548-571).
THEOREM OnlyTheJudgedIsRead == Spec => []OnlyJudgedIsRead
<1>1. IInv => OnlyJudgedIsRead
  BY DEF IInv
<1> QED BY <1>1, Invariance, PTL

\* What a run or a reply reports as recorded is read through its card, though
\* calls fail, answers get lost and record() overlaps (gate.py 561-570, 416-418).
THEOREM TheRecordedIsRead == Spec => []RecordedIsRead
<1>1. IInv => RecordedIsRead
  <2> SUFFICES ASSUME IInv, NEW w \in Wakes, NEW c \in Convs,
                      \/ reply[w][c].decision
                      \/ /\ wake[w].pc = "done"
                         /\ Dismissing(c) \in Past(w)
                         /\ wake[w].recorded = Cardinality({v \in Past(w) : v.decision # "reply"})
               PROVE  read[c] >= AnchorOf(wake[w].cards[c])
    BY DEF RecordedIsRead, Dismissing
  <2>1. CASE reply[w][c].decision
    BY <2>1 DEF IInv, Kept
  <2>2. CASE /\ Dismissing(c) \in Past(w)
             /\ wake[w].recorded = Cardinality({v \in Past(w) : v.decision # "reply"})
    <3> DEFINE r == wake[w]
    <3>1. r \in RunType /\ Tallied(r)
      BY RunIsSound
    <3>2. Past(w) = PastOf(r) /\ r.recorded = Cardinality(PostedOf(r))
      BY <2>2 DEF Past, PastOf, PostedOf
    <3>3. IsFiniteSet(r.failures) /\ r.recorded \in Nat
      BY <3>1, GateAssumption, FS_Subset DEF RunType
    <3>4. Cardinality(r.failures) = 0
      <4>1. Cardinality(r.failures) \in Nat
        BY <3>3, FS_CardinalityType
      <4>2. r.recorded + Cardinality(r.failures) = r.recorded
        BY <3>1, <3>2 DEF Tallied
      <4> HIDE DEF r
      <4> QED BY <3>3, <4>1, <4>2
    <3>5. r.failures = {}
      BY <3>3, <3>4, FS_EmptySet
    <3> QED BY <2>2, <3>2, <3>5 DEF IInv, Kept
  <2> QED BY <2>1, <2>2
<1> QED BY <1>1, Invariance, PTL

\* The conversations of the verdicts a finished run has dealt with
LEMMA FinishedConvs ==
  ASSUME NEW r \in RunType, NEW p \in [Convs -> ReplyType],
         Judging(r), Replied(r, p), Closing(r), r.pc = "done"
  PROVE  LET replies == {c \in Convs : p[c].pc # "none"}
             posted == ConvsOf(PostedOf(r))
         IN  replies \cup posted = Decided(r.verdicts) /\ replies \cap posted = {}
<1> DEFINE replies == {c \in Convs : p[c].pc # "none"}
           n == Len(r.verdicts)
<1>1. r.verdicts \in Seq(Verdicts) /\ n \in Nat /\ r.i = n + 1 /\ DOMAIN r.verdicts = 1 .. n
  BY DEF RunType, Closing
<1>2. PastOf(r) = {r.verdicts[j] : j \in 1 .. n} /\ PastOf(r) \subseteq Verdicts
  BY <1>1 DEF PastOf
<1>3. Decided(r.verdicts) = ConvsOf(PastOf(r))
  BY <1>1, <1>2 DEF Decided, ConvsOf
<1>4. \A u, v \in PastOf(r) : u.conv = v.conv => u = v
  BY <1>1, <1>2 DEF Judging, Apart
<1>5. \A v \in PastOf(r) : v.conv \in Convs /\ v = [conv |-> v.conv, decision |-> v.decision]
  BY <1>2 DEF Verdicts
<1> HIDE DEF n
<1>6. replies = {c \in Convs : Replying(c) \in PastOf(r)}
  BY DEF Replied
<1>7. \A v \in PastOf(r) : v.decision = "reply" => v = Replying(v.conv)
  BY <1>5 DEF Replying
<1>8. \A c : Replying(c).conv = c /\ Replying(c).decision = "reply"
  BY DEF Replying
<1> HIDE DEF replies
<1>9. replies \cup ConvsOf(PostedOf(r)) = Decided(r.verdicts)
  <2>1. ASSUME NEW c \in Decided(r.verdicts)
        PROVE  c \in replies \cup ConvsOf(PostedOf(r))
    <3>1. PICK v \in PastOf(r) : v.conv = c
      BY <1>3 DEF ConvsOf
    <3>2. CASE v.decision = "reply"
      BY <1>5, <1>6, <1>7, <3>1, <3>2
    <3>3. CASE v.decision # "reply"
      BY <3>1, <3>3 DEF PostedOf, ConvsOf
    <3> QED BY <3>2, <3>3
  <2>2. replies \subseteq Decided(r.verdicts)
    BY <1>3, <1>6, <1>8 DEF ConvsOf
  <2>3. ConvsOf(PostedOf(r)) \subseteq Decided(r.verdicts)
    BY <1>3 DEF ConvsOf, PostedOf
  <2> QED BY <2>1, <2>2, <2>3
<1>10. replies \cap ConvsOf(PostedOf(r)) = {}
  <2> SUFFICES ASSUME NEW c \in replies, NEW v \in PostedOf(r), v.conv = c PROVE FALSE
    BY DEF ConvsOf
  <2>1. v = Replying(c)
    BY <1>4, <1>6, <1>8 DEF PostedOf
  <2> QED BY <1>8, <2>1 DEF PostedOf
<1> QED BY <1>9, <1>10 DEF replies

LEMMA DisjointUnion ==
  ASSUME NEW S, IsFiniteSet(S), NEW T, IsFiniteSet(T), S \cap T = {}
  PROVE  Cardinality(S \cup T) = Cardinality(S) + Cardinality(T)
<1>1. Cardinality(S \cap T) = 0
  BY FS_EmptySet
<1>2. Cardinality(S) \in Nat /\ Cardinality(T) \in Nat
  BY FS_CardinalityType
<1>3. Cardinality(S \cup T) = Cardinality(S) + Cardinality(T) - Cardinality(S \cap T)
  BY FS_Union
<1> QED BY <1>1, <1>2, <1>3

\* The result of a run accounts for every card once (gate.py 374-378, 654-670).
THEOREM EveryCardIsAccounted == Spec => []Accounted
<1>1. IInv => Accounted
  <2> SUFFICES ASSUME IInv, NEW w \in Wakes, wake[w].pc = "done"
               PROVE  LET replies == {c \in Convs : reply[w][c].pc # "none"}
                      IN  /\ wake[w].undecided = IdsOf(w) \ Decided(wake[w].verdicts)
                          /\ Cardinality(IdsOf(w)) =
                                Cardinality(wake[w].undecided) + wake[w].recorded
                                  + Cardinality(wake[w].failures) + Cardinality(replies)
                          /\ wake[w].outcome = "decided" <=> Decided(wake[w].verdicts) # {}
    BY DEF Accounted
  <2> DEFINE r == wake[w]
             p == reply[w]
             replies == {c \in Convs : p[c].pc # "none"}
             posted == ConvsOf(PostedOf(r))
             decided == Decided(r.verdicts)
  <2>1. /\ r \in RunType /\ p \in [Convs -> ReplyType] /\ r.pc = "done"
        /\ Judging(r) /\ Tallied(r) /\ Replied(r, p) /\ Closing(r)
    BY RunIsSound
  <2>2. replies \cup posted = decided /\ replies \cap posted = {}
    <3> HIDE DEF r, p
    <3> QED BY <2>1, FinishedConvs
  <2>3. decided \subseteq IdsOf(w) /\ r.undecided = IdsOf(w) \ decided /\ IdsOf(w) \subseteq Convs
    BY <2>1 DEF Judging, Closing, CardsOf, IdsOf
  <2>4. r.outcome = "decided" <=> decided # {}
    <3>1. r.verdicts \in Seq(Verdicts)
      BY <2>1 DEF RunType
    <3>2. r.verdicts = <<>> <=> Decided(r.verdicts) = {}
      <4> HIDE DEF r
      <4>1. DOMAIN r.verdicts = 1 .. Len(r.verdicts) /\ Len(r.verdicts) \in Nat
        BY <3>1
      <4>2. r.verdicts = <<>> <=> Len(r.verdicts) = 0
        BY <3>1
      <4>3. Len(r.verdicts) # 0 => 1 \in DOMAIN r.verdicts
        BY <4>1
      <4>4. Len(r.verdicts) = 0 => DOMAIN r.verdicts = {}
        BY <4>1
      <4> QED BY <4>2, <4>3, <4>4 DEF Decided
    <3> QED BY <2>1, <3>2 DEF Closing
  <2>5. /\ r.recorded \in Nat /\ r.failures \subseteq Convs
        /\ r.recorded + Cardinality(r.failures) = Cardinality(posted)
    BY <2>1 DEF RunType, Tallied
  <2> HIDE DEF r, p, replies, posted, decided
  <2>6. /\ IsFiniteSet(IdsOf(w)) /\ IsFiniteSet(decided) /\ IsFiniteSet(r.undecided)
        /\ IsFiniteSet(replies) /\ IsFiniteSet(posted) /\ IsFiniteSet(r.failures)
    <3>1. /\ decided \subseteq Convs /\ r.undecided \subseteq Convs
          /\ replies \subseteq Convs /\ posted \subseteq Convs
      BY <2>2, <2>3
    <3> QED BY <2>3, <2>5, <3>1, GateAssumption, FS_Subset
  <2>7. /\ Cardinality(decided) \in Nat /\ Cardinality(r.undecided) \in Nat
        /\ Cardinality(replies) \in Nat /\ Cardinality(posted) \in Nat
        /\ Cardinality(r.failures) \in Nat
    BY <2>6, FS_CardinalityType
  <2>8. Cardinality(decided) = Cardinality(replies) + Cardinality(posted)
    BY <2>2, <2>6, <2>7, DisjointUnion
  <2>9. Cardinality(IdsOf(w)) = Cardinality(decided) + Cardinality(r.undecided)
    <3>1. IdsOf(w) = decided \cup r.undecided /\ decided \cap r.undecided = {}
      BY <2>3
    <3> QED BY <2>6, <2>7, <3>1, DisjointUnion
  <2>10. Cardinality(IdsOf(w)) = Cardinality(r.undecided) + r.recorded
                                   + Cardinality(r.failures) + Cardinality(replies)
    BY <2>5, <2>7, <2>8, <2>9
  <2> QED BY <2>3, <2>4, <2>10 DEF r, p, replies, decided
<1> QED BY <1>1, Invariance, PTL
=============================================================================
