------------------------------ MODULE Verdicts ------------------------------
(***************************************************************************)
(* What the reply gate reads out of the model's answer.  The text is here  *)
(* the list of items its JSON holds, or None when it holds no such list;   *)
(* an item names a conversation and spells a decision.                     *)
(***************************************************************************)
EXTENDS Integers, Sequences

CONSTANT None   \* Python's None

ReplyTokens == {"reply", "respond", "answer", "yes", "true"}
DismissTokens == {"dismiss", "dismissed", "no_reply", "no-reply", "noreply", "silent",
                  "silence", "skip", "ignore", "no", "false"}
DeferTokens == {"defer", "deferred", "later", "wait", "postpone"}

\* An item's decision is a token here: lower case, spaces made underscores.
NormalizeDecision(token) ==
    CASE token \in ReplyTokens -> "reply"
      [] token \in DismissTokens -> "dismiss"
      [] token \in DeferTokens -> "defer"
      [] OTHER -> None

Decided(verdicts) == {verdicts[i].conv : i \in DOMAIN verdicts}

\* Mutant: a conversation that is not on the tray is taken too.
TakeUnknown(verdicts, item, known) ==
    IF item.conv \notin Decided(verdicts) /\ NormalizeDecision(item.token) # None
    THEN Append(verdicts, [conv |-> item.conv, decision |-> NormalizeDecision(item.token)])
    ELSE verdicts

\* Mutant: a conversation decided twice is recorded twice.
TakeRepeated(verdicts, item, known) ==
    IF item.conv \in known /\ NormalizeDecision(item.token) # None
    THEN Append(verdicts, [conv |-> item.conv, decision |-> NormalizeDecision(item.token)])
    ELSE verdicts

\* One item of the answer, which is an object
Take(verdicts, item, known) ==
    IF /\ item.conv \in known \ Decided(verdicts)
       /\ NormalizeDecision(item.token) # None
    THEN Append(verdicts, [conv |-> item.conv, decision |-> NormalizeDecision(item.token)])
    ELSE verdicts

ParseVerdicts(answer, known) ==
    IF answer = None THEN None
    ELSE LET taken[i \in 0 .. Len(answer)] ==
                 IF i = 0 THEN <<>> ELSE Take(taken[i - 1], answer[i], known)
         IN  taken[Len(answer)]
=============================================================================
