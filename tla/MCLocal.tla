------------------------------ MODULE MCLocal ------------------------------
(***************************************************************************)
(* The parts of the SDK that need no other part.  Those that compute an    *)
(* answer and keep no state are asked every question of a small set and    *)
(* compared with what they are for; the set of seen ids is put through     *)
(* every sequence of MaxUses lookups and insertions and compared with      *)
(* "least recently used" told from the history; lists are walked page by   *)
(* page; and one connection follows another with its delays.  A behaviour  *)
(* is about one of the parts.                                              *)
(***************************************************************************)
EXTENDS FiniteSets, DedupLru, Errors, Verdicts, Webhook, Pagination, Backoff, TLC

CONSTANTS Keys, Capacity, MaxUses, MaxItems, MaxParts

ASSUME CapacityAssumption == Capacity \in Int
ASSUME LengthsAssumption == MaxItems \in Nat /\ MaxParts \in Nat

VARIABLES
    input,     \* the part and its question
    entries,   \* the OrderedDict
    uses       \* the keys successfully looked up or added, oldest first

local == <<input, entries, uses>>

Statuses == {301, 400, 401, 403, 404, 409, 410, 418, 429, 500, 502, 503}

ErrorInputs ==
    [of : {"error"}, status : Statuses, code : ErrorCodes \cup {NoCode, "A_NEW_CODE"}]

AnswerItems ==
    [conv : {"a", "b"}, token : {"respond", "skip", "maybe"}]
    \cup [conv : {"other"}, token : {"later"}]

VerdictInputs ==
    [of : {"verdicts"}, known : SUBSET {"a", "b"}, answer : {None} \cup BoundedSeq(AnswerItems, MaxItems)]

\* The clock shows 5 s; what is sent says 3.5 s, 4.5 s, 6.5 s or 7 s, so that
\* with a tolerance of 1 s the second counts as just within it, and so does the
\* third, whose fraction is dropped.
Now == 10
Sent == {7, 9, 13, 14}
Times == {Seconds(sent) : sent \in Sent} \cup {Missing}
Digests == {Hmac(secret, at, body) : secret \in {"ours", "theirs"}, at \in Times,
                                     body \in {"object", "list"}}

Parts ==
    [key : {"t"}, value : Sent \cup {Garbled, Infinite}] \cup [key : {"v1"}, value : Digests \cup {Garbled}]
    \cup [key : {"v2"}, value : {Garbled}]

Signatures ==
    [form : {"bare"}, digest : Digests \cup {Garbled}]
    \cup [form : {"pairs"}, parts : BoundedSeq(Parts, MaxParts)]

Headers == {Missing} \cup Signatures

\* What is missing or garbled is no time, no digest and no header.
ASSUME SignatureAssumption ==
    /\ Missing \notin Digests /\ Missing \notin Int /\ Missing \notin Signatures
    /\ Garbled \notin Digests /\ {Garbled, Infinite} \cap Int = {}

SignatureInputs ==
    [of : {"signature"}, header : Headers, body : {"object", "list"}, tolerance : {0, 1}]

NoWalk ==
    /\ list = <<>> /\ start = 0 /\ cap = 0
    /\ walk = [pc |-> "done", offset |-> 0, page |-> <<>>, got |-> 0, total |-> 0]
    /\ yielded = <<>> /\ since = {}
    /\ changes = [inserted |-> 0, deleted |-> 0, uncounted |-> 0]

LocalInit ==
    /\ entries = <<>> /\ uses = <<>> /\ BackoffInit
    /\ \/ input = [of |-> "pages"] /\ Init
       \/ /\ input \in {[of |-> "ids"], [of |-> "backoff"]} \cup ErrorInputs \cup VerdictInputs \cup SignatureInputs
          /\ NoWalk

Lookup(k) ==
    /\ input.of = "ids" /\ Len(uses) < MaxUses
    /\ entries' = Hit(entries, k)
    /\ uses' = IF Seen(entries, k) THEN Append(uses, k) ELSE uses
    /\ UNCHANGED <<input, vars, backoffVars>>

Insert(k) ==
    /\ input.of = "ids" /\ Len(uses) < MaxUses
    /\ entries' = Add(entries, k, Capacity)
    /\ uses' = Append(uses, k)
    /\ UNCHANGED <<input, vars, backoffVars>>

Walks == input.of = "pages" /\ Next /\ UNCHANGED <<local, backoffVars>>

Waits == input.of = "backoff" /\ BackoffNext /\ UNCHANGED <<local, vars>>

LocalNext == (\E k \in Keys : Lookup(k) \/ Insert(k)) \/ Walks \/ Waits

LocalSpec ==
    /\ LocalInit
    /\ [][LocalNext]_<<local, vars, backoffVars>>
    /\ WF_vars(Steps /\ UNCHANGED <<local, backoffVars>>)

----------------------------------------------------------------------------
LastUse(k) ==
    CHOOSE i \in 1..Len(uses) : uses[i] = k /\ \A j \in (i+1)..Len(uses) : uses[j] # k

UsedSince(k) == {uses[j] : j \in (LastUse(k) + 1)..Len(uses)}

MostRecent ==
    {k \in Keys : Seen(uses, k) /\ Cardinality(UsedSince(k)) < Capacity}

\* The set holds exactly the Capacity most recently used ids, each once and in
\* order of use, so an id that keeps re-arriving cannot age out while it is hot
\* (_BoundedLruSet.hit refreshes recency, add evicts the least recently seen).
KeepsMostRecent ==
    /\ Range(entries) = MostRecent
    /\ \A i, j \in 1..Len(entries) : i < j => LastUse(entries[i]) < LastUse(entries[j])

\* Losing the error body does not change how a caller that catches by class
\* reacts: for the statuses with a class of their own, an answer without a body
\* is raised as an answer with a code the SDK does not know would be; and a code
\* that has a class is raised as it under every status (errors.py 352-433,
\* _http.py 240-290).
StatusDecides ==
    input.of = "error" =>
        /\ input.status \in {401, 403, 404, 429} \/ input.status >= 500
             => Raised(NoCode, input.status) = Raised("A_NEW_CODE", input.status)
        /\ input.code \in ErrorCodes \ Unclassed
             => \A other \in Statuses : Raised(input.code, other) = Raised(input.code, input.status)

Usable(item, known) == item.conv \in known /\ NormalizeDecision(item.token) # None

\* A conversation on the tray is decided exactly when some item decides it, and
\* then as the first such item says; an item that decides nothing does not use
\* up its conversation (gate.py 301-321).
FirstUsableItemCounts ==
    input.of = "verdicts" /\ input.answer # None =>
        LET verdicts == ParseVerdicts(input.answer, input.known)
            First(c) == SelectInSeq(input.answer,
                                    LAMBDA item : item.conv = c /\ Usable(item, input.known))
        IN  /\ IsInjective(verdicts)
            /\ Range(verdicts) =
                 {[conv |-> c, decision |-> NormalizeDecision(input.answer[First(c)].token)] :
                     c \in {known \in input.known : First(known) # 0}}

Verified(header) == Verify(header, input.body, "ours", Now, input.tolerance) = "verified"

\* What the secret's holder sends: the time of signing, perhaps with a fraction,
\* and the digest for the whole seconds of it
Honest(sent) ==
    <<[key |-> "t", value |-> sent],
      [key |-> "v1", value |-> Hmac("ours", Seconds(sent), input.body)]>>

Fresh(at) == Second * at \in (Now - Second * input.tolerance) .. (Now + Second * input.tolerance)

\* A payload is verified only if the secret's holder signed it together with the
\* very timestamp that was held against the clock, in the past or the future;
\* every honestly signed object is, whatever the order of its parts, the fraction
\* of its timestamp and the parts of a later scheme among them; and parts with
\* different keys may come in any order (_webhook_verify.py 86-120, 132-152).
VerifiesTheSigned ==
    input.of = "signature" /\ input.header # Missing =>
        LET header == input.header
            parsed == Parsed(header)
            keys == [i \in DOMAIN header.parts |-> header.parts[i].key]
        IN  /\ Verified(header) =>
                 /\ parsed.digest = Hmac("ours", parsed.at, "object")
                 /\ input.body = "object"
                 /\ parsed.at = Missing \/ input.tolerance = 0 \/ Fresh(parsed.at)
            /\ header.form = "pairs" /\ IsInjective(keys) =>
                 /\ Verified(header) <=> Verified([header EXCEPT !.parts = Reverse(@)])
                 /\ \A sent \in Sent :
                      /\ input.body = "object" /\ Range(Honest(sent)) \subseteq Range(header.parts)
                      /\ input.tolerance = 0 \/ Fresh(Seconds(sent))
                      => Verified(header)
=============================================================================
