------------------------------ MODULE Webhook ------------------------------
(***************************************************************************)
(* verify_webhook.  A header is Missing, a bare digest, or key=value parts *)
(* in the order they came.  A digest is Garbled (not hexadecimal) or says  *)
(* what was signed: HMAC-SHA256 is taken to be injective.  A timestamp on  *)
(* the wire and the clock are numbers of half seconds; the timestamp that  *)
(* is compared and signed is a whole number of seconds.                    *)
(***************************************************************************)
EXTENDS Integers, Sequences

CONSTANTS
    Missing,   \* no header, no timestamp, no digest
    Garbled,   \* a timestamp that is no number, a digest that is not hexadecimal
    Infinite   \* a timestamp float() reads as infinity, as 1e999

Second == 2

\* int(float(value)) drops the fraction, towards zero.
Seconds(t) == IF t >= 0 THEN t \div Second ELSE -((-t) \div Second)

Finite(t) == t \notin {Garbled, Infinite}

Hmac(secret, at, body) == [secret |-> secret, at |-> at, body |-> body]

\* Mutant: a timestamp behind the digest is not read.
ReadsPartInOrder(parsed, part) ==
    CASE part.key = "t" /\ Finite(part.value) /\ parsed.digest = Missing ->
             [parsed EXCEPT !.at = Seconds(part.value)]
      [] part.key = "v1" -> [parsed EXCEPT !.digest = part.value]
      [] OTHER -> parsed

\* One part: the last readable timestamp and the last digest count, a part
\* with another key is ignored.
ReadsPart(parsed, part) ==
    CASE part.key = "t" /\ Finite(part.value) -> [parsed EXCEPT !.at = Seconds(part.value)]
      [] part.key = "v1" -> [parsed EXCEPT !.digest = part.value]
      [] OTHER -> parsed

\* int() of an infinite timestamp raises OverflowError, which the parser, that
\* catches ValueError only, lets out of verify_webhook.
Overflows(header) ==
    header.form = "pairs" /\ \E i \in DOMAIN header.parts :
        header.parts[i].key = "t" /\ header.parts[i].value = Infinite

\* _parse_signature_header
Parsed(header) ==
    IF header.form = "bare" THEN [at |-> Missing, digest |-> header.digest]
    ELSE LET read[i \in 0 .. Len(header.parts)] ==
                 IF i = 0 THEN [at |-> Missing, digest |-> Missing]
                 ELSE ReadsPart(read[i - 1], header.parts[i])
         IN  read[Len(header.parts)]

Skewed(at, now, tolerance) ==
    /\ at # Missing /\ tolerance > 0
    /\ \/ now - Second * at > Second * tolerance
       \/ Second * at - now > Second * tolerance

\* What verify_webhook returns or raises: "verified", the reason of a
\* WebhookVerificationError, or the error that is not one
Verify(header, body, secret, now, tolerance) ==
    IF header = Missing THEN "missing_signature"
    ELSE IF Overflows(header) THEN "OverflowError"
    ELSE LET parsed == Parsed(header) IN
         CASE parsed.digest \in {Missing, Garbled} -> "malformed_signature"
           [] parsed.digest \notin {Missing, Garbled} /\ Skewed(parsed.at, now, tolerance) ->
                  "timestamp_skew"
           [] OTHER -> IF parsed.digest # Hmac(secret, parsed.at, body) THEN "bad_signature"
                       ELSE IF body # "object" THEN "malformed_payload"
                       ELSE "verified"
=============================================================================
