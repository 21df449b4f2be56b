---------------------------- MODULE AtLeastOnce ----------------------------
(***************************************************************************)
(* What the realtime client promises an application that runs it in the    *)
(* default mode: a message is confirmed to the server only after all its   *)
(* handlers ran to the end, so a message that was not handled is offered   *)
(* again.  Nothing here knows of sockets, sequence numbers or pages.       *)
(***************************************************************************)
CONSTANT Msgs   \* the messages there are

VARIABLES
    handed,   \* messages a handler call has started with
    clean,    \* messages every handler completed for
    acked     \* messages confirmed to the server

vars == <<handed, clean, acked>>

Init == handed = {} /\ clean = {} /\ acked = {}

\* The handlers are called with m, for the first time or once more.
Hand(m) ==
    /\ handed' = handed \cup {m}
    /\ UNCHANGED <<clean, acked>>

\* They completed; the ack that follows may be sent, skipped or lost.
Settle(m) ==
    /\ m \in handed
    /\ clean' = clean \cup {m}
    /\ acked' \in {acked, acked \cup {m}}
    /\ UNCHANGED handed

\* A later ack, or a cursor that covers many messages
Confirm(ms) ==
    /\ ms \subseteq clean
    /\ acked' = acked \cup ms
    /\ UNCHANGED <<handed, clean>>

Next ==
    \/ \E m \in Msgs : Hand(m) \/ Settle(m)
    \/ \E ms \in SUBSET clean : Confirm(ms)

Spec == Init /\ [][Next]_vars

=============================================================================
