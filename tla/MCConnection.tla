---------------------------- MODULE MCConnection ----------------------------
(* Values for the constants of Connection. *)
EXTENDS Connection, TLC

\* Message handlers may suspend and frames are acked at receipt, so that every
\* sweep may miss a frame
Option(r, c, x, h) ==
    [reconnect |-> r, recalls |-> c, cancels |-> x, reopens |-> h,
     suspends |-> TRUE, receipt |-> TRUE]

\* No sweep misses a frame in a recv loop's flush, or none at all.
Default(o) == [o EXCEPT !.receipt = FALSE]
Simple(o) == [o EXCEPT !.receipt = FALSE, !.suspends = FALSE]

\* Nobody but the client reconnects; with reconnect off, nobody at all.
Alone ==
    {Option(TRUE, FALSE, FALSE, FALSE), Simple(Option(TRUE, FALSE, FALSE, FALSE)),
     Simple(Option(FALSE, FALSE, FALSE, FALSE))}

\* The application calls connect() as well, also while frames are missed and also
\* after it was cancelled in one; or the handlers do, or both.
Several ==
    Alone \cup {Default(Option(TRUE, FALSE, FALSE, FALSE)), Option(FALSE, TRUE, FALSE, FALSE),
                Simple(Option(TRUE, TRUE, FALSE, FALSE)),
                Simple(Option(FALSE, TRUE, TRUE, FALSE)),
                Simple(Option(TRUE, FALSE, FALSE, TRUE)),
                Simple(Option(FALSE, TRUE, FALSE, TRUE))}

\* The application gives up waiting for connect() and calls it again.
Impatient == {Simple(Option(TRUE, TRUE, TRUE, FALSE))}

Symmetry == Permutations(Socks) \cup Permutations(Timers)
=============================================================================
