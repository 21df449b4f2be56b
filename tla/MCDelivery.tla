----------------------------- MODULE MCDelivery -----------------------------
(* Instances of Delivery for TLC: the message sets of the configurations. *)
EXTENDS Delivery, TLC

\* One conversation of three messages
OneConv == <<"a", "a", "a">>
OneSeqs == <<1, 2, 3>>

\* Two conversations, a hole in the first, and a message without seq
HoleConvs == <<"a", "a", "b", "b">>
HolesSeqs == <<1, 3, 1, 0>>

\* One conversation of four messages
LongConv == <<"a", "a", "a", "a">>
LongSeqs == <<1, 2, 3, 4>>

\* One conversation of five messages: room for a page that was read before the last of them
\* was published, and for a hole behind it
FiveConv == <<"a", "a", "a", "a", "a">>
FiveSeqs == <<1, 2, 3, 4, 5>>

=============================================================================
