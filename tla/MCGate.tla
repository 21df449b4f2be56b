------------------------------- MODULE MCGate -------------------------------
(* Two overlapping runs over two conversations.  The model answers with up   *)
(* to two items, of which some are on a conversation that has no card,       *)
(* decide one twice, or decide nothing.                                      *)
EXTENDS Gate, SequencesExt

CONSTANTS a, b, w1, w2

MCConvs == {a, b}
MCWakes == {w1, w2}

MCMaxMessages == [c \in MCConvs |-> IF c = a THEN 2 ELSE 1]

Items == [conv : {a}, token : {"respond", "skip", "later", "maybe"}]
         \cup [conv : {b}, token : {"respond"}]
         \cup [conv : {"other"}, token : {"skip"}]

MCAnswers == {None} \cup BoundedSeq(Items, 2)

MCMaxCards == [w \in MCWakes |-> IF w = w1 THEN 2 ELSE 1]
=============================================================================
