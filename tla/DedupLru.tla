------------------------------ MODULE DedupLru ------------------------------
(***************************************************************************)
(* The bounded membership set the realtime client uses to recognise a      *)
(* message it has already handed to the application (_BoundedLruSet).      *)
(* The OrderedDict is the sequence of its keys, least recently seen first. *)
(***************************************************************************)
EXTENDS Naturals, Sequences

\* key in self._entries
Seen(entries, key) == \E i \in 1..Len(entries) : entries[i] = key

\* self._entries without the key at position i
Without(entries, i) ==
    [j \in 1..(Len(entries) - 1) |-> IF j < i THEN entries[j] ELSE entries[j + 1]]

\* OrderedDict.move_to_end, with the insertion that precedes it in add()
MoveToEnd(entries, key) ==
    IF Seen(entries, key)
    THEN LET at == CHOOSE i \in 1..Len(entries) : entries[i] = key
         IN  Append(Without(entries, at), key)
    ELSE Append(entries, key)

\* Mutant of Hit: a lookup that does not refresh recency
HitWithoutRefresh(entries, key) == entries

\* hit(): the entries after a lookup; whether it was a hit is Seen
Hit(entries, key) ==
    IF Seen(entries, key) THEN MoveToEnd(entries, key) ELSE entries

\* add(): a set of capacity zero (or less) stays empty
Add(entries, key, capacity) ==
    LET grown == MoveToEnd(entries, key)
    IN  IF capacity <= 0 THEN entries
        ELSE IF Len(grown) > capacity THEN Tail(grown)
        ELSE grown

=============================================================================
