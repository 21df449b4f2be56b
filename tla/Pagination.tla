----------------------------- MODULE Pagination -----------------------------
(***************************************************************************)
(* A walk over a limit/offset endpoint by paginate() or apaginate(), as    *)
(* contacts() and search_agents_all() use it, while the list changes on    *)
(* the server between two pages.  A consumer that breaks off takes no more *)
(* items; a fetch that raises ends the walk the same way.                  *)
(***************************************************************************)
EXTENDS Integers, Sequences, FiniteSets, SequencesExt

CONSTANTS
    Items,       \* what a list may hold
    PageSize,    \* page_size
    ServerMax,   \* the largest page the server gives
    Starts,      \* values of start
    Caps,        \* values of max; one larger than any walk stands for None
    MaxChanges   \* bound: insertions and deletions during a walk

ASSUME PaginationAssumption ==
    /\ IsFiniteSet(Items)
    /\ PageSize \in Nat \ {0} /\ ServerMax \in Nat \ {0}
    /\ Starts \subseteq Nat /\ Caps \subseteq Nat

VARIABLES
    list,      \* server: the list
    start, cap,
    walk,      \* pc, offset, page (fetched, not yet yielded), got (its length), total
    yielded,
    since,     \* history: what was in the walk's range all the time
    changes    \* history: insertions and deletions, and totals left out

vars == <<list, start, cap, walk, yielded, since, changes>>

Lists == UNION {{s \in [1 .. n -> Items] : IsInjective(s)} : n \in 0 .. Cardinality(Items)}

Init ==
    /\ list \in Lists
    /\ start \in Starts /\ cap \in Caps
    /\ walk = [pc |-> "asking", offset |-> start, page |-> <<>>, got |-> 0, total |-> 0]
    /\ yielded = <<>>
    /\ since = Range(SubSeq(list, start + 1, Len(list)))
    /\ changes = [inserted |-> 0, deleted |-> 0, uncounted |-> 0]

----------------------------------------------------------------------------
(* The server *)

Changeable == changes.inserted + changes.deleted < MaxChanges /\ walk.pc # "done"

Inserts ==
    /\ Changeable
    /\ \E item \in Items \ Range(list), at \in 1 .. Len(list) + 1 :
          list' = InsertAt(list, at, item)
    /\ changes' = [changes EXCEPT !.inserted = @ + 1]
    /\ UNCHANGED <<start, cap, walk, yielded, since>>

Deletes ==
    /\ Changeable
    /\ \E at \in 1 .. Len(list) :
          /\ list' = RemoveAt(list, at)
          /\ since' = since \ {list[at]}
    /\ changes' = [changes EXCEPT !.deleted = @ + 1]
    /\ UNCHANGED <<start, cap, walk, yielded>>

Smaller(m, n) == IF m < n THEN m ELSE n

Page(offset, limit) ==
    SubSeq(list, offset + 1, Smaller(Len(list), offset + Smaller(limit, ServerMax)))

\* The total counts the list, perhaps with one item that the pages do not show;
\* one that is missing counts as 0.
Totals == {Len(list), Len(list) + 1, 0}

----------------------------------------------------------------------------
(* The generator *)

\* Mutant: a page without items is no reason to stop.
EndsEarlyNever(page) == FALSE

\* Nothing on the page: the walk is over.
EndsEarly(page) == page = <<>>

Fetches ==
    /\ walk.pc = "asking"
    /\ Len(yielded) < cap
    /\ \E total \in Totals :
         LET page == Page(walk.offset, PageSize)
         IN  /\ walk' = [walk EXCEPT !.pc = IF EndsEarly(page) THEN "done" ELSE "yielding",
                                     !.page = page, !.got = Len(page), !.total = total]
             /\ changes' = [changes EXCEPT !.uncounted = IF total < Len(list) THEN 1 ELSE @]
    /\ UNCHANGED <<list, start, cap, yielded, since>>

\* Mutant: the cap is looked at once a page.
UnderCapAlways == TRUE

UnderCap == Len(yielded) < cap

Yields ==
    /\ walk.pc = "yielding" /\ walk.page # <<>>
    /\ UnderCap
    /\ yielded' = Append(yielded, Head(walk.page))
    /\ walk' = [walk EXCEPT !.page = Tail(@)]
    /\ UNCHANGED <<list, start, cap, since, changes>>

\* The cap is reached, before a fetch or within a page.
Stops ==
    /\ \/ walk.pc = "asking" /\ Len(yielded) >= cap
       \/ walk.pc = "yielding" /\ walk.page # <<>> /\ ~UnderCap
    /\ walk' = [walk EXCEPT !.pc = "done"]
    /\ UNCHANGED <<list, start, cap, yielded, since, changes>>

\* Mutant: the offset moves by the size asked for, not by what came.
AdvancedByLimit(w) == w.offset + PageSize

\* Mutant: the offset is the number of items yielded.
AdvancedToYielded(w) == Len(yielded)

Advanced(w) == w.offset + w.got

Turns ==
    /\ walk.pc = "yielding" /\ walk.page = <<>>
    /\ walk' = [walk EXCEPT !.offset = Advanced(walk),
                            !.pc = IF Advanced(walk) >= walk.total THEN "done" ELSE "asking"]
    /\ UNCHANGED <<list, start, cap, yielded, since, changes>>

Steps == Fetches \/ Yields \/ Stops \/ Turns

Next == Inserts \/ Deletes \/ Steps

Spec == Init /\ [][Next]_vars

\* The consumer takes the whole walk.  The bound on the changes is an
\* assumption here: a list that grows as fast as it is read has no end.
FairSpec == Spec /\ WF_vars(Steps)

----------------------------------------------------------------------------
(* Properties *)

\* The type of the state; a walk never yields more than max items
\* (_pagination.py 54-56).
TypeOK ==
    /\ list \in Lists /\ start \in Starts /\ cap \in Caps
    /\ walk.pc \in {"asking", "yielding", "done"}
    /\ walk.offset \in Nat /\ walk.got \in 0 .. Smaller(PageSize, ServerMax)
    /\ yielded \in Seq(Items) /\ Len(yielded) <= cap

\* A walk that was not stopped at its cap has yielded everything that was in
\* its range from its beginning to its end, if the server gave its totals and
\* nothing was deleted meanwhile, whatever was inserted and however small the
\* server's pages are: an insertion moves items towards the pages still to
\* come (_pagination.py 49-61).
NothingSkipped ==
    walk.pc = "done" /\ changes.deleted = 0 /\ changes.uncounted = 0 /\ Len(yielded) < cap
        => since \subseteq Range(yielded)

\* Nothing is yielded twice if nothing is inserted during the walk: a deletion
\* moves items towards the pages already seen (_pagination.py 49-61).
NothingRepeated == changes.inserted = 0 => IsInjective(yielded)

\* A walk whose list stops changing ends, even if the total counts an item
\* that no page shows (_pagination.py 52, 60).
Ends == <>(walk.pc = "done")
=============================================================================
