---------------------------- MODULE SharedLemmas ----------------------------
(***************************************************************************)
(* What the proofs of several components rest on: what the operators of    *)
(* DedupLru return, for every set of ids, every content of the cache and   *)
(* every capacity; and how a recursion over 0 .. n is reasoned about.      *)
(***************************************************************************)
EXTENDS DedupLru, SequenceTheorems, FiniteSetTheorems, WellFoundedInduction, TLAPS

----------------------------------------------------------------------------
(* The set of seen ids *)

\* The slot a lookup moves to the end is one that holds the id
LEMMA SlotOfKey ==
    ASSUME NEW S, NEW es \in Seq(S), NEW key, Seen(es, key)
    PROVE  LET at == CHOOSE i \in 1..Len(es) : es[i] = key
           IN  at \in 1..Len(es) /\ es[at] = key
BY DEF Seen

\* _BoundedLruSet without one slot: one id less, every other one kept
LEMMA WithoutType ==
    ASSUME NEW S, NEW es \in Seq(S), NEW i \in 1..Len(es)
    PROVE  /\ Without(es, i) \in Seq(S)
           /\ Len(Without(es, i)) = Len(es) - 1
<1>1. Len(es) \in Nat /\ \A j \in 1..Len(es) : es[j] \in S
  BY ElementOfSeq, LenProperties
<1>2. \A j \in 1..(Len(es) - 1) : (IF j < i THEN es[j] ELSE es[j + 1]) \in S
  BY <1>1
<1>3. Len(es) - 1 \in Nat
  BY <1>1
<1> QED  BY <1>2, <1>3, IsASeq, LenProperties DEF Without

\* move_to_end keeps the ids and adds at most the one it moves
LEMMA MoveToEndType ==
    ASSUME NEW S, NEW es \in Seq(S), NEW key \in S
    PROVE  /\ MoveToEnd(es, key) \in Seq(S)
           /\ Len(MoveToEnd(es, key)) = IF Seen(es, key) THEN Len(es) ELSE Len(es) + 1
<1> DEFINE at == CHOOSE i \in 1..Len(es) : es[i] = key
<1>0. Len(es) \in Nat
  BY LenProperties
<1>1. CASE Seen(es, key)
  <2>1. at \in 1..Len(es)
    BY <1>1, SlotOfKey
  <2>2. Without(es, at) \in Seq(S) /\ Len(Without(es, at)) = Len(es) - 1
    BY <2>1, WithoutType
  <2>3. MoveToEnd(es, key) = Append(Without(es, at), key)
    BY <1>1 DEF MoveToEnd
  <2>4. \A rest \in Seq(S) : /\ Append(rest, key) \in Seq(S)
                             /\ Len(Append(rest, key)) = Len(rest) + 1
    BY AppendProperties
  <2> HIDE DEF at
  <2> QED  BY <1>0, <1>1, <2>2, <2>3, <2>4
<1>2. CASE ~Seen(es, key)
  BY <1>0, <1>2, AppendProperties DEF MoveToEnd
<1> QED  BY <1>1, <1>2

\* hit(): a lookup never brings in an id that was not there
LEMMA HitType ==
    ASSUME NEW S, NEW es \in Seq(S), NEW key
    PROVE  Hit(es, key) \in Seq(S) /\ Len(Hit(es, key)) = Len(es)
<1>1. CASE Seen(es, key)
  <2>1. key \in S
    BY <1>1, ElementOfSeq, LenProperties DEF Seen
  <2> QED  BY <1>1, <2>1, MoveToEndType DEF Hit
<1>2. CASE ~Seen(es, key)
  BY <1>2 DEF Hit
<1> QED  BY <1>1, <1>2

\* add(): the ids are the old ones and the new one, and never more than capacity
LEMMA AddType ==
    ASSUME NEW S, NEW es \in Seq(S), NEW key \in S, NEW capacity \in Nat
    PROVE  /\ Add(es, key, capacity) \in Seq(S)
           /\ Len(es) <= capacity => Len(Add(es, key, capacity)) <= capacity
<1> DEFINE grown == MoveToEnd(es, key)
<1>1. grown \in Seq(S) /\ Len(grown) <= Len(es) + 1 /\ Len(es) \in Nat /\ Len(grown) \in Nat
  BY MoveToEndType, LenProperties
<1>2. CASE capacity <= 0
  BY <1>2 DEF Add
<1>3. CASE capacity > 0 /\ Len(grown) > capacity
  <2>1. grown # << >>
    BY <1>1, <1>3, EmptySeq
  <2>2. \A s \in Seq(S) : s # << >> => Tail(s) \in Seq(S) /\ Len(Tail(s)) = Len(s) - 1
    BY HeadTailProperties
  <2>3. Add(es, key, capacity) = Tail(grown)
    BY <1>3 DEF Add
  <2> HIDE DEF grown
  <2> QED  BY <1>1, <2>1, <2>2, <2>3
<1>4. CASE capacity > 0 /\ ~(Len(grown) > capacity)
  <2>1. Add(es, key, capacity) = grown
    BY <1>4 DEF Add
  <2> QED  BY <1>1, <1>4, <2>1
<1> QED  BY <1>2, <1>3, <1>4

----------------------------------------------------------------------------
(* A cache that is large enough forgets nothing *)

Distinct(es) == \A i, j \in 1..Len(es) : es[i] = es[j] => i = j

\* The slots of a key and those behind it after it moved to the end
MovedUp(es, key, moved) ==
    \E at \in 1..Len(es) :
        /\ es[at] = key /\ Len(moved) = Len(es) /\ moved[Len(es)] = key
        /\ \A j \in 1..(Len(es) - 1) : moved[j] = IF j < at THEN es[j] ELSE es[j + 1]

\* move_to_end of a key: the ones behind it move up.
LEMMA MoveToEndSlots ==
    ASSUME NEW S, NEW es \in Seq(S), NEW key \in S, Seen(es, key)
    PROVE  MovedUp(es, key, MoveToEnd(es, key))
<1> DEFINE n == Len(es)
           at == CHOOSE i \in 1..Len(es) : es[i] = key
           w == Without(es, at)
           moved == MoveToEnd(es, key)
<1>0. n \in Nat
  BY LenProperties
<1>1. at \in 1..n /\ es[at] = key
  BY SlotOfKey
<1>2. w \in Seq(S) /\ Len(w) = n - 1
  BY <1>1, WithoutType
<1>3. \A j \in 1..(n - 1) : w[j] = IF j < at THEN es[j] ELSE es[j + 1]
  BY <1>0 DEF Without
<1>4. moved = Append(w, key)
  BY DEF MoveToEnd
<1>5. /\ Len(moved) = n /\ moved[n] = key
      /\ \A j \in 1..(n - 1) : moved[j] = IF j < at THEN es[j] ELSE es[j + 1]
  <2> HIDE DEF w, n
  <2>1. /\ Len(Append(w, key)) = Len(w) + 1 /\ Append(w, key)[Len(w) + 1] = key
        /\ \A j \in 1..Len(w) : Append(w, key)[j] = w[j]
    BY <1>2, AppendProperties
  <2>2. Len(w) + 1 = n
    BY <1>0, <1>2
  <2> HIDE DEF moved
  <2> QED  BY <1>2, <1>3, <1>4, <2>1, <2>2
<1> HIDE DEF at
<1> QED  BY <1>1, <1>5 DEF MovedUp

\* The slots after the insertion of a new key: it is the last.
LEMMA NewSlots ==
    ASSUME NEW S, NEW es \in Seq(S), NEW key \in S, ~Seen(es, key)
    PROVE  LET moved == MoveToEnd(es, key)
           IN  /\ Len(moved) = Len(es) + 1 /\ moved[Len(es) + 1] = key
               /\ \A j \in 1..Len(es) : moved[j] = es[j]
BY AppendProperties DEF MoveToEnd

\* An OrderedDict has every key once, before and after move_to_end, which loses
\* none of them.
LEMMA MoveToEndKeeps ==
    ASSUME NEW S, NEW es \in Seq(S), NEW key \in S, Distinct(es)
    PROVE  /\ Distinct(MoveToEnd(es, key))
           /\ \A k : Seen(MoveToEnd(es, key), k) <=> Seen(es, k) \/ k = key
<1> DEFINE n == Len(es)
<1>0. n \in Nat
  BY LenProperties
<1>1. CASE Seen(es, key)
  <2> DEFINE moved == MoveToEnd(es, key)
  <2>1. PICK at \in 1..n :
          /\ es[at] = key /\ Len(moved) = n /\ moved[n] = key
          /\ \A j \in 1..(n - 1) : moved[j] = IF j < at THEN es[j] ELSE es[j + 1]
    BY <1>1, MoveToEndSlots DEF MovedUp
  <2> HIDE DEF n, moved
  <2>6. Distinct(moved)
    <3> SUFFICES ASSUME NEW i \in 1..n, NEW j \in 1..n, moved[i] = moved[j] PROVE i = j
      BY <2>1 DEF Distinct
    <3> DEFINE from(x) == IF x = n THEN at ELSE IF x < at THEN x ELSE x + 1
    <3>1. \A x \in 1..n : from(x) \in 1..n /\ es[from(x)] = moved[x]
      BY SMTT(30), <1>0, <2>1
    <3>2. \A x, y \in 1..n : from(x) = from(y) => x = y
      BY <1>0, <2>1
    <3>3. es[from(i)] = es[from(j)]
      BY <3>1
    <3> HIDE DEF from
    <3>4. from(i) = from(j)
      BY <3>1, <3>3 DEF Distinct, n
    <3> QED  BY <3>2, <3>4
  <2>7. ASSUME NEW k, Seen(es, k) PROVE Seen(moved, k)
    <3>1. PICK p \in 1..n : es[p] = k
      BY <2>7 DEF Seen, n
    <3>2. CASE p < at
      <4>1. p \in 1..(n - 1) /\ moved[p] = k
        BY <1>0, <2>1, <3>1, <3>2
      <4> QED  BY <1>0, <2>1, <4>1 DEF Seen
    <3>3. CASE p > at
      <4>1. p - 1 \in 1..(n - 1) /\ moved[p - 1] = k
        BY <1>0, <2>1, <3>1, <3>3
      <4> QED  BY <1>0, <2>1, <4>1 DEF Seen
    <3>4. CASE p = at
      <4>1. n \in 1..n /\ moved[n] = k
        BY <1>0, <2>1, <3>1, <3>4
      <4> QED  BY <2>1, <4>1 DEF Seen
    <3> QED  BY <1>0, <2>1, <3>2, <3>3, <3>4
  <2>8. ASSUME NEW k, Seen(moved, k) PROVE Seen(es, k)
    <3>1. PICK i \in 1..n : moved[i] = k
      BY <2>1, <2>8 DEF Seen
    <3>2. (IF i = n THEN at ELSE IF i < at THEN i ELSE i + 1) \in 1..n
      BY <1>0, <2>1
    <3>3. es[IF i = n THEN at ELSE IF i < at THEN i ELSE i + 1] = k
      BY <1>0, <2>1, <3>1
    <3> QED  BY <3>2, <3>3 DEF Seen, n
  <2> QED  BY <1>1, <2>6, <2>7, <2>8 DEF moved
<1>2. CASE ~Seen(es, key)
  <2> DEFINE moved == MoveToEnd(es, key)
  <2>1. /\ Len(moved) = n + 1 /\ moved[n + 1] = key
        /\ \A j \in 1..n : moved[j] = es[j]
    BY <1>2, NewSlots
  <2> HIDE DEF n, moved
  <2>2. \A j \in 1..n : moved[j] # key
    BY <1>2, <2>1 DEF Seen, n
  <2>3. \A i, j \in 1..n : es[i] = es[j] => i = j
    BY DEF Distinct, n
  <2>4. Distinct(moved)
    BY <1>0, <2>1, <2>2, <2>3 DEF Distinct
  <2>5. \A k : Seen(es, k) <=> \E i \in 1..n : es[i] = k
    BY DEF Seen, n
  <2>6. \A k : Seen(moved, k) <=> \E i \in 1..(n + 1) : moved[i] = k
    BY <2>1 DEF Seen
  <2>7. \A k : Seen(moved, k) <=> Seen(es, k) \/ k = key
    BY <1>0, <2>1, <2>5, <2>6
  <2> QED  BY <2>4, <2>7 DEF moved
<1> QED  BY <1>1, <1>2

\* hit() only changes the order
LEMMA HitKeeps ==
    ASSUME NEW S, NEW es \in Seq(S), Distinct(es), NEW key
    PROVE  /\ Distinct(Hit(es, key))
           /\ \A k : Seen(Hit(es, key), k) <=> Seen(es, k)
<1>1. CASE Seen(es, key)
  <2>1. key \in S
    BY <1>1, ElementOfSeq, LenProperties DEF Seen
  <2> QED  BY <1>1, <2>1, MoveToEndKeeps DEF Hit
<1>2. CASE ~Seen(es, key)
  BY <1>2 DEF Hit
<1> QED  BY <1>1, <1>2

\* A cache whose ids are of a finite set is no longer than that set.
LEMMA DistinctIsShort ==
    ASSUME NEW S, IsFiniteSet(S), NEW es \in Seq(S), Distinct(es)
    PROVE  Len(es) <= Cardinality(S)
<1>1. Len(es) \in Nat /\ \A i \in 1..Len(es) : es[i] \in S
  BY LenProperties, ElementOfSeq
<1> DEFINE f == [i \in 1..Len(es) |-> es[i]]
<1>2. f \in Injection(1..Len(es), S)
  BY <1>1 DEF Distinct, Injection, IsInjective
<1>3. Cardinality(1..Len(es)) <= Cardinality(S)
  BY <1>2, FS_Injection
<1>4. Cardinality(1..Len(es)) = Len(es)
  <2>1. \A b \in Int : Cardinality(1..b) = IF 1 > b THEN 0 ELSE b - 1 + 1
    BY FS_Interval
  <2> QED  BY <1>1, <2>1
<1> QED  BY <1>3, <1>4

\* add() to a cache with room for all of S evicts nothing
LEMMA AddKeeps ==
    ASSUME NEW S, IsFiniteSet(S), NEW es \in Seq(S), Distinct(es), NEW key \in S,
           NEW capacity \in Nat, Cardinality(S) <= capacity
    PROVE  /\ Distinct(Add(es, key, capacity))
           /\ \A k : Seen(Add(es, key, capacity), k) <=> Seen(es, k) \/ k = key
<1> DEFINE grown == MoveToEnd(es, key)
<1>1. grown \in Seq(S) /\ Distinct(grown)
  BY MoveToEndType, MoveToEndKeeps
<1>2. Len(grown) \in Nat /\ Len(grown) <= Cardinality(S) /\ Cardinality(S) \in Nat
  BY <1>1, DistinctIsShort, LenProperties, FS_CardinalityType
<1>3. Seen(grown, key)
  BY MoveToEndKeeps
<1>4. Len(grown) > 0
  BY <1>2, <1>3 DEF Seen
<1>5. ~(capacity <= 0) /\ ~(Len(grown) > capacity)
  <2> HIDE DEF grown
  <2> QED  BY <1>2, <1>4
<1>6. Add(es, key, capacity) = grown
  BY <1>5 DEF Add
<1> QED  BY <1>6, MoveToEndKeeps

----------------------------------------------------------------------------
(* Induction and recursion over an initial segment of the naturals, from the
   well-foundedness of their order: what holds is a set, the step of a recursion
   a function. *)

\* Every nonempty set of naturals has a least element.
LEMMA LeastNatural ==
  ASSUME NEW T \in SUBSET Nat, T # {}
  PROVE  \E n \in T : \A m \in T : n <= m
<1> DEFINE R == OpToRel(<, Nat)
<1>1. IsWellFoundedOn(R, Nat)
  BY NatLessThanWellFounded
<1>2. R = {ss \in Nat \X Nat : ss[1] < ss[2]}
  BY DEF OpToRel
<1> HIDE DEF R
<1>3. PICK n \in T : \A m \in T : <<m, n>> \notin R
  BY <1>1, WFMin
<1>4. \A m \in T : ~(m < n)
  BY <1>2, <1>3
<1> QED BY <1>4

\* A set that holds 0 and with each number below n the next holds them all.
LEMMA StepByStep ==
  ASSUME NEW n \in Nat, NEW S, 0 \in S,
         \A i \in 0 .. n - 1 : i \in S => i + 1 \in S
  PROVE  0 .. n \subseteq S
<1> SUFFICES ASSUME (0 .. n) \ S # {} PROVE FALSE
  OBVIOUS
<1>1. PICK k \in (0 .. n) \ S : \A m \in (0 .. n) \ S : k <= m
  <2>1. (0 .. n) \ S \in SUBSET Nat
    OBVIOUS
  <2> QED BY <2>1, LeastNatural
<1>2. k # 0 /\ k - 1 \in 0 .. n - 1
  BY <1>1
<1>3. k - 1 \in S
  BY <1>1, <1>2
<1> QED BY <1>1, <1>2, <1>3

\* The recursion that starts with s and goes on with next
Follows(f, n, s, next) ==
    f = [i \in 0 .. n |-> IF i = 0 THEN s ELSE next[i][f[i - 1]]]

\* Such a recursion defines a function.
LEMMA RecursionIsDefined ==
  ASSUME NEW n \in Nat, NEW S, NEW s \in S, NEW next \in [1 .. n -> [S -> S]]
  PROVE  \E f \in [0 .. n -> S] : Follows(f, n, s, next)
<1> DEFINE Runs(f, m) == f[0] = s /\ \A i \in 1 .. m : f[i] = next[i][f[i - 1]]
           T == {m \in 0 .. n : \E f \in [0 .. m -> S] : Runs(f, m)}
<1>1. 0 \in T
  <2> DEFINE f == [i \in 0 .. 0 |-> s]
  <2>1. f \in [0 .. 0 -> S] /\ Runs(f, 0)
    OBVIOUS
  <2> HIDE DEF f, Runs
  <2> QED BY <2>1
<1>2. ASSUME NEW m \in 0 .. n - 1, m \in T
      PROVE  m + 1 \in T
  <2>1. PICK f \in [0 .. m -> S] : Runs(f, m)
    BY <1>2
  <2> DEFINE g == [i \in 0 .. m + 1 |-> IF i = m + 1 THEN next[i][f[m]] ELSE f[i]]
  <2>2. f[m] \in S /\ next[m + 1] \in [S -> S]
    BY <2>1
  <2>3. g \in [0 .. m + 1 -> S]
    BY <2>1, <2>2
  <2>4. Runs(g, m + 1)
    BY <2>1
  <2> HIDE DEF g, Runs
  <2> QED BY <2>3, <2>4
<1>3. n \in T
  <2> HIDE DEF T
  <2>1. 0 .. n \subseteq T
    BY <1>1, <1>2, StepByStep
  <2> QED BY <2>1
<1>4. PICK f \in [0 .. n -> S] : Runs(f, n)
  BY <1>3
<1>5. \A i \in 0 .. n : f[i] = IF i = 0 THEN s ELSE next[i][f[i - 1]]
  BY <1>4
<1>6. f = [i \in 0 .. n |-> f[i]]
  BY <1>4
<1> QED BY <1>4, <1>5, <1>6 DEF Follows

=============================================================================
