------------------------- MODULE OrderPayloadProofs -------------------------
(***************************************************************************)
(* What sameOrderPayload decides, for lists of items of any length: it     *)
(* compares them as bags, in whatever order the rows come back.            *)
(***************************************************************************)
EXTENDS OrderPayload, LeastNaturals, FiniteSetTheorems, SequenceTheorems

\* Where x is in the list.
Positions(s, x) == {i \in DOMAIN s : s[i] = x}

LEMMA ListShape ==
  ASSUME NEW s \in Seq(Items)
  PROVE  /\ Len(s) \in Nat
         /\ DOMAIN s = 1..Len(s)
         /\ \A i \in DOMAIN s : s[i] \in Items
         /\ IsFiniteSet(DOMAIN s)
         /\ Cardinality(DOMAIN s) = Len(s)
<1>1. Len(s) \in Nat /\ DOMAIN s = 1..Len(s) /\ \A i \in DOMAIN s : s[i] \in Items
  BY ElementOfSeq, LenProperties
<1>2. QED
  BY <1>1, FS_Interval

\* The loop compares every field of an item.
LEMMA SameItemIsEqual ==
  ASSUME NEW item \in Items, NEW incoming \in Items
  PROVE  SameItem(item, incoming) <=> item = incoming
BY DEF SameItem, SameHardwareOverride, Items

LEMMA PositionsFinite ==
  ASSUME NEW s \in Seq(Items), NEW x
  PROVE  /\ Positions(s, x) \subseteq DOMAIN s
         /\ IsFiniteSet(Positions(s, x))
         /\ Cardinality(Positions(s, x)) \in Nat
         /\ Cardinality(Positions(s, x)) = 0 <=> Positions(s, x) = {}
<1>1. Positions(s, x) \subseteq DOMAIN s
  BY DEF Positions
<1>2. IsFiniteSet(Positions(s, x))
  BY <1>1, ListShape, FS_Subset
<1>3. QED
  BY <1>1, <1>2, FS_CardinalityType, FS_EmptySet

\* Two lists are the same bag when every item is as often in both.
LEMMA BagsByCount ==
  ASSUME NEW s \in Seq(Items), NEW u \in Seq(Items)
  PROVE  ToBag(s) = ToBag(u) <=>
           \A x \in Items : Cardinality(Positions(s, x)) = Cardinality(Positions(u, x))
<1>1. ASSUME NEW v \in Seq(Items)
      PROVE  /\ DOMAIN ToBag(v) = Range(v)
             /\ \A x \in Range(v) : ToBag(v)[x] = Cardinality(Positions(v, x))
             /\ Range(v) \subseteq Items
             /\ \A x \in Items : x \in Range(v) <=> Cardinality(Positions(v, x)) # 0
             /\ ToBag(v) = [x \in Range(v) |-> Cardinality(Positions(v, x))]
  <2>1. \A x : x \in Range(v) <=> Positions(v, x) # {}
    BY DEF Range, Positions
  <2>2. Range(v) \subseteq Items
    BY <1>1, ListShape DEF Range
  <2>3. QED
    BY <1>1, <2>1, <2>2, PositionsFinite DEF ToBag, Positions
<1>2. ASSUME ToBag(s) = ToBag(u), NEW x \in Items
      PROVE  Cardinality(Positions(s, x)) = Cardinality(Positions(u, x))
  <2>1. Range(s) = Range(u)
    BY <1>1, <1>2
  <2>2. CASE x \in Range(s)
    BY <1>1, <1>2, <2>1, <2>2
  <2>3. CASE x \notin Range(s)
    BY <1>1, <2>1, <2>3
  <2>4. QED
    BY <2>2, <2>3
<1>3. ASSUME \A x \in Items : Cardinality(Positions(s, x)) = Cardinality(Positions(u, x))
      PROVE  ToBag(s) = ToBag(u)
  <2>1. Range(s) = Range(u)
    BY <1>1, <1>3
  <2>2. \A x \in Range(s) : Cardinality(Positions(s, x)) = Cardinality(Positions(u, x))
    BY <1>1, <1>3
  <2>3. QED
    BY <1>1, <2>1, <2>2
<1>4. QED
  BY <1>2, <1>3

\* A list whose rows are those of another one in a different order.
LEMMA RearrangedIsSameBag ==
  ASSUME NEW s \in Seq(Items), NEW u \in Seq(Items),
         NEW f \in Bijection(DOMAIN s, DOMAIN u), \A i \in DOMAIN s : s[i] = u[f[i]]
  PROVE  ToBag(s) = ToBag(u)
<1>1. /\ f \in [DOMAIN s -> DOMAIN u]
      /\ \A a, b \in DOMAIN s : f[a] = f[b] => a = b
      /\ \A j \in DOMAIN u : \E i \in DOMAIN s : f[i] = j
  BY DEF Bijection, Injection, Surjection, IsInjective
<1>2. ASSUME NEW x \in Items
      PROVE  Cardinality(Positions(s, x)) = Cardinality(Positions(u, x))
  <2> DEFINE g == [i \in Positions(s, x) |-> f[i]]
  <2>1. g \in [Positions(s, x) -> Positions(u, x)]
    BY <1>1 DEF Positions
  <2>2. \A a, b \in Positions(s, x) : g[a] = g[b] => a = b
    BY <1>1 DEF Positions
  <2>3. \A j \in Positions(u, x) : \E i \in Positions(s, x) : g[i] = j
    BY <1>1 DEF Positions
  <2> HIDE DEF g
  <2>4. g \in Bijection(Positions(s, x), Positions(u, x))
    BY <2>1, <2>2, <2>3 DEF Bijection, Injection, Surjection, IsInjective
  <2>5. ExistsBijection(Positions(s, x), Positions(u, x))
    BY <2>4 DEF ExistsBijection
  <2>6. QED
    BY <2>5, PositionsFinite, FS_Bijection
<1>3. QED
  BY <1>2, BagsByCount

\* What ListItems returns is such a list.
LEMMA ListingIsSameBag ==
  ASSUME NEW items \in Seq(Items), NEW listed \in Listings(items)
  PROVE  /\ listed \in Seq(Items)
         /\ Len(listed) = Len(items)
         /\ ToBag(listed) = ToBag(items)
<1>1. PICK p \in Bijection(DOMAIN items, DOMAIN items) :
        listed = [i \in DOMAIN items |-> items[p[i]]]
  BY DEF Listings
<1>2. p \in [DOMAIN items -> DOMAIN items]
  BY DEF Bijection, Injection
<1>3. listed \in [1..Len(items) -> Items] /\ DOMAIN listed = DOMAIN items
  BY <1>1, <1>2, ListShape
<1>4. listed \in Seq(Items)
  BY <1>3, ListShape, SeqDef
<1>5. Len(listed) = Len(items)
  BY <1>3, <1>4, ListShape
<1>6. QED
  BY <1>1, <1>3, <1>4, <1>5, RearrangedIsSameBag

\* The first position that is free is free.
LEMMA MinIsFree ==
  ASSUME NEW S, S \subseteq Nat, S # {}
  PROVE  Min(S) \in S
<1>1. \E x \in S : \A y \in S : x <= y
  BY LeastNatural
<1>2. QED
  BY <1>1 DEF Min

\* A row takes a position with the same item, which nobody has taken before.
LEMMA RoundTakes ==
  ASSUME NEW s \in Seq(Items), NEW u \in Seq(Items), NEW n \in 0..Len(s), NEW taken,
         Rounds(taken, s, u, n)
  PROVE  \A i \in 1..n :
           /\ s[i] = u[taken[i]]
           /\ \A k \in 1..(i - 1) : taken[k] # taken[i]
<1> TAKE i \in 1..n
<1> DEFINE free == Unmatched(s[i], u, {taken[k] : k \in 1..(i - 1)})
<1>1. free # {} /\ taken[i] = Min(free)
  BY DEF Rounds
<1>2. free \subseteq Nat
  BY ListShape DEF Unmatched
<1>3. taken[i] \in free
  BY <1>1, <1>2, MinIsFree
<1>4. /\ taken[i] \in DOMAIN u
      /\ taken[i] \notin {taken[k] : k \in 1..(i - 1)}
      /\ SameItem(s[i], u[taken[i]])
  BY <1>3 DEF Unmatched
<1>5. i \in DOMAIN s
  BY ListShape
<1>6. QED
  BY <1>4, <1>5, ListShape, SameItemIsEqual

\* So a run through all rows is an injection.
LEMMA RoundsInjective ==
  ASSUME NEW s \in Seq(Items), NEW u \in Seq(Items),
         NEW taken \in [DOMAIN s -> DOMAIN u], Rounds(taken, s, u, Len(s))
  PROVE  /\ taken \in Injection(DOMAIN s, DOMAIN u)
         /\ \A i \in DOMAIN s : s[i] = u[taken[i]]
         /\ Len(s) <= Len(u)
<1>1. Len(s) \in Nat /\ DOMAIN s = 1..Len(s) /\ Len(s) \in 0..Len(s)
  BY ListShape
<1>2. \A i \in DOMAIN s : s[i] = u[taken[i]] /\ \A k \in 1..(i - 1) : taken[k] # taken[i]
  <2>1. \A i \in 1..Len(s) :
          s[i] = u[taken[i]] /\ \A k \in 1..(i - 1) : taken[k] # taken[i]
    BY <1>1, RoundTakes
  <2>2. QED
    BY <1>1, <2>1
<1>3. \A a, b \in DOMAIN s : taken[a] = taken[b] => a = b
  <2> SUFFICES ASSUME NEW a \in DOMAIN s, NEW b \in DOMAIN s, taken[a] = taken[b], a # b
               PROVE  FALSE
    OBVIOUS
  <2>1. a \in 1..(b - 1) \/ b \in 1..(a - 1)
    BY <1>1
  <2>2. QED
    BY <1>2, <2>1
<1>4. taken \in Injection(DOMAIN s, DOMAIN u)
  BY <1>3 DEF Injection, IsInjective
<1>5. QED
  BY <1>2, <1>4, ListShape, FS_Injection

\* The loop never runs out of positions when the other list has every item
\* at least as often: before row n, fewer positions of its item are taken
\* than the list has rows with that item.
LEMMA RoundsNeverStuck ==
  ASSUME NEW s \in Seq(Items), NEW u \in Seq(Items),
         \A x \in Items : Cardinality(Positions(s, x)) <= Cardinality(Positions(u, x))
  PROVE  \E taken \in [DOMAIN s -> DOMAIN u] : Rounds(taken, s, u, Len(s))
<1> DEFINE Done(n) == \E taken \in [1..n -> DOMAIN u] : Rounds(taken, s, u, n)
           Stuck == {n \in 0..Len(s) : ~Done(n)}
<1>1. Len(s) \in Nat /\ DOMAIN s = 1..Len(s)
  BY ListShape
<1>2. Done(0)
  <2>1. [k \in 1..0 |-> 0] \in [1..0 -> DOMAIN u]
    OBVIOUS
  <2>2. Rounds([k \in 1..0 |-> 0], s, u, 0)
    BY DEF Rounds
  <2>3. QED
    BY <2>1, <2>2
<1>3. ASSUME NEW n \in 1..Len(s), Done(n - 1) PROVE Done(n)
  <2>1. PICK taken \in [1..(n - 1) -> DOMAIN u] : Rounds(taken, s, u, n - 1)
    BY <1>3
  <2> DEFINE x == s[n]
             M == {taken[k] : k \in 1..(n - 1)}
             free == Unmatched(x, u, M)
             Q == {k \in 1..(n - 1) : s[k] = x}
  <2>2. n \in Nat /\ n > 0 /\ n \in DOMAIN s /\ x \in Items
    BY <1>1, ListShape
  <2>3. \A k \in 1..(n - 1) : s[k] = u[taken[k]]
    <3>1. n - 1 \in 0..Len(s)
      BY <1>1
    <3>2. \A k \in 1..(n - 1) :
            s[k] = u[taken[k]] /\ \A j \in 1..(k - 1) : taken[j] # taken[k]
      <4> DEFINE m == n - 1
      <4>1. m \in 0..Len(s) /\ Rounds(taken, s, u, m)
        BY <2>1, <3>1
      <4> HIDE DEF m
      <4>2. \A k \in 1..m :
              s[k] = u[taken[k]] /\ \A j \in 1..(k - 1) : taken[j] # taken[k]
        BY <4>1, RoundTakes
      <4>3. QED
        BY <4>2 DEF m
    <3>3. QED
      BY <3>2
  <2>4. ASSUME free = {} PROVE FALSE
    <3>1. \A j \in Positions(u, x) : j \in M
      <4> SUFFICES ASSUME NEW j \in Positions(u, x), j \notin M PROVE FALSE
        OBVIOUS
      <4>1. j \in DOMAIN u /\ u[j] = x /\ SameItem(x, u[j])
        BY <2>2, SameItemIsEqual DEF Positions
      <4>2. j \in free
        BY <4>1 DEF Unmatched
      <4>3. QED
        BY <2>4, <4>2
    <3>2. \A j \in Positions(u, x) : \E k \in Q : taken[k] = j
      BY <2>3, <3>1 DEF Positions
    <3>3. \A k \in Q : taken[k] \in Positions(u, x)
      BY <2>1, <2>3 DEF Positions
    <3> DEFINE g == [k \in Q |-> taken[k]]
    <3>4. g \in Surjection(Q, Positions(u, x))
      BY <3>2, <3>3 DEF Surjection
    <3>5. Q \cup {n} \subseteq Positions(s, x) /\ n \notin Q
      BY <1>1, <2>2 DEF Positions
    <3> HIDE DEF Q, g
    <3>6. IsFiniteSet(Positions(s, x)) /\ Cardinality(Positions(s, x)) \in Nat
      BY PositionsFinite
    <3>7. IsFiniteSet(Q) /\ IsFiniteSet(Q \cup {n})
      BY <3>5, <3>6, FS_Subset
    <3>8. Cardinality(Q) \in Nat /\ Cardinality(Q \cup {n}) = Cardinality(Q) + 1
      BY <3>5, <3>7, FS_CardinalityType, FS_AddElement
    <3>9. Cardinality(Q \cup {n}) <= Cardinality(Positions(s, x))
      BY <3>5, <3>6, FS_Subset
    <3>10. Cardinality(Positions(u, x)) <= Cardinality(Q)
      BY <3>4, <3>7, FS_Surjection
    <3>11. /\ Cardinality(Positions(s, x)) <= Cardinality(Positions(u, x))
           /\ Cardinality(Positions(u, x)) \in Nat
      BY <2>2, PositionsFinite
    <3>12. QED
      BY <3>6, <3>8, <3>9, <3>10, <3>11
  <2> DEFINE more == [k \in 1..n |-> IF k = n THEN Min(free) ELSE taken[k]]
  <2>5. Min(free) \in free /\ free \subseteq DOMAIN u
    <3>1. free \subseteq DOMAIN u /\ free \subseteq Nat
      BY ListShape DEF Unmatched
    <3> HIDE DEF free
    <3>2. QED
      BY <2>4, <3>1, MinIsFree
  <2>6. more \in [1..n -> DOMAIN u]
    <3> HIDE DEF free
    <3>1. QED
      BY <2>2, <2>5
  <2>7. ASSUME NEW i \in 1..n
        PROVE  {more[k] : k \in 1..(i - 1)} = {taken[k] : k \in 1..(i - 1)}
    <3>1. \A k \in 1..(i - 1) : more[k] = taken[k]
      BY <2>2
    <3> HIDE DEF more
    <3>2. QED
      BY <3>1
  <2>8. Rounds(more, s, u, n)
    <3>1. ASSUME NEW i \in 1..n
          PROVE  LET rest == Unmatched(s[i], u, {more[k] : k \in 1..(i - 1)})
                 IN  rest # {} /\ more[i] = Min(rest)
      <4>1. CASE i = n
        <5>1. more[i] = Min(free)
          BY <4>1
        <5> HIDE DEF more
        <5>2. QED
          BY <2>4, <2>7, <4>1, <5>1
      <4>2. CASE i # n
        <5>1. i \in 1..(n - 1)
          BY <2>2, <4>2
        <5>2. more[i] = taken[i]
          BY <4>2
        <5>3. LET rest == Unmatched(s[i], u, {taken[k] : k \in 1..(i - 1)})
              IN  rest # {} /\ taken[i] = Min(rest)
          BY <2>1, <5>1 DEF Rounds
        <5> HIDE DEF more
        <5>4. QED
          BY <2>7, <5>2, <5>3
      <4>3. QED
        BY <4>1, <4>2
    <3> HIDE DEF more
    <3>2. QED
      BY <3>1 DEF Rounds
  <2> HIDE DEF more
  <2>9. QED
    BY <2>6, <2>8
<1>4. Stuck = {}
  <2> SUFFICES ASSUME Stuck # {} PROVE FALSE
    OBVIOUS
  <2> HIDE DEF Done
  <2>1. Stuck \subseteq Nat
    OBVIOUS
  <2>2. PICK n \in Stuck : \A m \in Stuck : n <= m
    <3> HIDE DEF Stuck
    <3>1. QED
      BY <2>1, LeastNatural
  <2>3. n \in 0..Len(s) /\ n # 0
    BY <1>2
  <2>4. n \in 1..Len(s) /\ n - 1 \in 0..Len(s) /\ n - 1 < n
    BY <1>1, <2>3
  <2>5. Done(n - 1)
    BY <2>2, <2>4
  <2>6. QED
    BY <1>3, <2>2, <2>4, <2>5
<1>5. Done(Len(s))
  <2> HIDE DEF Done
  <2>1. QED
    BY <1>1, <1>4
<1>6. QED
  BY <1>1, <1>5

\* sameOrderPayload takes two lists of items for the same exactly when they
\* hold the same items, counted with their repetitions, in whatever order the
\* database lists the rows: the loop's first free position is never a wrong
\* choice, because all positions it may take hold the same item.
THEOREM MatchesBags == MatchesAsBags(Seq(Items))
<1> SUFFICES ASSUME NEW items \in Seq(Items), NEW incoming \in Seq(Items),
                    NEW listed \in Listings(items)
             PROVE  Matches(listed, incoming) <=> ToBag(items) = ToBag(incoming)
  BY DEF MatchesAsBags
<1>1. listed \in Seq(Items) /\ ToBag(listed) = ToBag(items)
  BY ListingIsSameBag
<1>2. ASSUME Matches(listed, incoming) PROVE ToBag(listed) = ToBag(incoming)
  <2>1. PICK taken \in [DOMAIN listed -> DOMAIN incoming] :
          Rounds(taken, listed, incoming, Len(listed))
    BY <1>2 DEF Matches
  <2>2. taken \in Injection(DOMAIN listed, DOMAIN incoming)
        /\ \A i \in DOMAIN listed : listed[i] = incoming[taken[i]]
    BY <1>1, <2>1, RoundsInjective
  <2>3. Len(listed) = Len(incoming)
    BY <1>2 DEF Matches
  <2>4. taken \in Surjection(DOMAIN listed, DOMAIN incoming)
    BY <1>1, <2>2, <2>3, ListShape, FS_Injection
  <2>5. taken \in Bijection(DOMAIN listed, DOMAIN incoming)
    BY <2>2, <2>4 DEF Bijection
  <2>6. QED
    BY <1>1, <2>2, <2>5, RearrangedIsSameBag
<1>3. ASSUME ToBag(listed) = ToBag(incoming) PROVE Matches(listed, incoming)
  <2>1. \A x \in Items :
          /\ Cardinality(Positions(listed, x)) = Cardinality(Positions(incoming, x))
          /\ Cardinality(Positions(listed, x)) \in Nat
    BY <1>1, <1>3, BagsByCount, PositionsFinite
  <2>2. \A x \in Items :
          /\ Cardinality(Positions(listed, x)) <= Cardinality(Positions(incoming, x))
          /\ Cardinality(Positions(incoming, x)) <= Cardinality(Positions(listed, x))
    BY <2>1
  <2>3. \E taken \in [DOMAIN listed -> DOMAIN incoming] :
          Rounds(taken, listed, incoming, Len(listed))
    BY <1>1, <2>2, RoundsNeverStuck, Zenon
  <2>4. \E taken \in [DOMAIN incoming -> DOMAIN listed] :
          Rounds(taken, incoming, listed, Len(incoming))
    BY <1>1, <2>2, RoundsNeverStuck, Zenon
  <2>5. Len(listed) <= Len(incoming) /\ Len(incoming) <= Len(listed)
    BY <1>1, <2>3, <2>4, RoundsInjective
  <2>6. Len(listed) = Len(incoming)
    BY <1>1, <2>5, ListShape
  <2>7. QED
    BY <2>3, <2>6 DEF Matches
<1>4. QED
  BY <1>1, <1>2, <1>3
=============================================================================
