----------------------------- MODULE QueryProofs -----------------------------
(***************************************************************************)
(* What a reader gets in answer to REQ and COUNT and live, for every store,*)
(* every text and every behaviour of the hooks: what may be in an answer,  *)
(* what must be, and how much.                                             *)
(***************************************************************************)
EXTENDS Query, FiniteSetTheorems, SequenceTheorems, WellFoundedInduction, TLAPS

-----------------------------------------------------------------------------
(* Ranks in a finite total order.                                          *)

\* The predecessors of x in S.
Below(S, R, x) == {y \in S : <<y, x>> \in R}

\* R is a strict total order of S.
Orders(R, S) ==
  /\ \A x \in S : <<x, x>> \notin R
  /\ \A x, y, z \in S : <<x, y>> \in R /\ <<y, z>> \in R => <<x, z>> \in R
  /\ \A x, y \in S : x = y \/ <<x, y>> \in R \/ <<y, x>> \in R

\* An element before another one has fewer predecessors.
LEMMA FewerBelow ==
  ASSUME NEW S, IsFiniteSet(S), NEW R, Orders(R, S), NEW x \in S, NEW y \in S, <<y, x>> \in R
  PROVE  /\ Cardinality(Below(S, R, x)) \in Nat
         /\ Cardinality(Below(S, R, y)) \in Nat
         /\ Cardinality(Below(S, R, y)) < Cardinality(Below(S, R, x))
<1> DEFINE A == Below(S, R, y)
           B == Below(S, R, x)
<1>1. A \in SUBSET B /\ y \in B /\ y \notin A
  BY DEF Orders, Below
<1>2. B \in SUBSET S
  BY DEF Below
<1> HIDE DEF A, B
<1>3. IsFiniteSet(B)
  BY <1>2, FS_Subset
<1>4. /\ IsFiniteSet(A)
      /\ Cardinality(A) <= Cardinality(B)
      /\ Cardinality(B) = Cardinality(A) => B = A
  BY <1>1, <1>3, FS_Subset
<1>5. Cardinality(A) \in Nat /\ Cardinality(B) \in Nat
  BY <1>3, <1>4, FS_CardinalityType
<1>6. Cardinality(A) < Cardinality(B)
  BY <1>1, <1>4, <1>5
<1> QED
  BY <1>5, <1>6 DEF A, B

\* Every rank is taken, and by one element only.
LEMMA Ranks ==
  ASSUME NEW S, IsFiniteSet(S), NEW R, Orders(R, S)
  PROVE  /\ Cardinality(S) \in Nat
         /\ \A x \in S : Cardinality(Below(S, R, x)) \in 0..(Cardinality(S) - 1)
         /\ \A x, y \in S : Cardinality(Below(S, R, x)) = Cardinality(Below(S, R, y)) => x = y
         /\ \A k \in 0..(Cardinality(S) - 1) : \E x \in S : Cardinality(Below(S, R, x)) = k
<1> DEFINE n == Cardinality(S)
           rank == [x \in S |-> Cardinality(Below(S, R, x))]
<1>1. n \in Nat
  BY FS_CardinalityType
<1>2. \A x \in S : Cardinality(Below(S, R, x)) \in 0..(n - 1)
  <2> SUFFICES ASSUME NEW x \in S PROVE Cardinality(Below(S, R, x)) \in 0..(n - 1)
    OBVIOUS
  <2>1. Below(S, R, x) \in SUBSET S /\ x \notin Below(S, R, x)
    BY DEF Orders, Below
  <2>2. /\ IsFiniteSet(Below(S, R, x))
        /\ Cardinality(Below(S, R, x)) <= n
        /\ n = Cardinality(Below(S, R, x)) => S = Below(S, R, x)
    BY <2>1, FS_Subset
  <2>3. Cardinality(Below(S, R, x)) \in Nat
    BY <2>2, FS_CardinalityType
  <2> HIDE DEF n
  <2> QED
    BY <1>1, <2>1, <2>2, <2>3
<1>3. \A x, y \in S : Cardinality(Below(S, R, x)) = Cardinality(Below(S, R, y)) => x = y
  <2> SUFFICES ASSUME NEW x \in S, NEW y \in S, x # y
               PROVE  Cardinality(Below(S, R, x)) # Cardinality(Below(S, R, y))
    OBVIOUS
  <2>1. CASE <<x, y>> \in R
    <3>1. /\ Cardinality(Below(S, R, y)) \in Nat
          /\ Cardinality(Below(S, R, x)) \in Nat
          /\ Cardinality(Below(S, R, x)) < Cardinality(Below(S, R, y))
      BY <2>1, FewerBelow
    <3> QED BY <3>1
  <2>2. CASE <<y, x>> \in R
    <3>1. /\ Cardinality(Below(S, R, y)) \in Nat
          /\ Cardinality(Below(S, R, x)) \in Nat
          /\ Cardinality(Below(S, R, y)) < Cardinality(Below(S, R, x))
      BY <2>2, FewerBelow
    <3> QED BY <3>1
  <2> QED BY <2>1, <2>2 DEF Orders
<1>4. IsFiniteSet(0..(n - 1)) /\ Cardinality(0..(n - 1)) = n
  <2> HIDE DEF n
  <2>1. 0 \in Int /\ n - 1 \in Int
    BY <1>1
  <2>2. IsFiniteSet(0..(n - 1)) /\ Cardinality(0..(n - 1)) = IF 0 > n - 1 THEN 0 ELSE (n - 1) - 0 + 1
    BY <2>1, FS_Interval
  <2> QED BY <1>1, <2>2
<1>5. rank \in Injection(S, 0..(n - 1))
  BY <1>2, <1>3 DEF Injection, IsInjective
<1>6. rank \in Surjection(S, 0..(n - 1))
  <2> HIDE DEF n, rank
  <2>1. Cardinality(S) = Cardinality(0..(n - 1)) <=> rank \in Surjection(S, 0..(n - 1))
    BY <1>4, <1>5, FS_Injection
  <2> QED BY <2>1, <1>4 DEF n
<1>7. \A k \in 0..(n - 1) : \E x \in S : Cardinality(Below(S, R, x)) = k
  BY <1>6 DEF Surjection
<1> QED
  BY <1>1, <1>2, <1>3, <1>7
-----------------------------------------------------------------------------
(* The stored events are finitely many and totally ordered.                *)

\* No more events than offsets.
LEMMA StoreFinite ==
  /\ IsFiniteSet(ToSet(Store)) /\ Cardinality(ToSet(Store)) \in Nat
  /\ Cardinality(ToSet(Store)) <= MaxU32
<1> DEFINE n == Len(Store)
           f == [i \in 1..n |-> Store[i]]
<1>1. DOMAIN Store = 1..n /\ n \in 0..MaxU32 /\ MaxU32 \in Nat
  BY StoreAssumption, WidthAssumption
<1>2. n \in Int /\ n \in Nat /\ n <= MaxU32
  BY <1>1
<1>3. IsFiniteSet(1..n) /\ Cardinality(1..n) = IF 1 > n THEN 0 ELSE n - 1 + 1
  BY <1>2, FS_Interval
<1>4. Cardinality(1..n) = n
  BY <1>2, <1>3
<1>5. f \in Surjection(1..n, ToSet(Store))
  BY <1>1 DEF Surjection, ToSet
<1>6. /\ IsFiniteSet(ToSet(Store))
      /\ Cardinality(ToSet(Store)) <= Cardinality(1..n)
  <2> HIDE DEF f
  <2> QED BY <1>3, <1>5, FS_Surjection
<1>7. Cardinality(ToSet(Store)) \in Nat
  BY <1>6, FS_CardinalityType
<1> HIDE DEF n
<1> QED
  BY <1>1, <1>2, <1>4, <1>6, <1>7

\* The order in which a search answers.
Newer == {p \in ToSet(Store) \X ToSet(Store) : NewerFirst(p[1], p[2])}

\* Newer relates the stored events as NewerFirst does.
LEMMA NewerPairs ==
  ASSUME NEW x \in ToSet(Store), NEW y \in ToSet(Store)
  PROVE  <<x, y>> \in Newer <=> NewerFirst(x, y)
BY DEF Newer

\* A stored event has one offset, a time and a rank of its own.
LEMMA StoredEvents ==
  /\ \A e \in ToSet(Store) : e.created_at \in Nat /\ HashRank[e.id] \in Nat
  /\ \A x, y \in ToSet(Store) : HashRank[x.id] = HashRank[y.id] => x = y
<1>1. \A e \in ToSet(Store) : \E i \in DOMAIN Store : e = Store[i]
  BY DEF ToSet
<1>2. ASSUME NEW x \in ToSet(Store), NEW y \in ToSet(Store), HashRank[x.id] = HashRank[y.id]
      PROVE  x = y
  <2>1. PICK i \in DOMAIN Store : x = Store[i]
    BY <1>1
  <2>2. PICK j \in DOMAIN Store : y = Store[j]
    BY <1>1
  <2>3. i = j
    BY <1>2, <2>1, <2>2, StoreAssumption
  <2> QED BY <2>1, <2>2, <2>3
<1>3. ASSUME NEW e \in ToSet(Store) PROVE e.created_at \in Nat /\ HashRank[e.id] \in Nat
  BY <1>1, StoreAssumption
<1> QED
  BY <1>2, <1>3

\* Time and rank order the stored events totally.
LEMMA NewerIsOrder == Orders(Newer, ToSet(Store))
<1>1. \A x \in ToSet(Store) : ~NewerFirst(x, x)
  BY StoredEvents DEF NewerFirst
<1>2. ASSUME NEW x \in ToSet(Store), NEW y \in ToSet(Store), NEW z \in ToSet(Store),
             NewerFirst(x, y), NewerFirst(y, z)
      PROVE  NewerFirst(x, z)
  <2>1. /\ x.created_at \in Nat /\ y.created_at \in Nat /\ z.created_at \in Nat
        /\ HashRank[x.id] \in Nat /\ HashRank[y.id] \in Nat /\ HashRank[z.id] \in Nat
    BY StoredEvents
  <2> QED BY <1>2, <2>1 DEF NewerFirst
<1>3. ASSUME NEW x \in ToSet(Store), NEW y \in ToSet(Store)
      PROVE  x = y \/ NewerFirst(x, y) \/ NewerFirst(y, x)
  <2>1. /\ x.created_at \in Nat /\ y.created_at \in Nat
        /\ HashRank[x.id] \in Nat /\ HashRank[y.id] \in Nat
        /\ HashRank[x.id] = HashRank[y.id] => x = y
    BY StoredEvents
  <2> QED BY <2>1 DEF NewerFirst
<1>4. \A p \in Newer : p[1] \in ToSet(Store) /\ p[2] \in ToSet(Store) /\ NewerFirst(p[1], p[2])
  BY DEF Newer
<1> QED
  BY <1>1, <1>2, <1>3, NewerPairs DEF Orders

\* An order of a set orders its subsets.
LEMMA OrdersSubset ==
  ASSUME NEW S, NEW R, Orders(R, S), NEW T \in SUBSET S
  PROVE  Orders(R, T)
BY DEF Orders

-----------------------------------------------------------------------------
(* Sorting.                                                                *)

\* What a sorted sequence is.
LEMMA Sorted ==
  ASSUME NEW E \in SUBSET ToSet(Store)
  PROVE  /\ Cardinality(E) \in Nat
         /\ DOMAIN SortAndDedupe(E) = 1..Cardinality(E)
         /\ \A i \in 1..Cardinality(E) :
              /\ SortAndDedupe(E)[i] \in E
              /\ Cardinality({x \in E : NewerFirst(x, SortAndDedupe(E)[i])}) = i - 1
         /\ \A e \in E : \E i \in 1..Cardinality(E) : SortAndDedupe(E)[i] = e
         /\ \A i, j \in 1..Cardinality(E) :
              /\ SortAndDedupe(E)[i] = SortAndDedupe(E)[j] => i = j
              /\ i < j <=> NewerFirst(SortAndDedupe(E)[i], SortAndDedupe(E)[j])
<1> DEFINE n == Cardinality(E)
           s == SortAndDedupe(E)
           Rank(e) == Cardinality({x \in E : NewerFirst(x, e)})
<1>1. IsFiniteSet(E)
  BY StoreFinite, FS_Subset
<1>2. Orders(Newer, E)
  BY NewerIsOrder, OrdersSubset
<1>3. \A e \in E : Below(E, Newer, e) = {x \in E : NewerFirst(x, e)}
  BY NewerPairs DEF Below
<1>4. \A e \in E : Rank(e) = Cardinality(Below(E, Newer, e))
  BY <1>3
<1>5. /\ n \in Nat
      /\ \A x \in E : Rank(x) \in 0..(n - 1)
      /\ \A x, y \in E : Rank(x) = Rank(y) => x = y
      /\ \A k \in 0..(n - 1) : \E x \in E : Rank(x) = k
  <2> HIDE DEF Rank, n
  <2>1. /\ Cardinality(E) \in Nat
        /\ \A x \in E : Cardinality(Below(E, Newer, x)) \in 0..(Cardinality(E) - 1)
        /\ \A x, y \in E : Cardinality(Below(E, Newer, x)) = Cardinality(Below(E, Newer, y)) => x = y
        /\ \A k \in 0..(Cardinality(E) - 1) : \E x \in E : Cardinality(Below(E, Newer, x)) = k
    BY <1>1, <1>2, Ranks
  <2> QED BY <1>4, <2>1 DEF n
<1>6. \A x, y \in E : NewerFirst(y, x) => Rank(y) < Rank(x)
  <2> SUFFICES ASSUME NEW x \in E, NEW y \in E, NewerFirst(y, x) PROVE Rank(y) < Rank(x)
    OBVIOUS
  <2>1. <<y, x>> \in Newer
    BY NewerPairs
  <2>2. Cardinality(Below(E, Newer, y)) < Cardinality(Below(E, Newer, x))
    BY <1>1, <1>2, <2>1, FewerBelow
  <2> HIDE DEF Rank
  <2> QED BY <1>4, <2>2
<1>7. s = [i \in 1..n |-> CHOOSE e \in E : Rank(e) = i - 1]
  BY DEF SortAndDedupe
<1> HIDE DEF Rank, s, n
<1>8. \A i \in 1..n : s[i] \in E /\ Rank(s[i]) = i - 1
  <2> SUFFICES ASSUME NEW i \in 1..n PROVE s[i] \in E /\ Rank(s[i]) = i - 1
    OBVIOUS
  <2>1. i - 1 \in 0..(n - 1)
    BY <1>5
  <2>2. \E e \in E : Rank(e) = i - 1
    BY <1>5, <2>1
  <2>3. s[i] = CHOOSE e \in E : Rank(e) = i - 1
    BY <1>7
  <2> QED BY <2>2, <2>3
<1>9. \A e \in E : \E i \in 1..n : s[i] = e
  <2> SUFFICES ASSUME NEW e \in E PROVE \E i \in 1..n : s[i] = e
    OBVIOUS
  <2>1. Rank(e) \in 0..(n - 1)
    BY <1>5
  <2>2. PICK k \in 0..(n - 1) : k = Rank(e)
    BY <2>1
  <2>3. k + 1 \in 1..n /\ (k + 1) - 1 = k
    BY <1>5, <2>2
  <2>4. s[k + 1] \in E /\ Rank(s[k + 1]) = k
    BY <1>8, <2>3
  <2>5. s[k + 1] = e
    BY <1>5, <2>2, <2>4
  <2> QED BY <2>3, <2>5
<1>10. ASSUME NEW i \in 1..n, NEW j \in 1..n
       PROVE  /\ s[i] = s[j] => i = j
              /\ i < j <=> NewerFirst(s[i], s[j])
  <2>1. /\ s[i] \in E /\ s[j] \in E /\ Rank(s[i]) = i - 1 /\ Rank(s[j]) = j - 1
    BY <1>8
  <2>2. i \in Nat /\ j \in Nat
    BY <1>5
  <2>3. s[i] = s[j] => i = j
    BY <2>1, <2>2
  <2>4. /\ NewerFirst(s[i], s[j]) => i - 1 < j - 1
        /\ NewerFirst(s[j], s[i]) => j - 1 < i - 1
    BY <1>6, <2>1
  <2>5. s[i] = s[j] \/ NewerFirst(s[i], s[j]) \/ NewerFirst(s[j], s[i])
    BY <2>1, NewerIsOrder, NewerPairs DEF Orders
  <2> QED BY <2>2, <2>3, <2>4, <2>5
<1> QED
  BY <1>5, <1>7, <1>8, <1>9, <1>10 DEF Rank, s, n

\* A set cut to n elements keeps those with fewer than n before them.
LEMMA TruncatedAre ==
  ASSUME NEW E \in SUBSET ToSet(Store), NEW n \in Nat
  PROVE  Truncated(SortAndDedupe(E), n)
           = {e \in E : Cardinality({x \in E : NewerFirst(x, e)}) < n}
<1> DEFINE s == SortAndDedupe(E)
           m == Cardinality(E)
           Rank(e) == Cardinality({x \in E : NewerFirst(x, e)})
<1>1. /\ m \in Nat /\ DOMAIN s = 1..m
      /\ \A i \in 1..m : s[i] \in E /\ Rank(s[i]) = i - 1
      /\ \A e \in E : \E i \in 1..m : s[i] = e
  BY Sorted
<1>2. Truncated(s, n) = {s[i] : i \in {i \in DOMAIN s : i <= n}}
  BY DEF Truncated
<1> HIDE DEF s, m, Rank
<1>3. ASSUME NEW i \in 1..m PROVE i <= n <=> Rank(s[i]) < n
  BY <1>1
<1>4. {s[i] : i \in {i \in DOMAIN s : i <= n}} = {e \in E : Rank(e) < n}
  BY <1>1, <1>3
<1> QED
  BY <1>2, <1>4 DEF s, Rank

\* A search looks at those with fewer readable ones before them than the limit.
LEMMA ScannedAre ==
  ASSUME NEW E \in SUBSET ToSet(Store), NEW limit
  PROVE  Scanned(SortAndDedupe(E), limit)
           = {e \in E : Cardinality({x \in E : Readable(x) /\ NewerFirst(x, e)}) < limit}
<1> DEFINE s == SortAndDedupe(E)
           m == Cardinality(E)
           Seen(i) == {j \in 1..(i - 1) : Readable(s[j])}
           Before(e) == {x \in E : Readable(x) /\ NewerFirst(x, e)}
<1>1. /\ m \in Nat /\ DOMAIN s = 1..m
      /\ \A i \in 1..m : s[i] \in E
      /\ \A e \in E : \E i \in 1..m : s[i] = e
      /\ \A i, j \in 1..m : /\ s[i] = s[j] => i = j
                            /\ i < j <=> NewerFirst(s[i], s[j])
  BY Sorted
<1>2. Scanned(s, limit) = {s[i] : i \in {i \in DOMAIN s : Cardinality(Seen(i)) < limit}}
  BY DEF Scanned
<1> HIDE DEF s, m
<1>3. ASSUME NEW i \in 1..m PROVE Cardinality(Seen(i)) = Cardinality(Before(s[i]))
  <2> DEFINE f == [j \in Seen(i) |-> s[j]]
  <2>1. i \in Nat /\ i - 1 \in Int /\ 1 \in Int
    BY <1>1
  <2>2. IsFiniteSet(Seen(i))
    <3>1. IsFiniteSet(1..(i - 1))
      BY <2>1, FS_Interval
    <3>2. Seen(i) \in SUBSET (1..(i - 1))
      OBVIOUS
    <3> QED BY <3>1, <3>2, FS_Subset
  <2>3. \A j \in Seen(i) : j \in 1..m /\ j < i /\ Readable(s[j])
    BY <1>1, <2>1
  <2>4. \A j \in Seen(i) : s[j] \in Before(s[i])
    BY <1>1, <2>3
  <2>5. \A x \in Before(s[i]) : \E j \in Seen(i) : s[j] = x
    <3> SUFFICES ASSUME NEW x \in Before(s[i]) PROVE \E j \in Seen(i) : s[j] = x
      OBVIOUS
    <3>1. x \in E /\ Readable(x) /\ NewerFirst(x, s[i])
      OBVIOUS
    <3>2. PICK j \in 1..m : s[j] = x
      BY <1>1, <3>1
    <3>3. j < i
      BY <1>1, <3>1, <3>2
    <3>4. j \in 1..(i - 1)
      BY <1>1, <2>1, <3>3
    <3> QED BY <3>1, <3>2, <3>4
  <2>6. f \in Bijection(Seen(i), Before(s[i]))
    <3>1. f \in [Seen(i) -> Before(s[i])]
      BY <2>4
    <3>2. \A j, k \in Seen(i) : f[j] = f[k] => j = k
      BY <1>1, <2>3
    <3>3. \A x \in Before(s[i]) : \E j \in Seen(i) : f[j] = x
      BY <2>5
    <3> QED BY <3>1, <3>2, <3>3 DEF Bijection, Injection, Surjection, IsInjective
  <2>7. ExistsBijection(Seen(i), Before(s[i]))
    BY <2>6 DEF ExistsBijection
  <2> HIDE DEF Seen, Before
  <2> QED BY <2>2, <2>7, FS_Bijection
<1> HIDE DEF Seen, Before
<1>4. {s[i] : i \in {i \in DOMAIN s : Cardinality(Seen(i)) < limit}}
        = {e \in E : Cardinality(Before(e)) < limit}
  BY <1>1, <1>3
<1> QED
  BY <1>2, <1>4 DEF s, Before

-----------------------------------------------------------------------------
(* Each result once.                                                       *)

\* A set of positions and their order.
Positions(m) == {p \in (1..m) \X (1..m) : p[1] < p[2]}

\* It orders the positions totally.
LEMMA PositionsOrdered ==
  ASSUME NEW m \in Nat
  PROVE  Orders(Positions(m), 1..m) /\ \A i, j \in 1..m : <<i, j>> \in Positions(m) <=> i < j
<1>1. \A i, j \in 1..m : <<i, j>> \in Positions(m) <=> i < j
  BY DEF Positions
<1>2. \A i, j : <<i, j>> \in Positions(m) => i \in 1..m /\ j \in 1..m
  BY DEF Positions
<1>3. ASSUME NEW i \in 1..m, NEW j \in 1..m, NEW k \in 1..m, i < j, j < k PROVE i < k
  BY <1>3
<1>4. ASSUME NEW i \in 1..m, NEW j \in 1..m PROVE ~(i < i) /\ (i = j \/ i < j \/ j < i)
  OBVIOUS
<1> QED
  BY <1>1, <1>3, <1>4 DEF Orders

\* Some of the first m positions.
Among(at, m) == at \in SUBSET (1..m)

\* nth finds the items of a sequence at some positions, each once.
Draws(nth, s, at) ==
  /\ nth \in [1..Cardinality(at) -> at]
  /\ \A k, l \in 1..Cardinality(at) : nth[k] = nth[l] => k = l
  /\ \A k \in 1..Cardinality(at) : ItemsAt(s, at)[k] = s[nth[k]]

\* The items at some positions are as many as the positions, none of which gives two.
LEMMA ItemsAtAre ==
  ASSUME NEW m \in Nat, NEW s, NEW at, Among(at, m)
  PROVE  /\ Cardinality(at) \in Nat
         /\ DOMAIN ItemsAt(s, at) = 1..Cardinality(at)
         /\ \E nth : Draws(nth, s, at)
<1> DEFINE n == Cardinality(at)
           R == Positions(m)
           Rank(i) == Cardinality({j \in at : j < i})
           nth == [k \in 1..n |-> CHOOSE i \in at : Rank(i) = k - 1]
<1>2. IsFiniteSet(1..m)
  BY FS_Interval
<1>3. IsFiniteSet(at)
  BY <1>2, FS_Subset DEF Among
<1>4. Orders(R, 1..m) /\ \A i, j \in 1..m : <<i, j>> \in R <=> i < j
  BY PositionsOrdered
<1>5. Orders(R, at)
  BY <1>4, OrdersSubset DEF Among
<1>6. ASSUME NEW i \in at PROVE Below(at, R, i) = {j \in at : j < i}
  BY <1>4 DEF Below, Among
<1>7. \A i \in at : Rank(i) = Cardinality(Below(at, R, i))
  BY <1>6
<1>8. /\ n \in Nat
      /\ \A k \in 0..(n - 1) : \E i \in at : Rank(i) = k
  <2> DEFINE S == at
  <2>1. IsFiniteSet(S) /\ Orders(R, S)
    BY <1>3, <1>5
  <2> HIDE DEF S, R, nth
  <2>2. /\ Cardinality(S) \in Nat
        /\ \A k \in 0..(Cardinality(S) - 1) : \E x \in S : Cardinality(Below(S, R, x)) = k
    BY <2>1, Ranks
  <2> HIDE DEF Rank
  <2> QED BY <1>7, <2>2 DEF S
<1>9. ItemsAt(s, at) = [k \in 1..n |-> s[nth[k]]]
  BY DEF ItemsAt
<1> HIDE DEF nth, Rank, n
<1>10. \A k \in 1..n : nth[k] \in at /\ Rank(nth[k]) = k - 1
  <2> SUFFICES ASSUME NEW k \in 1..n PROVE nth[k] \in at /\ Rank(nth[k]) = k - 1
    OBVIOUS
  <2>1. k - 1 \in 0..(n - 1)
    BY <1>8
  <2>2. \E i \in at : Rank(i) = k - 1
    BY <1>8, <2>1
  <2>3. nth[k] = CHOOSE i \in at : Rank(i) = k - 1
    BY DEF nth
  <2> QED BY <2>2, <2>3
<1>11. \A k, l \in 1..n : nth[k] = nth[l] => k = l
  BY <1>8, <1>10
<1>12. nth = [k \in 1..n |-> nth[k]]
  BY DEF nth
<1>13. nth \in [1..n -> at]
  BY <1>10, <1>12
<1>14. DOMAIN ItemsAt(s, at) = 1..n /\ \A k \in 1..n : ItemsAt(s, at)[k] = s[nth[k]]
  BY <1>9
<1> QED
  BY <1>8, <1>11, <1>13, <1>14 DEF n, Draws

\* Where a result stands first.
FirstPlaces(results) ==
  {i \in DOMAIN results : results[i] # None /\ \A j \in 1..(i - 1) : results[j] # results[i]}

\* The results there are, and none twice.
LEMMA EachOnceAre ==
  ASSUME NEW m \in Nat, NEW results, DOMAIN results = 1..m,
         \A i \in 1..m : results[i] = None \/ results[i] = Some(results[i][1])
  PROVE  /\ Cardinality(FirstPlaces(results)) \in Nat
         /\ DOMAIN EachOnce(results) = 1..Cardinality(FirstPlaces(results))
         /\ \A k \in DOMAIN EachOnce(results) :
              \E i \in 1..m : results[i] # None /\ EachOnce(results)[k] = results[i][1]
         /\ \A k, l \in DOMAIN EachOnce(results) :
              EachOnce(results)[k] = EachOnce(results)[l] => k = l
<1> DEFINE first == FirstPlaces(results)
           n == Cardinality(first)
           kept == ItemsAt(results, first)
<1>1. first \in SUBSET (1..m)
  BY DEF FirstPlaces
<1>2. EachOnce(results) = [k \in DOMAIN kept |-> kept[k][1]]
  BY DEF EachOnce, FirstPlaces
<1> HIDE DEF first
<1>3. Among(first, m)
  BY <1>1 DEF Among
<1>4. n \in Nat /\ DOMAIN kept = 1..n
  BY <1>3, ItemsAtAre
<1>5. PICK nth : Draws(nth, results, first)
  BY <1>3, ItemsAtAre
<1>6. /\ nth \in [1..n -> first]
      /\ \A k, l \in 1..n : nth[k] = nth[l] => k = l
      /\ \A k \in 1..n : kept[k] = results[nth[k]]
  BY <1>5 DEF Draws
<1> HIDE DEF n, kept
<1>11. ASSUME NEW i \in first, NEW j \in first, results[i][1] = results[j][1] PROVE i = j
  <2>1. i \in 1..m /\ j \in 1..m /\ results[i] # None /\ results[j] # None
    BY <1>1 DEF FirstPlaces, first
  <2>2. results[i] = results[j]
    BY <1>11, <2>1 DEF Some
  <2>3. ~(i < j) /\ ~(j < i)
    <3>1. i < j => i \in 1..(j - 1)
      BY <2>1
    <3>2. j < i => j \in 1..(i - 1)
      BY <2>1
    <3> QED BY <2>2, <3>1, <3>2 DEF FirstPlaces, first
  <2> QED BY <2>1, <2>3
<1>12. ASSUME NEW k \in 1..n, NEW l \in 1..n, results[nth[k]][1] = results[nth[l]][1] PROVE k = l
  BY <1>6, <1>11, <1>12
<1>13. \A k \in 1..n : nth[k] \in 1..m /\ results[nth[k]] # None
  BY <1>1, <1>6 DEF FirstPlaces, first
<1>14. DOMAIN EachOnce(results) = 1..n /\ \A k \in 1..n : EachOnce(results)[k] = results[nth[k]][1]
  BY <1>2, <1>4, <1>6
<1>15. \A k, l \in 1..n : EachOnce(results)[k] = EachOnce(results)[l] => k = l
  BY <1>12, <1>14
<1>16. \A k \in 1..n : \E i \in 1..m : results[i] # None /\ EachOnce(results)[k] = results[i][1]
  BY <1>13, <1>14
<1> QED
  BY <1>4, <1>14, <1>15, <1>16 DEF n, first

\* The first m positions are m.
LEMMA PositionsCount ==
  ASSUME NEW m \in Nat
  PROVE  IsFiniteSet(1..m) /\ Cardinality(1..m) = m
<1>1. 1 \in Int /\ m \in Int
  OBVIOUS
<1>2. IsFiniteSet(1..m) /\ Cardinality(1..m) = IF 1 > m THEN 0 ELSE m - 1 + 1
  BY <1>1, FS_Interval
<1>3. CASE m = 0
  BY <1>2, <1>3
<1>4. CASE m >= 1
  <2>1. ~(1 > m) /\ m - 1 + 1 = m
    BY <1>4
  <2> QED BY <1>2, <2>1
<1> QED
  BY <1>3, <1>4

\* Where nothing is suppressed or repeated, every result keeps its place.
LEMMA EachOnceSame ==
  ASSUME NEW m \in Nat, NEW s, DOMAIN s = 1..m,
         \A i, j \in 1..m : s[i] = s[j] => i = j
  PROVE  EachOnce([i \in DOMAIN s |-> Some(s[i])]) = [i \in 1..m |-> s[i]]
<1> DEFINE results == [i \in 1..m |-> Some(s[i])]
           first == FirstPlaces(results)
<1>2. \A i, j \in 1..m : results[i] # None /\ (results[i] = results[j] => i = j)
  BY DEF Some, None
<1>3. first = 1..m
  <2> HIDE DEF results
  <2>1. DOMAIN results = 1..m
    BY DEF results
  <2>2. ASSUME NEW i \in 1..m, NEW j \in 1..(i - 1) PROVE j \in 1..m /\ j # i
    BY <2>2
  <2> QED BY <1>2, <2>1, <2>2 DEF FirstPlaces
<1>4. ASSUME NEW i \in 1..m PROVE Cardinality({j \in 1..m : j < i}) = i - 1
  <2>1. {j \in 1..m : j < i} = 1..(i - 1)
    OBVIOUS
  <2>2. i - 1 \in Nat
    OBVIOUS
  <2>3. Cardinality(1..(i - 1)) = i - 1
    BY <2>2, PositionsCount
  <2> QED BY <2>1, <2>3
<1>5. Cardinality(1..m) = m
  BY PositionsCount
<1>6. ASSUME NEW k \in 1..m
      PROVE  (CHOOSE i \in 1..m : Cardinality({j \in 1..m : j < i}) = k - 1) = k
  <2>1. \A i \in 1..m : Cardinality({j \in 1..m : j < i}) = k - 1 <=> i = k
    BY <1>4
  <2> QED BY <2>1
<1>7. /\ EachOnce(results) = [k \in DOMAIN ItemsAt(results, first) |-> ItemsAt(results, first)[k][1]]
      /\ ItemsAt(results, 1..m)
           = [k \in 1..Cardinality(1..m) |->
                results[CHOOSE i \in 1..m : Cardinality({j \in 1..m : j < i}) = k - 1]]
  BY DEF EachOnce, FirstPlaces, ItemsAt
<1>8. EachOnce(results) = [k \in 1..m |-> results[k][1]]
  <2> HIDE DEF results, first
  <2>1. ItemsAt(results, first)
          = [k \in 1..m |-> results[CHOOSE i \in 1..m : Cardinality({j \in 1..m : j < i}) = k - 1]]
    BY <1>3, <1>5, <1>7
  <2>2. ItemsAt(results, first) = [k \in 1..m |-> results[k]]
    BY <1>6, <2>1
  <2> QED BY <1>7, <2>2
<1>9. \A k \in 1..m : results[k][1] = s[k]
  BY DEF Some
<1>10. [k \in 1..m |-> results[k][1]] = [k \in 1..m |-> s[k]]
  BY <1>9
<1>11. [i \in DOMAIN s |-> Some(s[i])] = results
  OBVIOUS
<1> QED
  BY <1>8, <1>10, <1>11

-----------------------------------------------------------------------------
(* Messages.                                                               *)

\* A function on the first n positions is a sequence of length n.
LEMMA MappedLen ==
  ASSUME NEW n \in Nat, NEW s, DOMAIN s = 1..n, s = [i \in 1..n |-> s[i]]
  PROVE  s \in Seq({s[i] : i \in 1..n}) /\ Len(s) = n
<1> DEFINE S == {s[i] : i \in 1..n}
<1>1. \A i \in 1..n : s[i] \in S
  OBVIOUS
<1> HIDE DEF S
<1>2. s \in [1..n -> S]
  BY <1>1
<1>3. s \in Seq(S) /\ Len(s) = n
  BY <1>2
<1> QED
  BY <1>3 DEF S

\* What is collected of n results is a sequence of length n.
LEMMA TriedLen ==
  ASSUME NEW n \in Nat, NEW g, DOMAIN g = 1..n, TryAll(g) # None
  PROVE  /\ DOMAIN TryAll(g)[1] = 1..n
         /\ \A i \in 1..n : g[i] # None /\ TryAll(g)[1][i] = g[i][1]
         /\ TryAll(g)[1] \in Seq({g[i][1] : i \in 1..n})
         /\ Len(TryAll(g)[1]) = n
<1> DEFINE t == TryAll(g)[1]
<1>1. (\A i \in 1..n : g[i] # None) /\ t = [i \in 1..n |-> g[i][1]]
  BY DEF TryAll, AllSome, Some, None
<1> HIDE DEF t
<1>2. DOMAIN t = 1..n /\ \A i \in 1..n : t[i] = g[i][1]
  BY <1>1
<1>3. t = [i \in 1..n |-> t[i]]
  BY <1>1
<1>4. t \in Seq({t[i] : i \in 1..n}) /\ Len(t) = n
  BY <1>2, <1>3, MappedLen
<1>5. {t[i] : i \in 1..n} = {g[i][1] : i \in 1..n}
  BY <1>2
<1> QED
  BY <1>1, <1>2, <1>4, <1>5 DEF t

\* The fields of an object, whose arrays are sequences.
Fields(o) ==
  \E n \in Nat : DOMAIN o = 1..n /\ \A i \in 1..n : Sequenced(o[i][2], "array")

\* Some of them are fields too.
LEMMA FieldsAt ==
  ASSUME NEW o, Fields(o), NEW at, at \in SUBSET DOMAIN o
  PROVE  /\ Fields(ItemsAt(o, at))
         /\ ItemsAt(o, at) # <<>> => Sequenced(ItemsAt(o, at)[1][2], "array")
<1>1. PICK n \in Nat : DOMAIN o = 1..n /\ \A i \in 1..n : Sequenced(o[i][2], "array")
  BY DEF Fields
<1>2. Among(at, n)
  BY <1>1 DEF Among
<1> DEFINE s == ItemsAt(o, at)
           k == Cardinality(at)
<1>3. k \in Nat /\ DOMAIN s = 1..k
  BY <1>2, ItemsAtAre
<1>4. PICK nth : Draws(nth, o, at)
  BY <1>2, ItemsAtAre
<1>5. \A i \in 1..k : nth[i] \in 1..n /\ s[i] = o[nth[i]]
  BY <1>2, <1>4 DEF Draws, Among
<1>6. s = [i \in 1..k |-> o[CHOOSE j \in at : Cardinality({l \in at : l < j}) = i - 1]]
  BY DEF ItemsAt
<1>7. k = 0 => s = <<>>
  <2> HIDE DEF k
  <2>1. k = 0 => 1..k = {}
    OBVIOUS
  <2> QED BY <1>6, <2>1
<1> HIDE DEF s, k
<1>8. \A i \in 1..k : Sequenced(s[i][2], "array")
  BY <1>1, <1>5
<1>9. Fields(s)
  BY <1>3, <1>8 DEF Fields
<1>10. s # <<>> => 1 \in 1..k
  BY <1>3, <1>7
<1> QED
  BY <1>8, <1>9, <1>10 DEF s

\* The array of a field is a sequence.
LEMMA FieldSequenced ==
  ASSUME NEW o, Fields(o), NEW name, FieldValue(o, name) # None
  PROVE  Sequenced(FieldValue(o, name)[1], "array")
<1> DEFINE found == ItemsAt(o, {i \in DOMAIN o : o[i][1] = Key(name)})
<1>1. found # <<>> => Sequenced(found[1][2], "array")
  BY FieldsAt
<1>2. FieldValue(o, name) = IF found = <<>> THEN None ELSE Some(found[1][2])
  BY DEF FieldValue, FieldValues
<1> HIDE DEF found
<1> QED
  BY <1>1, <1>2 DEF Some, None

\* As many items are parsed as the array has.
LEMMA ItemsLen ==
  ASSUME NEW v, Sequenced(v, "array")
  PROVE  /\ ParseEventIds(v) # None => Len(ParseEventIds(v)[1]) \in Nat
         /\ ParsePubkeys(v) # None => Len(ParsePubkeys(v)[1]) \in Nat
         /\ ParseKinds(v) # None => Len(ParseKinds(v)[1]) \in Nat
         /\ PocketKinds(v) # None => Len(PocketKinds(v)[1]) \in Nat
         /\ ParseItems(v, AsStr) # None => \E S : ParseItems(v, AsStr)[1] \in Seq(S)
<1>1. CASE v[1] # "array"
  BY <1>1 DEF ParseEventIds, ParsePubkeys, ParseKinds, PocketKinds, ParseItems, AsArray, Then
<1>2. CASE v[1] = "array"
  <2> DEFINE s == v[2]
             n == Len(s)
  <2>1. s \in Seq(ToSet(s))
    BY <1>2 DEF Sequenced
  <2> HIDE DEF s
  <2>2. n \in Nat /\ DOMAIN s = 1..n
    BY <2>1, LenProperties
  <2>3. ASSUME NEW g, g = [i \in DOMAIN s |-> g[i]], TryAll(g) # None
        PROVE  Len(TryAll(g)[1]) \in Nat /\ \E S : TryAll(g)[1] \in Seq(S)
    <3>1. DOMAIN g = 1..n
      BY <2>2, <2>3
    <3> HIDE DEF n
    <3> QED BY <2>2, <2>3, <3>1, TriedLen
  <2>4. AsArray(v) = Some(s)
    BY <1>2 DEF AsArray, s
  <2>5. ParseEventIds(v) # None => Len(ParseEventIds(v)[1]) \in Nat
    <3> DEFINE g == [i \in DOMAIN s |-> Then(AsStr(s[i]), EventIdNew)]
    <3>1. ParseEventIds(v) = IF s = <<>> THEN None ELSE TryAll(g)
      BY <2>4 DEF ParseEventIds, ParseItems, Then, Some, None
    <3>2. g = [i \in DOMAIN s |-> g[i]]
      OBVIOUS
    <3> HIDE DEF g
    <3> QED BY <2>3, <3>1, <3>2
  <2>6. ParsePubkeys(v) # None => Len(ParsePubkeys(v)[1]) \in Nat
    <3> DEFINE g == [i \in DOMAIN s |-> Then(AsStr(s[i]), PublicKeyNew)]
    <3>1. ParsePubkeys(v) = IF s = <<>> THEN None ELSE TryAll(g)
      BY <2>4 DEF ParsePubkeys, ParseItems, Then, Some, None
    <3>2. g = [i \in DOMAIN s |-> g[i]]
      OBVIOUS
    <3> HIDE DEF g
    <3> QED BY <2>3, <3>1, <3>2
  <2>7. ParseKinds(v) # None => Len(ParseKinds(v)[1]) \in Nat
    <3> DEFINE g == [i \in DOMAIN s |-> Then(AsU64(s[i]), KindNew)]
    <3>1. ParseKinds(v) = IF s = <<>> THEN None ELSE TryAll(g)
      BY <2>4 DEF ParseKinds, ParseItems, Then, Some, None
    <3>2. g = [i \in DOMAIN s |-> g[i]]
      OBVIOUS
    <3> HIDE DEF g
    <3> QED BY <2>3, <3>1, <3>2
  <2>8. PocketKinds(v) # None => Len(PocketKinds(v)[1]) \in Nat
    BY <2>7 DEF PocketKinds, Then, Some, None
  <2>9. ParseItems(v, AsStr) # None => \E S : ParseItems(v, AsStr)[1] \in Seq(S)
    <3> DEFINE g == [i \in DOMAIN s |-> AsStr(s[i])]
    <3>1. ParseItems(v, AsStr) = IF s = <<>> THEN None ELSE TryAll(g)
      BY <2>4 DEF ParseItems, Then, Some, None
    <3>2. g = [i \in DOMAIN s |-> g[i]]
      OBVIOUS
    <3> HIDE DEF g
    <3> QED BY <2>3, <3>1, <3>2
  <2> QED BY <2>5, <2>6, <2>7, <2>8, <2>9
<1> QED
  BY <1>1, <1>2

\* The tags of a filter, each with its values.
GoodTags(tags) == \E n \in Nat : DOMAIN tags = 1..n /\ \A i \in 1..n : Len(tags[i]) \in Nat

\* The tags that are parsed.
LEMMA ParsedTags ==
  ASSUME NEW fields, Fields(fields), PocketTags(fields) # None
  PROVE  GoodTags(PocketTags(fields)[1])
<1> DEFINE at == {i \in DOMAIN fields : fields[i][1].tag}
           named == ItemsAt(fields, at)
           Tag(f) == Then(ParseItems(f[2], AsStr), LAMBDA s : Some(<<f[1].text>> \o s))
           g == [i \in DOMAIN named |-> Tag(named[i])]
<1>1. at \in SUBSET DOMAIN fields
  OBVIOUS
<1>2. PocketTags(fields) = TryAll(g)
  BY DEF PocketTags
<1> HIDE DEF at
<1>3. PICK n \in Nat : DOMAIN named = 1..n /\ \A i \in 1..n : Sequenced(named[i][2], "array")
  BY <1>1, FieldsAt DEF Fields
<1> HIDE DEF named
<1>4. DOMAIN g = 1..n /\ \A i \in 1..n : g[i] = Tag(named[i])
  BY <1>3
<1>5. ASSUME NEW f, Sequenced(f[2], "array"), Tag(f) # None PROVE Len(Tag(f)[1]) \in Nat
  <2> DEFINE r == ParseItems(f[2], AsStr)
  <2>1. r # None /\ Tag(f)[1] = <<f[1].text>> \o r[1]
    BY <1>5 DEF Then, Some, None
  <2>2. PICK S : r[1] \in Seq(S)
    BY <1>5, <2>1, ItemsLen
  <2> HIDE DEF r, Tag
  <2> DEFINE T == S \union {f[1].text}
  <2>3. r[1] \in Seq(T)
    <3>1. S \in SUBSET T
      OBVIOUS
    <3> HIDE DEF T
    <3>2. r[1] \in [1..Len(r[1]) -> S] /\ Len(r[1]) \in Nat
      BY <2>2
    <3>3. r[1] \in [1..Len(r[1]) -> T]
      BY <3>1, <3>2
    <3> QED BY <3>2, <3>3
  <2>4. <<f[1].text>> \in Seq(T)
    OBVIOUS
  <2> HIDE DEF T
  <2>5. <<f[1].text>> \o r[1] \in Seq(T)
    BY <2>3, <2>4
  <2> QED BY <2>1, <2>5
<1> HIDE DEF Tag, g
<1>6. /\ DOMAIN TryAll(g)[1] = 1..n
      /\ \A i \in 1..n : g[i] # None /\ TryAll(g)[1][i] = g[i][1]
  BY <1>2, <1>4, TriedLen
<1>7. \A i \in 1..n : Len(TryAll(g)[1][i]) \in Nat
  BY <1>3, <1>4, <1>5, <1>6
<1> QED
  BY <1>2, <1>6, <1>7 DEF GoodTags

\* A limit that was parsed is a number,
LEMMA ParsedLimit ==
  ASSUME NEW fields
  PROVE  Parsed(fields, "limit", AsU64, NoLimit) # None
           => Parsed(fields, "limit", AsU64, NoLimit)[1] \in Nat
BY WidthAssumption DEF Parsed, AsU64, NoLimit, Then, Some, None

\* and what is parsed for the lists of a filter has a length.
LEMMA ParsedLists ==
  ASSUME NEW fields, Fields(fields)
  PROVE  /\ Parsed(fields, "ids", ParseEventIds, <<>>) # None
              => Len(Parsed(fields, "ids", ParseEventIds, <<>>)[1]) \in Nat
         /\ Parsed(fields, "authors", ParsePubkeys, <<>>) # None
              => Len(Parsed(fields, "authors", ParsePubkeys, <<>>)[1]) \in Nat
         /\ Parsed(fields, "kinds", PocketKinds, <<>>) # None
              => Len(Parsed(fields, "kinds", PocketKinds, <<>>)[1]) \in Nat
<1>1. Len(<<>>) \in Nat
  OBVIOUS
<1>2. \A name : FieldValue(fields, name) # None => Sequenced(FieldValue(fields, name)[1], "array")
  BY FieldSequenced
<1>3. \A name : /\ Parsed(fields, name, ParseEventIds, <<>>)
                     = IF FieldValue(fields, name) = None THEN Some(<<>>)
                       ELSE ParseEventIds(FieldValue(fields, name)[1])
                /\ Parsed(fields, name, ParsePubkeys, <<>>)
                     = IF FieldValue(fields, name) = None THEN Some(<<>>)
                       ELSE ParsePubkeys(FieldValue(fields, name)[1])
                /\ Parsed(fields, name, PocketKinds, <<>>)
                     = IF FieldValue(fields, name) = None THEN Some(<<>>)
                       ELSE PocketKinds(FieldValue(fields, name)[1])
  BY DEF Parsed
<1> QED
  BY <1>1, <1>2, <1>3, ItemsLen DEF Some, None

\* What the limits are held against.
GoodFilter(f) ==
  /\ f.limit \in Nat
  /\ Len(f.ids) \in Nat /\ Len(f.authors) \in Nat /\ Len(f.kinds) \in Nat
  /\ GoodTags(f.tags)

\* A filter that was parsed has it,
LEMMA PocketFilterGood ==
  ASSUME NEW fields, Fields(fields), PocketFilter(fields) # None
  PROVE  GoodFilter(PocketFilter(fields)[1])
<1> DEFINE tags == PocketTags(fields)
           ids == Parsed(fields, "ids", ParseEventIds, <<>>)
           authors == Parsed(fields, "authors", ParsePubkeys, <<>>)
           kinds == Parsed(fields, "kinds", PocketKinds, <<>>)
           since == Parsed(fields, "since", AsU64, TimeMin)
           until == Parsed(fields, "until", AsU64, TimeMax)
           limit == Parsed(fields, "limit", AsU64, NoLimit)
<1>1. PocketFilter(fields) =
        IF AllSome(<<tags, ids, authors, kinds, since, until, limit>>)
        THEN Some([ids |-> ids[1], authors |-> authors[1], kinds |-> kinds[1], tags |-> tags[1],
                   since |-> since[1], until |-> until[1], limit |-> limit[1]])
        ELSE None
  BY DEF PocketFilter
<1>2. /\ tags # None => GoodTags(tags[1])
      /\ ids # None => Len(ids[1]) \in Nat
      /\ authors # None => Len(authors[1]) \in Nat
      /\ kinds # None => Len(kinds[1]) \in Nat
      /\ limit # None => limit[1] \in Nat
  BY ParsedTags, ParsedLists, ParsedLimit
<1> HIDE DEF tags, ids, authors, kinds, since, until, limit
<1>3. AllSome(<<tags, ids, authors, kinds, since, until, limit>>)
  BY <1>1
<1>4. tags # None /\ ids # None /\ authors # None /\ kinds # None /\ limit # None
  BY <1>3 DEF AllSome
<1> DEFINE f == PocketFilter(fields)[1]
<1>5. /\ f.ids = ids[1] /\ f.authors = authors[1] /\ f.kinds = kinds[1]
      /\ f.tags = tags[1] /\ f.limit = limit[1]
  BY <1>1, <1>3 DEF Some
<1> QED
  BY <1>2, <1>4, <1>5 DEF GoodFilter

\* also where it came from a text.
LEMMA FilterGood ==
  ASSUME NEW v, ParseFilter(v) # None, v[1] = "object" => Fields(v[2])
  PROVE  GoodFilter(ParseFilter(v)[1].filter)
<1> DEFINE shape == InspectFilterShape(v)
           fields == shape[1].pocket_fields
<1>1. /\ shape # None /\ PocketFilter(fields) # None
      /\ ParseFilter(v)[1].filter = PocketFilter(fields)[1]
  BY DEF ParseFilter, Then, Some, None
<1>2. /\ v[1] = "object"
      /\ fields = ItemsAt(v[2], {i \in DOMAIN v[2] : v[2][i][1] # Key("search")})
  BY <1>1 DEF InspectFilterShape, Some, None
<1>3. Fields(ItemsAt(v[2], {i \in DOMAIN v[2] : v[2][i][1] # Key("search")}))
  BY <1>2, FieldsAt
<1> HIDE DEF shape, fields
<1>4. Fields(fields)
  BY <1>2, <1>3
<1> QED
  BY <1>1, <1>4, PocketFilterGood

\* The filters of a query.
GoodFilters(filters) ==
  \E n \in Nat : DOMAIN filters = 1..n /\ Len(filters) = n /\ \A i \in 1..n : GoodFilter(filters[i])

\* The items of the array of a text, whose objects have fields.
GoodItems(s) ==
  Len(s) \in Nat /\ DOMAIN s = 1..Len(s) /\ \A i \in DOMAIN s : s[i][1] = "object" => Fields(s[i][2])

\* A REQ or a COUNT that was parsed has its type and good filters.
LEMMA QueryIsParsed ==
  ASSUME NEW s, NEW type, GoodItems(s), ParseReqOrCount(s, type) # None
  PROVE  /\ ParseReqOrCount(s, type)[1].type = type
         /\ GoodFilters(ParseReqOrCount(s, type)[1].filters)
<1> DEFINE n == Len(s) - 2
           g == [i \in 1..n |-> ParseFilter(s[i + 2])]
           filters == ParseReqOrCount(s, type)[1].filters
<1>1. n \in Nat /\ Len(s) >= 3
  BY DEF ParseReqOrCount, GoodItems
<1>2. /\ ParseReqOrCount(s, type)[1].type = type
      /\ TryAll(g) # None
      /\ filters = [i \in DOMAIN TryAll(g)[1] |-> TryAll(g)[1][i].filter]
  BY DEF ParseReqOrCount, Then, Some, None, QueryMessage
<1>3. \A i \in 1..n : i + 2 \in 1..Len(s)
  BY <1>1 DEF GoodItems
<1>4. DOMAIN g = 1..n /\ \A i \in 1..n : g[i] = ParseFilter(s[i + 2])
  OBVIOUS
<1> HIDE DEF n, g
<1>5. DOMAIN TryAll(g)[1] = 1..n /\ \A i \in 1..n : g[i] # None /\ TryAll(g)[1][i] = g[i][1]
  BY <1>1, <1>2, <1>4, TriedLen
<1>6. \A i \in 1..n : GoodFilter(g[i][1].filter)
  BY <1>3, <1>4, <1>5, FilterGood DEF GoodItems
<1> HIDE DEF filters
<1>7. DOMAIN filters = 1..n /\ filters = [i \in 1..n |-> filters[i]]
  BY <1>2, <1>5
<1>8. \A i \in 1..n : filters[i] = g[i][1].filter
  BY <1>2, <1>5
<1>9. Len(filters) = n
  BY <1>1, <1>7, MappedLen
<1> QED
  BY <1>1, <1>2, <1>6, <1>7, <1>8, <1>9 DEF GoodFilters, filters

\* A message that is a query has good filters.
LEMMA MessageFilters ==
  ASSUME NEW v \in Inputs, ParseRuntimeClientMessage(v) # None,
         ParseRuntimeClientMessage(v)[1].type \in {"REQ", "COUNT"}
  PROVE  GoodFilters(ParseRuntimeClientMessage(v)[1].filters)
<1>1. v[1] = "array"
  BY DEF ParseRuntimeClientMessage
<1>2. v[2] \in Seq(ToSet(v[2]))
  BY <1>1, InputsAssumption DEF Sequenced
<1>3. GoodItems(v[2])
  <2>1. Len(v[2]) \in Nat /\ DOMAIN v[2] = 1..Len(v[2])
    BY <1>2
  <2>2. ASSUME NEW i \in DOMAIN v[2], v[2][i][1] = "object" PROVE Fields(v[2][i][2])
    <3> DEFINE o == v[2][i][2]
    <3>1. /\ o \in Seq(ToSet(o))
          /\ \A k \in DOMAIN o : Sequenced(o[k][2], "array")
      BY <1>1, <2>2, InputsAssumption DEF Sequenced
    <3> HIDE DEF o
    <3>2. Len(o) \in Nat /\ DOMAIN o = 1..Len(o)
      BY <3>1
    <3>3. Fields(o)
      BY <3>1, <3>2 DEF Fields
    <3> QED BY <3>3 DEF o
  <2> QED BY <2>1, <2>2 DEF GoodItems
<1>4. AsStr(v[2][1]) # None
  BY DEF ParseRuntimeClientMessage, Then
<1> DEFINE name == AsStr(v[2][1])[1].name
           m == ParseRuntimeClientMessage(v)
<1>5. m = CASE name \in {"EVENT", "AUTH"} -> ParseEventOrAuth(v[2], name)
            [] name \in {"REQ", "COUNT"} -> ParseReqOrCount(v[2], name)
            [] name \in {"CLOSE", "NEG-CLOSE"} -> ParseClose(v[2], name)
            [] name = "NEG-OPEN" -> ParseNegOpen(v[2])
            [] name = "NEG-MSG" -> ParseNegMsg(v[2])
            [] OTHER -> None
  BY <1>1, <1>4 DEF ParseRuntimeClientMessage, Then
<1> HIDE DEF name, m
<1>6. \A s, type : ParseEventOrAuth(s, type) # None => ParseEventOrAuth(s, type)[1].type = type
  BY DEF ParseEventOrAuth, Then, Some, None
<1>7. \A s, type : ParseClose(s, type) # None => ParseClose(s, type)[1].type = type
  BY DEF ParseClose, Then, Some, None
<1>8. \A s : ParseNegOpen(s) # None => ParseNegOpen(s)[1].type = "NEG-OPEN"
  BY DEF ParseNegOpen, Some, None
<1>9. \A s : ParseNegMsg(s) # None => ParseNegMsg(s)[1].type = "NEG-MSG"
  BY DEF ParseNegMsg, Some, None
<1>10. m # None /\ m[1].type \in {"REQ", "COUNT"}
  BY DEF m
<1>11. name \in {"REQ", "COUNT"}
  BY <1>5, <1>6, <1>7, <1>8, <1>9, <1>10
<1>12. m = ParseReqOrCount(v[2], name)
  BY <1>5, <1>11
<1> QED
  BY <1>3, <1>10, <1>12, QueryIsParsed DEF m

\* The number of events a filter asks for.
LEMMA LimitType ==
  ASSUME NEW f, f.limit \in Nat
  PROVE  EffectiveLimit(f) \in Nat
<1>1. Limits.default_limit \in Nat
  BY LimitsAssumption DEF LimitNames
<1> QED BY <1>1 DEF EffectiveLimit

-----------------------------------------------------------------------------
(* A search.                                                               *)

\* The events a filter selects and those a search for the first `limit` readable
\* ones looks at.
Selected(f) == {e \in ToSet(Store) : PocketMatches(f, e)}
ReadableBefore(f, e) ==
  {x \in ToSet(Store) : PocketMatches(f, x) /\ Readable(x) /\ NewerFirst(x, e)}
Looked(f, limit) == {e \in Selected(f) : Cardinality(ReadableBefore(f, e)) < limit}

\* What is scanned for a filter are these.
LEMMA ScannedLooked ==
  ASSUME NEW f, NEW limit
  PROVE  Scanned(Candidates(f), limit) = Looked(f, limit)
<1>1. Selected(f) \in SUBSET ToSet(Store)
  BY DEF Selected
<1>2. Candidates(f) = SortAndDedupe(Selected(f))
  BY DEF Candidates, Selected
<1>3. ASSUME NEW e
      PROVE  {x \in Selected(f) : Readable(x) /\ NewerFirst(x, e)} = ReadableBefore(f, e)
  BY DEF Selected, ReadableBefore
<1>4. Scanned(SortAndDedupe(Selected(f)), limit)
        = {e \in Selected(f) :
             Cardinality({x \in Selected(f) : Readable(x) /\ NewerFirst(x, e)}) < limit}
  BY <1>1, ScannedAre
<1> QED
  BY <1>2, <1>3, <1>4 DEF Looked

\* The reports of the filters.
LEMMA ReportsAre ==
  ASSUME NEW m, NEW mode, NEW scraping,
         NEW reports, reports = TryAll([i \in DOMAIN m.filters |-> QueryFilter(m.filters[i], mode, scraping)])
  PROVE  /\ scraping => reports # None
         /\ reports # None =>
              /\ DOMAIN reports[1] = DOMAIN m.filters
              /\ \A i \in DOMAIN m.filters :
                   reports[1][i] = EventReport(Looked(m.filters[i], LimitOf(m.filters[i], mode)))
<1>1. ASSUME NEW f
      PROVE  /\ scraping => QueryFilter(f, mode, scraping) # None
             /\ QueryFilter(f, mode, scraping) # None =>
                  QueryFilter(f, mode, scraping)[1] = EventReport(Looked(f, LimitOf(f, mode)))
  BY ScannedLooked DEF QueryFilter, ScrapeAllowed, Some, None
<1> QED
  BY <1>1 DEF TryAll, AllSome, Some, None

\* What may be in an answer.
Shown(filters, e) == e \in ToSet(Store) /\ Readable(e) /\ MatchesAny(filters, e)

\* What a search finds is shown.
LEMMA FoundAreShown ==
  ASSUME NEW filters, NEW i \in DOMAIN filters, NEW limit, NEW e \in EventReport(Looked(filters[i], limit)).events
  PROVE  Shown(filters, e)
BY DEF EventReport, Looked, Selected, Shown, MatchesAny

-----------------------------------------------------------------------------
(* The hooks.                                                              *)

\* A hook passes an event, nothing, or another stored one that may be shown.
LEMMA ProjectedIsShown ==
  ASSUME hooks \in HookSets, NEW filters, NEW e, Shown(filters, e)
  PROVE  \/ Projected(filters, e) = None
         \/ \E x : Projected(filters, e) = Some(x) /\ Shown(filters, x)
<1> DEFINE d == hooks.decide[OffsetOf(e)]
<1>1. e \in ToSet(Store)
  BY DEF Shown
<1>2. \E i \in Offsets : Store[i] = e
  BY <1>1 DEF ToSet, Offsets
<1>3. OffsetOf(e) \in DOMAIN Store
  BY <1>2 DEF OffsetOf, Offsets
<1>4. d[1] \in {"emit", "suppress", "replace"}
  BY <1>3, HooksAssumption DEF Hooks, Decision
<1>5. Projected(filters, e)
        = CASE d[1] = "emit" -> Some(e)
            [] d[1] = "suppress" -> None
            [] d[1] = "replace" ->
                 IF /\ d[2] \in Offsets
                    /\ Readable(Store[d[2]])
                    /\ \E f \in MatchedFilters(filters, e) : PocketMatches(f, Store[d[2]])
                 THEN Some(Store[d[2]]) ELSE None
  BY DEF Projected, ProjectEventOutput
<1> HIDE DEF d
<1>6. ASSUME d[2] \in Offsets, Readable(Store[d[2]]),
             \E f \in MatchedFilters(filters, e) : PocketMatches(f, Store[d[2]])
      PROVE  Shown(filters, Store[d[2]])
  BY <1>6 DEF Shown, MatchesAny, MatchedFilters, ToSet, Offsets
<1>7. CASE d[1] = "emit"
  BY <1>5, <1>7
<1>8. CASE d[1] = "suppress"
  BY <1>5, <1>8
<1>9. CASE d[1] = "replace"
  BY <1>5, <1>6, <1>9
<1> QED
  BY <1>4, <1>7, <1>8, <1>9

\* Where every hook emits, every event passes.
LEMMA ProjectedIsSame ==
  ASSUME NEW filters, NEW e \in ToSet(Store), \A i \in Offsets : hooks.decide[i] = <<"emit">>
  PROVE  Projected(filters, e) = Some(e)
<1>1. \E i \in Offsets : Store[i] = e
  BY DEF ToSet, Offsets
<1>2. OffsetOf(e) \in Offsets
  BY <1>1 DEF OffsetOf
<1>3. hooks.decide[OffsetOf(e)][1] = "emit"
  BY <1>2
<1> QED
  BY <1>3 DEF Projected, ProjectEventOutput

-----------------------------------------------------------------------------
(* Answers.                                                                *)

\* A sequence of events, none twice.
Distinct(s) ==
  \E n \in Nat :
    /\ DOMAIN s = 1..n
    /\ \A i, j \in 1..n : s[i] = s[j] => i = j

\* One that may be an answer.
ShownSeq(filters, s) == Distinct(s) /\ \A i \in DOMAIN s : Shown(filters, s[i])

\* A set sorted has its elements, each once.
LEMMA SortedDistinct ==
  ASSUME NEW E \in SUBSET ToSet(Store)
  PROVE  Distinct(SortAndDedupe(E)) /\ ToSet(SortAndDedupe(E)) = E
<1> DEFINE s == SortAndDedupe(E)
           n == Cardinality(E)
<1>1. /\ n \in Nat /\ DOMAIN s = 1..n
      /\ \A i \in 1..n : s[i] \in E
      /\ \A e \in E : \E i \in 1..n : s[i] = e
      /\ \A i, j \in 1..n : s[i] = s[j] => i = j
  BY Sorted
<1> HIDE DEF s, n
<1>2. Distinct(s)
  BY <1>1 DEF Distinct
<1>3. ToSet(s) = E
  BY <1>1 DEF ToSet
<1> QED
  BY <1>2, <1>3 DEF s

\* A set of events that may be shown, sorted, may be an answer.
LEMMA SortedShown ==
  ASSUME NEW filters, NEW E, \A e \in E : Shown(filters, e)
  PROVE  ShownSeq(filters, SortAndDedupe(E))
<1>1. E \in SUBSET ToSet(Store)
  BY DEF Shown
<1>2. Distinct(SortAndDedupe(E)) /\ ToSet(SortAndDedupe(E)) = E
  BY <1>1, SortedDistinct
<1> QED
  BY <1>2 DEF ShownSeq, ToSet

\* The first ones of an answer.
LEMMA TruncatedIn ==
  ASSUME NEW E \in SUBSET ToSet(Store), NEW n
  PROVE  Truncated(SortAndDedupe(E), n) \in SUBSET E
<1>1. \A i \in DOMAIN SortAndDedupe(E) : SortAndDedupe(E)[i] \in E
  BY SortedDistinct DEF ToSet
<1> QED
  BY <1>1 DEF Truncated

\* The results there are make an answer, each once.
LEMMA OnceShown ==
  ASSUME NEW filters, NEW m \in Nat, NEW results, DOMAIN results = 1..m,
         \A i \in 1..m : \/ results[i] = None
                         \/ \E x : results[i] = Some(x) /\ Shown(filters, x)
  PROVE  ShownSeq(filters, EachOnce(results))
<1> DEFINE s == EachOnce(results)
           n == Cardinality(FirstPlaces(results))
<1>1. \A i \in 1..m :
        /\ results[i] = None \/ results[i] = Some(results[i][1])
        /\ results[i] # None => Shown(filters, results[i][1])
  BY DEF Some
<1>2. /\ n \in Nat /\ DOMAIN s = 1..n
      /\ \A k \in DOMAIN s : \E i \in 1..m : results[i] # None /\ s[k] = results[i][1]
      /\ \A k, l \in DOMAIN s : s[k] = s[l] => k = l
  BY <1>1, EachOnceAre
<1> HIDE DEF s, n
<1>3. Distinct(s)
  BY <1>2 DEF Distinct
<1>4. \A k \in DOMAIN s : Shown(filters, s[k])
  BY <1>1, <1>2
<1> QED
  BY <1>3, <1>4 DEF ShownSeq, s

\* Projected, an answer is one.
LEMMA SequenceShown ==
  ASSUME hooks \in HookSets, NEW filters, NEW s, ShownSeq(filters, s)
  PROVE  ShownSeq(filters, ProjectSequence(filters, s))
<1> DEFINE results == [i \in DOMAIN s |-> Projected(filters, s[i])]
<1>1. PICK n \in Nat : DOMAIN s = 1..n
  BY DEF ShownSeq, Distinct
<1>2. DOMAIN results = 1..n
  BY <1>1
<1>3. \A i \in 1..n : \/ results[i] = None
                      \/ \E x : results[i] = Some(x) /\ Shown(filters, x)
  BY <1>1, ProjectedIsShown DEF ShownSeq
<1> HIDE DEF results
<1>4. ShownSeq(filters, EachOnce(results))
  BY <1>2, <1>3, OnceShown
<1> QED
  BY <1>4 DEF ProjectSequence, results

\* The events of a query's answer, with a planned limit or without.
LEMMA ReportShown ==
  ASSUME hooks \in HookSets, NEW m, QueryReport(m) # None
  PROVE  ShownSeq(m.filters, QueryReport(m)[1].events)
<1> DEFINE mode == IF hooks.plan = None THEN <<"default">> ELSE <<"override", hooks.plan[1]>>
           reports == QueryReports(m)
           found(i) == reports[1][i].events
<1>1. reports = TryAll([i \in DOMAIN m.filters |-> QueryFilter(m.filters[i], mode, QueryConfig.allow_scraping)])
  BY DEF QueryReports
<1>2. reports # None
  BY DEF QueryReport, Then
<1>3. QueryReport(m)[1] = IF hooks.plan = None THEN QueryThenProject(m, reports[1])
                          ELSE ProjectThenLimit(m, reports[1])
  BY <1>2 DEF QueryReport, Then, Some
<1> HIDE DEF mode, reports
<1>4. /\ DOMAIN reports[1] = DOMAIN m.filters
      /\ \A i \in DOMAIN m.filters :
           reports[1][i] = EventReport(Looked(m.filters[i], LimitOf(m.filters[i], mode)))
  BY <1>1, <1>2, ReportsAre
<1>5. \A i \in DOMAIN m.filters : \A e \in found(i) : Shown(m.filters, e)
  <2> SUFFICES ASSUME NEW i \in DOMAIN m.filters, NEW e \in found(i) PROVE Shown(m.filters, e)
    OBVIOUS
  <2>1. e \in EventReport(Looked(m.filters[i], LimitOf(m.filters[i], mode))).events
    BY <1>4
  <2> QED BY <2>1, FoundAreShown
<1> HIDE DEF found
<1>6. CASE hooks.plan = None
  <2> DEFINE parts == [i \in DOMAIN m.filters |-> Truncated(SortAndDedupe(found(i)), EffectiveLimit(m.filters[i]))]
             all == UNION {parts[i] : i \in DOMAIN parts}
  <2>1. \A i \in DOMAIN m.filters : parts[i] \in SUBSET found(i)
    <3> SUFFICES ASSUME NEW i \in DOMAIN m.filters PROVE parts[i] \in SUBSET found(i)
      OBVIOUS
    <3>1. found(i) \in SUBSET ToSet(Store)
      BY <1>5 DEF Shown
    <3>2. Truncated(SortAndDedupe(found(i)), EffectiveLimit(m.filters[i])) \in SUBSET found(i)
      BY <3>1, TruncatedIn
    <3> QED BY <3>2
  <2>2. \A e \in all : Shown(m.filters, e)
    BY <1>5, <2>1
  <2>3. QueryThenProject(m, reports[1]).events = ProjectSequence(m.filters, SortAndDedupe(all))
    BY DEF QueryThenProject, found
  <2> HIDE DEF all
  <2>4. ShownSeq(m.filters, SortAndDedupe(all))
    BY <2>2, SortedShown
  <2> QED
    BY <1>3, <1>6, <2>3, <2>4, SequenceShown
<1>7. CASE hooks.plan # None
  <2> DEFINE results(i) == ProjectedSet(m.filters, found(i))
             parts == [i \in DOMAIN m.filters |-> Truncated(SortAndDedupe(results(i)), EffectiveLimit(m.filters[i]))]
             all == UNION {parts[i] : i \in DOMAIN parts}
  <2>1. \A i \in DOMAIN m.filters : \A e \in results(i) : Shown(m.filters, e)
    <3> SUFFICES ASSUME NEW i \in DOMAIN m.filters, NEW x \in found(i),
                        NEW e \in ToSet(Projected(m.filters, x))
                 PROVE  Shown(m.filters, e)
      BY DEF ProjectedSet
    <3>1. Projected(m.filters, x) # None
      BY DEF ToSet, None
    <3>2. PICK y : Projected(m.filters, x) = Some(y) /\ Shown(m.filters, y)
      BY <1>5, <3>1, ProjectedIsShown
    <3> QED BY <3>2 DEF ToSet, Some
  <2>2. \A i \in DOMAIN m.filters : parts[i] \in SUBSET results(i)
    <3> SUFFICES ASSUME NEW i \in DOMAIN m.filters PROVE parts[i] \in SUBSET results(i)
      OBVIOUS
    <3>1. results(i) \in SUBSET ToSet(Store)
      BY <2>1 DEF Shown
    <3> HIDE DEF results
    <3>2. Truncated(SortAndDedupe(results(i)), EffectiveLimit(m.filters[i])) \in SUBSET results(i)
      BY <3>1, TruncatedIn
    <3> QED BY <3>2
  <2>3. ProjectThenLimit(m, reports[1]).events = SortAndDedupe(all)
    BY DEF ProjectThenLimit, found
  <2> HIDE DEF results
  <2>4. \A e \in all : Shown(m.filters, e)
    BY <2>1, <2>2
  <2> HIDE DEF all
  <2>5. ShownSeq(m.filters, SortAndDedupe(all))
    BY <2>4, SortedShown
  <2> QED
    BY <1>3, <1>7, <2>3, <2>5
<1> QED
  BY <1>6, <1>7

\* The messages of an answer with its last one.
LEMMA AnswerShape ==
  ASSUME NEW sub, NEW s, NEW n \in Nat, DOMAIN s = 1..n, NEW t
  PROVE  /\ DOMAIN (EventMessages(sub, s) \o <<t>>) = 1..(n + 1)
         /\ Len(EventMessages(sub, s) \o <<t>>) = n + 1
         /\ \A i \in 1..n : (EventMessages(sub, s) \o <<t>>)[i]
                              = [type |-> "EVENT", sub |-> sub, event |-> s[i]]
         /\ (EventMessages(sub, s) \o <<t>>)[n + 1] = t
<1> DEFINE a == EventMessages(sub, s)
           S == {a[i] : i \in 1..n} \union {t}
<1>1. a = [i \in 1..n |-> [type |-> "EVENT", sub |-> sub, event |-> s[i]]]
  BY DEF EventMessages
<1>2. DOMAIN a = 1..n /\ \A i \in 1..n : a[i] = [type |-> "EVENT", sub |-> sub, event |-> s[i]]
  BY <1>1
<1>3. a = [i \in 1..n |-> a[i]]
  BY <1>1
<1> HIDE DEF a
<1>4. a \in [1..n -> S]
  BY <1>3
<1> HIDE DEF S
<1>5. a \in Seq(S) /\ Len(a) = n
  BY <1>4
<1>6. <<t>> \in Seq(S) /\ Len(<<t>>) = 1 /\ <<t>>[1] = t
  BY DEF S
<1>7. /\ a \o <<t>> \in Seq(S)
      /\ Len(a \o <<t>>) = n + 1
      /\ \A i \in 1..(n + 1) : (a \o <<t>>)[i] = IF i <= n THEN a[i] ELSE <<t>>[i - n]
  BY <1>5, <1>6, ConcatProperties
<1>8. DOMAIN (a \o <<t>>) = 1..(n + 1)
  BY <1>7, LenProperties
<1>9. ASSUME NEW i \in 1..n PROVE (a \o <<t>>)[i] = a[i]
  BY <1>7
<1>10. (a \o <<t>>)[n + 1] = t
  <2>1. n + 1 \in 1..(n + 1) /\ ~(n + 1 <= n) /\ (n + 1) - n = 1
    OBVIOUS
  <2> QED BY <1>6, <1>7, <2>1
<1> QED
  BY <1>2, <1>7, <1>8, <1>9, <1>10 DEF a

\* Nothing of an answer that its reader may not have, and nothing twice.
NoLeak(filters, a) ==
  \A i \in DOMAIN a : a[i].type = "EVENT" =>
    /\ Readable(a[i].event)
    /\ MatchesAny(filters, a[i].event)
    /\ \A j \in DOMAIN a : a[j].type = "EVENT" /\ a[j].event = a[i].event => i = j

\* An answer of events that may be shown, with or without a last message, leaks nothing.
LEMMA MessagesNoLeak ==
  ASSUME NEW filters, NEW sub, NEW s, ShownSeq(filters, s)
  PROVE  /\ NoLeak(filters, EventMessages(sub, s))
         /\ \A t : t.type # "EVENT" => NoLeak(filters, EventMessages(sub, s) \o <<t>>)
<1>1. PICK n \in Nat : DOMAIN s = 1..n /\ \A i, j \in 1..n : s[i] = s[j] => i = j
  BY DEF ShownSeq, Distinct
<1>2. \A i \in 1..n : Readable(s[i]) /\ MatchesAny(filters, s[i])
  BY <1>1 DEF ShownSeq, Shown
<1>3. /\ DOMAIN EventMessages(sub, s) = 1..n
      /\ \A i \in 1..n : EventMessages(sub, s)[i] = [type |-> "EVENT", sub |-> sub, event |-> s[i]]
  BY <1>1 DEF EventMessages
<1>4. NoLeak(filters, EventMessages(sub, s))
  BY <1>1, <1>2, <1>3 DEF NoLeak
<1>5. ASSUME NEW t, t.type # "EVENT" PROVE NoLeak(filters, EventMessages(sub, s) \o <<t>>)
  <2> DEFINE a == EventMessages(sub, s) \o <<t>>
  <2>1. /\ DOMAIN a = 1..(n + 1)
        /\ \A i \in 1..n : a[i] = [type |-> "EVENT", sub |-> sub, event |-> s[i]]
        /\ a[n + 1] = t
    BY <1>1, AnswerShape
  <2> HIDE DEF a
  <2>2. \A i \in 1..(n + 1) : i \in 1..n \/ i = n + 1
    OBVIOUS
  <2>3. \A i \in DOMAIN a : a[i].type = "EVENT" => i \in 1..n /\ a[i].event = s[i]
    <3> SUFFICES ASSUME NEW i \in DOMAIN a, a[i].type = "EVENT"
                 PROVE  i \in 1..n /\ a[i].event = s[i]
      OBVIOUS
    <3>1. i # n + 1
      BY <1>5, <2>1
    <3>2. i \in 1..n
      BY <2>1, <2>2, <3>1
    <3>3. a[i] = [type |-> "EVENT", sub |-> sub, event |-> s[i]]
      BY <2>1, <3>2
    <3> QED BY <3>2, <3>3
  <2>4. NoLeak(filters, a)
    BY <1>1, <1>2, <2>3 DEF NoLeak
  <2> QED BY <2>4 DEF a
<1> QED
  BY <1>4, <1>5

\* Answers of one message that is no event.
LEMMA OneMessage ==
  /\ \A filters, t : t.type # "EVENT" => NoLeak(filters, <<t>>)
  /\ \A filters : NoLeak(filters, <<>>)
BY DEF NoLeak

\* How an answer ends.
LEMMA Endings ==
  ASSUME NEW sub
  PROVE  /\ \A denied : \E t : /\ Ending(sub, denied) = <<t>>
                               /\ t.type = IF denied THEN "CLOSED" ELSE "EOSE"
         /\ \A why : \E t : Closed(sub, why) = <<t>> /\ t.type = "CLOSED"
         /\ \E t : Notice = <<t>> /\ t.type = "NOTICE"
<1>1. ASSUME NEW why PROVE \E t : Closed(sub, why) = <<t>> /\ t.type = "CLOSED"
  <2> WITNESS [type |-> "CLOSED", sub |-> sub, message |-> Word(why)]
  <2> QED BY DEF Closed
<1>2. \E t : Eose(sub) = <<t>> /\ t.type = "EOSE"
  <2> WITNESS [type |-> "EOSE", sub |-> sub]
  <2> QED BY DEF Eose
<1>3. \E t : Notice = <<t>> /\ t.type = "NOTICE"
  <2> WITNESS [type |-> "NOTICE", message |-> Word("invalid")]
  <2> QED BY DEF Notice
<1>4. \E t : RedactedClosed(sub) = <<t>> /\ t.type = "CLOSED"
  BY <1>1 DEF RedactedClosed
<1>5. ASSUME NEW denied
      PROVE  \E t : /\ Ending(sub, denied) = <<t>>
                    /\ t.type = IF denied THEN "CLOSED" ELSE "EOSE"
  BY <1>2, <1>4 DEF Ending
<1> QED
  BY <1>1, <1>3, <1>5

-----------------------------------------------------------------------------
(* The session.                                                            *)

\* The message is that of the text, and a subscription is that of a REQ.
MessageInv ==
  /\ text \in Inputs /\ hooks \in HookSets
  /\ message = None \/ message = ParseRuntimeClientMessage(text)
  /\ subscribed => message # None /\ message[1].type = "REQ"

\* No step changes text, keys or hooks, nor a message that was parsed.
LEMMA MessageStep ==
  ASSUME MessageInv, [Next]_vars
  PROVE  /\ MessageInv' /\ UNCHANGED <<text, auth, hooks>>
         /\ message # None => message' = message
<1>1. CASE UNCHANGED vars
  BY <1>1 DEF vars, MessageInv
<1>2. CASE Parse
  BY <1>2 DEF Parse, MessageInv
<1>3. CASE HandleReq
  <2>1. message # None /\ message[1].type = "REQ"
    BY <1>3 DEF HandleReq, Pending
  <2>2. \A reply : Respond(reply) => UNCHANGED <<text, auth, hooks, message>>
    BY DEF Respond
  <2>3. \A m, report : AnswerReq(m, report) => UNCHANGED <<text, auth, hooks, message>>
    BY <2>2 DEF AnswerReq
  <2>4. UNCHANGED <<text, auth, hooks, message>>
    BY <1>3, <2>2, <2>3 DEF HandleReq
  <2> QED BY <2>1, <2>4 DEF MessageInv
<1>4. CASE HandleCount
  BY <1>4 DEF HandleCount, Pending, AnswerCount, Respond, MessageInv
<1>5. CASE HandleNegentropy
  BY <1>5 DEF HandleNegentropy, Pending, Respond, MessageInv
<1>6. ASSUME NEW offset \in Offsets, Fanout(offset)
      PROVE  /\ MessageInv' /\ UNCHANGED <<text, auth, hooks>>
             /\ message # None => message' = message
  BY <1>6 DEF Fanout, Respond, MessageInv
<1> QED
  BY <1>1, <1>2, <1>3, <1>4, <1>5, <1>6 DEF Next

\* At the start there is no message.
LEMMA MessageInit == Init => MessageInv
BY DEF Init, MessageInv

\* The filters of a query in hand.
LEMMA PendingFilters ==
  ASSUME MessageInv, message # None, message[1].type \in {"REQ", "COUNT"}
  PROVE  GoodFilters(message[1].filters)
BY MessageFilters DEF MessageInv

\* What a reader may read depends on the keys alone.
LEMMA ReadersStay ==
  ASSUME UNCHANGED auth
  PROVE  \A e : Readable(e)' <=> Readable(e)
<1>1. \A g : CanReadGroup(g)' <=> CanReadGroup(g)
  BY DEF CanReadGroup
<1>2. \A e, g : Screen(e, g)' <=> Screen(e, g)
  BY <1>1 DEF Screen
<1>3. \A e, class : VisibleAs(e, class)' <=> VisibleAs(e, class)
  BY <1>2 DEF VisibleAs
<1> QED
  BY <1>3 DEF Readable

\* The events a subscription gets live.
LEMMA FanoutShown ==
  ASSUME MessageInv, NEW filters, NEW offset \in Offsets
  PROVE  LET candidates == LiveCandidates(offset)
         IN ShownSeq(filters, EachOnce([i \in DOMAIN candidates |-> LiveOutput(filters, candidates[i])]))
<1> DEFINE c == LiveCandidates(offset)
           results == [i \in DOMAIN c |-> LiveOutput(filters, c[i])]
<1>1. offset \in Nat
  BY StoreAssumption DEF Offsets
<1>2. hooks.live[offset] \in Seq(Nat)
  BY HooksAssumption DEF MessageInv, Hooks, Offsets
<1>3. c \in Seq(Nat)
  BY <1>1, <1>2 DEF LiveCandidates
<1>4. PICK m \in Nat : DOMAIN c = 1..m
  BY <1>3
<1> HIDE DEF c
<1>5. DOMAIN results = 1..m
  BY <1>4
<1>6. \A i \in 1..m : \/ results[i] = None
                      \/ \E x : results[i] = Some(x) /\ Shown(filters, x)
  <2>1. ASSUME NEW o
        PROVE  \/ LiveOutput(filters, o) = None
               \/ \E x : LiveOutput(filters, o) = Some(x) /\ Shown(filters, x)
    <3>1. CASE o \in Offsets /\ MatchesAny(filters, Store[o]) /\ Readable(Store[o])
      <4>1. Shown(filters, Store[o])
        BY <3>1 DEF Shown, ToSet, Offsets
      <4>2. LiveOutput(filters, o) = Projected(filters, Store[o])
        BY <3>1 DEF LiveOutput
      <4> QED BY <4>1, <4>2, ProjectedIsShown DEF MessageInv
    <3>2. CASE ~(o \in Offsets /\ MatchesAny(filters, Store[o]) /\ Readable(Store[o]))
      BY <3>2 DEF LiveOutput
    <3> QED BY <3>1, <3>2
  <2> QED BY <1>4, <2>1
<1> HIDE DEF results
<1>7. ShownSeq(filters, EachOnce(results))
  BY <1>5, <1>6, OnceShown
<1> QED
  BY <1>7 DEF results, c

\* Hooks and redaction let nothing through: HooksCannotLeak of every behaviour.
LeakInv == MessageInv /\ HooksCannotLeak

\* Every step keeps it.
LEMMA LeakStep ==
  ASSUME LeakInv, [Next]_vars
  PROVE  LeakInv'
<1>1. /\ MessageInv' /\ UNCHANGED <<text, auth, hooks>> /\ MessageInv
      /\ message # None => message' = message
  BY MessageStep DEF LeakInv
<1>2. \A e : Readable(e)' <=> Readable(e)
  BY <1>1, ReadersStay
<1>3. ASSUME NoLeak(message'[1].filters, answer') PROVE HooksCannotLeak'
  BY <1>2, <1>3 DEF NoLeak, HooksCannotLeak
<1>4. \A reply : Respond(reply) => answer' = reply /\ message' = message
  BY DEF Respond
<1>5. \A filters, sub, why : NoLeak(filters, Closed(sub, why)) /\ NoLeak(filters, Notice)
  BY Endings, OneMessage
<1>6. CASE UNCHANGED vars
  <2>1. HooksCannotLeak'
    BY <1>2, <1>6 DEF LeakInv, HooksCannotLeak, vars
  <2> QED BY <1>1, <2>1 DEF LeakInv
<1>7. CASE Parse
  <2>1. answer' = Notice \/ answer' = <<>>
    BY <1>7 DEF Parse
  <2>2. NoLeak(message'[1].filters, answer')
    BY <1>5, <2>1, OneMessage
  <2> QED BY <1>1, <1>3, <2>2 DEF LeakInv
<1>8. CASE HandleReq
  <2> DEFINE m == message[1]
  <2>1. \/ Respond(Notice)
        \/ Respond(SearchClosed(m))
        \/ /\ QueryReport(m) # None
           /\ Respond(EventMessages(m.sub, QueryReport(m)[1].events) \o Ending(m.sub, QueryReport(m)[1].denied))
    BY <1>8 DEF HandleReq, AnswerReq
  <2> HIDE DEF m
  <2>2. NoLeak(m.filters, Notice) /\ NoLeak(m.filters, SearchClosed(m))
    BY <1>5 DEF SearchClosed
  <2>3. ASSUME QueryReport(m) # None
        PROVE  NoLeak(m.filters, EventMessages(m.sub, QueryReport(m)[1].events) \o Ending(m.sub, QueryReport(m)[1].denied))
    <3>1. ShownSeq(m.filters, QueryReport(m)[1].events)
      BY <1>1, <2>3, ReportShown DEF MessageInv
    <3>2. PICK t : Ending(m.sub, QueryReport(m)[1].denied) = <<t>> /\ t.type # "EVENT"
      BY Endings
    <3>3. NoLeak(m.filters, EventMessages(m.sub, QueryReport(m)[1].events) \o <<t>>)
      BY <3>1, <3>2, MessagesNoLeak
    <3> QED BY <3>2, <3>3
  <2>4. NoLeak(m.filters, answer') /\ message' = message
    BY <1>4, <2>1, <2>2, <2>3
  <2> QED BY <1>1, <1>3, <2>4 DEF LeakInv, m
<1>9. CASE HandleCount
  <2> DEFINE m == message[1]
  <2>1. \/ Respond(Notice)
        \/ Respond(Closed(m.sub, "unsupported"))
        \/ Respond(Closed(m.sub, "restricted"))
        \/ Respond(<<CountMessage(m, CountReports(m)[1])>>)
    BY <1>9 DEF HandleCount, AnswerCount, SearchClosed
  <2> HIDE DEF m
  <2>2. \A reports : CountMessage(m, reports).type = "COUNT"
    BY DEF CountMessage
  <2>3. \A reports : NoLeak(m.filters, <<CountMessage(m, reports)>>)
    BY <2>2, OneMessage
  <2>4. NoLeak(m.filters, answer') /\ message' = message
    BY <1>4, <1>5, <2>1, <2>3
  <2> QED BY <1>1, <1>3, <2>4 DEF LeakInv, m
<1>10. CASE HandleNegentropy
  <2>1. \/ Respond(Notice)
        \/ Respond(<<[type |-> "NEG-ERR", sub |-> message[1].sub, message |-> Word("blocked")]>>)
    BY <1>10 DEF HandleNegentropy
  <2>2. NoLeak(message[1].filters, answer') /\ message' = message
    BY <1>4, <1>5, <2>1, OneMessage
  <2> QED BY <1>1, <1>3, <2>2 DEF LeakInv
<1>11. ASSUME NEW offset \in Offsets, Fanout(offset) PROVE LeakInv'
  <2> DEFINE m == message[1]
             c == LiveCandidates(offset)
             s == EachOnce([i \in DOMAIN c |-> LiveOutput(m.filters, c[i])])
  <2>1. Respond(EventMessages(m.sub, s))
    BY <1>11 DEF Fanout
  <2>2. ShownSeq(m.filters, s)
    BY <1>1, FanoutShown
  <2> HIDE DEF m, c, s
  <2>3. NoLeak(m.filters, EventMessages(m.sub, s))
    BY <2>2, MessagesNoLeak
  <2>4. NoLeak(m.filters, answer') /\ message' = message
    BY <1>4, <2>1, <2>3
  <2> QED BY <1>1, <1>3, <2>4 DEF LeakInv, m
<1> QED
  BY <1>6, <1>7, <1>8, <1>9, <1>10, <1>11 DEF Next

\* Whatever the embedder's hooks plan, suppress, replace or add, no event reaches a
\* client that it may not read, that no filter of its matches, or twice in one answer
\* (project_event_output, find_events_with_screen), for every store and every text.
THEOREM NothingLeaks == Spec => []HooksCannotLeak
<1>1. Init => LeakInv
  BY MessageInit DEF Init, LeakInv, HooksCannotLeak
<1>2. LeakInv /\ [Next]_vars => LeakInv'
  BY LeakStep
<1>3. LeakInv => HooksCannotLeak
  BY DEF LeakInv
<1> QED
  BY <1>1, <1>2, <1>3, PTL DEF Spec

-----------------------------------------------------------------------------
(* COUNT.                                                                  *)

\* No limit is a limit that no search reaches.
LEMMA NoLimitLooks ==
  ASSUME NEW f
  PROVE  Looked(f, NoLimit) = Selected(f)
<1>1. ASSUME NEW e \in Selected(f) PROVE Cardinality(ReadableBefore(f, e)) < MaxU32
  <2> DEFINE S == ToSet(Store)
             B == ReadableBefore(f, e)
  <2>1. IsFiniteSet(S) /\ Cardinality(S) \in Nat /\ Cardinality(S) <= MaxU32
    BY StoreFinite
  <2>2. e \in S
    BY DEF Selected
  <2>3. ~NewerFirst(e, e)
    BY <2>2, NewerIsOrder, NewerPairs DEF Orders
  <2>4. B \in SUBSET S /\ e \notin B
    BY <2>3 DEF ReadableBefore
  <2> HIDE DEF S, B
  <2>5. /\ IsFiniteSet(B)
        /\ Cardinality(B) <= Cardinality(S)
        /\ Cardinality(S) = Cardinality(B) => S = B
    BY <2>1, <2>4, FS_Subset
  <2>6. Cardinality(B) \in Nat
    BY <2>5, FS_CardinalityType
  <2>7. Cardinality(B) # Cardinality(S)
    BY <2>2, <2>4, <2>5
  <2>8. Cardinality(B) < MaxU32
    BY <2>1, <2>5, <2>6, <2>7, WidthAssumption
  <2> QED BY <2>8 DEF B
<1> QED
  BY <1>1 DEF Looked, NoLimit

\* Events are counted by their ids, which are their own.
LEMMA CountedById ==
  ASSUME NEW E \in SUBSET ToSet(Store)
  PROVE  Cardinality({e.id : e \in E}) = Cardinality(E)
<1> DEFINE T == {e.id : e \in E}
           f == [e \in E |-> e.id]
<1>1. IsFiniteSet(E)
  BY StoreFinite, FS_Subset
<1>2. \A x, y \in E : x.id = y.id => x = y
  BY StoredEvents
<1>3. f \in Bijection(E, T)
  <2>1. f \in [E -> T]
    OBVIOUS
  <2>2. \A x, y \in E : f[x] = f[y] => x = y
    BY <1>2
  <2>3. \A t \in T : \E x \in E : f[x] = t
    OBVIOUS
  <2> QED BY <2>1, <2>2, <2>3 DEF Bijection, Injection, Surjection, IsInjective
<1>4. ExistsBijection(E, T)
  BY <1>3 DEF ExistsBijection
<1> HIDE DEF T
<1>5. Cardinality(T) = Cardinality(E)
  BY <1>1, <1>4, FS_Bijection
<1> QED
  BY <1>5 DEF T

\* What a COUNT is answered with.
LEMMA CountReply ==
  ASSUME NEW m, GoodFilters(m.filters), NEW reports, reports = CountReports(m)
  PROVE  LET matching == {e \in ToSet(Store) : MatchesAny(m.filters, e)}
             reply == CountMessage(m, reports[1])
         IN /\ reply.count = Cardinality({e \in matching : Readable(e)})
            /\ reply.hll # None =>
                 /\ reply.hll[1] = {e.pubkey : e \in matching}
                 /\ \A e \in matching :
                      ClassifyGroupEvent(e) = NonGroup \/ IsPublic(ClassifyGroupEvent(e)[2])
<1> DEFINE matching == {e \in ToSet(Store) : MatchesAny(m.filters, e)}
           readable == {e \in matching : Readable(e)}
           r == reports[1]
           counted == UNION {r[i].events : i \in DOMAIN r}
<1>1. PICK n \in Nat : DOMAIN m.filters = 1..n
  BY DEF GoodFilters, GoodFilter
<1>2. Len(m.filters) = n
  BY <1>1
<1>3. /\ DOMAIN r = DOMAIN m.filters
      /\ \A i \in DOMAIN m.filters : r[i] = EventReport(Looked(m.filters[i], LimitOf(m.filters[i], <<"count">>)))
  <2>1. reports = TryAll([i \in DOMAIN m.filters |-> QueryFilter(m.filters[i], <<"count">>, TRUE)])
    BY DEF CountReports
  <2>2. reports # None
    BY <2>1, ReportsAre
  <2> QED BY <2>1, <2>2, ReportsAre
<1>4. \A f : LimitOf(f, <<"count">>) = NoLimit
  BY DEF LimitOf
<1> HIDE DEF r
<1>5. \A i \in DOMAIN m.filters :
        /\ r[i].events = {e \in Selected(m.filters[i]) : Readable(e)}
        /\ r[i].denied <=> \E e \in Selected(m.filters[i]) : ~Readable(e)
  <2> SUFFICES ASSUME NEW i \in DOMAIN m.filters
               PROVE  /\ r[i].events = {e \in Selected(m.filters[i]) : Readable(e)}
                      /\ r[i].denied <=> \E e \in Selected(m.filters[i]) : ~Readable(e)
    OBVIOUS
  <2>1. r[i] = EventReport(Selected(m.filters[i]))
    BY <1>3, <1>4, NoLimitLooks
  <2> QED BY <2>1 DEF EventReport
<1>6. \A e : e \in matching <=> \E i \in DOMAIN m.filters : e \in Selected(m.filters[i])
  BY DEF MatchesAny, Selected
<1>7. counted = readable
  BY <1>3, <1>5, <1>6
<1>8. CountMessage(m, r).count = Cardinality({e.id : e \in counted}) /\ CountMessage(m, r).hll = Hll(m, r)
  BY DEF CountMessage
<1>9. readable \in SUBSET ToSet(Store)
  OBVIOUS
<1>10. Hll(m, r) # None =>
         /\ Len(m.filters) = 1 /\ ~r[1].denied
         /\ \A e \in counted : ~SuppressesHll(e)
         /\ Hll(m, r) = Some({e.pubkey : e \in counted})
  BY DEF Hll
<1> HIDE DEF counted, matching
<1>11. Cardinality({e.id : e \in counted}) = Cardinality(readable)
  <2> HIDE DEF readable
  <2> QED BY <1>7, <1>9, CountedById
<1>12. ASSUME Hll(m, r) # None
       PROVE  /\ Hll(m, r)[1] = {e.pubkey : e \in matching}
              /\ \A e \in matching : ClassifyGroupEvent(e) = NonGroup \/ IsPublic(ClassifyGroupEvent(e)[2])
  <2>1. DOMAIN m.filters = {1}
    BY <1>1, <1>2, <1>10, <1>12
  <2>2. \A e \in matching : Readable(e)
    BY <1>5, <1>6, <1>10, <1>12, <2>1
  <2>3. counted = matching
    BY <1>7, <2>2
  <2>4. \A e \in matching : ~SuppressesHll(e)
    BY <1>10, <1>12, <2>3
  <2>5. Hll(m, r)[1] = {e.pubkey : e \in matching}
    BY <1>10, <1>12, <2>3 DEF Some
  <2> QED BY <2>4, <2>5 DEF SuppressesHll
<1> QED
  BY <1>8, <1>11, <1>12 DEF matching, r

\* An answer of events starts with no count.
LEMMA EventsFirst ==
  ASSUME NEW sub, NEW s, Distinct(s)
  PROVE  /\ EventMessages(sub, s) # <<>> => EventMessages(sub, s)[1].type = "EVENT"
         /\ \A t : t.type # "COUNT" => (EventMessages(sub, s) \o <<t>>)[1].type # "COUNT"
<1>1. PICK n \in Nat : DOMAIN s = 1..n
  BY DEF Distinct
<1>2. ASSUME EventMessages(sub, s) # <<>> PROVE EventMessages(sub, s)[1].type = "EVENT"
  <2>1. n # 0
    BY <1>1, <1>2 DEF EventMessages
  <2> QED BY <1>1, <2>1 DEF EventMessages
<1>3. ASSUME NEW t, t.type # "COUNT" PROVE (EventMessages(sub, s) \o <<t>>)[1].type # "COUNT"
  <2>1. /\ \A i \in 1..n : (EventMessages(sub, s) \o <<t>>)[i]
                             = [type |-> "EVENT", sub |-> sub, event |-> s[i]]
        /\ (EventMessages(sub, s) \o <<t>>)[n + 1] = t
    BY <1>1, AnswerShape
  <2>2. CASE n = 0
    <3>1. n + 1 = 1
      BY <2>2
    <3> QED BY <1>3, <2>1, <3>1
  <2>3. CASE n # 0
    <3>1. 1 \in 1..n
      BY <2>3
    <3>2. (EventMessages(sub, s) \o <<t>>)[1] = [type |-> "EVENT", sub |-> sub, event |-> s[1]]
      BY <2>1, <3>1
    <3> QED BY <3>2
  <2> QED BY <2>2, <2>3
<1> QED
  BY <1>2, <1>3

\* COUNT is exact.
CountInv == MessageInv /\ CountIsExact

\* Every step keeps it.
LEMMA CountStep ==
  ASSUME CountInv, [Next]_vars
  PROVE  CountInv'
<1>1. /\ MessageInv' /\ UNCHANGED <<text, auth, hooks>> /\ MessageInv
      /\ message # None => message' = message
  BY MessageStep DEF CountInv
<1>2. \A e : Readable(e)' <=> Readable(e)
  BY <1>1, ReadersStay
<1>3. ASSUME answer' # <<>> => answer'[1].type # "COUNT" PROVE CountIsExact'
  BY <1>3 DEF CountIsExact
<1>4. \A reply : Respond(reply) => answer' = reply /\ message' = message
  BY DEF Respond
<1>5. \A sub, why : Closed(sub, why)[1].type # "COUNT" /\ Notice[1].type # "COUNT"
  BY DEF Closed, Notice
<1>6. CASE UNCHANGED vars
  <2>1. CountIsExact'
    BY <1>2, <1>6 DEF CountInv, CountIsExact, vars
  <2> QED BY <1>1, <2>1 DEF CountInv
<1>7. CASE Parse
  BY <1>1, <1>3, <1>5, <1>7 DEF Parse, CountInv
<1>8. CASE HandleReq
  <2> DEFINE m == message[1]
  <2>1. \/ Respond(Notice)
        \/ Respond(SearchClosed(m))
        \/ /\ QueryReport(m) # None
           /\ Respond(EventMessages(m.sub, QueryReport(m)[1].events) \o Ending(m.sub, QueryReport(m)[1].denied))
    BY <1>8 DEF HandleReq, AnswerReq
  <2> HIDE DEF m
  <2>2. SearchClosed(m)[1].type # "COUNT"
    BY <1>5 DEF SearchClosed
  <2>3. ASSUME QueryReport(m) # None
        PROVE  (EventMessages(m.sub, QueryReport(m)[1].events) \o Ending(m.sub, QueryReport(m)[1].denied))[1].type # "COUNT"
    <3>1. Distinct(QueryReport(m)[1].events)
      BY <1>1, <2>3, ReportShown DEF MessageInv, ShownSeq
    <3>2. PICK t : Ending(m.sub, QueryReport(m)[1].denied) = <<t>> /\ t.type # "COUNT"
      BY Endings
    <3>3. (EventMessages(m.sub, QueryReport(m)[1].events) \o <<t>>)[1].type # "COUNT"
      BY <3>1, <3>2, EventsFirst
    <3> QED BY <3>2, <3>3
  <2>4. answer'[1].type # "COUNT"
    BY <1>4, <1>5, <2>1, <2>2, <2>3
  <2> QED BY <1>1, <1>3, <2>4 DEF CountInv
<1>9. CASE HandleCount
  <2> DEFINE m == message[1]
             reports == CountReports(m)
             reply == CountMessage(m, reports[1])
  <2>1. \/ Respond(Notice)
        \/ Respond(Closed(m.sub, "unsupported"))
        \/ Respond(Closed(m.sub, "restricted"))
        \/ Respond(<<reply>>)
    BY <1>9 DEF HandleCount, AnswerCount, SearchClosed
  <2>2. GoodFilters(m.filters)
    BY <1>1, <1>9, PendingFilters DEF HandleCount, Pending
  <2> HIDE DEF m, reports, reply
  <2>3. LET matching == {e \in ToSet(Store) : MatchesAny(m.filters, e)}
        IN /\ reply.count = Cardinality({e \in matching : Readable(e)})
           /\ reply.hll # None =>
                /\ reply.hll[1] = {e.pubkey : e \in matching}
                /\ \A e \in matching :
                     ClassifyGroupEvent(e) = NonGroup \/ IsPublic(ClassifyGroupEvent(e)[2])
    BY <2>2, CountReply DEF reports, reply
  <2>4. CASE Respond(<<reply>>)
    <3>1. answer'[1] = reply /\ message' = message
      BY <1>4, <2>4
    <3>2. CountIsExact'
      BY <1>2, <2>3, <3>1 DEF CountIsExact, m
    <3> QED BY <1>1, <3>2 DEF CountInv
  <2>5. CASE ~Respond(<<reply>>)
    <3>1. answer'[1].type # "COUNT"
      BY <1>4, <1>5, <2>1, <2>5
    <3> QED BY <1>1, <1>3, <3>1 DEF CountInv
  <2> QED BY <2>4, <2>5
<1>10. CASE HandleNegentropy
  <2>1. \/ Respond(Notice)
        \/ Respond(<<[type |-> "NEG-ERR", sub |-> message[1].sub, message |-> Word("blocked")]>>)
    BY <1>10 DEF HandleNegentropy
  <2>2. answer'[1].type # "COUNT"
    BY <1>4, <1>5, <2>1
  <2> QED BY <1>1, <1>3, <2>2 DEF CountInv
<1>11. ASSUME NEW offset \in Offsets, Fanout(offset) PROVE CountInv'
  <2> DEFINE m == message[1]
             c == LiveCandidates(offset)
             s == EachOnce([i \in DOMAIN c |-> LiveOutput(m.filters, c[i])])
  <2>1. Respond(EventMessages(m.sub, s))
    BY <1>11 DEF Fanout
  <2>2. Distinct(s)
    BY <1>1, FanoutShown DEF ShownSeq
  <2> HIDE DEF m, c, s
  <2>3. answer' = EventMessages(m.sub, s)
    BY <1>4, <2>1
  <2>4. answer' # <<>> => answer'[1].type # "COUNT"
    BY <2>2, <2>3, EventsFirst
  <2> QED BY <1>1, <1>3, <2>4 DEF CountInv
<1> QED
  BY <1>6, <1>7, <1>8, <1>9, <1>10, <1>11 DEF Next

\* COUNT answers how many readable events match, each once whatever the limits, and
\* estimates the authors only if everything that matches is public
\* (count_events_report_with_services), for every store and every text.
THEOREM CountsAreExact == Spec => []CountIsExact
<1>1. Init => CountInv
  BY MessageInit DEF Init, CountInv, CountIsExact
<1>2. CountInv /\ [Next]_vars => CountInv'
  BY CountStep
<1>3. CountInv => CountIsExact
  BY DEF CountInv
<1> QED
  BY <1>1, <1>2, <1>3, PTL DEF Spec

-----------------------------------------------------------------------------
(* REQ.                                                                    *)

\* What a report of one filter says, for the limit of the filter.
LEMMA FilterReport ==
  ASSUME NEW f, f.limit \in Nat
  PROVE  LET report == EventReport(Looked(f, EffectiveLimit(f)))
         IN /\ report.events = {e \in ToSet(Store) : Newest(f, e)}
            /\ report.denied <=> \E e \in ToSet(Store) : PassedOver(f, e)
            /\ Truncated(SortAndDedupe(report.events), EffectiveLimit(f)) = report.events
<1> DEFINE limit == EffectiveLimit(f)
           report == EventReport(Looked(f, limit))
           found == {e \in ToSet(Store) : Newest(f, e)}
<1>1. limit \in Nat
  BY LimitType
<1>2. \A e \in ToSet(Store) :
        /\ e \in Looked(f, limit) <=> PocketMatches(f, e) /\ Cardinality(ReadableBefore(f, e)) < limit
        /\ Newest(f, e) <=> /\ PocketMatches(f, e) /\ Readable(e)
                            /\ Cardinality(ReadableBefore(f, e)) < limit
        /\ PassedOver(f, e) <=> /\ PocketMatches(f, e) /\ ~Readable(e)
                                /\ Cardinality(ReadableBefore(f, e)) < limit
  BY DEF Looked, Selected, ReadableBefore, Newest, PassedOver
<1>3. Looked(f, limit) \in SUBSET ToSet(Store)
  BY DEF Looked, Selected
<1> HIDE DEF limit
<1>4. report.events = found
  BY <1>2, <1>3 DEF EventReport
<1>5. report.denied <=> \E e \in ToSet(Store) : PassedOver(f, e)
  <2>1. report.denied <=> \E e \in Looked(f, limit) : ~Readable(e)
    BY DEF EventReport
  <2> QED BY <1>2, <1>3, <2>1
<1>6. ASSUME NEW e \in found PROVE Cardinality({x \in found : NewerFirst(x, e)}) < limit
  <2> DEFINE A == {x \in found : NewerFirst(x, e)}
             B == ReadableBefore(f, e)
  <2>1. B \in SUBSET ToSet(Store)
    BY DEF ReadableBefore
  <2>2. IsFiniteSet(B)
    BY <2>1, StoreFinite, FS_Subset
  <2>3. A \in SUBSET B
    BY <1>2 DEF ReadableBefore
  <2>4. Cardinality(B) < limit
    BY <1>2
  <2> HIDE DEF A, B
  <2>5. IsFiniteSet(A) /\ Cardinality(A) <= Cardinality(B)
    BY <2>2, <2>3, FS_Subset
  <2>6. Cardinality(A) \in Nat /\ Cardinality(B) \in Nat
    BY <2>2, <2>5, FS_CardinalityType
  <2>7. Cardinality(A) < limit
    BY <1>1, <2>4, <2>5, <2>6
  <2> QED BY <2>7 DEF A
<1>7. found \in SUBSET ToSet(Store)
  OBVIOUS
<1> HIDE DEF found
<1>8. Truncated(SortAndDedupe(found), limit) = {e \in found : Cardinality({x \in found : NewerFirst(x, e)}) < limit}
  BY <1>1, <1>7, TruncatedAre
<1>9. Truncated(SortAndDedupe(found), limit) = found
  BY <1>6, <1>8
<1> QED
  BY <1>4, <1>5, <1>9 DEF found, limit

\* The report of a REQ without hooks.
LEMMA ReqReply ==
  ASSUME hooks.plan = None, \A i \in Offsets : hooks.decide[i] = <<"emit">>,
         NEW m, GoodFilters(m.filters), QueryReport(m) # None
  PROVE  LET report == QueryReport(m)[1]
         IN /\ \E n \in Nat :
                 /\ DOMAIN report.events = 1..n
                 /\ \A i, j \in 1..n : i < j => NewerFirst(report.events[i], report.events[j])
            /\ ToSet(report.events)
                 = {e \in ToSet(Store) : \E i \in DOMAIN m.filters : Newest(m.filters[i], e)}
            /\ report.denied <=>
                 \E i \in DOMAIN m.filters : \E e \in ToSet(Store) : PassedOver(m.filters[i], e)
<1> DEFINE reports == QueryReports(m)
           found(i) == reports[1][i].events
           limit(i) == EffectiveLimit(m.filters[i])
           parts == [i \in DOMAIN m.filters |-> Truncated(SortAndDedupe(found(i)), limit(i))]
           all == UNION {parts[i] : i \in DOMAIN parts}
           s == SortAndDedupe(all)
<1>1. reports = TryAll([i \in DOMAIN m.filters |->
                          QueryFilter(m.filters[i], <<"default">>, QueryConfig.allow_scraping)])
  BY DEF QueryReports
<1>2. reports # None
  BY DEF QueryReport, Then
<1>3. QueryReport(m)[1] = QueryThenProject(m, reports[1])
  BY <1>2 DEF QueryReport, Then, Some
<1> HIDE DEF reports
<1>4. /\ DOMAIN reports[1] = DOMAIN m.filters
      /\ \A i \in DOMAIN m.filters :
           reports[1][i] = EventReport(Looked(m.filters[i], LimitOf(m.filters[i], <<"default">>)))
  BY <1>1, <1>2, ReportsAre
<1>5. \A f : LimitOf(f, <<"default">>) = EffectiveLimit(f)
  BY DEF LimitOf
<1>6. \A i \in DOMAIN m.filters : m.filters[i].limit \in Nat
  BY DEF GoodFilters, GoodFilter
<1>7. \A i \in DOMAIN m.filters :
        /\ found(i) = {e \in ToSet(Store) : Newest(m.filters[i], e)}
        /\ reports[1][i].denied <=> \E e \in ToSet(Store) : PassedOver(m.filters[i], e)
        /\ Truncated(SortAndDedupe(found(i)), limit(i)) = found(i)
  <2> SUFFICES ASSUME NEW i \in DOMAIN m.filters
               PROVE  /\ found(i) = {e \in ToSet(Store) : Newest(m.filters[i], e)}
                      /\ reports[1][i].denied <=> \E e \in ToSet(Store) : PassedOver(m.filters[i], e)
                      /\ Truncated(SortAndDedupe(found(i)), limit(i)) = found(i)
    OBVIOUS
  <2>1. reports[1][i] = EventReport(Looked(m.filters[i], EffectiveLimit(m.filters[i])))
    BY <1>4, <1>5
  <2>2. PICK f : f = m.filters[i] /\ f.limit \in Nat
    BY <1>6
  <2>3. /\ EventReport(Looked(f, EffectiveLimit(f))).events = {e \in ToSet(Store) : Newest(f, e)}
        /\ EventReport(Looked(f, EffectiveLimit(f))).denied <=> \E e \in ToSet(Store) : PassedOver(f, e)
        /\ Truncated(SortAndDedupe(EventReport(Looked(f, EffectiveLimit(f))).events), EffectiveLimit(f))
             = EventReport(Looked(f, EffectiveLimit(f))).events
    BY <2>2, FilterReport
  <2> QED BY <2>1, <2>2, <2>3
<1>8. /\ QueryThenProject(m, reports[1]).events = ProjectSequence(m.filters, s)
      /\ QueryThenProject(m, reports[1]).denied <=> \E i \in DOMAIN reports[1] : reports[1][i].denied
  BY DEF QueryThenProject
<1> HIDE DEF found, limit
<1>9. all = {e \in ToSet(Store) : \E i \in DOMAIN m.filters : Newest(m.filters[i], e)}
  <2>1. DOMAIN parts = DOMAIN m.filters
    OBVIOUS
  <2>2. \A i \in DOMAIN m.filters : parts[i] = {e \in ToSet(Store) : Newest(m.filters[i], e)}
    BY <1>7
  <2> HIDE DEF parts
  <2>3. \A e : e \in all <=> \E i \in DOMAIN m.filters : e \in parts[i]
    BY <2>1
  <2> QED BY <2>2, <2>3
<1>10. all \in SUBSET ToSet(Store)
  BY <1>9
<1> HIDE DEF all
<1> DEFINE n == Cardinality(all)
<1>11. /\ n \in Nat /\ DOMAIN s = 1..n
       /\ \A i \in 1..n : s[i] \in all
       /\ \A e \in all : \E i \in 1..n : s[i] = e
       /\ \A i, j \in 1..n : /\ s[i] = s[j] => i = j
                             /\ i < j <=> NewerFirst(s[i], s[j])
  BY <1>10, Sorted
<1> HIDE DEF s, n
<1>12. ProjectSequence(m.filters, s) = EachOnce([i \in DOMAIN s |-> Some(s[i])])
  <2>1. \A i \in DOMAIN s : Projected(m.filters, s[i]) = Some(s[i])
    BY <1>10, <1>11, ProjectedIsSame
  <2>2. [i \in DOMAIN s |-> Projected(m.filters, s[i])] = [i \in DOMAIN s |-> Some(s[i])]
    BY <2>1
  <2> QED BY <2>2 DEF ProjectSequence
<1>13. ProjectSequence(m.filters, s) = [i \in 1..n |-> s[i]]
  BY <1>11, <1>12, EachOnceSame
<1>14. /\ DOMAIN QueryReport(m)[1].events = 1..n
       /\ \A i \in 1..n : QueryReport(m)[1].events[i] = s[i]
  BY <1>3, <1>8, <1>13
<1>15. ToSet(QueryReport(m)[1].events) = all
  BY <1>11, <1>14 DEF ToSet
<1>16. \A i, j \in 1..n : i < j => NewerFirst(QueryReport(m)[1].events[i], QueryReport(m)[1].events[j])
  BY <1>11, <1>14
<1>17. QueryReport(m)[1].denied <=>
         \E i \in DOMAIN m.filters : \E e \in ToSet(Store) : PassedOver(m.filters[i], e)
  BY <1>3, <1>4, <1>7, <1>8
<1> QED
  BY <1>9, <1>11, <1>14, <1>15, <1>16, <1>17

\* REQ answers what is newest.
NewestInv == MessageInv /\ AnswerIsNewest

\* The part of AnswerIsNewest about a query in hand.
LEMMA NewestReply ==
  ASSUME hooks.plan = None, \A i \in Offsets : hooks.decide[i] = <<"emit">>,
         NEW m, GoodFilters(m.filters), QueryReport(m) # None,
         NEW a, a = EventMessages(m.sub, QueryReport(m)[1].events) \o Ending(m.sub, QueryReport(m)[1].denied)
  PROVE  LET events == [i \in 1..(Len(a) - 1) |-> a[i].event]
         IN /\ ToSet(events) = {e \in ToSet(Store) : \E i \in DOMAIN m.filters : Newest(m.filters[i], e)}
            /\ \A i, j \in DOMAIN events : i < j => NewerFirst(events[i], events[j])
            /\ Last(a).type = "CLOSED" <=>
                 \E i \in DOMAIN m.filters : \E e \in ToSet(Store) : PassedOver(m.filters[i], e)
<1> DEFINE ev == QueryReport(m)[1].events
           denied == QueryReport(m)[1].denied
           events == [i \in 1..(Len(a) - 1) |-> a[i].event]
<1>1. /\ \E n \in Nat : /\ DOMAIN ev = 1..n
                        /\ \A i, j \in 1..n : i < j => NewerFirst(ev[i], ev[j])
      /\ ToSet(ev) = {e \in ToSet(Store) : \E i \in DOMAIN m.filters : Newest(m.filters[i], e)}
      /\ denied <=> \E i \in DOMAIN m.filters : \E e \in ToSet(Store) : PassedOver(m.filters[i], e)
  BY ReqReply
<1>2. PICK t : Ending(m.sub, denied) = <<t>> /\ t.type = IF denied THEN "CLOSED" ELSE "EOSE"
  BY Endings
<1> HIDE DEF ev, denied
<1>3. a = EventMessages(m.sub, ev) \o <<t>>
  BY <1>2 DEF ev, denied
<1>4. PICK n \in Nat : DOMAIN ev = 1..n /\ \A i, j \in 1..n : i < j => NewerFirst(ev[i], ev[j])
  BY <1>1
<1>5. /\ Len(a) = n + 1
      /\ \A i \in 1..n : a[i] = [type |-> "EVENT", sub |-> m.sub, event |-> ev[i]]
      /\ a[n + 1] = t
  BY <1>3, <1>4, AnswerShape
<1>6. Len(a) - 1 = n
  BY <1>5
<1>7. DOMAIN events = 1..n /\ \A i \in 1..n : events[i] = ev[i]
  <2>1. ASSUME NEW i \in 1..n PROVE a[i].event = ev[i]
    <3>1. a[i] = [type |-> "EVENT", sub |-> m.sub, event |-> ev[i]]
      BY <1>5
    <3> QED BY <3>1
  <2>2. events = [i \in 1..n |-> a[i].event]
    BY <1>6
  <2> QED BY <2>1, <2>2
<1> HIDE DEF events
<1>8. ToSet(events) = ToSet(ev)
  BY <1>4, <1>7 DEF ToSet
<1>9. Last(a).type = "CLOSED" <=> denied
  BY <1>2, <1>5 DEF Last
<1>10. \A i, j \in DOMAIN events : i < j => NewerFirst(events[i], events[j])
  BY <1>4, <1>7
<1> QED
  BY <1>1, <1>8, <1>9, <1>10 DEF events

\* Every step keeps it.
LEMMA NewestStep ==
  ASSUME NewestInv, [Next]_vars
  PROVE  NewestInv'
<1>1. /\ MessageInv' /\ UNCHANGED <<text, auth, hooks>> /\ MessageInv
      /\ message # None => message' = message
  BY MessageStep DEF NewestInv
<1>2. \A e : Readable(e)' <=> Readable(e)
  BY <1>1, ReadersStay
<1>3. \A f, e : /\ Newest(f, e)' <=> Newest(f, e)
                /\ PassedOver(f, e)' <=> PassedOver(f, e)
  BY <1>2 DEF Newest, PassedOver
<1>4. \A reply : Respond(reply) => answer' = reply /\ message' = message
  BY DEF Respond
<1>5. ASSUME answer' # <<>> => Last(answer').type \notin {"EOSE", "CLOSED"} PROVE AnswerIsNewest'
  BY <1>5 DEF AnswerIsNewest
<1>6. CASE UNCHANGED vars
  <2>1. AnswerIsNewest'
    BY <1>3, <1>6 DEF NewestInv, AnswerIsNewest, vars
  <2> QED BY <1>1, <2>1 DEF NewestInv
<1>7. \A x : Last(<<x>>) = x
  BY DEF Last
<1>8. Last(Notice).type = "NOTICE"
  BY <1>7 DEF Notice
<1>9. CASE Parse
  <2>1. answer' = Notice \/ answer' = <<>>
    BY <1>9 DEF Parse
  <2> QED BY <1>1, <1>5, <1>8, <2>1 DEF NewestInv
<1>10. CASE HandleReq
  <2> DEFINE m == message[1]
             reply == EventMessages(m.sub, QueryReport(m)[1].events) \o Ending(m.sub, QueryReport(m)[1].denied)
  <2>1. \/ Respond(Notice)
        \/ m.search
        \/ QueryReport(m) # None /\ Respond(reply)
    BY <1>10 DEF HandleReq, AnswerReq
  <2>2. message # None /\ m.type = "REQ" /\ message' = message
    <3>1. message # None /\ m.type = "REQ"
      BY <1>10 DEF HandleReq, Pending
    <3> QED BY <1>1, <3>1
  <2>3. GoodFilters(m.filters)
    BY <1>1, <2>2, PendingFilters
  <2> HIDE DEF m
  <2>4. CASE Respond(Notice)
    BY <1>1, <1>4, <1>5, <1>8, <2>4 DEF NewestInv
  <2>5. CASE m.search
    <3>1. AnswerIsNewest'
      BY <2>2, <2>5 DEF AnswerIsNewest, m
    <3> QED BY <1>1, <3>1 DEF NewestInv
  <2>6. ASSUME QueryReport(m) # None, Respond(reply) PROVE NewestInv'
    <3>1. answer' = reply
      BY <1>4, <2>6
    <3>2. ASSUME hooks.plan = None, \A i \in Offsets : hooks.decide[i] = <<"emit">>
          PROVE  LET events == [i \in 1..(Len(reply) - 1) |-> reply[i].event]
                 IN /\ ToSet(events) = {e \in ToSet(Store) : \E i \in DOMAIN m.filters : Newest(m.filters[i], e)}
                    /\ \A i, j \in DOMAIN events : i < j => NewerFirst(events[i], events[j])
                    /\ Last(reply).type = "CLOSED" <=>
                         \E i \in DOMAIN m.filters : \E e \in ToSet(Store) : PassedOver(m.filters[i], e)
      BY <2>3, <2>6, <3>2, NewestReply
    <3> HIDE DEF reply
    <3>3. hooks' = hooks /\ message'[1] = m
      BY <1>1, <2>2 DEF m
    <3>4. AnswerIsNewest'
      BY <1>3, <3>1, <3>2, <3>3 DEF AnswerIsNewest
    <3> QED BY <1>1, <3>4 DEF NewestInv
  <2> QED BY <2>1, <2>4, <2>5, <2>6
<1>11. CASE HandleCount
  <2>1. message # None /\ message[1].type = "COUNT" /\ message' = message
    BY <1>1, <1>11 DEF HandleCount, Pending
  <2>2. AnswerIsNewest'
    BY <2>1 DEF AnswerIsNewest
  <2> QED BY <1>1, <2>2 DEF NewestInv
<1>12. CASE HandleNegentropy
  <2>1. message # None /\ message[1].type # "REQ" /\ message' = message
    BY <1>1, <1>12 DEF HandleNegentropy, Pending
  <2>2. AnswerIsNewest'
    BY <2>1 DEF AnswerIsNewest
  <2> QED BY <1>1, <2>2 DEF NewestInv
<1>13. ASSUME NEW offset \in Offsets, Fanout(offset) PROVE NewestInv'
  <2> DEFINE m == message[1]
             c == LiveCandidates(offset)
             s == EachOnce([i \in DOMAIN c |-> LiveOutput(m.filters, c[i])])
  <2>1. Respond(EventMessages(m.sub, s))
    BY <1>13 DEF Fanout
  <2>2. Distinct(s)
    BY <1>1, FanoutShown DEF ShownSeq
  <2> HIDE DEF m, c, s
  <2>3. answer' = EventMessages(m.sub, s)
    BY <1>4, <2>1
  <2>4. PICK n \in Nat : DOMAIN s = 1..n
    BY <2>2 DEF Distinct
  <2>5. EventMessages(m.sub, s) = [i \in 1..n |-> [type |-> "EVENT", sub |-> m.sub, event |-> s[i]]]
    BY <2>4 DEF EventMessages
  <2>6. answer' # <<>> => Last(answer').type = "EVENT"
    <3>1. Len(EventMessages(m.sub, s)) = n
      BY <2>5
    <3>2. EventMessages(m.sub, s) # <<>> => n # 0
      BY <2>5
    <3>3. n # 0 => EventMessages(m.sub, s)[n].type = "EVENT"
      BY <2>5
    <3> QED BY <2>3, <3>1, <3>2, <3>3 DEF Last
  <2> QED BY <1>1, <1>5, <2>6 DEF NewestInv
<1> QED
  BY <1>6, <1>9, <1>10, <1>11, <1>12, <1>13 DEF Next

\* Where no hook interferes, REQ answers for each filter its newest readable events, as
\* many as its limit, newest first and none twice, and ends with EOSE only if nothing it
\* passed over was withheld (query_filter_events_report_with_services), for every store,
\* every text and every reader.
THEOREM AnswersAreNewest == Spec => []AnswerIsNewest
<1>1. Init => NewestInv
  BY MessageInit DEF Init, NewestInv, AnswerIsNewest
<1>2. NewestInv /\ [Next]_vars => NewestInv'
  BY NewestStep
<1>3. NewestInv => AnswerIsNewest
  BY DEF NewestInv
<1> QED
  BY <1>1, <1>2, <1>3, PTL DEF Spec

-----------------------------------------------------------------------------
(* max_query_complexity.                                                   *)

LessNat == {p \in Nat \X Nat : p[1] < p[2]}

\* A set of numbers that is not empty has a least element.
LEMMA LeastNumber ==
  ASSUME NEW T \in SUBSET Nat, T # {}
  PROVE  \E x \in T : \A y \in T : x <= y
<1>1. IsWellFoundedOn(LessNat, Nat)
  <2>1. OpToRel(<, Nat) = LessNat
    BY Zenon DEF OpToRel, LessNat
  <2> QED BY <2>1, NatLessThanWellFounded, Zenon
<1>2. PICK x \in T : \A y \in T : ~(<<y, x>> \in LessNat)
  BY <1>1, WFMin
<1>3. \A a, b \in Nat : <<b, a>> \notin LessNat => a <= b
  BY DEF LessNat
<1>4. \A y \in T : x <= y
  BY <1>2, <1>3
<1> QED BY <1>4

\* sum holds the sums of the first numbers of s, up to m of them.
SumsTo(s, sum, m) == sum = [n \in 0..m |-> IF n = 0 THEN 0 ELSE sum[n - 1] + s[n]]

\* SumSeq is the last of them.
LEMMA SumSteps ==
  ASSUME NEW s, Len(s) \in Nat
  PROVE  \E sum : SumsTo(s, sum, Len(s)) /\ SumSeq(s) = sum[Len(s)]
<1> DEFINE T == {m \in 0..Len(s) : ~ \E sum : SumsTo(s, sum, m)}
<1>1. T = {}
  <2> SUFFICES ASSUME T # {} PROVE FALSE
    OBVIOUS
  <2>1. PICK m \in T : \A y \in T : m <= y
    <3>1. T \in SUBSET Nat
      OBVIOUS
    <3> HIDE DEF T
    <3> QED BY <3>1, LeastNumber
  <2>2. m \in Nat /\ m \in 0..Len(s) /\ ~ \E sum : SumsTo(s, sum, m)
    OBVIOUS
  <2>3. CASE m = 0
    <3> DEFINE sum == [n \in 0..0 |-> 0]
    <3>1. SumsTo(s, sum, 0)
      BY DEF SumsTo
    <3> QED BY <2>2, <2>3, <3>1
  <2>4. CASE m > 0
    <3>1. m - 1 \in 0..Len(s) /\ m - 1 \notin T
      BY <2>1, <2>2, <2>4
    <3>2. PICK sum : SumsTo(s, sum, m - 1)
      BY <3>1
    <3> DEFINE more == [n \in 0..m |-> IF n = m THEN sum[m - 1] + s[m] ELSE sum[n]]
    <3>3. \A n \in 0..m : more[n] = IF n = 0 THEN 0 ELSE more[n - 1] + s[n]
      <4> SUFFICES ASSUME NEW n \in 0..m
                   PROVE  more[n] = IF n = 0 THEN 0 ELSE more[n - 1] + s[n]
        OBVIOUS
      <4>1. CASE n = m
        BY <2>2, <2>4, <4>1
      <4>2. CASE n # m
        <5>1. n \in 0..(m - 1) /\ (n # 0 => n - 1 \in 0..m /\ n - 1 # m)
          BY <2>2, <4>2
        <5>2. sum[n] = IF n = 0 THEN 0 ELSE sum[n - 1] + s[n]
          BY <3>2, <5>1 DEF SumsTo
        <5> QED BY <4>2, <5>1, <5>2
      <4> QED BY <4>1, <4>2
    <3>4. more = [n \in 0..m |-> more[n]]
      OBVIOUS
    <3> HIDE DEF more
    <3>5. SumsTo(s, more, m)
      BY <3>3, <3>4 DEF SumsTo
    <3> QED BY <2>2, <3>5
  <2> QED BY <2>2, <2>3, <2>4
<1>2. \E sum : SumsTo(s, sum, Len(s))
  <2>1. Len(s) \in 0..Len(s)
    OBVIOUS
  <2> QED BY <1>1, <2>1
<1> DEFINE sum == CHOOSE sum : SumsTo(s, sum, Len(s))
<1>3. SumsTo(s, sum, Len(s))
  BY <1>2
<1>4. SumSeq(s) = sum[Len(s)]
  BY DEF SumSeq, SumsTo
<1> QED
  BY <1>3, <1>4

\* A sum of numbers is one, and at least the size of a union of sets that are no larger
\* than the numbers.
LEMMA SumBounds ==
  ASSUME NEW n \in Nat, NEW s, Len(s) = n, \A i \in 1..n : s[i] \in Nat,
         NEW parts, \A i \in 1..n : IsFiniteSet(parts[i]) /\ Cardinality(parts[i]) <= s[i]
  PROVE  /\ SumSeq(s) \in Nat
         /\ Cardinality(UNION {parts[i] : i \in 1..n}) <= SumSeq(s)
<1>1. PICK sum : SumsTo(s, sum, n) /\ SumSeq(s) = sum[n]
  BY SumSteps
<1>2. /\ sum[0] = 0
      /\ \A m \in 1..n : sum[m] = sum[m - 1] + s[m]
  <2>1. \A m \in 0..n : sum[m] = IF m = 0 THEN 0 ELSE sum[m - 1] + s[m]
    BY <1>1, Zenon DEF SumsTo
  <2> QED BY <2>1
<1> DEFINE U(m) == UNION {parts[i] : i \in 1..m}
           Holds(m) == /\ sum[m] \in Nat
                       /\ IsFiniteSet(U(m))
                       /\ Cardinality(U(m)) <= sum[m]
           T == {m \in 0..n : ~Holds(m)}
<1> HIDE DEF Holds
<1>3. T = {}
  <2> SUFFICES ASSUME T # {} PROVE FALSE
    OBVIOUS
  <2>1. PICK m \in T : \A y \in T : m <= y
    <3>1. T \in SUBSET Nat
      OBVIOUS
    <3> HIDE DEF T
    <3> QED BY <3>1, LeastNumber
  <2>2. m \in 0..n /\ ~Holds(m)
    OBVIOUS
  <2>3. CASE m = 0
    <3>1. U(0) = {}
      OBVIOUS
    <3>2. IsFiniteSet({}) /\ Cardinality({}) = 0
      BY FS_EmptySet
    <3> HIDE DEF U
    <3>3. IsFiniteSet(U(m)) /\ Cardinality(U(m)) = 0 /\ sum[m] = 0
      BY <1>2, <2>3, <3>1, <3>2
    <3> QED BY <2>2, <3>3 DEF Holds
  <2>4. CASE m > 0
    <3>1. m - 1 \in 0..n /\ m \in 1..n /\ m - 1 < m
      BY <2>2, <2>4
    <3>2. Holds(m - 1)
      BY <2>1, <3>1
    <3>3. U(m) = U(m - 1) \union parts[m]
      <4>1. \A i : i \in 1..m <=> i \in 1..(m - 1) \/ i = m
        BY <3>1
      <4> QED BY <4>1
    <3> DEFINE A == U(m - 1)
               B == parts[m]
    <3>4. IsFiniteSet(A) /\ Cardinality(A) <= sum[m - 1] /\ sum[m - 1] \in Nat
      BY <3>2 DEF Holds
    <3>5. IsFiniteSet(B) /\ Cardinality(B) <= s[m] /\ s[m] \in Nat
      BY <3>1
    <3>6. U(m) = A \union B
      BY <3>3
    <3> HIDE DEF A, B, U
    <3>7. /\ IsFiniteSet(A \union B)
          /\ Cardinality(A \union B) = Cardinality(A) + Cardinality(B) - Cardinality(A \intersect B)
      BY <3>4, <3>5, FS_Union
    <3>8. IsFiniteSet(A \intersect B)
      BY <3>4, FS_Subset
    <3>9. Cardinality(A) \in Nat /\ Cardinality(B) \in Nat /\ Cardinality(A \intersect B) \in Nat
      BY <3>4, <3>5, <3>8, FS_CardinalityType
    <3>10. sum[m] = sum[m - 1] + s[m]
      BY <1>2, <3>1
    <3>11. Cardinality(U(m)) <= sum[m] /\ sum[m] \in Nat
      BY <3>4, <3>5, <3>6, <3>7, <3>9, <3>10
    <3> QED BY <2>2, <3>6, <3>7, <3>11 DEF Holds
  <2> QED BY <2>2, <2>3, <2>4
<1>4. Holds(n)
  <2>1. n \in 0..n /\ n \notin T
    BY <1>3
  <2> QED BY <2>1
<1> QED
  BY <1>1, <1>4 DEF Holds

\* The complexity of a filter is no less than the events it asks for.
LEMMA FilterBounds ==
  ASSUME NEW f, GoodFilter(f)
  PROVE  /\ EffectiveLimit(f) \in Nat
         /\ FilterComplexity(f) \in Nat
         /\ EffectiveLimit(f) <= FilterComplexity(f)
<1> DEFINE lens == [i \in DOMAIN f.tags |-> Len(f.tags[i])]
<1>1. EffectiveLimit(f) \in Nat
  BY LimitType DEF GoodFilter
<1>2. SumSeq(lens) \in Nat
  <2>1. PICK n \in Nat : DOMAIN f.tags = 1..n /\ \A i \in 1..n : Len(f.tags[i]) \in Nat
    BY DEF GoodFilter, GoodTags
  <2>2. DOMAIN lens = 1..n /\ lens = [i \in 1..n |-> lens[i]] /\ \A i \in 1..n : lens[i] \in Nat
    BY <2>1
  <2> DEFINE parts == [i \in 1..n |-> {}]
  <2> HIDE DEF lens
  <2>3. Len(lens) = n
    BY <2>2, MappedLen
  <2>4. \A i \in 1..n : IsFiniteSet(parts[i]) /\ Cardinality(parts[i]) <= lens[i]
    BY <2>2, FS_EmptySet
  <2> HIDE DEF parts
  <2> QED BY <2>2, <2>3, <2>4, SumBounds
<1> DEFINE since == IF f.since # TimeMin THEN 1 ELSE 0
           until == IF f.until # TimeMax THEN 1 ELSE 0
<1>3. FilterComplexity(f) = 1 + Len(f.ids) + Len(f.authors) + Len(f.kinds) + SumSeq(lens)
                              + since + until + EffectiveLimit(f)
  BY DEF FilterComplexity
<1>4. since \in Nat /\ until \in Nat
  OBVIOUS
<1> DEFINE ids == Len(f.ids)
           authors == Len(f.authors)
           kinds == Len(f.kinds)
           tags == SumSeq(lens)
           limit == EffectiveLimit(f)
<1>5. ids \in Nat /\ authors \in Nat /\ kinds \in Nat /\ tags \in Nat /\ limit \in Nat
  BY <1>1, <1>2 DEF GoodFilter
<1>6. FilterComplexity(f) = 1 + ids + authors + kinds + tags + since + until + limit
  BY <1>3
<1> HIDE DEF lens, since, until, ids, authors, kinds, tags, limit
<1>7. FilterComplexity(f) \in Nat /\ limit <= FilterComplexity(f)
  BY <1>4, <1>5, <1>6
<1> QED
  BY <1>1, <1>7 DEF limit

\* A set cut to n elements has at most n.
LEMMA TruncatedSize ==
  ASSUME NEW E \in SUBSET ToSet(Store), NEW n \in Nat
  PROVE  /\ IsFiniteSet(Truncated(SortAndDedupe(E), n))
         /\ Cardinality(Truncated(SortAndDedupe(E), n)) <= n
<1> DEFINE s == SortAndDedupe(E)
           I == {i \in DOMAIN s : i <= n}
<1>1. I \in SUBSET (1..n)
  BY Sorted
<1>2. IsFiniteSet(1..n) /\ Cardinality(1..n) = n
  BY PositionsCount
<1>3. Truncated(s, n) = {s[i] : i \in I}
  BY DEF Truncated
<1> HIDE DEF s, I
<1>4. IsFiniteSet(I) /\ Cardinality(I) <= n
  BY <1>1, <1>2, FS_Subset
<1>5. IsFiniteSet({s[i] : i \in I}) /\ Cardinality({s[i] : i \in I}) <= Cardinality(I)
  <2> DEFINE f == [i \in I |-> s[i]]
             S == {s[i] : i \in I}
  <2>1. f \in Surjection(I, S)
    BY DEF Surjection
  <2> HIDE DEF f, S
  <2>2. IsFiniteSet(S) /\ Cardinality(S) <= Cardinality(I)
    BY <1>4, <2>1, FS_Surjection
  <2> QED BY <2>2 DEF S
<1>6. Cardinality(I) \in Nat /\ Cardinality({s[i] : i \in I}) \in Nat
  BY <1>4, <1>5, FS_CardinalityType
<1> QED
  BY <1>3, <1>4, <1>5, <1>6 DEF s

\* Together the parts of an answer have no more events than its filters have complexity.
LEMMA PartsBounded ==
  ASSUME NEW filters, GoodFilters(filters), ValidateComplexity(filters),
         NEW E, \A i \in DOMAIN filters : E[i] \in SUBSET ToSet(Store),
         NEW parts,
         parts = [i \in DOMAIN filters |-> Truncated(SortAndDedupe(E[i]), EffectiveLimit(filters[i]))]
  PROVE  Cardinality(UNION {parts[i] : i \in DOMAIN parts}) <= Limits.max_complexity
<1> DEFINE costs == [i \in DOMAIN filters |-> FilterComplexity(filters[i])]
<1>1. PICK n \in Nat : DOMAIN filters = 1..n /\ \A i \in 1..n : GoodFilter(filters[i])
  BY DEF GoodFilters
<1>2. DOMAIN costs = 1..n /\ \A i \in 1..n : costs[i] = FilterComplexity(filters[i])
  BY <1>1
<1>3. costs = [i \in 1..n |-> costs[i]]
  BY <1>1
<1>4. SumSeq(costs) <= Limits.max_complexity
  BY DEF ValidateComplexity
<1> HIDE DEF costs
<1>5. Len(costs) = n
  BY <1>2, <1>3, MappedLen
<1>6. ASSUME NEW i \in 1..n
      PROVE  costs[i] \in Nat /\ IsFiniteSet(parts[i]) /\ Cardinality(parts[i]) <= costs[i]
  <2> DEFINE limit == EffectiveLimit(filters[i])
  <2>1. limit \in Nat /\ costs[i] \in Nat /\ limit <= costs[i]
    BY <1>1, <1>2, FilterBounds
  <2>2. parts[i] = Truncated(SortAndDedupe(E[i]), limit)
    BY <1>1
  <2>3. E[i] \in SUBSET ToSet(Store)
    BY <1>1
  <2> HIDE DEF limit
  <2>4. IsFiniteSet(parts[i]) /\ Cardinality(parts[i]) <= limit
    BY <2>1, <2>2, <2>3, TruncatedSize
  <2>5. Cardinality(parts[i]) \in Nat
    BY <2>4, FS_CardinalityType
  <2> QED BY <2>1, <2>4, <2>5
<1>7. DOMAIN parts = 1..n
  BY <1>1
<1>8. SumSeq(costs) \in Nat /\ Cardinality(UNION {parts[i] : i \in 1..n}) <= SumSeq(costs)
  <2>1. /\ \A i \in 1..n : costs[i] \in Nat
        /\ \A i \in 1..n : IsFiniteSet(parts[i]) /\ Cardinality(parts[i]) <= costs[i]
    BY <1>6
  <2> DEFINE P == parts
  <2>2. \A i \in 1..n : IsFiniteSet(P[i]) /\ Cardinality(P[i]) <= costs[i]
    BY <2>1
  <2> HIDE DEF P
  <2>3. SumSeq(costs) \in Nat /\ Cardinality(UNION {P[i] : i \in 1..n}) <= SumSeq(costs)
    BY <1>5, <2>1, <2>2, SumBounds
  <2> QED BY <2>3 DEF P
<1>9. IsFiniteSet(UNION {parts[i] : i \in 1..n})
  <2>1. \A i \in 1..n : parts[i] \in SUBSET ToSet(Store)
    BY <1>1, TruncatedIn
  <2>2. UNION {parts[i] : i \in 1..n} \in SUBSET ToSet(Store)
    BY <2>1
  <2> QED BY <2>2, StoreFinite, FS_Subset
<1>10. Cardinality(UNION {parts[i] : i \in 1..n}) \in Nat
  BY <1>9, FS_CardinalityType
<1>11. Limits.max_complexity \in Nat
  BY LimitsAssumption DEF LimitNames
<1>12. UNION {parts[i] : i \in DOMAIN parts} = UNION {parts[i] : i \in 1..n}
  BY <1>7
<1>13. Cardinality(UNION {parts[i] : i \in 1..n}) <= Limits.max_complexity
  BY <1>4, <1>8, <1>10, <1>11
<1> QED
  BY <1>12, <1>13, Zenon

\* A sequence of at most max_query_complexity events.
Bounded(s) == \E n \in Nat : DOMAIN s = 1..n /\ n <= Limits.max_complexity

\* A set sorted is as long as the set is large, and projected no longer.
LEMMA SortedBounded ==
  ASSUME hooks \in HookSets, NEW filters, NEW E, \A e \in E : Shown(filters, e),
         Cardinality(E) <= Limits.max_complexity
  PROVE  /\ Bounded(SortAndDedupe(E))
         /\ Bounded(ProjectSequence(filters, SortAndDedupe(E)))
<1> DEFINE s == SortAndDedupe(E)
           n == Cardinality(E)
           results == [i \in DOMAIN s |-> Projected(filters, s[i])]
           first == FirstPlaces(results)
           k == Cardinality(first)
<1>1. E \in SUBSET ToSet(Store)
  BY DEF Shown
<1>2. n \in Nat /\ DOMAIN s = 1..n /\ \A i \in 1..n : s[i] \in E
  BY <1>1, Sorted
<1> HIDE DEF s, n
<1>3. Bounded(s)
  BY <1>2 DEF Bounded, n
<1>4. DOMAIN results = 1..n
  BY <1>2
<1>5. \A i \in 1..n : results[i] = None \/ results[i] = Some(results[i][1])
  <2> SUFFICES ASSUME NEW i \in 1..n PROVE results[i] = None \/ results[i] = Some(results[i][1])
    OBVIOUS
  <2>1. Shown(filters, s[i])
    BY <1>2
  <2>2. results[i] = Projected(filters, s[i])
    BY <1>2
  <2> HIDE DEF results
  <2> QED BY <2>1, <2>2, ProjectedIsShown DEF Some
<1>6. ProjectSequence(filters, s) = EachOnce(results)
  BY DEF ProjectSequence
<1> HIDE DEF results
<1>7. k \in Nat /\ DOMAIN EachOnce(results) = 1..k
  BY <1>2, <1>4, <1>5, EachOnceAre
<1>8. first \in SUBSET (1..n)
  BY <1>4 DEF FirstPlaces
<1>9. IsFiniteSet(1..n) /\ Cardinality(1..n) = n
  BY <1>2, PositionsCount
<1> HIDE DEF first
<1>10. k <= n
  BY <1>8, <1>9, FS_Subset
<1>11. Limits.max_complexity \in Nat
  BY LimitsAssumption DEF LimitNames
<1> HIDE DEF k
<1>12. k <= Limits.max_complexity
  BY <1>2, <1>7, <1>10, <1>11 DEF n
<1>13. Bounded(EachOnce(results))
  BY <1>7, <1>12 DEF Bounded
<1> QED
  BY <1>3, <1>6, <1>13 DEF s

\* The answer to a query, with a planned limit or without.
LEMMA ReportBounded ==
  ASSUME hooks \in HookSets, NEW m, GoodFilters(m.filters), ValidateComplexity(m.filters),
         QueryReport(m) # None
  PROVE  Bounded(QueryReport(m)[1].events)
<1> DEFINE mode == IF hooks.plan = None THEN <<"default">> ELSE <<"override", hooks.plan[1]>>
           reports == QueryReports(m)
           filters == m.filters
           found == [i \in DOMAIN filters |-> reports[1][i].events]
           projected == [i \in DOMAIN filters |-> ProjectedSet(filters, found[i])]
           Cut(E) == [i \in DOMAIN filters |-> Truncated(SortAndDedupe(E[i]), EffectiveLimit(filters[i]))]
           All(E) == UNION {Cut(E)[i] : i \in DOMAIN Cut(E)}
<1>1. reports = TryAll([i \in DOMAIN filters |-> QueryFilter(filters[i], mode, QueryConfig.allow_scraping)])
  BY DEF QueryReports
<1>2. reports # None
  BY DEF QueryReport, Then
<1>3. QueryReport(m)[1] = IF hooks.plan = None THEN QueryThenProject(m, reports[1])
                          ELSE ProjectThenLimit(m, reports[1])
  BY <1>2 DEF QueryReport, Then, Some
<1>4. QueryThenProject(m, reports[1]).events = ProjectSequence(filters, SortAndDedupe(All(found)))
  BY DEF QueryThenProject
<1>5. ProjectThenLimit(m, reports[1]).events = SortAndDedupe(All(projected))
  BY DEF ProjectThenLimit
<1> HIDE DEF mode, reports
<1>6. \A i \in DOMAIN filters :
        reports[1][i] = EventReport(Looked(filters[i], LimitOf(filters[i], mode)))
  BY <1>1, <1>2, ReportsAre
<1>7. \A i \in DOMAIN filters : \A e \in found[i] : Shown(filters, e)
  <2> SUFFICES ASSUME NEW i \in DOMAIN filters, NEW e \in found[i] PROVE Shown(filters, e)
    OBVIOUS
  <2>1. e \in EventReport(Looked(filters[i], LimitOf(filters[i], mode))).events
    BY <1>6
  <2> QED BY <2>1, FoundAreShown
<1> HIDE DEF found
<1>8. \A i \in DOMAIN filters : \A e \in projected[i] : Shown(filters, e)
  <2> SUFFICES ASSUME NEW i \in DOMAIN filters, NEW x \in found[i], NEW e \in ToSet(Projected(filters, x))
               PROVE  Shown(filters, e)
    BY DEF ProjectedSet
  <2>1. Projected(filters, x) # None
    BY DEF ToSet, None
  <2>2. PICK y : Projected(filters, x) = Some(y) /\ Shown(filters, y)
    BY <1>7, <2>1, ProjectedIsShown
  <2> QED BY <2>2 DEF ToSet, Some
<1> HIDE DEF projected
<1>9. ASSUME NEW E, \A i \in DOMAIN filters : \A e \in E[i] : Shown(filters, e)
      PROVE  /\ Cardinality(All(E)) <= Limits.max_complexity
             /\ \A e \in All(E) : Shown(filters, e)
  <2> DEFINE parts == Cut(E)
  <2>1. \A i \in DOMAIN filters : E[i] \in SUBSET ToSet(Store)
    BY <1>9 DEF Shown
  <2>2. \A i \in DOMAIN filters : parts[i] \in SUBSET E[i]
    <3> SUFFICES ASSUME NEW i \in DOMAIN filters PROVE parts[i] \in SUBSET E[i]
      OBVIOUS
    <3>1. Truncated(SortAndDedupe(E[i]), EffectiveLimit(filters[i])) \in SUBSET E[i]
      BY <2>1, TruncatedIn
    <3> QED BY <3>1
  <2>3. parts = [i \in DOMAIN filters |-> Truncated(SortAndDedupe(E[i]), EffectiveLimit(filters[i]))]
    OBVIOUS
  <2>4. DOMAIN parts = DOMAIN filters
    OBVIOUS
  <2> HIDE DEF parts, filters
  <2>5. Cardinality(UNION {parts[i] : i \in DOMAIN parts}) <= Limits.max_complexity
    BY <2>1, <2>3, PartsBounded DEF filters
  <2>6. \A e \in UNION {parts[i] : i \in DOMAIN parts} : Shown(filters, e)
    BY <1>9, <2>2, <2>4
  <2> QED BY <2>5, <2>6 DEF parts
<1>10. Bounded(ProjectSequence(filters, SortAndDedupe(All(found))))
  <2> DEFINE all == All(found)
  <2>1. Cardinality(all) <= Limits.max_complexity /\ \A e \in all : Shown(filters, e)
    BY <1>7, <1>9
  <2> HIDE DEF all
  <2>2. Bounded(ProjectSequence(filters, SortAndDedupe(all)))
    BY <2>1, SortedBounded
  <2> QED BY <2>2 DEF all
<1>11. Bounded(SortAndDedupe(All(projected)))
  <2> DEFINE all == All(projected)
  <2>1. Cardinality(all) <= Limits.max_complexity /\ \A e \in all : Shown(filters, e)
    BY <1>8, <1>9
  <2> HIDE DEF all
  <2>2. Bounded(SortAndDedupe(all))
    BY <2>1, SortedBounded
  <2> QED BY <2>2 DEF all
<1> HIDE DEF Cut, All
<1> QED
  BY <1>3, <1>4, <1>5, <1>10, <1>11

\* What an answer is held to.
Within(a) ==
  a # <<>> /\ Last(a).type \in {"EOSE", "CLOSED"} => Cardinality(EventsOf(a)) <= Limits.max_complexity

\* One message that is no event is within it,
LEMMA OneWithin ==
  ASSUME NEW t, t.type # "EVENT"
  PROVE  Within(<<t>>)
<1>1. ToSet(<<t>>) = {t}
  BY DEF ToSet
<1>2. EventsOf(<<t>>) = {}
  BY <1>1 DEF EventsOf
<1>3. Cardinality({}) = 0
  BY FS_EmptySet
<1>4. Limits.max_complexity \in Nat
  BY LimitsAssumption DEF LimitNames
<1>5. Cardinality(EventsOf(<<t>>)) <= Limits.max_complexity
  BY <1>2, <1>3, <1>4
<1> QED
  BY <1>5 DEF Within

\* and so are as many events as are allowed,
LEMMA EventsWithin ==
  ASSUME NEW sub, NEW s, Bounded(s), NEW t, t.type # "EVENT"
  PROVE  Within(EventMessages(sub, s) \o <<t>>)
<1> DEFINE a == EventMessages(sub, s) \o <<t>>
<1>1. PICK n \in Nat : DOMAIN s = 1..n /\ n <= Limits.max_complexity
  BY DEF Bounded
<1>2. /\ DOMAIN a = 1..(n + 1)
      /\ \A i \in 1..n : a[i] = [type |-> "EVENT", sub |-> sub, event |-> s[i]]
      /\ a[n + 1] = t
  BY <1>1, AnswerShape
<1> HIDE DEF a
<1>3. EventsOf(a) = {s[i] : i \in 1..n}
  <2>1. \A i \in 1..(n + 1) : i \in 1..n \/ i = n + 1
    BY <1>1
  <2>2. \A i \in 1..n : i \in 1..(n + 1)
    BY <1>1
  <2>3. ToSet(a) = {a[i] : i \in 1..(n + 1)}
    BY <1>2 DEF ToSet
  <2>4. ASSUME NEW m \in ToSet(a), m.type = "EVENT" PROVE \E i \in 1..n : m.event = s[i]
    <3>1. PICK i \in 1..(n + 1) : m = a[i]
      BY <2>3
    <3>2. i \in 1..n
      BY <1>2, <2>1, <2>4, <3>1
    <3>3. m = [type |-> "EVENT", sub |-> sub, event |-> s[i]]
      BY <1>2, <3>1, <3>2
    <3>4. m.event = s[i]
      BY <3>3
    <3> QED BY <3>2, <3>4
  <2>5. ASSUME NEW i \in 1..n PROVE \E m \in ToSet(a) : m.type = "EVENT" /\ m.event = s[i]
    <3>1. a[i] \in ToSet(a)
      BY <2>2, <2>3
    <3>2. a[i] = [type |-> "EVENT", sub |-> sub, event |-> s[i]]
      BY <1>2
    <3>3. a[i].type = "EVENT" /\ a[i].event = s[i]
      BY <3>2
    <3> QED BY <3>1, <3>3
  <2>6. EventsOf(a) \in SUBSET {s[i] : i \in 1..n}
    BY <2>4 DEF EventsOf
  <2>7. {s[i] : i \in 1..n} \in SUBSET EventsOf(a)
    <3> SUFFICES ASSUME NEW i \in 1..n PROVE s[i] \in EventsOf(a)
      OBVIOUS
    <3>1. PICK m \in ToSet(a) : m.type = "EVENT" /\ m.event = s[i]
      BY <2>5
    <3> QED BY <3>1 DEF EventsOf
  <2> QED BY <2>6, <2>7
<1>4. IsFiniteSet({s[i] : i \in 1..n}) /\ Cardinality({s[i] : i \in 1..n}) <= n
  <2> DEFINE I == 1..n
             f == [i \in I |-> s[i]]
             T == {s[i] : i \in I}
  <2>1. f \in Surjection(I, T)
    BY DEF Surjection
  <2>2. IsFiniteSet(I) /\ Cardinality(I) = n
    BY PositionsCount
  <2> HIDE DEF f, T, I
  <2>3. IsFiniteSet(T) /\ Cardinality(T) <= Cardinality(I)
    BY <2>1, <2>2, FS_Surjection
  <2> QED BY <2>2, <2>3 DEF T, I
<1>5. Cardinality({s[i] : i \in 1..n}) \in Nat
  BY <1>4, FS_CardinalityType
<1>6. Limits.max_complexity \in Nat
  BY LimitsAssumption DEF LimitNames
<1>7. Cardinality(EventsOf(a)) <= Limits.max_complexity
  BY <1>1, <1>3, <1>4, <1>5, <1>6
<1> QED
  BY <1>7 DEF Within, a

\* while events alone do not end an answer to a query.
LEMMA EventsEndNothing ==
  ASSUME NEW sub, NEW s, NEW n \in Nat, DOMAIN s = 1..n
  PROVE  Within(EventMessages(sub, s))
<1> DEFINE a == EventMessages(sub, s)
<1>1. DOMAIN a = 1..n /\ \A i \in 1..n : a[i].type = "EVENT"
  BY DEF EventMessages
<1>2. a = [i \in 1..n |-> a[i]]
  BY DEF EventMessages
<1> HIDE DEF a
<1>3. a \in Seq({a[i] : i \in 1..n}) /\ Len(a) = n
  BY <1>1, <1>2, MappedLen
<1>4. a # <<>> => n \in 1..n
  <2>1. n = 0 => 1..n = {}
    OBVIOUS
  <2>2. n = 0 => a = <<>>
    BY <1>2, <2>1
  <2> QED BY <2>2
<1>5. a # <<>> => Last(a).type = "EVENT"
  BY <1>1, <1>3, <1>4 DEF Last
<1> QED
  BY <1>5 DEF Within, a

\* Every step answers within it.
LEMMA WithinStep ==
  ASSUME MessageInv, AnswerBounded, [Next]_vars
  PROVE  AnswerBounded'
<1>1. ASSUME Within(answer') PROVE AnswerBounded'
  BY <1>1 DEF Within, AnswerBounded, EventsOf
<1>2. \A reply : Respond(reply) => answer' = reply
  BY DEF Respond
<1>3. \A sub, why : Within(Closed(sub, why)) /\ Within(Notice)
  BY Endings, OneWithin
<1>4. CASE UNCHANGED vars
  BY <1>4 DEF AnswerBounded, EventsOf, vars
<1>5. CASE Parse
  <2>1. answer' = Notice \/ answer' = <<>>
    BY <1>5 DEF Parse
  <2>2. Within(<<>>)
    BY DEF Within
  <2> QED BY <1>1, <1>3, <2>1, <2>2
<1>6. CASE HandleReq
  <2> DEFINE m == message[1]
  <2>1. \/ Respond(Notice)
        \/ Respond(SearchClosed(m))
        \/ /\ ~Refused(m)
           /\ QueryReport(m) # None
           /\ Respond(EventMessages(m.sub, QueryReport(m)[1].events) \o Ending(m.sub, QueryReport(m)[1].denied))
    BY <1>6 DEF HandleReq, AnswerReq
  <2>2. GoodFilters(m.filters)
    BY <1>6, PendingFilters DEF HandleReq, Pending
  <2> HIDE DEF m
  <2>3. ASSUME ~Refused(m), QueryReport(m) # None
        PROVE  Within(EventMessages(m.sub, QueryReport(m)[1].events) \o Ending(m.sub, QueryReport(m)[1].denied))
    <3>1. ValidateComplexity(m.filters)
      BY <2>3 DEF Refused, ValidateFilters
    <3>2. Bounded(QueryReport(m)[1].events)
      BY <2>2, <2>3, <3>1, ReportBounded DEF MessageInv
    <3>3. PICK t : Ending(m.sub, QueryReport(m)[1].denied) = <<t>> /\ t.type # "EVENT"
      BY Endings
    <3>4. Within(EventMessages(m.sub, QueryReport(m)[1].events) \o <<t>>)
      BY <3>2, <3>3, EventsWithin
    <3> QED BY <3>3, <3>4
  <2>4. Within(answer')
    BY <1>2, <1>3, <2>1, <2>3 DEF SearchClosed
  <2> QED BY <1>1, <2>4
<1>7. CASE HandleCount
  <2> DEFINE m == message[1]
  <2>1. \/ Respond(Notice)
        \/ Respond(Closed(m.sub, "unsupported"))
        \/ Respond(Closed(m.sub, "restricted"))
        \/ Respond(<<CountMessage(m, CountReports(m)[1])>>)
    BY <1>7 DEF HandleCount, AnswerCount, SearchClosed
  <2> HIDE DEF m
  <2>2. \A reports : CountMessage(m, reports).type = "COUNT"
    BY DEF CountMessage
  <2>3. \A reports : Within(<<CountMessage(m, reports)>>)
    BY <2>2, OneWithin
  <2>4. Within(answer')
    BY <1>2, <1>3, <2>1, <2>3
  <2> QED BY <1>1, <2>4
<1>8. CASE HandleNegentropy
  <2> DEFINE t == [type |-> "NEG-ERR", sub |-> message[1].sub, message |-> Word("blocked")]
  <2>1. Respond(Notice) \/ Respond(<<t>>)
    BY <1>8 DEF HandleNegentropy
  <2>2. t.type # "EVENT"
    OBVIOUS
  <2> HIDE DEF t
  <2>3. Within(answer')
    BY <1>2, <1>3, <2>1, <2>2, OneWithin
  <2> QED BY <1>1, <2>3
<1>9. ASSUME NEW offset \in Offsets, Fanout(offset) PROVE AnswerBounded'
  <2> DEFINE m == message[1]
             c == LiveCandidates(offset)
             s == EachOnce([i \in DOMAIN c |-> LiveOutput(m.filters, c[i])])
  <2>1. Respond(EventMessages(m.sub, s))
    BY <1>9 DEF Fanout
  <2>2. ShownSeq(m.filters, s)
    BY FanoutShown
  <2> HIDE DEF m, c, s
  <2>3. Within(EventMessages(m.sub, s))
    BY <2>2, EventsEndNothing DEF ShownSeq, Distinct
  <2> QED BY <1>1, <1>2, <2>1, <2>3
<1> QED
  BY <1>4, <1>5, <1>6, <1>7, <1>8, <1>9 DEF Next

\* max_query_complexity bounds the events a REQ is answered with, whatever limits its
\* filters ask for, the hooks plan and the store holds (validate_complexity,
\* query_events_report_with_services, query_projected_req_with_auth_report): a filter
\* weighs at least as much as the events it asks for, and projection adds none.
THEOREM AnswersAreBounded == Spec => []AnswerBounded
<1>1. Init => MessageInv /\ AnswerBounded
  BY MessageInit DEF Init, AnswerBounded
<1>2. MessageInv /\ AnswerBounded /\ [Next]_vars => MessageInv' /\ AnswerBounded'
  BY MessageStep, WithinStep
<1> QED
  BY <1>1, <1>2, PTL DEF Spec
=============================================================================
