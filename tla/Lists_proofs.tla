---------------------------- MODULE Lists_proofs ----------------------------
(***************************************************************************)
(* Facts about lists, keyed lists and sorting that the proofs about the    *)
(* other modules rest on.                                                  *)
(***************************************************************************)
EXTENDS Lists, FiniteSetTheorems, FunctionTheorems, SequenceTheorems, WellFoundedInduction, TLAPS

(***************************************************************************)
(* Ordered lists a finite set by rank, each element once.                  *)
(***************************************************************************)
Place(S, rank, x) == Cardinality({y \in S : rank[y] < rank[x]})

LEMMA PlaceProperties ==
  ASSUME NEW S, IsFiniteSet(S), NEW rank \in [S -> Nat],
         \A x, y \in S : rank[x] = rank[y] => x = y
  PROVE  /\ Cardinality(S) \in Nat
         /\ \A x \in S : Place(S, rank, x) \in 0..(Cardinality(S) - 1)
         /\ \A x, y \in S : rank[x] < rank[y] <=> Place(S, rank, x) < Place(S, rank, y)
         /\ \A x, y \in S : Place(S, rank, x) = Place(S, rank, y) => x = y
  <1> DEFINE below(x) == {y \in S : rank[y] < rank[x]}
  <1>1. \A x \in S : IsFiniteSet(below(x)) /\ Cardinality(below(x)) \in Nat
    BY FS_Subset, FS_CardinalityType
  <1>2. ASSUME NEW x \in S, NEW T, T \subseteq S, IsFiniteSet(T), below(x) \cup {x} \subseteq T
        PROVE  Cardinality(T) \in Nat /\ Cardinality(below(x)) < Cardinality(T)
    <2>1. x \notin below(x)
      OBVIOUS
    <2>2. below(x) \cup {x} \in SUBSET T
      BY <1>2
    <2>3. IsFiniteSet(below(x)) /\ Cardinality(below(x)) \in Nat
      BY <1>1
    <2> HIDE DEF below
    <2>4. Cardinality(below(x) \cup {x}) = Cardinality(below(x)) + 1
      BY <2>1, <2>3, FS_AddElement
    <2>5. Cardinality(below(x) \cup {x}) <= Cardinality(T)
      BY <1>2, <2>2, FS_Subset
    <2>6. Cardinality(T) \in Nat
      BY <1>2, FS_CardinalityType
    <2> QED
      BY <2>3, <2>4, <2>5, <2>6
  <1>3. Cardinality(S) \in Nat
    BY FS_CardinalityType
  <1>4. \A x \in S : Cardinality(below(x)) \in 0..(Cardinality(S) - 1)
    <2> TAKE x \in S
    <2>1. below(x) \cup {x} \subseteq S
      OBVIOUS
    <2>2. Cardinality(below(x)) < Cardinality(S)
      BY <1>2, <2>1
    <2> QED
      BY <1>1, <1>3, <2>2
  <1>5. ASSUME NEW x \in S, NEW y \in S, rank[x] < rank[y]
        PROVE  Cardinality(below(x)) < Cardinality(below(y))
    <2>1. below(x) \cup {x} \subseteq below(y) /\ below(y) \subseteq S
      BY <1>5
    <2> QED
      BY <1>1, <1>2, <2>1
  <1>6. \A x, y \in S : rank[x] < rank[y] \/ x = y \/ rank[y] < rank[x]
    OBVIOUS
  <1> HIDE DEF below
  <1>7. \A x, y \in S : rank[x] < rank[y] <=> Cardinality(below(x)) < Cardinality(below(y))
    BY <1>1, <1>5, <1>6
  <1>8. \A x, y \in S : Cardinality(below(x)) = Cardinality(below(y)) => x = y
    BY <1>1, <1>5, <1>6
  <1> QED
    BY <1>3, <1>4, <1>7, <1>8 DEF Place, below

LEMMA OrderedProperties ==
  ASSUME NEW S, IsFiniteSet(S), NEW rank \in [S -> Nat],
         \A x, y \in S : rank[x] = rank[y] => x = y
  PROVE  /\ Cardinality(S) \in Nat
         /\ Ordered(S, rank) \in [1..Cardinality(S) -> S]
         /\ \A n \in 1..Cardinality(S) : Place(S, rank, Ordered(S, rank)[n]) = n - 1
         /\ \A m, n \in 1..Cardinality(S) :
              m < n => rank[Ordered(S, rank)[m]] < rank[Ordered(S, rank)[n]]
         /\ Range(Ordered(S, rank)) = S
  <1> DEFINE size == Cardinality(S)
             o == Ordered(S, rank)
             place == [x \in S |-> Place(S, rank, x) + 1]
  <1>1. size \in Nat /\ place \in [S -> 1..size]
    BY PlaceProperties
  <1>2. place \in Injection(S, 1..size)
    BY <1>1, PlaceProperties, Fun_IsInj, SMTT(30)
  <1>3. place \in Surjection(S, 1..size)
    BY <1>1, <1>2, FS_Interval, FS_Injection
  <1>4. \A n \in 1..size : \E x \in S : Place(S, rank, x) = n - 1
    <2> TAKE n \in 1..size
    <2>1. PICK x \in S : place[x] = n
      BY <1>3 DEF Surjection
    <2>2. Place(S, rank, x) \in Int /\ n \in Int /\ n = Place(S, rank, x) + 1
      BY <1>1, <2>1, PlaceProperties
    <2> QED
      BY <2>2
  <1>5. /\ DOMAIN o = 1..size
        /\ \A n \in 1..size : o[n] = CHOOSE x \in S : Place(S, rank, x) = n - 1
    BY DEF Ordered, Place
  <1>6. \A n \in 1..size : o[n] \in S /\ Place(S, rank, o[n]) = n - 1
    BY <1>4, <1>5
  <1>7. o \in [1..size -> S]
    BY <1>5, <1>6 DEF Ordered
  <1>8. \A m, n \in 1..size : m < n => rank[o[m]] < rank[o[n]]
    BY <1>1, <1>6, PlaceProperties
  <1>9. \A x \in S : \E n \in 1..size : o[n] = x
    <2> TAKE x \in S
    <2>1. place[x] \in 1..size /\ Place(S, rank, x) = place[x] - 1
      BY <1>1, PlaceProperties
    <2>2. Place(S, rank, o[place[x]]) = Place(S, rank, x) /\ o[place[x]] \in S
      BY <1>6, <2>1
    <2> QED
      BY <2>1, <2>2, PlaceProperties
  <1> QED
    BY <1>1, <1>6, <1>7, <1>8, <1>9 DEF Range

(* There is only one way to list it so.                                    *)
LEMMA OrderedUnique ==
  ASSUME NEW S, IsFiniteSet(S), NEW rank \in [S -> Nat],
         \A x, y \in S : rank[x] = rank[y] => x = y,
         NEW g \in [1..Cardinality(S) -> S],
         \A m, n \in 1..Cardinality(S) : m < n => rank[g[m]] < rank[g[n]]
  PROVE  g = Ordered(S, rank)
  <1> DEFINE size == Cardinality(S)
  <1>1. size \in Nat
    BY FS_CardinalityType
  <1>2. \A m, n \in 1..size : m < n <=> rank[g[m]] < rank[g[n]]
    BY <1>1
  <1>3. g \in Injection(1..size, S)
    BY <1>1, <1>2, Fun_IsInj
  <1>4. g \in Surjection(1..size, S)
    BY <1>1, <1>3, FS_Interval, FS_Injection
  <1>5. ASSUME NEW n \in 1..size
        PROVE  Place(S, rank, g[n]) = n - 1
    <2> DEFINE below == {y \in S : rank[y] < rank[g[n]]}
               h == [m \in 1..(n - 1) |-> g[m]]
    <2>1. h \in [1..(n - 1) -> below]
      BY <1>1, <1>2
    <2>2. \A a, b \in 1..(n - 1) : h[a] = h[b] => a = b
      BY <1>1, <1>3 DEF Injection, IsInjective
    <2>3. \A y \in below : \E m \in 1..(n - 1) : h[m] = y
      <3> TAKE y \in below
      <3>1. PICK m \in 1..size : g[m] = y
        BY <1>4 DEF Surjection
      <3>2. m < n
        BY <1>2, <3>1
      <3> QED
        BY <1>1, <3>1, <3>2
    <2>4. h \in Bijection(1..(n - 1), below)
      BY <2>1, <2>2, <2>3, Fun_IsBij
    <2>5. n - 1 \in Nat
      BY <1>1
    <2>6. Cardinality(below) = n - 1
      BY <2>4, <2>5, FS_CountingElements DEF ExistsBijection
    <2> QED
      BY <2>6 DEF Place
  <1>6. \A n \in 1..size : g[n] = Ordered(S, rank)[n]
    BY <1>5, OrderedProperties, PlaceProperties
  <1> QED
    BY <1>6, OrderedProperties

(***************************************************************************)
(* Lists, and lists of entries with a key.                                 *)
(***************************************************************************)
LEMMA ListProperties ==
  ASSUME NEW S, NEW s \in Seq(S)
  PROVE  /\ Len(s) \in Nat /\ DOMAIN s = 1..Len(s)
         /\ \A n \in DOMAIN s : s[n] \in S
         /\ Range(s) \subseteq S /\ \A x : x \in Range(s) <=> \E n \in DOMAIN s : s[n] = x
         /\ Keys(s) = {e.key : e \in Range(s)}
         /\ s = <<>> <=> Len(s) = 0
  <1>1. Len(s) \in Nat /\ DOMAIN s = 1..Len(s)
    BY LenProperties
  <1>2. \A n \in DOMAIN s : s[n] \in S
    BY <1>1, ElementOfSeq
  <1>3. s = <<>> <=> Len(s) = 0
    BY EmptySeq
  <1> QED
    BY <1>1, <1>2, <1>3 DEF Range, Keys

LEMMA EmptyList ==
  /\ DOMAIN <<>> = {} /\ Range(<<>>) = {} /\ Keys(<<>>) = {} /\ UniqueKeys(<<>>)
  /\ \A S : <<>> \in Seq(S)
  BY DEF Range, Keys, UniqueKeys

LEMMA PlaceOfKey ==
  ASSUME NEW s, NEW key \in Keys(s)
  PROVE  /\ IndexOf(s, key) \in DOMAIN s /\ s[IndexOf(s, key)].key = key
         /\ UniqueKeys(s) => \A n \in DOMAIN s : s[n].key = key => n = IndexOf(s, key)
  BY DEF Keys, IndexOf, UniqueKeys

(* The keys of a list in their order, and the order kept from one list to  *)
(* another: what stands before an old element stood before it already.     *)
KeyList(s) == [n \in DOMAIN s |-> s[n].key]

InOrder(s, t) ==
    \A i, j \in DOMAIN t : i < j =>
      t[j] \notin Range(s) \/ \E k, l \in DOMAIN s : k < l /\ s[k] = t[i] /\ s[l] = t[j]

LEMMA AppendList ==
  ASSUME NEW S, NEW s \in Seq(S), NEW e \in S
  PROVE  /\ Append(s, e) \in Seq(S) /\ Append(s, e) # <<>>
         /\ DOMAIN Append(s, e) = 1..(Len(s) + 1)
         /\ \A n \in 1..Len(s) : Append(s, e)[n] = s[n]
         /\ Append(s, e)[Len(s) + 1] = e
         /\ Range(Append(s, e)) = Range(s) \cup {e}
  <1>1. /\ Append(s, e) \in Seq(S) /\ Append(s, e) # <<>>
        /\ Len(Append(s, e)) = Len(s) + 1 /\ Len(s) \in Nat
        /\ \A n \in 1..Len(s) : Append(s, e)[n] = s[n]
        /\ Append(s, e)[Len(s) + 1] = e
    BY AppendProperties, ListProperties
  <1>2. DOMAIN Append(s, e) = 1..(Len(s) + 1) /\ DOMAIN s = 1..Len(s)
    BY <1>1, ListProperties
  <1> HIDE DEF Range
  <1>3. \A n \in 1..(Len(s) + 1) : n \in 1..Len(s) \/ n = Len(s) + 1
    BY <1>1
  <1>4. 1..Len(s) \subseteq 1..(Len(s) + 1) /\ Len(s) + 1 \in 1..(Len(s) + 1)
    BY <1>1
  <1>5. Range(Append(s, e)) = Range(s) \cup {e}
    BY <1>1, <1>2, <1>3, <1>4, Zenon DEF Range
  <1> QED
    BY <1>1, <1>2, <1>5

LEMMA ReplaceList ==
  ASSUME NEW S, NEW s \in Seq(S), NEW e \in S, NEW i \in DOMAIN s
  PROVE  /\ [s EXCEPT ![i] = e] \in Seq(S) /\ [s EXCEPT ![i] = e] # <<>>
         /\ DOMAIN [s EXCEPT ![i] = e] = DOMAIN s
         /\ \A n \in DOMAIN s : [s EXCEPT ![i] = e][n] = IF n = i THEN e ELSE s[n]
  BY ExceptSeq, ListProperties

LEMMA RemoveList ==
  ASSUME NEW S, NEW s \in Seq(S), NEW i \in DOMAIN s
  PROVE  /\ RemoveAt(s, i) \in Seq(S) /\ DOMAIN RemoveAt(s, i) = 1..(Len(s) - 1)
         /\ \A n \in 1..(Len(s) - 1) : RemoveAt(s, i)[n] = IF n < i THEN s[n] ELSE s[n + 1]
  <1>1. Len(s) \in Nat /\ i \in 1..Len(s) /\ \A n \in 1..Len(s) : s[n] \in S
    BY ListProperties
  <1> DEFINE a == SubSeq(s, 1, i - 1)
             b == SubSeq(s, i + 1, Len(s))
  <1>2. /\ a \in Seq(S) /\ Len(a) = i - 1
        /\ \A n \in 1..(i - 1) : a[n] = s[n]
    <2>1. \A n \in 1..(i - 1) : s[n] \in S
      BY <1>1
    <2>2. /\ a \in Seq(S) /\ Len(a) = IF 1 <= i - 1 THEN (i - 1) - 1 + 1 ELSE 0
          /\ \A n \in 1..((i - 1) - 1 + 1) : a[n] = s[1 + n - 1]
      BY <1>1, <2>1, SubSeqProperties
    <2> HIDE DEF a
    <2> QED
      BY <1>1, <2>2
  <1>3. /\ b \in Seq(S) /\ Len(b) = Len(s) - i
        /\ \A n \in 1..(Len(s) - i) : b[n] = s[i + n]
    <2>1. \A n \in (i + 1)..Len(s) : s[n] \in S
      BY <1>1
    <2>2. /\ b \in Seq(S) /\ Len(b) = IF i + 1 <= Len(s) THEN Len(s) - (i + 1) + 1 ELSE 0
          /\ \A n \in 1..(Len(s) - (i + 1) + 1) : b[n] = s[(i + 1) + n - 1]
      BY <1>1, <2>1, SubSeqProperties
    <2> HIDE DEF b
    <2> QED
      BY <1>1, <2>2
  <1> HIDE DEF a, b
  <1>4. Len(a) + Len(b) = Len(s) - 1
    BY <1>1, <1>2, <1>3
  <1>5. /\ a \o b \in Seq(S) /\ Len(a \o b) = Len(s) - 1
        /\ \A n \in 1..(Len(s) - 1) : (a \o b)[n] = IF n <= Len(a) THEN a[n] ELSE b[n - Len(a)]
    <2>1. a \in Seq(S) /\ b \in Seq(S)
      BY <1>2, <1>3
    <2>2. /\ a \o b \in Seq(S) /\ Len(a \o b) = Len(a) + Len(b)
          /\ \A n \in 1..(Len(a) + Len(b)) :
               (a \o b)[n] = IF n <= Len(a) THEN a[n] ELSE b[n - Len(a)]
      BY <2>1, ConcatProperties, Zenon
    <2> QED
      BY <1>4, <2>2, Zenon
  <1>6. \A n \in 1..(Len(s) - 1) : (a \o b)[n] = IF n < i THEN s[n] ELSE s[n + 1]
    <2> TAKE n \in 1..(Len(s) - 1)
    <2>1. CASE n < i
      <3>1. n <= Len(a) /\ n \in 1..(i - 1)
        BY <1>1, <1>2, <2>1
      <3> QED
        BY <1>2, <1>5, <2>1, <3>1
    <2>2. CASE ~(n < i)
      <3>1. ~(n <= Len(a)) /\ n - Len(a) \in 1..(Len(s) - i) /\ i + (n - Len(a)) = n + 1
        BY <1>1, <1>2, <2>2
      <3> QED
        BY <1>3, <1>5, <2>2, <3>1
    <2> QED
      BY <2>1, <2>2
  <1>7. DOMAIN (a \o b) = 1..(Len(s) - 1)
    BY <1>5, ListProperties
  <1>8. RemoveAt(s, i) = a \o b
    BY DEF RemoveAt, a, b
  <1> QED
    BY <1>5, <1>6, <1>7, <1>8

(* del d[key].                                                             *)
LEMMA DropList ==
  ASSUME NEW S, NEW s \in Seq(S), UniqueKeys(s), NEW key \in Keys(s)
  PROVE  /\ Drop(s, key) \in Seq(S) /\ UniqueKeys(Drop(s, key))
         /\ Range(Drop(s, key)) = {e \in Range(s) : e.key # key}
         /\ InOrder(KeyList(s), KeyList(Drop(s, key)))
  <1> DEFINE i == IndexOf(s, key)
             t == Drop(s, key)
             from(n) == IF n < i THEN n ELSE n + 1
  <1>1. Len(s) \in Nat /\ DOMAIN s = 1..Len(s) /\ i \in 1..Len(s) /\ s[i].key = key
    BY ListProperties, PlaceOfKey
  <1>2. \A n \in DOMAIN s : s[n].key = key => n = i
    BY PlaceOfKey
  <1>3. /\ t \in Seq(S) /\ DOMAIN t = 1..(Len(s) - 1)
        /\ \A n \in 1..(Len(s) - 1) : t[n] = s[from(n)]
    BY <1>1, RemoveList DEF Drop
  <1> HIDE DEF i, t
  <1>4. /\ \A n \in DOMAIN t : from(n) \in DOMAIN s /\ from(n) # i /\ t[n] = s[from(n)]
        /\ \A m, n \in DOMAIN t : from(m) = from(n) => m = n
        /\ \A m, n \in DOMAIN t : m < n => from(m) < from(n)
    BY <1>1, <1>3
  <1>5. \A n \in DOMAIN s : n # i => \E m \in DOMAIN t : from(m) = n
    <2> TAKE n \in DOMAIN s
    <2> SUFFICES ASSUME n # i
                 PROVE  \E m \in DOMAIN t : from(m) = n
      OBVIOUS
    <2>1. CASE n < i
      BY <1>1, <1>3, <2>1
    <2>2. CASE n > i
      <3>1. n - 1 \in DOMAIN t /\ from(n - 1) = n
        BY <1>1, <1>3, <2>2
      <3> QED
        BY <3>1
    <2> QED
      BY <1>1, <2>1, <2>2
  <1> HIDE DEF from
  <1>6. UniqueKeys(t)
    BY <1>4 DEF UniqueKeys
  <1>7. Range(t) = {e \in Range(s) : e.key # key}
    BY <1>1, <1>2, <1>4, <1>5 DEF Range
  <1>8. InOrder(KeyList(s), KeyList(t))
    BY <1>4 DEF InOrder, KeyList
  <1> QED
    BY <1>3, <1>6, <1>7, <1>8 DEF t

(* A list without repetitions has as many elements as places.              *)
LEMMA DistinctList ==
  ASSUME NEW S, NEW s \in Seq(S), IsInjective(s)
  PROVE  IsFiniteSet(Range(s)) /\ Cardinality(Range(s)) = Len(s) /\ Len(s) \in Nat
  <1>1. Len(s) \in Nat /\ s \in [1..Len(s) -> Range(s)]
    BY ListProperties DEF Range
  <1>2. s \in Bijection(1..Len(s), Range(s))
    BY <1>1, Fun_IsBij DEF IsInjective, Range
  <1>3. Cardinality(Range(s)) = Len(s)
    BY <1>1, <1>2, FS_CountingElements DEF ExistsBijection
  <1>4. IsFiniteSet(Range(s))
    BY <1>1, <1>2, FS_NatBijection DEF ExistsBijection
  <1> QED
    BY <1>1, <1>3, <1>4

LEMMA UniqueIsInjective ==
  ASSUME NEW s, UniqueKeys(s)
  PROVE  IsInjective(s) /\ \A d, e \in Range(s) : d.key = e.key => d = e
  BY DEF UniqueKeys, IsInjective, Range

(* A list in the order of a rank that tells its elements apart.            *)
LEMMA OrderedList ==
  ASSUME NEW S, NEW s \in Seq(S), IsInjective(s), NEW rank \in [Range(s) -> Nat],
         \A x, y \in Range(s) : rank[x] = rank[y] => x = y
  PROVE  LET t == Ordered(Range(s), rank)
         IN  /\ t \in Seq(S) /\ IsInjective(t) /\ Range(t) = Range(s)
             /\ t = <<>> <=> s = <<>>
             /\ \A m, n \in DOMAIN t : m < n => rank[t[m]] < rank[t[n]]
  <1> DEFINE t == Ordered(Range(s), rank)
  <1>1. IsFiniteSet(Range(s)) /\ Cardinality(Range(s)) = Len(s) /\ Len(s) \in Nat
    BY DistinctList
  <1>2. /\ t \in [1..Len(s) -> Range(s)] /\ Range(t) = Range(s)
        /\ \A m, n \in 1..Len(s) : m < n => rank[t[m]] < rank[t[n]]
    BY <1>1, OrderedProperties
  <1> HIDE DEF t
  <1>3. t \in Seq(Range(s))
    BY <1>1, <1>2, SeqDef
  <1>4. t \in Seq(S)
    BY <1>3, ListProperties, SeqMonotonic
  <1>5. DOMAIN t = 1..Len(s) /\ Len(t) = Len(s)
    BY <1>1, <1>2, <1>4, ListProperties
  <1>6. IsInjective(t)
    BY <1>1, <1>2, <1>5 DEF IsInjective
  <1>7. t = <<>> <=> s = <<>>
    BY <1>4, <1>5, ListProperties
  <1> QED
    BY <1>2, <1>4, <1>5, <1>6, <1>7 DEF t

(* sorted(s, key=...): the same entries by the byte order of their keys.   *)
LEMMA SortedEntries ==
  ASSUME NEW S, NEW s \in Seq(S), UniqueKeys(s),
         \A e, d \in S : Rank[e.key] \in Nat /\ (Rank[e.key] = Rank[d.key] => e.key = d.key)
  PROVE  /\ SortEntries(s) \in Seq(S) /\ UniqueKeys(SortEntries(s))
         /\ Range(SortEntries(s)) = Range(s)
         /\ SortEntries(s) = <<>> <=> s = <<>>
         /\ \A m, n \in DOMAIN SortEntries(s) :
              m < n => Rank[SortEntries(s)[m].key] < Rank[SortEntries(s)[n].key]
         /\ SortEntries(SortEntries(s)) = SortEntries(s)
  <1> DEFINE rank == [e \in Range(s) |-> Rank[e.key]]
             t == SortEntries(s)
  <1>1. Range(s) \subseteq S
    BY ListProperties
  <1>2. IsInjective(s) /\ \A d, e \in Range(s) : d.key = e.key => d = e
    BY UniqueIsInjective
  <1>3. rank \in [Range(s) -> Nat] /\ \A x, y \in Range(s) : rank[x] = rank[y] => x = y
    BY <1>1, <1>2
  <1>4. t = Ordered(Range(s), rank)
    BY DEF SortEntries
  <1> HIDE DEF rank, t
  <1>5. /\ t \in Seq(S) /\ IsInjective(t) /\ Range(t) = Range(s) /\ (t = <<>> <=> s = <<>>)
        /\ \A m, n \in DOMAIN t : m < n => rank[t[m]] < rank[t[n]]
    BY <1>2, <1>3, <1>4, OrderedList
  <1>6. \A n \in DOMAIN t : t[n] \in Range(s) /\ rank[t[n]] = Rank[t[n].key]
    BY <1>5 DEF rank, Range
  <1>7. \A m, n \in DOMAIN t : m < n => Rank[t[m].key] < Rank[t[n].key]
    BY <1>5, <1>6
  <1>8. UniqueKeys(t)
    BY <1>2, <1>5, <1>6 DEF UniqueKeys, IsInjective
  <1>9. SortEntries(t) = t
    BY <1>4, <1>5 DEF SortEntries, rank
  <1> QED
    BY <1>5, <1>7, <1>8, <1>9 DEF t

LEMMA SortedKinds ==
  ASSUME NEW S, NEW s \in Seq(S), IsInjective(s),
         \A k, l \in S : Rank[k] \in Nat /\ (Rank[k] = Rank[l] => k = l)
  PROVE  /\ SortKinds(s) \in Seq(S) /\ IsInjective(SortKinds(s))
         /\ Range(SortKinds(s)) = Range(s)
         /\ SortKinds(s) = <<>> <=> s = <<>>
         /\ \A m, n \in DOMAIN SortKinds(s) :
              m < n => Rank[SortKinds(s)[m]] < Rank[SortKinds(s)[n]]
         /\ SortKinds(SortKinds(s)) = SortKinds(s)
  <1> DEFINE rank == [k \in Range(s) |-> Rank[k]]
             t == SortKinds(s)
  <1>1. Range(s) \subseteq S
    BY ListProperties
  <1>2. rank \in [Range(s) -> Nat] /\ \A x, y \in Range(s) : rank[x] = rank[y] => x = y
    BY <1>1
  <1>3. t = Ordered(Range(s), rank)
    BY DEF SortKinds
  <1> HIDE DEF rank, t
  <1>4. /\ t \in Seq(S) /\ IsInjective(t) /\ Range(t) = Range(s) /\ (t = <<>> <=> s = <<>>)
        /\ \A m, n \in DOMAIN t : m < n => rank[t[m]] < rank[t[n]]
    BY <1>2, <1>3, OrderedList
  <1>5. \A n \in DOMAIN t : t[n] \in Range(s) /\ rank[t[n]] = Rank[t[n]]
    BY <1>4 DEF rank, Range
  <1>6. \A m, n \in DOMAIN t : m < n => Rank[t[m]] < Rank[t[n]]
    BY <1>4, <1>5
  <1>7. SortKinds(t) = t
    BY <1>3, <1>4 DEF SortKinds, rank
  <1> QED
    BY <1>4, <1>6, <1>7 DEF t

LEMMA IntervalSize ==
  ASSUME NEW n \in Nat, NEW i \in 1..n
  PROVE  IsFiniteSet((1..n) \ {i}) /\ Cardinality((1..n) \ {i}) = n - 1
  <1>1. IsFiniteSet(1..n) /\ Cardinality(1..n) = n
    BY FS_Interval
  <1> DEFINE all == 1..n
  <1>2. IsFiniteSet(all) /\ Cardinality(all) = n /\ i \in all
    BY <1>1
  <1> HIDE DEF all
  <1>3. IsFiniteSet(all \ {i}) /\ Cardinality(all \ {i}) = n - 1
    BY <1>2, FS_RemoveElement
  <1> QED
    BY <1>3 DEF all

LEMMA AppendDistinct ==
  ASSUME NEW S, NEW s \in Seq(S), IsInjective(s), NEW x \in S, x \notin Range(s)
  PROVE  /\ Append(s, x) \in Seq(S) /\ Append(s, x) # <<>> /\ IsInjective(Append(s, x))
         /\ Range(Append(s, x)) = Range(s) \cup {x}
         /\ InOrder(s, Append(s, x))
  <1> DEFINE t == Append(s, x)
             last == Len(s) + 1
  <1>1. /\ t \in Seq(S) /\ t # <<>> /\ DOMAIN t = 1..last
        /\ \A n \in 1..Len(s) : t[n] = s[n]
        /\ t[last] = x /\ Range(t) = Range(s) \cup {x}
    BY AppendList
  <1>2. Len(s) \in Nat /\ DOMAIN s = 1..Len(s) /\ \A n \in DOMAIN s : s[n] # x
    BY ListProperties
  <1> HIDE DEF t
  <1>3. /\ \A n \in DOMAIN t : n \in DOMAIN s \/ n = last
        /\ \A n \in DOMAIN s : n \in DOMAIN t /\ n < last /\ t[n] = s[n]
        /\ \A m, n \in DOMAIN t : m < n => m \in DOMAIN s
    BY <1>1, <1>2
  <1>4. IsInjective(t)
    BY <1>1, <1>2, <1>3 DEF IsInjective
  <1>5. InOrder(s, t)
    BY <1>1, <1>3 DEF InOrder
  <1> QED
    BY <1>1, <1>4, <1>5 DEF t

(* What was appended can be taken away again.                              *)
LEMMA RemoveLast ==
  ASSUME NEW S, NEW s \in Seq(S), NEW e
  PROVE  \E last \in DOMAIN Append(s, e) :
           /\ Append(s, e)[last] = e
           /\ \A n \in DOMAIN Append(s, e) :
                n # last => n \in DOMAIN s /\ Append(s, e)[n] = s[n]
           /\ RemoveAt(Append(s, e), last) = s
  <1> DEFINE t == Append(s, e)
             T == S \cup {e}
             last == Len(s) + 1
             u == RemoveAt(t, last)
  <1>1. s \in Seq(T) /\ e \in T
    BY SeqMonotonic
  <1> HIDE DEF T
  <1>2. /\ t \in Seq(T) /\ DOMAIN t = 1..last
        /\ \A n \in 1..Len(s) : t[n] = s[n]
        /\ t[last] = e
    BY <1>1, AppendList
  <1>3. Len(s) \in Nat /\ DOMAIN s = 1..Len(s) /\ s \in [1..Len(s) -> S]
    BY LenProperties
  <1> HIDE DEF t
  <1>4. last \in DOMAIN t /\ Len(t) = last
    BY <1>2, <1>3, ListProperties
  <1>5. /\ u \in Seq(T) /\ DOMAIN u = 1..(Len(t) - 1)
        /\ \A n \in 1..(Len(t) - 1) : u[n] = IF n < last THEN t[n] ELSE t[n + 1]
    BY <1>2, <1>4, RemoveList
  <1>6. DOMAIN u = 1..Len(s) /\ \A n \in 1..Len(s) : u[n] = s[n]
    BY <1>2, <1>3, <1>4, <1>5
  <1>7. u \in [1..Len(u) -> T] /\ 1..Len(u) = 1..Len(s)
    BY <1>5, <1>6, LenProperties
  <1> HIDE DEF u
  <1>8. u = s
    BY <1>3, <1>6, <1>7
  <1>9. \A n \in DOMAIN t : n # last => n \in DOMAIN s /\ t[n] = s[n]
    BY <1>2, <1>3
  <1> HIDE DEF last
  <1> QED
    BY <1>2, <1>4, <1>8, <1>9 DEF t, u

LEMMA DropAppended ==
  ASSUME NEW S, NEW s \in Seq(S), NEW e, e.key \notin Keys(s)
  PROVE  Drop(Append(s, e), e.key) = s
  <1> DEFINE t == Append(s, e)
  <1>1. PICK last \in DOMAIN t :
        /\ t[last] = e
        /\ \A n \in DOMAIN t : n # last => n \in DOMAIN s /\ t[n] = s[n]
        /\ RemoveAt(t, last) = s
    BY RemoveLast
  <1> HIDE DEF t
  <1>2. \A n \in DOMAIN t : t[n].key = e.key <=> n = last
    BY <1>1 DEF Keys
  <1>3. IndexOf(t, e.key) = last
    BY <1>1, <1>2 DEF IndexOf
  <1> QED
    BY <1>1, <1>3 DEF Drop, t

(***************************************************************************)
(* The places of a list that are chosen, the first and the last of them,   *)
(* and the first place that passes a test.                                 *)
(***************************************************************************)
LEMMA Extremes ==
  ASSUME NEW P \in SUBSET Nat, IsFiniteSet(P), P # {}
  PROVE  (\E n \in P : \A m \in P : n <= m) /\ (\E n \in P : \A m \in P : m <= n)
  <1> DEFINE rank == [n \in P |-> n]
             c == Cardinality(P)
             o == Ordered(P, rank)
  <1>1. rank \in [P -> Nat] /\ \A x, y \in P : rank[x] = rank[y] => x = y
    OBVIOUS
  <1>2. /\ c \in Nat /\ o \in [1..c -> P] /\ Range(o) = P
        /\ \A m, n \in 1..c : m < n => rank[o[m]] < rank[o[n]]
    BY <1>1, OrderedProperties
  <1>3. c # 0
    BY FS_EmptySet
  <1>4. \A n \in P : \E k \in 1..c : o[k] = n
    BY <1>2 DEF Range
  <1> HIDE DEF o, c
  <1>5. \A m, n \in 1..c : m < n => o[m] < o[n]
    BY <1>2
  <1>6. \A m \in P : o[1] <= m /\ m <= o[c]
    <2>1. TAKE m \in P
    <2>2. PICK k \in 1..c : o[k] = m
      BY <1>4
    <2>3. 1 \in 1..c /\ c \in 1..c /\ 1 <= k /\ k <= c
      BY <1>2, <1>3, <2>2
    <2>4. o[1] \in Nat /\ o[c] \in Nat /\ o[k] \in Nat
      BY <1>2, <2>2, <2>3
    <2>5. (k = 1 \/ o[1] < o[k]) /\ (k = c \/ o[k] < o[c])
      BY <1>2, <1>5, <2>2, <2>3
    <2> QED
      BY <2>2, <2>4, <2>5
  <1>7. o[1] \in P /\ o[c] \in P
    BY <1>2, <1>3
  <1> QED
    BY <1>6, <1>7

(* A list of what s has at the places of P, in their order.                *)
Picks(t, s, P) ==
    \E c \in Nat : \E at \in [1..c -> P] :
      /\ \A i, j \in 1..c : i < j => at[i] < at[j]
      /\ \A n \in P : \E i \in 1..c : at[i] = n
      /\ t = [i \in 1..c |-> s[at[i]]]

LEMMA ChosenPicks ==
  ASSUME NEW S, NEW s, NEW P \in SUBSET Nat, IsFiniteSet(P), \A n \in P : s[n] \in S
  PROVE  Chosen(s, P) \in Seq(S) /\ Range(Chosen(s, P)) = {s[n] : n \in P} /\ Picks(Chosen(s, P), s, P)
  <1> DEFINE rank == [n \in P |-> n]
             c == Cardinality(P)
             at == Ordered(P, rank)
             t == [i \in 1..c |-> s[at[i]]]
  <1>1. rank \in [P -> Nat] /\ \A x, y \in P : rank[x] = rank[y] => x = y
    OBVIOUS
  <1>2. /\ c \in Nat /\ at \in [1..c -> P] /\ Range(at) = P
        /\ \A m, n \in 1..c : m < n => rank[at[m]] < rank[at[n]]
    BY <1>1, OrderedProperties
  <1>3. Chosen(s, P) = [i \in DOMAIN at |-> s[at[i]]]
    BY DEF Chosen
  <1>4. \A n \in P : \E i \in 1..c : at[i] = n
    BY <1>2 DEF Range
  <1> HIDE DEF at, c
  <1>5. \A i, j \in 1..c : i < j => at[i] < at[j]
    BY <1>2
  <1>6. Chosen(s, P) = t
    BY <1>2, <1>3
  <1>7. t \in [1..c -> S]
    BY <1>2
  <1>8. t \in Seq(S) /\ Len(t) = c
    BY <1>2, <1>7, IsASeq, LenProperties
  <1>9. Range(t) = {s[n] : n \in P}
    BY <1>2, <1>4 DEF Range
  <1>10. Picks(t, s, P)
    BY <1>2, <1>4, <1>5 DEF Picks
  <1> QED
    BY <1>6, <1>8, <1>9, <1>10

LEMMA ChosenProperties ==
  ASSUME NEW S, NEW s, NEW P \in SUBSET Nat, IsFiniteSet(P), \A n \in P : s[n] \in S
  PROVE  /\ Chosen(s, P) \in Seq(S) /\ Range(Chosen(s, P)) = {s[n] : n \in P}
         /\ \E c \in Nat : \E at \in [1..c -> P] :
              /\ \A i, j \in 1..c : i < j => at[i] < at[j]
              /\ \A n \in P : \E i \in 1..c : at[i] = n
              /\ Chosen(s, P) = [i \in 1..c |-> s[at[i]]]
  <1>1. Chosen(s, P) \in Seq(S) /\ Range(Chosen(s, P)) = {s[n] : n \in P} /\ Picks(Chosen(s, P), s, P)
    BY ChosenPicks
  <1> QED
    BY <1>1 DEF Picks

LEMMA ChosenAll ==
  ASSUME NEW S, NEW s \in Seq(S)
  PROVE  Chosen(s, DOMAIN s) = s
  <1> DEFINE c == Len(s)
             rank == [n \in 1..c |-> n]
             g == [n \in 1..c |-> n]
  <1>1. c \in Nat /\ DOMAIN s = 1..c
    BY ListProperties
  <1>2. IsFiniteSet(1..c) /\ Cardinality(1..c) = c
    BY <1>1, FS_Interval
  <1>3. rank \in [1..c -> Nat] /\ \A x, y \in 1..c : rank[x] = rank[y] => x = y
    BY <1>1
  <1>4. g \in [1..c -> 1..c] /\ \A m, n \in 1..c : m < n => rank[g[m]] < rank[g[n]]
    OBVIOUS
  <1>5. g = Ordered(1..c, rank)
    BY <1>2, <1>3, <1>4, OrderedUnique
  <1>6. Chosen(s, DOMAIN s) = [k \in DOMAIN g |-> s[g[k]]]
    BY <1>1, <1>5 DEF Chosen
  <1>7. Chosen(s, DOMAIN s) = [k \in 1..c |-> s[k]]
    BY <1>6
  <1>8. s = [k \in 1..c |-> s[k]]
    BY <1>1, LenProperties
  <1> QED
    BY <1>7, <1>8

LEMMA PlacesFinite ==
  ASSUME NEW S, NEW s \in Seq(S), NEW P \in SUBSET DOMAIN s
  PROVE  P \in SUBSET Nat /\ IsFiniteSet(P)
  <1>1. Len(s) \in Nat /\ DOMAIN s = 1..Len(s)
    BY ListProperties
  <1>2. IsFiniteSet(1..Len(s))
    BY <1>1, FS_Interval
  <1> QED
    BY <1>1, <1>2, FS_Subset

LEMMA LeastPlace ==
  ASSUME NEW P \in SUBSET Nat, IsFiniteSet(P), P # {}
  PROVE  Min(P) \in P /\ \A n \in P : Min(P) <= n
  BY Extremes DEF Min

(***************************************************************************)
(* Induction over the natural numbers, and lists of lists made into one.   *)
(***************************************************************************)
LEMMA Induction ==
  ASSUME NEW T \in SUBSET Nat, 0 \in T, \A n \in T : n + 1 \in T
  PROVE  T = Nat
  <1> DEFINE less == {e \in Nat \X Nat : e[1] < e[2]}
  <1>1. IsWellFoundedOn(less, Nat)
    BY NatLessThanWellFounded DEF OpToRel
  <1>2. SUFFICES ASSUME Nat \ T # {} PROVE FALSE
    OBVIOUS
  <1>3. PICK x \in Nat \ T : \A y \in Nat \ T : <<y, x>> \notin less
    <2> HIDE DEF less
    <2> QED
      BY <1>1, <1>2, WFMin
  <1>4. x # 0 /\ x - 1 \in Nat /\ x - 1 < x
    BY <1>3
  <1>5. x - 1 \in T
    BY <1>3, <1>4
  <1> QED
    BY <1>3, <1>4, <1>5

Concatenates(flat, ss, n) ==
    flat[0] = <<>> /\ \A i \in 1..n : flat[i] = flat[i - 1] \o ss[i]

LEMMA ConcatenatedUpTo ==
  ASSUME NEW S, NEW ss \in Seq(Seq(S)), NEW n \in 0..Len(ss)
  PROVE  \E flat \in [0..n -> Seq(S)] : Concatenates(flat, ss, n)
  <1> DEFINE T == {k \in Nat : k <= Len(ss) =>
                     \E flat \in [0..k -> Seq(S)] : Concatenates(flat, ss, k)}
  <1>1. Len(ss) \in Nat /\ \A i \in 1..Len(ss) : ss[i] \in Seq(S)
    BY ListProperties
  <1>2. 0 \in T
    <2> DEFINE e == [i \in 0..0 |-> <<>>]
    <2>1. e \in [0..0 -> Seq(S)]
      BY EmptyList
    <2>2. Concatenates(e, ss, 0)
      BY DEF Concatenates
    <2> QED
      BY <2>1, <2>2
  <1>3. ASSUME NEW k \in T PROVE k + 1 \in T
    <2>1. k \in Nat
      OBVIOUS
    <2>2. SUFFICES ASSUME k + 1 <= Len(ss)
                   PROVE  \E flat \in [0..(k + 1) -> Seq(S)] : Concatenates(flat, ss, k + 1)
      BY <2>1
    <2>3. PICK g \in [0..k -> Seq(S)] : Concatenates(g, ss, k)
      BY <1>1, <2>1, <2>2
    <2> DEFINE h == [i \in 0..(k + 1) |-> IF i = k + 1 THEN g[k] \o ss[k + 1] ELSE g[i]]
    <2>4. g[k] \in Seq(S) /\ ss[k + 1] \in Seq(S)
      BY <1>1, <2>1, <2>2, <2>3
    <2>5. g[k] \o ss[k + 1] \in Seq(S)
      BY <2>4, ConcatProperties
    <2>6. h \in [0..(k + 1) -> Seq(S)]
      BY <2>1, <2>3, <2>5
    <2>7. \A i \in 1..(k + 1) : h[i] = h[i - 1] \o ss[i]
      <3>1. h[k + 1] = g[k] \o ss[k + 1] /\ h[k] = g[k]
        BY <2>1
      <3>2. \A i \in 1..k : h[i] = g[i] /\ h[i - 1] = g[i - 1]
        BY <2>1
      <3> HIDE DEF h
      <3>3. \A i \in 1..k : h[i] = h[i - 1] \o ss[i]
        BY <2>3, <3>2 DEF Concatenates
      <3>4. \A i \in 1..(k + 1) : i \in 1..k \/ (i = k + 1 /\ i - 1 = k)
        BY <2>1
      <3> QED
        BY <3>1, <3>3, <3>4
    <2>8. h[0] = <<>>
      BY <2>1, <2>3 DEF Concatenates
    <2> QED
      BY <2>6, <2>7, <2>8 DEF Concatenates
  <1>4. T = Nat
    <2>1. T \in SUBSET Nat
      OBVIOUS
    <2> HIDE DEF T
    <2> QED
      BY <1>2, <1>3, <2>1, Induction
  <1>5. n \in Nat /\ n <= Len(ss)
    BY <1>1
  <1>6. n \in T
    BY <1>4, <1>5
  <1> QED
    BY <1>5, <1>6

LEMMA Flattened ==
  ASSUME NEW S, NEW ss \in Seq(Seq(S))
  PROVE  \E flat \in [0..Len(ss) -> Seq(S)] :
           Concatenates(flat, ss, Len(ss)) /\ flat[Len(ss)] = FlattenSeq(ss)
  <1> DEFINE len == Len(ss)
  <1>1. len \in Nat /\ \A i \in 1..len : ss[i] \in Seq(S)
    BY ListProperties
  <1>2. PICK g \in [0..len -> Seq(S)] : Concatenates(g, ss, len)
    BY <1>1, ConcatenatedUpTo
  <1>3. CASE len = 0
    BY <1>2, <1>3, ListProperties DEF FlattenSeq, Concatenates
  <1>4. CASE len # 0
    <2> DEFINE Rec(f) == f = [i \in 1..len |-> IF i = 1 THEN ss[i] ELSE f[i - 1] \o ss[i]]
               rest == [i \in 1..len |-> g[i]]
    <2>1. \A i \in 1..len : i # 1 => i - 1 \in 1..len
      BY <1>1
    <2>2. g[1] = ss[1]
      <3>1. 1 \in 1..len /\ 1 - 1 = 0
        BY <1>1, <1>4
      <3>2. g[1] = <<>> \o ss[1]
        BY <1>2, <3>1 DEF Concatenates
      <3> QED
        BY <1>1, <3>1, <3>2, ConcatEmptySeq
    <2>3. \A i \in 1..len : i # 1 => g[i] = g[i - 1] \o ss[i]
      BY <1>2 DEF Concatenates
    <2>4. Rec(rest)
      BY <2>1, <2>2, <2>3
    <2>5. Rec(CHOOSE f : Rec(f))
      <3> HIDE DEF rest, Rec
      <3> QED
        BY <2>4
    <2>6. PICK h : Rec(h) /\ FlattenSeq(ss) = h[len]
      BY <1>1, <1>4, <2>5 DEF FlattenSeq
    <2>7. h[1] = ss[1] /\ \A i \in 1..len : i # 1 => h[i] = h[i - 1] \o ss[i]
      <3>1. h = [i \in 1..len |-> IF i = 1 THEN ss[i] ELSE h[i - 1] \o ss[i]]
        BY <2>6
      <3>2. 1 \in 1..len
        BY <1>1, <1>4
      <3>3. \A i \in 1..len : h[i] = IF i = 1 THEN ss[i] ELSE h[i - 1] \o ss[i]
        BY <3>1
      <3> QED
        BY <3>2, <3>3
    <2> HIDE DEF Rec, rest
    <2> DEFINE U == {n \in Nat : n \in 1..len => h[n] = g[n]}
    <2>8. 0 \in U
      OBVIOUS
    <2>9. ASSUME NEW n \in U PROVE n + 1 \in U
      <3>1. n \in Nat /\ (n \in 1..len => h[n] = g[n])
        OBVIOUS
      <3>2. CASE n + 1 \in 1..len /\ n # 0
        <4> DEFINE i == n + 1
        <4>1. i \in 1..len /\ i # 1 /\ i - 1 = n /\ n \in 1..len
          BY <1>1, <3>1, <3>2
        <4> HIDE DEF i
        <4>2. h[i] = h[n] \o ss[i] /\ g[i] = g[n] \o ss[i]
          BY <2>3, <2>7, <4>1
        <4>3. h[i] = g[i]
          BY <3>1, <4>1, <4>2
        <4> QED
          BY <3>1, <4>3 DEF i
      <3>3. CASE n = 0
        BY <2>2, <2>7, <3>3
      <3> QED
        BY <3>1, <3>2, <3>3
    <2>10. U = Nat
      <3>1. U \in SUBSET Nat
        OBVIOUS
      <3> HIDE DEF U
      <3> QED
        BY <2>8, <2>9, <3>1, Induction
    <2>11. len \in U
      BY <1>1, <2>10
    <2>12. h[len] = g[len]
      BY <1>1, <1>4, <2>11
    <2> QED
      BY <1>2, <2>6, <2>12
  <1> QED
    BY <1>3, <1>4
=============================================================================
