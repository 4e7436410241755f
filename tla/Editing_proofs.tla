-------------------------- MODULE Editing_proofs --------------------------
(***************************************************************************)
(* Proofs about a map under dbind's writing commands.                      *)
(***************************************************************************)
EXTENDS Editing, Lists_proofs

(***************************************************************************)
(* What the operators of BindingMap do to keyed sequences and to maps.     *)
(***************************************************************************)
LEMMA IndexProperties ==
  ASSUME NEW s, NEW key \in Keys(s)
  PROVE  /\ IndexOf(s, key) \in DOMAIN s /\ s[IndexOf(s, key)].key = key
         /\ At(s, key) \in Range(s) /\ At(s, key).key = key
         /\ UniqueKeys(s) => \A n \in DOMAIN s : s[n].key = key => n = IndexOf(s, key)
         /\ UniqueKeys(s) => \A e \in Range(s) : e.key = key => e = At(s, key)
  BY DEF Keys, IndexOf, At, Range, UniqueKeys

(* d[key] = e, and the append of an entry that is new.                     *)
LEMMA PutList ==
  ASSUME NEW S, NEW s \in Seq(S), UniqueKeys(s), NEW e \in S
  PROVE  /\ Put(s, e) \in Seq(S) /\ Put(s, e) # <<>> /\ UniqueKeys(Put(s, e))
         /\ Range(Put(s, e)) = {d \in Range(s) : d.key # e.key} \cup {e}
         /\ InOrder(KeyList(s), KeyList(Put(s, e)))
  <1>1. CASE e.key \in Keys(s)
    <2> DEFINE i == IndexOf(s, e.key)
               t == [s EXCEPT ![i] = e]
    <2>1. i \in DOMAIN s /\ s[i].key = e.key
      BY <1>1, IndexProperties
    <2>2. \A n \in DOMAIN s : s[n].key = e.key => n = i
      BY <1>1, IndexProperties
    <2>3. /\ t \in Seq(S) /\ t # <<>> /\ DOMAIN t = DOMAIN s
          /\ \A n \in DOMAIN s : t[n] = IF n = i THEN e ELSE s[n]
      BY <2>1, ReplaceList
    <2>4. Put(s, e) = t
      BY <1>1 DEF Put
    <2> HIDE DEF i, t
    <2>5. \A n \in DOMAIN s : t[n].key = s[n].key
      BY <2>1, <2>3
    <2>6. UniqueKeys(t) /\ KeyList(t) = KeyList(s)
      BY <2>3, <2>5 DEF UniqueKeys, KeyList
    <2>7. Range(t) = {d \in Range(s) : d.key # e.key} \cup {e}
      BY <2>1, <2>2, <2>3 DEF Range
    <2>8. InOrder(KeyList(s), KeyList(s))
      BY DEF InOrder
    <2> QED
      BY <2>3, <2>4, <2>6, <2>7, <2>8
  <1>2. CASE e.key \notin Keys(s)
    <2> DEFINE t == Append(s, e)
               last == Len(s) + 1
    <2>1. /\ t \in Seq(S) /\ t # <<>> /\ DOMAIN t = 1..last
          /\ \A n \in 1..Len(s) : t[n] = s[n]
          /\ t[last] = e /\ Range(t) = Range(s) \cup {e}
      BY AppendList
    <2>2. Len(s) \in Nat /\ DOMAIN s = 1..Len(s) /\ \A d \in Range(s) : d.key # e.key
      BY <1>2, ListProperties
    <2>3. Put(s, e) = t
      BY <1>2 DEF Put
    <2> HIDE DEF t
    <2>4. /\ \A n \in DOMAIN t : n \in DOMAIN s \/ n = last
          /\ \A n \in DOMAIN s : n \in DOMAIN t /\ n < last /\ t[n] = s[n] /\ s[n].key # e.key
          /\ last \in DOMAIN t
      BY <1>2, <2>1, <2>2 DEF Keys
    <2>5. UniqueKeys(t)
      BY <2>1, <2>4 DEF UniqueKeys
    <2>6. Range(t) = {d \in Range(s) : d.key # e.key} \cup {e}
      BY <2>1, <2>2
    <2>7. KeyList(t)[last] \notin Range(KeyList(s))
      BY <2>1, <2>4 DEF KeyList, Range
    <2>8. ASSUME NEW m \in DOMAIN t, NEW n \in DOMAIN t, m < n
          PROVE  \/ KeyList(t)[n] \notin Range(KeyList(s))
                 \/ \E k, l \in DOMAIN s : k < l /\ s[k].key = t[m].key /\ s[l].key = t[n].key
      <3>1. CASE n = last
        BY <2>7, <3>1
      <3>2. CASE n # last
        <4>1. n \in DOMAIN s /\ m \in DOMAIN s
          BY <2>1, <2>2, <2>4, <2>8, <3>2
        <4> QED
          BY <2>4, <2>8, <4>1
      <3> QED
        BY <3>1, <3>2
    <2>9. InOrder(KeyList(s), KeyList(t))
      BY <2>8 DEF InOrder, KeyList
    <2> QED
      BY <2>1, <2>3, <2>5, <2>6, <2>9
  <1> QED
    BY <1>1, <1>2

(* Setting a comment puts the entry with the new comment in its own place. *)
LEMMA CommentList ==
  ASSUME NEW s, NEW key \in Keys(s), NEW text,
         \A e \in Range(s) : [e EXCEPT !.comment = text].key = e.key
  PROVE  WithComment(s, key, text) = Put(s, [At(s, key) EXCEPT !.comment = text])
  <1> DEFINE i == IndexOf(s, key)
  <1>1. i \in DOMAIN s /\ At(s, key) = s[i] /\ At(s, key) \in Range(s) /\ At(s, key).key = key
    BY IndexProperties DEF At
  <1>2. WithComment(s, key, text) = [s EXCEPT ![i] = [s[i] EXCEPT !.comment = text]]
    BY DEF WithComment
  <1>3. [s[i] EXCEPT !.comment = text].key = key
    BY <1>1
  <1> QED
    BY <1>1, <1>2, <1>3 DEF Put

(* [y for y in s if y # x] takes away the one place where x is.            *)
LEMMA WithoutList ==
  ASSUME NEW S, NEW s \in Seq(S), IsInjective(s), NEW i \in DOMAIN s
  PROVE  Without(s, s[i]) = RemoveAt(s, i)
  <1> DEFINE kept == (1..Len(s)) \ {i}
             rank == [n \in kept |-> n]
             g == [k \in 1..(Len(s) - 1) |-> IF k < i THEN k ELSE k + 1]
  <1>1. Len(s) \in Nat /\ DOMAIN s = 1..Len(s) /\ i \in 1..Len(s)
    BY ListProperties
  <1>2. kept = {n \in DOMAIN s : s[n] # s[i]}
    BY <1>1 DEF IsInjective
  <1>3. IsFiniteSet(kept) /\ Cardinality(kept) = Len(s) - 1
    BY <1>1, IntervalSize
  <1>4. rank \in [kept -> Nat] /\ \A x, y \in kept : rank[x] = rank[y] => x = y
    OBVIOUS
  <1>5. g \in [1..(Len(s) - 1) -> kept]
    BY <1>1
  <1>6. \A m, n \in 1..(Len(s) - 1) : m < n => rank[g[m]] < rank[g[n]]
    BY <1>1, <1>5
  <1> HIDE DEF g, kept, rank
  <1>7. g = Ordered(kept, rank)
    BY <1>3, <1>4, <1>5, <1>6, OrderedUnique
  <1>8. Without(s, s[i]) = [k \in DOMAIN g |-> s[g[k]]]
    BY <1>2, <1>7 DEF Without, Chosen, rank
  <1> DEFINE t == RemoveAt(s, i)
  <1>9. /\ t \in Seq(S) /\ DOMAIN t = 1..(Len(s) - 1)
         /\ \A n \in 1..(Len(s) - 1) : t[n] = IF n < i THEN s[n] ELSE s[n + 1]
    BY RemoveList
  <1> HIDE DEF t
  <1>10. t \in [1..Len(t) -> S] /\ 1..Len(t) = 1..(Len(s) - 1)
    BY <1>9, LenProperties
  <1>11. /\ DOMAIN g = 1..(Len(s) - 1)
         /\ \A k \in DOMAIN g : s[g[k]] = t[k]
    BY <1>9 DEF g
  <1> QED
    <2>1. t = [k \in DOMAIN g |-> t[k]]
      BY <1>10, <1>11
    <2> QED
      BY <1>8, <1>11, <2>1 DEF t

LEMMA WithoutProperties ==
  ASSUME NEW S, NEW s \in Seq(S), IsInjective(s), NEW x \in Range(s)
  PROVE  /\ Without(s, x) \in Seq(S) /\ IsInjective(Without(s, x))
         /\ Range(Without(s, x)) = Range(s) \ {x}
         /\ InOrder(s, Without(s, x))
  <1>1. PICK i \in DOMAIN s : s[i] = x
    BY DEF Range
  <1> DEFINE t == Without(s, x)
             from(n) == IF n < i THEN n ELSE n + 1
  <1>2. Len(s) \in Nat /\ DOMAIN s = 1..Len(s) /\ i \in 1..Len(s)
    BY ListProperties
  <1>3. \A n \in DOMAIN s : s[n] = x => n = i
    BY <1>1 DEF IsInjective
  <1>4. t = RemoveAt(s, i)
    BY <1>1, WithoutList
  <1>5. /\ t \in Seq(S) /\ DOMAIN t = 1..(Len(s) - 1)
        /\ \A n \in 1..(Len(s) - 1) : t[n] = s[from(n)]
    BY <1>2, <1>4, RemoveList
  <1> HIDE DEF t
  <1>6. /\ \A n \in DOMAIN t : from(n) \in DOMAIN s /\ from(n) # i /\ t[n] = s[from(n)]
        /\ \A m, n \in DOMAIN t : from(m) = from(n) => m = n
        /\ \A m, n \in DOMAIN t : m < n => from(m) < from(n)
    BY <1>2, <1>5
  <1>7. \A n \in DOMAIN s : n # i => \E m \in DOMAIN t : from(m) = n
    <2> TAKE n \in DOMAIN s
    <2> SUFFICES ASSUME n # i
                 PROVE  \E m \in DOMAIN t : from(m) = n
      OBVIOUS
    <2>1. CASE n < i
      BY <1>2, <1>5, <2>1
    <2>2. CASE n > i
      <3>1. n - 1 \in DOMAIN t /\ from(n - 1) = n
        BY <1>2, <1>5, <2>2
      <3> QED
        BY <3>1
    <2> QED
      BY <1>2, <2>1, <2>2
  <1> HIDE DEF from
  <1>8. IsInjective(t)
    BY <1>6 DEF IsInjective
  <1>9. Range(t) = Range(s) \ {x}
    BY <1>1, <1>3, <1>6, <1>7 DEF Range
  <1>10. InOrder(s, t)
    BY <1>6 DEF InOrder
  <1> QED
    BY <1>5, <1>8, <1>9, <1>10 DEF t

LEMMA WithoutAppended ==
  ASSUME NEW S, NEW s \in Seq(S), IsInjective(s), NEW x, x \notin Range(s)
  PROVE  Without(Append(s, x), x) = s
  <1> DEFINE t == Append(s, x)
             T == S \cup {x}
  <1>1. s \in Seq(T) /\ x \in T
    BY SeqMonotonic
  <1> HIDE DEF T
  <1>2. t \in Seq(T) /\ IsInjective(t)
    BY <1>1, AppendDistinct
  <1>3. PICK last \in DOMAIN t : t[last] = x /\ RemoveAt(t, last) = s
    BY RemoveLast
  <1> HIDE DEF t
  <1>4. Without(t, t[last]) = RemoveAt(t, last)
    BY <1>2, <1>3, WithoutList
  <1> QED
    BY <1>3, <1>4 DEF t

(***************************************************************************)
(* What makes a map good, list by list.                                    *)
(***************************************************************************)
ListGood(s) == s \in Seq(Entries) /\ \A e \in Range(s) : InputOK(e)

(* A block that may be missing, but not be there and empty.                *)
BlockGood(s) == s = None \/ (ListGood(s) /\ UniqueKeys(s) /\ s # <<>>)

BindingGood(b) ==
    /\ b \in BindingType
    /\ b.value \notin Malformed /\ b.comment \notin Unwritable \cup Unclean
    /\ ListGood(b.locators) /\ UniqueKeys(b.locators)
    /\ BlockGood(b.fields) /\ BlockGood(b.asserted_by)

KindsGood(s) == s = None \/ (s \in Seq(Kinds) /\ IsInjective(s) /\ s # <<>>)

ReasonsGood(s) ==
    \/ s = None
    \/ s \in Seq(Reasons) /\ UniqueKeys(s) /\ s # <<>> /\ \A e \in Range(s) : InputOK(e)

CoverageGood(c) ==
    /\ c \in CoverageType /\ c.comment \notin Unwritable \cup Unclean
    /\ c.fully_bound # None \/ c.curated # None
    /\ KindsGood(c.fully_bound) /\ ReasonsGood(c.curated)
    /\ Range(OrEmpty(c.fully_bound)) \cap Keys(OrEmpty(c.curated)) = {}

MapGood(m) ==
    /\ m \in MapType /\ m.header \notin Unwritable \cup Unclean
    /\ UniqueKeys(m.bindings)
    /\ \A b \in Range(m.bindings) : BindingGood(b)
    /\ m.coverage # None => CoverageGood(m.coverage)

LEMMA OrEmptyList ==
  ASSUME NEW S, None \notin Seq(S), NEW s \in {None} \cup Seq(S)
  PROVE  /\ OrEmpty(s) \in Seq(S)
         /\ s # None => s = OrEmpty(s) /\ s \in Seq(S)
         /\ s = None => OrEmpty(s) = <<>>
         /\ OrNone(OrEmpty(s)) \in {None} \cup Seq(S)
         /\ OrEmpty(OrNone(OrEmpty(s))) = OrEmpty(s)
         /\ OrNone(OrEmpty(s)) # <<>>
  <1>1. <<>> \in Seq(S) /\ None # <<>>
    BY EmptyList
  <1> QED
    BY <1>1 DEF OrEmpty, OrNone

LEMMA ListTests ==
  ASSUME NEW S, NEW s \in Seq(S)
  PROVE  /\ EntriesOK(s) <=> \A e \in Range(s) : EntryOK(e)
         /\ CleanIn(s) <=> \A e \in Range(s) : e.comment \notin Unclean
         /\ EntriesOK(s) /\ CleanIn(s) <=> \A e \in Range(s) : InputOK(e)
  BY DEF EntriesOK, CleanIn, InputOK, Range

LEMMA BlockTests ==
  ASSUME NEW s \in {None} \cup Seq(Entries)
  PROVE  BlockGood(s) <=> /\ s # <<>> /\ EntriesOK(OrEmpty(s)) /\ CleanIn(OrEmpty(s))
                          /\ UniqueKeys(OrEmpty(s))
  <1>1. CASE s = None
    BY <1>1, EmptyList, NoneAssumption DEF BlockGood, OrEmpty, EntriesOK, CleanIn
  <1>2. CASE s # None
    BY <1>2, ListTests DEF BlockGood, ListGood, OrEmpty
  <1> QED
    BY <1>1, <1>2

LEMMA BindingTests ==
  ASSUME NEW b \in BindingType
  PROVE  InputBindingOK(b) /\ UniqueKeys(OrEmpty(b.fields)) <=> BindingGood(b)
  <1>1. /\ b.locators \in Seq(Entries)
        /\ b.fields \in {None} \cup Seq(Entries) /\ b.asserted_by \in {None} \cup Seq(Entries)
    BY DEF BindingType
  <1>2. EntriesOK(b.locators) /\ CleanIn(b.locators) <=> ListGood(b.locators)
    BY <1>1, ListTests DEF ListGood
  <1> QED
    BY <1>1, <1>2, BlockTests DEF InputBindingOK, BindingOK, BindingGood, CommentOK

(***************************************************************************)
(* The facts of a map, one by one.                                         *)
(***************************************************************************)
EntryTypes == {"locator", "field", "assertion"}

ListOf(b, type) ==
    IF type = "locator" THEN b.locators
    ELSE IF type = "field" THEN OrEmpty(b.fields) ELSE OrEmpty(b.asserted_by)

EntryFact(type, id, e) == Fact(Anchor(type, id, e.key), e.value, e.comment)
BindingFact(b) == Fact(Anchor("binding", b.key, None), b.value, b.comment)
HeaderFact(m) == Fact(Anchor("header", None, None), None, m.header)
CoverageFact(c) == Fact(Anchor("coverage", None, None), None, c.comment)
KindFact(k) == Fact(Anchor("fully_bound", None, k), None, None)

CoverageFacts(c) ==
    {CoverageFact(c)} \cup {KindFact(k) : k \in Range(OrEmpty(c.fully_bound))}
      \cup {EntryFact("curated", None, e) : e \in Range(OrEmpty(c.curated))}

LEMMA FactsOfList ==
  ASSUME NEW s, NEW type, NEW id
  PROVE  FactsIn(type, id, s) = {EntryFact(type, id, e) : e \in Range(s)}
  BY DEF FactsIn, EntryFact, Range

LEMMA FactsOfOne ==
  ASSUME NEW b, NEW fact
  PROVE  fact \in FactsOfBinding(b) <=>
           \/ fact = BindingFact(b)
           \/ \E type \in EntryTypes : \E e \in Range(ListOf(b, type)) :
                fact = EntryFact(type, b.key, e)
  <1>1. FactsOfBinding(b) =
          {BindingFact(b)}
            \cup {EntryFact("locator", b.key, e) : e \in Range(ListOf(b, "locator"))}
            \cup {EntryFact("field", b.key, e) : e \in Range(ListOf(b, "field"))}
            \cup {EntryFact("assertion", b.key, e) : e \in Range(ListOf(b, "assertion"))}
    BY FactsOfList DEF FactsOfBinding, BindingFact, ListOf
  <1> QED
    BY <1>1 DEF EntryTypes

LEMMA FactsOfCoverage ==
  ASSUME NEW c, NEW fact
  PROVE  fact \in CoverageFacts(c) <=>
           \/ fact = CoverageFact(c)
           \/ \E k \in Range(OrEmpty(c.fully_bound)) : fact = KindFact(k)
           \/ \E e \in Range(OrEmpty(c.curated)) : fact = EntryFact("curated", None, e)
  BY Zenon DEF CoverageFacts

LEMMA FactsOfMap ==
  ASSUME NEW m, NEW fact
  PROVE  fact \in Facts(m) <=>
           \/ fact = HeaderFact(m)
           \/ \E b \in Range(m.bindings) : fact \in FactsOfBinding(b)
           \/ m.coverage # None /\ fact \in CoverageFacts(m.coverage)
  <1>1. \A c : FactsIn("curated", None, OrEmpty(c.curated))
                 = {EntryFact("curated", None, e) : e \in Range(OrEmpty(c.curated))}
    BY FactsOfList
  <1>2. Facts(m) = {HeaderFact(m)} \cup (UNION {FactsOfBinding(m.bindings[n]) : n \in DOMAIN m.bindings})
                      \cup (IF m.coverage = None THEN {} ELSE CoverageFacts(m.coverage))
    BY <1>1, Zenon DEF Facts, HeaderFact, CoverageFacts, CoverageFact, KindFact
  <1>3. fact \in UNION {FactsOfBinding(m.bindings[n]) : n \in DOMAIN m.bindings} <=>
           \E b \in Range(m.bindings) : fact \in FactsOfBinding(b)
    BY Zenon DEF Range
  <1> QED
    BY <1>2, <1>3

(* The facts of a good map, by what they are about.                        *)
LEMMA CleanBinding ==
  ASSUME NEW b
  PROVE  (\A fact \in FactsOfBinding(b) : fact.comment \notin Unclean) <=>
           /\ b.comment \notin Unclean
           /\ \A type \in EntryTypes : \A e \in Range(ListOf(b, type)) : e.comment \notin Unclean
  <1>1. BindingFact(b).comment = b.comment
    BY DEF BindingFact, Fact
  <1>2. \A type, e : EntryFact(type, b.key, e).comment = e.comment
    BY DEF EntryFact, Fact
  <1> QED
    BY <1>1, <1>2, FactsOfOne

LEMMA CleanCoverage ==
  ASSUME NEW c
  PROVE  (\A fact \in CoverageFacts(c) : fact.comment \notin Unclean) <=>
           /\ c.comment \notin Unclean
           /\ \A e \in Range(OrEmpty(c.curated)) : e.comment \notin Unclean
  <1>1. CoverageFact(c).comment = c.comment /\ \A k : KindFact(k).comment = None
    BY DEF CoverageFact, KindFact, Fact
  <1>2. \A e : EntryFact("curated", None, e).comment = e.comment
    BY DEF EntryFact, Fact
  <1>3. None \notin Unclean
    BY ScalarAssumption
  <1> QED
    BY <1>1, <1>2, <1>3, Zenon DEF CoverageFacts

LEMMA BindingGoodTests ==
  ASSUME NEW b \in BindingType
  PROVE  /\ BindingOK(b) /\ UniqueKeys(OrEmpty(b.fields))
         /\ \A fact \in FactsOfBinding(b) : fact.comment \notin Unclean
         <=> BindingGood(b)
  <1>1. /\ ListOf(b, "locator") = b.locators
        /\ ListOf(b, "field") = OrEmpty(b.fields)
        /\ ListOf(b, "assertion") = OrEmpty(b.asserted_by)
    BY DEF ListOf
  <1>2. /\ b.locators \in Seq(Entries)
        /\ b.fields \in {None} \cup Seq(Entries) /\ b.asserted_by \in {None} \cup Seq(Entries)
    BY DEF BindingType
  <1>3. OrEmpty(b.fields) \in Seq(Entries) /\ OrEmpty(b.asserted_by) \in Seq(Entries)
    BY <1>2, OrEmptyList, NoneAssumption
  <1>4. (\A type \in EntryTypes : \A e \in Range(ListOf(b, type)) : e.comment \notin Unclean)
          <=> CleanIn(b.locators) /\ CleanIn(OrEmpty(b.fields)) /\ CleanIn(OrEmpty(b.asserted_by))
    BY <1>1, <1>2, <1>3, ListTests DEF EntryTypes
  <1> QED
    BY <1>4, CleanBinding, BindingTests DEF InputBindingOK

LEMMA CoverageTests ==
  ASSUME NEW c \in CoverageType
  PROVE  /\ CoverageOK(c) /\ UniqueKeys(OrEmpty(c.curated))
         /\ \A fact \in CoverageFacts(c) : fact.comment \notin Unclean
         <=> CoverageGood(c)
  <1>1. c.fully_bound \in {None} \cup Seq(Kinds) /\ c.curated \in {None} \cup Seq(Reasons)
    BY DEF CoverageType
  <1>2. OrEmpty(c.fully_bound) \in Seq(Kinds) /\ OrEmpty(c.curated) \in Seq(Reasons)
    BY <1>1, OrEmptyList, NoneAssumption
  <1>3. \A n \in DOMAIN OrEmpty(c.fully_bound) : OrEmpty(c.fully_bound)[n] \notin Malformed
    BY <1>2, ListProperties, KindAssumption
  <1>4. c.fully_bound # <<>> /\ IsInjective(OrEmpty(c.fully_bound)) <=> KindsGood(c.fully_bound)
    <2>1. IsInjective(<<>>) /\ None # <<>>
      BY EmptyList, NoneAssumption DEF IsInjective
    <2> QED
      BY <1>1, <2>1 DEF KindsGood, OrEmpty
  <1>5. /\ c.curated # <<>> /\ UniqueKeys(OrEmpty(c.curated))
        /\ EntriesOK(OrEmpty(c.curated)) /\ CleanIn(OrEmpty(c.curated))
        <=> ReasonsGood(c.curated)
    <2>1. UniqueKeys(<<>>) /\ EntriesOK(<<>>) /\ CleanIn(<<>>) /\ None # <<>>
      BY EmptyList, NoneAssumption DEF EntriesOK, CleanIn
    <2> QED
      BY <1>1, <2>1, ListTests DEF ReasonsGood, OrEmpty
  <1>6. CleanIn(OrEmpty(c.curated))
          <=> \A e \in Range(OrEmpty(c.curated)) : e.comment \notin Unclean
    BY <1>2, ListTests
  <1>7. (\A fact \in CoverageFacts(c) : fact.comment \notin Unclean) <=>
           c.comment \notin Unclean /\ CleanIn(OrEmpty(c.curated))
    BY <1>6, CleanCoverage
  <1>8. CoverageOK(c) <=>
          /\ c.comment \notin Unwritable
          /\ c.fully_bound # None \/ c.curated # None
          /\ c.fully_bound # <<>> /\ c.curated # <<>>
          /\ IsInjective(OrEmpty(c.fully_bound)) /\ EntriesOK(OrEmpty(c.curated))
          /\ Range(OrEmpty(c.fully_bound)) \cap Keys(OrEmpty(c.curated)) = {}
    BY <1>3, Zenon DEF CoverageOK, CommentOK
  <1> QED
    BY <1>4, <1>5, <1>7, <1>8, Zenon DEF CoverageGood

LEMMA GoodTests ==
  ASSUME NEW m \in MapType
  PROVE  Good(m) <=> MapGood(m)
  <1>1. m.bindings \in Seq(BindingType) /\ m.coverage \in {None} \cup CoverageType
    BY DEF MapType
  <1>2. \A b \in Range(m.bindings) : b \in BindingType
    BY <1>1, ListProperties
  <1>3. Clean(m) <=>
          /\ m.header \notin Unclean
          /\ \A b \in Range(m.bindings) : \A fact \in FactsOfBinding(b) : fact.comment \notin Unclean
          /\ m.coverage # None =>
               \A fact \in CoverageFacts(m.coverage) : fact.comment \notin Unclean
    <2>1. HeaderFact(m).comment = m.header
      BY DEF HeaderFact, Fact
    <2> QED
      BY <2>1, FactsOfMap, Zenon DEF Clean
  <1>4. /\ (\A n \in DOMAIN m.bindings : BindingOK(m.bindings[n])) <=>
             \A b \in Range(m.bindings) : BindingOK(b)
        /\ (\A n \in DOMAIN m.bindings : UniqueKeys(OrEmpty(m.bindings[n].fields))) <=>
             \A b \in Range(m.bindings) : UniqueKeys(OrEmpty(b.fields))
    BY Zenon DEF Range
  <1>5. \A b \in Range(m.bindings) :
          /\ BindingOK(b) /\ UniqueKeys(OrEmpty(b.fields))
          /\ \A fact \in FactsOfBinding(b) : fact.comment \notin Unclean
          <=> BindingGood(b)
    BY <1>2, BindingGoodTests
  <1>6. m.coverage # None =>
          (/\ CoverageOK(m.coverage) /\ UniqueKeys(OrEmpty(m.coverage.curated))
           /\ \A fact \in CoverageFacts(m.coverage) : fact.comment \notin Unclean
           <=> CoverageGood(m.coverage))
    BY <1>1, CoverageTests
  <1> QED
    BY <1>3, <1>4, <1>5, <1>6, Zenon DEF Good, MapGood, Dicts, MapOK, CommentOK

(***************************************************************************)
(* Bindings: what stays good.                                              *)
(***************************************************************************)
EntriesGood(s) == ListGood(s) /\ UniqueKeys(s)

(* b with t for the list of the given type, a missing block for an empty   *)
(* one.                                                                    *)
WithList(b, type, t) ==
    IF type = "locator" THEN [b EXCEPT !.locators = t]
    ELSE IF type = "field" THEN [b EXCEPT !.fields = OrNone(t)]
    ELSE [b EXCEPT !.asserted_by = OrNone(t)]

LEMMA ListOfGood ==
  ASSUME NEW b, BindingGood(b), NEW type
  PROVE  EntriesGood(ListOf(b, type)) /\ ListOf(b, type) \in Seq(Entries)
  <1>1. EntriesGood(<<>>)
    BY EmptyList DEF EntriesGood, ListGood
  <1>2. EntriesGood(ListOf(b, type))
    BY <1>1 DEF ListOf, BindingGood, BlockGood, EntriesGood, OrEmpty
  <1> QED
    BY <1>2 DEF EntriesGood, ListGood

LEMMA BlockOfList ==
  ASSUME NEW t, EntriesGood(t)
  PROVE  BlockGood(OrNone(t)) /\ OrNone(t) \in {None} \cup Seq(Entries) /\ OrEmpty(OrNone(t)) = t
  BY NoneAssumption DEF BlockGood, EntriesGood, ListGood, OrNone, OrEmpty

LEMMA WithListGood ==
  ASSUME NEW b, BindingGood(b), NEW type \in EntryTypes, NEW t, EntriesGood(t)
  PROVE  LET c == WithList(b, type, t)
         IN  /\ BindingGood(c) /\ c.key = b.key /\ c.value = b.value /\ c.comment = b.comment
             /\ ListOf(c, type) = t
             /\ \A other \in EntryTypes \ {type} : ListOf(c, other) = ListOf(b, other)
  <1>1. b \in BindingType /\ t \in Seq(Entries)
    BY DEF BindingGood, EntriesGood, ListGood
  <1>2. CASE type = "locator"
    <2> DEFINE c == [b EXCEPT !.locators = t]
    <2>1. /\ c \in BindingType /\ c.key = b.key /\ c.value = b.value /\ c.comment = b.comment
          /\ c.locators = t /\ c.fields = b.fields /\ c.asserted_by = b.asserted_by
      BY <1>1 DEF BindingType
    <2>2. WithList(b, type, t) = c
      BY <1>2 DEF WithList
    <2> HIDE DEF c
    <2> QED
      BY <1>2, <2>1, <2>2 DEF BindingGood, EntriesGood, ListOf, EntryTypes
  <1>3. CASE type = "field"
    <2> DEFINE c == [b EXCEPT !.fields = OrNone(t)]
    <2>1. /\ c \in BindingType /\ c.key = b.key /\ c.value = b.value /\ c.comment = b.comment
          /\ c.locators = b.locators /\ c.fields = OrNone(t) /\ c.asserted_by = b.asserted_by
      BY <1>1, BlockOfList DEF BindingType
    <2>2. WithList(b, type, t) = c
      BY <1>3 DEF WithList
    <2> HIDE DEF c
    <2> QED
      BY <1>3, <2>1, <2>2, BlockOfList DEF BindingGood, ListOf, EntryTypes
  <1>4. CASE type = "assertion"
    <2> DEFINE c == [b EXCEPT !.asserted_by = OrNone(t)]
    <2>1. /\ c \in BindingType /\ c.key = b.key /\ c.value = b.value /\ c.comment = b.comment
          /\ c.locators = b.locators /\ c.fields = b.fields /\ c.asserted_by = OrNone(t)
      BY <1>1, BlockOfList DEF BindingType
    <2>2. WithList(b, type, t) = c
      BY <1>4 DEF WithList
    <2> HIDE DEF c
    <2> QED
      BY <1>4, <2>1, <2>2, BlockOfList DEF BindingGood, ListOf, EntryTypes
  <1> QED
    BY <1>2, <1>3, <1>4 DEF EntryTypes

LEMMA PutGood ==
  ASSUME NEW s, EntriesGood(s), NEW e \in Entries, InputOK(e)
  PROVE  EntriesGood(Put(s, e)) /\ Put(s, e) # <<>>
  BY PutList DEF EntriesGood, ListGood

LEMMA DropGood ==
  ASSUME NEW s, EntriesGood(s), NEW key \in Keys(s)
  PROVE  EntriesGood(Drop(s, key))
  BY DropList DEF EntriesGood, ListGood

(***************************************************************************)
(* The bindings of a map.                                                  *)
(***************************************************************************)
LEMMA BindingOfGood ==
  ASSUME NEW m, MapGood(m), NEW id \in Ids(m)
  PROVE  /\ BindingGood(BindingOf(m, id)) /\ BindingOf(m, id).key = id
         /\ BindingOf(m, id) \in Range(m.bindings) /\ id \in IDs
         /\ \A b \in Range(m.bindings) : b.key = id => b = BindingOf(m, id)
  <1>1. /\ BindingOf(m, id) \in Range(m.bindings) /\ BindingOf(m, id).key = id
        /\ \A b \in Range(m.bindings) : b.key = id => b = BindingOf(m, id)
    BY IndexProperties DEF Ids, BindingOf, MapGood
  <1>2. BindingGood(BindingOf(m, id))
    BY <1>1 DEF MapGood
  <1> QED
    BY <1>1, <1>2 DEF BindingGood, BindingType

LEMMA WithBindingGood ==
  ASSUME NEW m, MapGood(m), NEW c, BindingGood(c)
  PROVE  LET n == WithBinding(m, c)
         IN  /\ MapGood(n) /\ n.header = m.header /\ n.coverage = m.coverage
             /\ n.bindings = Put(m.bindings, c)
             /\ Range(n.bindings) = {b \in Range(m.bindings) : b.key # c.key} \cup {c}
             /\ InOrder(KeyList(m.bindings), KeyList(n.bindings))
  <1> DEFINE n == WithBinding(m, c)
             s == Put(m.bindings, c)
  <1>1. m \in MapType /\ m.bindings \in Seq(BindingType) /\ c \in BindingType
    BY DEF MapGood, MapType, BindingGood
  <1>2. /\ s \in Seq(BindingType) /\ UniqueKeys(s)
        /\ Range(s) = {b \in Range(m.bindings) : b.key # c.key} \cup {c}
        /\ InOrder(KeyList(m.bindings), KeyList(s))
    BY <1>1, PutList DEF MapGood
  <1> HIDE DEF s
  <1>3. /\ n \in MapType /\ n.header = m.header /\ n.coverage = m.coverage /\ n.bindings = s
    BY <1>1, <1>2 DEF WithBinding, MapType, s
  <1> HIDE DEF n
  <1>4. MapGood(n)
    BY <1>2, <1>3 DEF MapGood
  <1> QED
    BY <1>2, <1>3, <1>4 DEF n, s

LEMMA RemoveBindingGood ==
  ASSUME NEW m, MapGood(m), NEW id \in Ids(m)
  PROVE  LET n == RemoveBinding(m, id)
         IN  /\ MapGood(n) /\ n.header = m.header /\ n.coverage = m.coverage
             /\ Range(n.bindings) = {b \in Range(m.bindings) : b.key # id}
             /\ InOrder(KeyList(m.bindings), KeyList(n.bindings))
  <1> DEFINE n == RemoveBinding(m, id)
             s == Drop(m.bindings, id)
  <1>1. m \in MapType /\ m.bindings \in Seq(BindingType) /\ id \in Keys(m.bindings)
    BY DEF MapGood, MapType, Ids
  <1>2. /\ s \in Seq(BindingType) /\ UniqueKeys(s)
        /\ Range(s) = {b \in Range(m.bindings) : b.key # id}
        /\ InOrder(KeyList(m.bindings), KeyList(s))
    BY <1>1, DropList DEF MapGood
  <1> HIDE DEF s
  <1>3. n \in MapType /\ n.header = m.header /\ n.coverage = m.coverage /\ n.bindings = s
    BY <1>1, <1>2 DEF RemoveBinding, MapType, s
  <1> HIDE DEF n
  <1>4. MapGood(n)
    BY <1>2, <1>3 DEF MapGood
  <1> QED
    BY <1>2, <1>3, <1>4 DEF n, s

(* Everything that is done to an entry of a binding puts an entry into one *)
(* of its lists or drops one.                                              *)
PutIn(m, id, type, e) ==
    LET b == BindingOf(m, id) IN WithBinding(m, WithList(b, type, Put(ListOf(b, type), e)))

DropIn(m, id, type, key) ==
    LET b == BindingOf(m, id) IN WithBinding(m, WithList(b, type, Drop(ListOf(b, type), key)))

LEMMA AddIsPut ==
  ASSUME NEW m, MapGood(m), NEW id \in Ids(m), NEW e \in Entries, InputOK(e)
  PROVE  LET b == BindingOf(m, id)
         IN  /\ e.key \notin Keys(ListOf(b, "locator")) =>
                  AddLocator(m, id, e) = PutIn(m, id, "locator", e)
             /\ AddField(m, id, e) = PutIn(m, id, "field", Kept(ListOf(b, "field"), e))
             /\ e.key \notin Keys(ListOf(b, "assertion")) =>
                  AddAssertion(m, id, e) = PutIn(m, id, "assertion", e)
  <1> DEFINE b == BindingOf(m, id)
             kept == Kept(ListOf(b, "field"), e)
  <1>1. BindingGood(b)
    BY BindingOfGood
  <1>2. \A s, d : OrNone(Put(s, d)) = Put(s, d) \/ Put(s, d) = <<>>
    BY DEF OrNone
  <1>3. kept \in Entries /\ InputOK(kept)
    <2>1. EntriesGood(ListOf(b, "field"))
      BY <1>1, ListOfGood
    <2>2. CASE e.key \in Keys(ListOf(b, "field")) /\ e.comment = None
      <3>1. At(ListOf(b, "field"), e.key) \in Range(ListOf(b, "field"))
        BY <2>2, IndexProperties
      <3>2. InputOK(At(ListOf(b, "field"), e.key)) /\ At(ListOf(b, "field"), e.key) \in Entries
        BY <2>1, <3>1, ListProperties DEF EntriesGood, ListGood
      <3> DEFINE c == At(ListOf(b, "field"), e.key).comment
      <3>3. c \in Texts /\ c \notin Unwritable \cup Unclean
        BY <3>2 DEF Entries, InputOK, EntryOK, CommentOK
      <3>4. kept = [e EXCEPT !.comment = c]
        BY <2>2 DEF Kept
      <3> QED
        BY <3>3, <3>4 DEF Entries, InputOK, EntryOK, CommentOK
    <2>3. CASE ~(e.key \in Keys(ListOf(b, "field")) /\ e.comment = None)
      BY <2>3 DEF Kept
    <2> QED
      BY <2>2, <2>3
  <1>4. Put(ListOf(b, "field"), kept) # <<>>
    BY <1>1, <1>3, ListOfGood, PutGood
  <1>5. Put(ListOf(b, "assertion"), e) # <<>>
    BY <1>1, ListOfGood, PutGood
  <1>6. \A s : e.key \notin Keys(s) => Put(s, e) = Append(s, e)
    BY DEF Put
  <1>7. /\ ListOf(b, "locator") = b.locators
        /\ ListOf(b, "field") = OrEmpty(b.fields)
        /\ ListOf(b, "assertion") = OrEmpty(b.asserted_by)
    BY DEF ListOf
  <1>8. b.key = id
    BY BindingOfGood
  <1>9. e.key \notin Keys(ListOf(b, "locator")) => AddLocator(m, id, e) = PutIn(m, id, "locator", e)
    BY <1>6, <1>7 DEF AddLocator, PutIn, WithList
  <1>10. AddField(m, id, e) = PutIn(m, id, "field", kept)
    BY <1>2, <1>4, <1>7 DEF AddField, PutIn, WithList
  <1>11. e.key \notin Keys(ListOf(b, "assertion")) =>
           AddAssertion(m, id, e) = PutIn(m, id, "assertion", e)
    BY <1>2, <1>5, <1>6, <1>7 DEF AddAssertion, PutIn, WithList
  <1> QED
    BY <1>9, <1>10, <1>11

LEMMA RemoveIsDrop ==
  ASSUME NEW m, MapGood(m), NEW id \in Ids(m), NEW key
  PROVE  LET b == BindingOf(m, id)
         IN  /\ key \in Keys(ListOf(b, "locator")) =>
                  RemoveLocator(m, id, key) = DropIn(m, id, "locator", key)
             /\ key \in Keys(ListOf(b, "field")) =>
                  RemoveField(m, id, key) = DropIn(m, id, "field", key)
             /\ key \in Keys(ListOf(b, "assertion")) =>
                  RemoveAssertion(m, id, key) = DropIn(m, id, "assertion", key)
  <1> DEFINE b == BindingOf(m, id)
  <1>1. \A s : key \in Keys(OrEmpty(s)) => OrEmpty(s) = s
    BY EmptyList DEF OrEmpty
  <1>2. /\ ListOf(b, "locator") = b.locators
        /\ ListOf(b, "field") = OrEmpty(b.fields)
        /\ ListOf(b, "assertion") = OrEmpty(b.asserted_by)
    BY DEF ListOf
  <1> QED
    BY <1>1, <1>2 DEF RemoveLocator, RemoveField, RemoveAssertion, DropIn, WithList

(* The entry of a key with another comment.                                *)
Commented(s, key, text) == [At(s, key) EXCEPT !.comment = text]

FreeText == Texts \ (Unwritable \cup Unclean)

LEMMA CommentedGood ==
  ASSUME NEW s, EntriesGood(s), NEW key \in Keys(s), NEW text \in FreeText
  PROVE  LET e == Commented(s, key, text)
         IN  /\ e \in Entries /\ InputOK(e) /\ e.key = key
             /\ e.value = At(s, key).value /\ e.comment = text
             /\ At(s, key) \in Range(s) /\ At(s, key) \in Entries /\ At(s, key).key = key
             /\ WithComment(s, key, text) = Put(s, e)
  <1>1. s \in Seq(Entries) /\ \A e \in Range(s) : InputOK(e)
    BY DEF EntriesGood, ListGood
  <1>2. At(s, key) \in Range(s) /\ At(s, key).key = key
    BY IndexProperties
  <1>3. Range(s) \subseteq Entries
    BY <1>1, ListProperties
  <1>4. \A e \in Range(s) : [e EXCEPT !.comment = text].key = e.key
    BY <1>3 DEF Entries
  <1>5. WithComment(s, key, text) = Put(s, Commented(s, key, text))
    BY <1>4, CommentList DEF Commented
  <1>6. InputOK(At(s, key)) /\ At(s, key) \in Entries
    BY <1>1, <1>2, <1>3
  <1> HIDE DEF Range
  <1>7. LET e == Commented(s, key, text)
        IN  e \in Entries /\ InputOK(e) /\ e.key = key /\ e.value = At(s, key).value /\ e.comment = text
    BY <1>2, <1>6 DEF Commented, Entries, InputOK, EntryOK, CommentOK, FreeText
  <1> QED
    BY <1>2, <1>5, <1>6, <1>7

LEMMA CommentIsPut ==
  ASSUME NEW m, MapGood(m), NEW id \in Ids(m), NEW type \in EntryTypes,
         NEW key \in Keys(ListOf(BindingOf(m, id), type)), NEW text \in FreeText
  PROVE  SetComment(m, Anchor(type, id, key), text)
           = PutIn(m, id, type, Commented(ListOf(BindingOf(m, id), type), key, text))
  <1> DEFINE b == BindingOf(m, id)
             e == Commented(ListOf(b, type), key, text)
             at == Anchor(type, id, key)
  <1>1. EntriesGood(ListOf(b, type))
    BY BindingOfGood, ListOfGood
  <1>2. /\ e \in Entries /\ InputOK(e)
        /\ WithComment(ListOf(b, type), key, text) = Put(ListOf(b, type), e)
    BY <1>1, CommentedGood
  <1>3. Put(ListOf(b, type), e) # <<>>
    BY <1>1, <1>2, PutGood
  <1>4. \A s : key \in Keys(OrEmpty(s)) => OrEmpty(s) = s
    BY EmptyList DEF OrEmpty
  <1>5. at[1] = type /\ at[2] = id /\ at[3] = key
    BY DEF Anchor
  <1> HIDE DEF e, at
  <1>6. CASE type = "locator"
    <2>1. SetComment(m, at, text) =
            WithBinding(m, [b EXCEPT !.locators = WithComment(@, key, text)])
      BY <1>5, <1>6 DEF SetComment
    <2> QED
      BY <1>2, <1>6, <2>1 DEF PutIn, WithList, ListOf, e, at
  <1>7. CASE type = "field"
    <2>1. SetComment(m, at, text) =
            WithBinding(m, [b EXCEPT !.fields = WithComment(@, key, text)])
      BY <1>5, <1>7 DEF SetComment
    <2>2. ListOf(b, type) = b.fields
      BY <1>4, <1>7 DEF ListOf
    <2> QED
      BY <1>2, <1>3, <1>7, <2>1, <2>2 DEF PutIn, WithList, OrNone, e, at
  <1>8. CASE type = "assertion"
    <2>1. SetComment(m, at, text) =
            WithBinding(m, [b EXCEPT !.asserted_by = WithComment(@, key, text)])
      BY <1>5, <1>8 DEF SetComment
    <2>2. ListOf(b, type) = b.asserted_by
      BY <1>4, <1>8 DEF ListOf
    <2> QED
      BY <1>2, <1>3, <1>8, <2>1, <2>2 DEF PutIn, WithList, OrNone, e, at
  <1> QED
    BY <1>6, <1>7, <1>8 DEF EntryTypes, e, at

(* What every such step leaves of the map.                                 *)
LEMMA PutInGood ==
  ASSUME NEW m, MapGood(m), NEW id \in Ids(m), NEW type \in EntryTypes,
         NEW e \in Entries, InputOK(e)
  PROVE  MapGood(PutIn(m, id, type, e))
  <1>1. EntriesGood(Put(ListOf(BindingOf(m, id), type), e))
    BY BindingOfGood, ListOfGood, PutGood
  <1>2. BindingGood(WithList(BindingOf(m, id), type, Put(ListOf(BindingOf(m, id), type), e)))
    BY <1>1, BindingOfGood, WithListGood
  <1> QED
    BY <1>2, WithBindingGood DEF PutIn

LEMMA DropInGood ==
  ASSUME NEW m, MapGood(m), NEW id \in Ids(m), NEW type \in EntryTypes,
         NEW key \in Keys(ListOf(BindingOf(m, id), type))
  PROVE  MapGood(DropIn(m, id, type, key))
  <1>1. EntriesGood(Drop(ListOf(BindingOf(m, id), type), key))
    BY BindingOfGood, ListOfGood, DropGood
  <1>2. BindingGood(WithList(BindingOf(m, id), type, Drop(ListOf(BindingOf(m, id), type), key)))
    BY <1>1, BindingOfGood, WithListGood
  <1> QED
    BY <1>2, WithBindingGood DEF DropIn

(* The comments of a binding, of the header and of the coverage block.     *)
LEMMA BindingCommentGood ==
  ASSUME NEW m, MapGood(m), NEW id \in Ids(m), NEW text \in FreeText
  PROVE  LET c == [BindingOf(m, id) EXCEPT !.comment = text]
         IN  /\ BindingGood(c) /\ c.key = id /\ c.value = BindingOf(m, id).value /\ c.comment = text
             /\ \A type : ListOf(c, type) = ListOf(BindingOf(m, id), type)
             /\ SetComment(m, Anchor("binding", id, None), text) = WithBinding(m, c)
             /\ MapGood(SetComment(m, Anchor("binding", id, None), text))
  <1> DEFINE b == BindingOf(m, id)
             c == [b EXCEPT !.comment = text]
             at == Anchor("binding", id, None)
  <1>1. BindingGood(b) /\ b.key = id /\ b \in BindingType
    BY BindingOfGood DEF BindingGood
  <1>2. /\ c \in BindingType /\ c.key = id /\ c.value = b.value /\ c.comment = text
        /\ c.locators = b.locators /\ c.fields = b.fields /\ c.asserted_by = b.asserted_by
    BY <1>1 DEF BindingType, FreeText
  <1>3. at[1] = "binding" /\ at[2] = id
    BY DEF Anchor
  <1>4. SetComment(m, at, text) = WithBinding(m, c)
    BY <1>3 DEF SetComment
  <1> HIDE DEF c, at
  <1>5. BindingGood(c) /\ \A type : ListOf(c, type) = ListOf(b, type)
    BY <1>1, <1>2 DEF BindingGood, ListOf, FreeText
  <1>6. MapGood(WithBinding(m, c))
    BY <1>5, WithBindingGood
  <1> QED
    BY <1>2, <1>4, <1>5, <1>6 DEF c, at

LEMMA HeaderCommentGood ==
  ASSUME NEW m, MapGood(m), NEW text \in FreeText
  PROVE  LET n == SetComment(m, Anchor("header", None, None), text)
         IN  /\ MapGood(n) /\ n.header = text /\ n.bindings = m.bindings /\ n.coverage = m.coverage
  <1> DEFINE at == Anchor("header", None, None)
             n == [m EXCEPT !.header = text]
  <1>1. at[1] = "header"
    BY DEF Anchor
  <1>2. SetComment(m, at, text) = n
    BY <1>1 DEF SetComment
  <1>3. n \in MapType /\ n.header = text /\ n.bindings = m.bindings /\ n.coverage = m.coverage
    BY DEF MapGood, MapType, FreeText
  <1> HIDE DEF n, at
  <1>4. MapGood(n)
    BY <1>3 DEF MapGood, FreeText
  <1> QED
    BY <1>2, <1>3, <1>4 DEF at

(***************************************************************************)
(* The coverage block.                                                     *)
(***************************************************************************)
LEMMA CoverageOfGood ==
  ASSUME NEW m, MapGood(m)
  PROVE  LET c == CoverageOf(m)
         IN  /\ c \in CoverageType /\ c.comment \in FreeText
             /\ KindsGood(c.fully_bound) /\ ReasonsGood(c.curated)
             /\ Range(OrEmpty(c.fully_bound)) \cap Keys(OrEmpty(c.curated)) = {}
             /\ m.coverage # None => c = m.coverage /\ CoverageGood(m.coverage)
  <1>1. CASE m.coverage = None
    <2>1. CoverageOf(m) = [comment |-> None, fully_bound |-> None, curated |-> None]
      BY <1>1 DEF CoverageOf, EmptyCoverage
    <2>2. OrEmpty(None) = <<>> /\ Range(<<>>) = {}
      BY EmptyList DEF OrEmpty
    <2> QED
      BY <1>1, <2>1, <2>2, ScalarAssumption DEF CoverageType, FreeText, KindsGood, ReasonsGood
  <1>2. CASE m.coverage # None
    <2>1. CoverageOf(m) = m.coverage /\ CoverageGood(m.coverage)
      BY <1>2 DEF CoverageOf, MapGood
    <2>2. m.coverage.comment \in Texts
      BY <2>1 DEF CoverageGood, CoverageType
    <2> QED
      BY <1>2, <2>1, <2>2 DEF CoverageGood, FreeText
  <1> QED
    BY <1>1, <1>2

LEMMA WithCoverageGood ==
  ASSUME NEW m, MapGood(m), NEW c, c # None => CoverageGood(c)
  PROVE  LET n == [m EXCEPT !.coverage = c]
         IN  MapGood(n) /\ n.header = m.header /\ n.bindings = m.bindings /\ n.coverage = c
  <1> DEFINE n == [m EXCEPT !.coverage = c]
  <1>1. c \in {None} \cup CoverageType
    BY DEF CoverageGood
  <1>2. n \in MapType /\ n.header = m.header /\ n.bindings = m.bindings /\ n.coverage = c
    BY <1>1 DEF MapGood, MapType
  <1> HIDE DEF n
  <1>3. MapGood(n)
    BY <1>2 DEF MapGood
  <1> QED
    BY <1>2, <1>3 DEF n

(* What the second validation tells of a new coverage block.               *)
LEMMA CoverageChecked ==
  ASSUME NEW m, MapGood(m), NEW c \in CoverageType, MapOK([m EXCEPT !.coverage = c]),
         UniqueKeys(OrEmpty(c.curated)), c.comment \notin Unclean,
         \A e \in Range(OrEmpty(c.curated)) : e.comment \notin Unclean
  PROVE  CoverageGood(c)
  <1> DEFINE n == [m EXCEPT !.coverage = c]
  <1>1. n.coverage = c /\ c # None
    BY NoneAssumption DEF MapGood, MapType
  <1> HIDE DEF n
  <1>2. CoverageOK(c)
    BY <1>1 DEF MapOK, n
  <1> QED
    BY <1>2, CleanCoverage, CoverageTests

(* The curated kinds are a list of good entries, too.                      *)
LEMMA ReasonsList ==
  ASSUME NEW s, ReasonsGood(s)
  PROVE  /\ OrEmpty(s) \in Seq(Reasons) /\ UniqueKeys(OrEmpty(s))
         /\ \A e \in Range(OrEmpty(s)) : InputOK(e) /\ e \in Reasons
  <1>1. OrEmpty(s) \in Seq(Reasons) /\ UniqueKeys(OrEmpty(s))
        /\ \A e \in Range(OrEmpty(s)) : InputOK(e)
    BY EmptyList DEF ReasonsGood, OrEmpty
  <1> QED
    BY <1>1, ListProperties

LEMMA KindsList ==
  ASSUME NEW s, KindsGood(s)
  PROVE  OrEmpty(s) \in Seq(Kinds) /\ IsInjective(OrEmpty(s))
  <1>1. IsInjective(<<>>)
    BY EmptyList DEF IsInjective
  <1> QED
    BY <1>1, EmptyList DEF KindsGood, OrEmpty

LEMMA KeptGood ==
  ASSUME NEW K, NEW s \in Seq([key : K, value : Scalars, comment : Texts]),
         \A d \in Range(s) : InputOK(d),
         NEW e \in [key : K, value : Scalars, comment : Texts], InputOK(e)
  PROVE  LET d == Kept(s, e)
         IN  /\ d \in [key : K, value : Scalars, comment : Texts] /\ InputOK(d)
             /\ d.key = e.key /\ d.value = e.value
             /\ e.comment # None => d.comment = e.comment
             /\ e.comment = None /\ e.key \in Keys(s) => d.comment = At(s, e.key).comment
             /\ e.key \notin Keys(s) => d = e
  <1>1. CASE e.key \in Keys(s) /\ e.comment = None
    <2> DEFINE c == At(s, e.key).comment
    <2>1. At(s, e.key) \in Range(s)
      BY <1>1, IndexProperties
    <2>2. InputOK(At(s, e.key)) /\ At(s, e.key) \in [key : K, value : Scalars, comment : Texts]
      BY <2>1, ListProperties
    <2>3. c \in Texts /\ c \notin Unwritable \cup Unclean
      BY <2>2 DEF InputOK, EntryOK, CommentOK
    <2>4. Kept(s, e) = [e EXCEPT !.comment = c]
      BY <1>1 DEF Kept
    <2> QED
      BY <1>1, <2>3, <2>4 DEF InputOK, EntryOK, CommentOK
  <1>2. CASE ~(e.key \in Keys(s) /\ e.comment = None)
    BY <1>2 DEF Kept
  <1> QED
    BY <1>1, <1>2

LEMMA FullyBoundAddGood ==
  ASSUME NEW m, MapGood(m), NEW kind \in Kinds, MapOK(FullyBoundAdd(m, kind))
  PROVE  LET n == FullyBoundAdd(m, kind)
             listed == OrEmpty(CoverageOf(m).fully_bound)
         IN  /\ MapGood(n) /\ n.header = m.header /\ n.bindings = m.bindings /\ n.coverage # None
             /\ n.coverage.fully_bound = Append(listed, kind)
             /\ n.coverage.comment = CoverageOf(m).comment
             /\ n.coverage.curated = CoverageOf(m).curated
             /\ kind \notin Range(listed)
  <1> DEFINE old == CoverageOf(m)
             listed == OrEmpty(old.fully_bound)
             c == [old EXCEPT !.fully_bound = Append(listed, kind)]
  <1>1. /\ old \in CoverageType /\ old.comment \in FreeText
        /\ KindsGood(old.fully_bound) /\ ReasonsGood(old.curated)
    BY CoverageOfGood
  <1>2. listed \in Seq(Kinds) /\ Append(listed, kind) \in Seq(Kinds)
    BY <1>1, KindsList, AppendList
  <1>3. /\ c \in CoverageType /\ c.comment = old.comment /\ c.curated = old.curated
        /\ c.fully_bound = Append(listed, kind)
    BY <1>1, <1>2 DEF CoverageType
  <1>4. FullyBoundAdd(m, kind) = [m EXCEPT !.coverage = c]
    BY DEF FullyBoundAdd
  <1> HIDE DEF c
  <1>5. CoverageGood(c)
    <2>1. UniqueKeys(OrEmpty(c.curated)) /\ \A e \in Range(OrEmpty(c.curated)) : InputOK(e)
      BY <1>1, <1>3, ReasonsList
    <2>2. \A e \in Range(OrEmpty(c.curated)) : e.comment \notin Unclean
      BY <2>1 DEF InputOK
    <2>3. c.comment \notin Unclean
      BY <1>1, <1>3 DEF FreeText
    <2> QED
      BY <1>3, <1>4, <2>1, <2>2, <2>3, CoverageChecked
  <1>6. kind \notin Range(listed)
    <2>1. IsInjective(Append(listed, kind))
      <3>1. Append(listed, kind) # None
        BY <1>2, NoneAssumption
      <3> QED
        BY <1>3, <1>5, <3>1 DEF CoverageGood, KindsGood
    <2>2. Len(listed) \in Nat /\ DOMAIN listed = 1..Len(listed)
      BY <1>2, ListProperties
    <2>3. /\ DOMAIN Append(listed, kind) = 1..(Len(listed) + 1)
          /\ \A n \in 1..Len(listed) : Append(listed, kind)[n] = listed[n]
          /\ Append(listed, kind)[Len(listed) + 1] = kind
      BY <1>2, AppendList
    <2> HIDE DEF listed
    <2>4. ASSUME NEW n \in DOMAIN listed, listed[n] = kind
          PROVE  FALSE
      <3> DEFINE t == Append(listed, kind)
      <3>1. n \in DOMAIN t /\ Len(listed) + 1 \in DOMAIN t /\ n # Len(listed) + 1
        BY <2>2, <2>3
      <3>2. t[n] = t[Len(listed) + 1]
        BY <2>2, <2>3, <2>4
      <3> QED
        BY <2>1, <3>1, <3>2 DEF IsInjective
    <2> QED
      BY <2>4 DEF Range
  <1>7. c # None
    BY <1>3, NoneAssumption
  <1>8. LET n == [m EXCEPT !.coverage = c]
        IN  MapGood(n) /\ n.header = m.header /\ n.bindings = m.bindings /\ n.coverage = c
    BY <1>5, WithCoverageGood
  <1> QED
    BY <1>3, <1>4, <1>6, <1>7, <1>8

LEMMA CuratedSetGood ==
  ASSUME NEW m, MapGood(m), NEW e \in Reasons, InputOK(e), MapOK(CuratedSet(m, e))
  PROVE  LET n == CuratedSet(m, e)
             curated == OrEmpty(CoverageOf(m).curated)
         IN  /\ MapGood(n) /\ n.header = m.header /\ n.bindings = m.bindings /\ n.coverage # None
             /\ n.coverage.curated = Put(curated, Kept(curated, e))
             /\ n.coverage.comment = CoverageOf(m).comment
             /\ n.coverage.fully_bound = CoverageOf(m).fully_bound
  <1> DEFINE old == CoverageOf(m)
             curated == OrEmpty(old.curated)
             new == Put(curated, Kept(curated, e))
             c == [old EXCEPT !.curated = new]
  <1>1. /\ old \in CoverageType /\ old.comment \in FreeText
        /\ KindsGood(old.fully_bound) /\ ReasonsGood(old.curated)
    BY CoverageOfGood
  <1>2. /\ curated \in Seq(Reasons) /\ UniqueKeys(curated)
        /\ \A d \in Range(curated) : InputOK(d)
    BY <1>1, ReasonsList
  <1>3. Kept(curated, e) \in Reasons /\ InputOK(Kept(curated, e))
    <2> HIDE DEF curated
    <2> QED
      BY <1>2, KeptGood DEF Reasons
  <1>4. /\ new \in Seq(Reasons) /\ new # <<>> /\ UniqueKeys(new)
        /\ \A d \in Range(new) : InputOK(d)
    <2> HIDE DEF curated
    <2> QED
      BY <1>2, <1>3, PutList
  <1>5. CuratedSet(m, e) = [m EXCEPT !.coverage = c]
    BY DEF CuratedSet
  <1> HIDE DEF new
  <1>6. /\ c \in CoverageType /\ c.comment = old.comment /\ c.curated = new
        /\ c.fully_bound = old.fully_bound
    BY <1>1, <1>4 DEF CoverageType
  <1> HIDE DEF c
  <1>7. OrEmpty(c.curated) = new
    BY <1>4, <1>6, NoneAssumption DEF OrEmpty
  <1>8. CoverageGood(c)
    BY <1>1, <1>4, <1>5, <1>6, <1>7, CoverageChecked DEF InputOK, FreeText
  <1>9. c # None
    BY <1>6, NoneAssumption
  <1>10. LET n == [m EXCEPT !.coverage = c]
         IN  MapGood(n) /\ n.header = m.header /\ n.bindings = m.bindings /\ n.coverage = c
    BY <1>8, WithCoverageGood
  <1> QED
    BY <1>5, <1>6, <1>9, <1>10 DEF new

(* The block goes with its last entry.                                     *)
LEMMA PruneGood ==
  ASSUME NEW c \in CoverageType, c.comment \in FreeText,
         KindsGood(c.fully_bound), ReasonsGood(c.curated),
         Range(OrEmpty(c.fully_bound)) \cap Keys(OrEmpty(c.curated)) = {}
  PROVE  /\ Prune(c) # None => CoverageGood(Prune(c))
         /\ Prune(c) = None <=> c.fully_bound = None /\ c.curated = None
         /\ Prune(c) # None => Prune(c) = c
  BY NoneAssumption DEF Prune, CoverageGood, FreeText

LEMMA FullyBoundRemoveGood ==
  ASSUME NEW m, MapGood(m), NEW kind, m.coverage # None,
         kind \in Range(OrEmpty(m.coverage.fully_bound))
  PROVE  LET n == FullyBoundRemove(m, kind)
             c == [m.coverage EXCEPT !.fully_bound = OrNone(Without(@, kind))]
         IN  /\ MapGood(n) /\ n.header = m.header /\ n.bindings = m.bindings
             /\ n.coverage = Prune(c)
             /\ n.coverage = None <=> c.fully_bound = None /\ c.curated = None
             /\ n.coverage # None => n.coverage = c
             /\ c.comment = m.coverage.comment /\ c.curated = m.coverage.curated
             /\ OrEmpty(c.fully_bound) = Without(OrEmpty(m.coverage.fully_bound), kind)
  <1> DEFINE old == m.coverage
             new == OrNone(Without(old.fully_bound, kind))
             c == [old EXCEPT !.fully_bound = new]
  <1>1. CoverageGood(old) /\ old \in CoverageType /\ old.comment \in FreeText
    BY CoverageOfGood DEF CoverageGood
  <1>2. old.fully_bound # None
    BY EmptyList DEF OrEmpty
  <1>3. old.fully_bound \in Seq(Kinds) /\ IsInjective(old.fully_bound)
    BY <1>1, <1>2 DEF CoverageGood, KindsGood
  <1>4. OrEmpty(old.fully_bound) = old.fully_bound
    BY <1>2 DEF OrEmpty
  <1> DEFINE w == Without(old.fully_bound, kind)
  <1>5. /\ w \in Seq(Kinds) /\ IsInjective(w)
        /\ Range(w) = Range(old.fully_bound) \ {kind}
    BY <1>3, <1>4, WithoutProperties
  <1> HIDE DEF w
  <1>6. new = OrNone(w)
    BY DEF w
  <1> HIDE DEF new
  <1>7. KindsGood(new) /\ OrEmpty(new) = w /\ new \in {None} \cup Seq(Kinds)
    BY <1>5, <1>6, NoneAssumption DEF KindsGood, OrEmpty, OrNone
  <1>8. /\ c \in CoverageType /\ c.comment = old.comment /\ c.curated = old.curated
        /\ c.fully_bound = new
    BY <1>1, <1>7 DEF CoverageType
  <1>9. FullyBoundRemove(m, kind) = [m EXCEPT !.coverage = Prune(c)]
    BY DEF FullyBoundRemove, new
  <1> HIDE DEF c
  <1>10. Range(OrEmpty(c.fully_bound)) \cap Keys(OrEmpty(c.curated)) = {}
    BY <1>1, <1>4, <1>5, <1>7, <1>8 DEF CoverageGood
  <1>11. ReasonsGood(c.curated)
    BY <1>1, <1>8 DEF CoverageGood
  <1>12. /\ Prune(c) # None => CoverageGood(Prune(c))
         /\ Prune(c) = None <=> c.fully_bound = None /\ c.curated = None
         /\ Prune(c) # None => Prune(c) = c
    BY <1>1, <1>7, <1>8, <1>10, <1>11, PruneGood
  <1>13. LET n == [m EXCEPT !.coverage = Prune(c)]
         IN  MapGood(n) /\ n.header = m.header /\ n.bindings = m.bindings /\ n.coverage = Prune(c)
    BY <1>12, WithCoverageGood
  <1> QED
    BY <1>4, <1>7, <1>8, <1>9, <1>12, <1>13 DEF c, new, w

LEMMA CuratedUnsetGood ==
  ASSUME NEW m, MapGood(m), NEW kind, m.coverage # None,
         kind \in Keys(OrEmpty(m.coverage.curated))
  PROVE  LET n == CuratedUnset(m, kind)
             c == [m.coverage EXCEPT !.curated = OrNone(Drop(@, kind))]
         IN  /\ MapGood(n) /\ n.header = m.header /\ n.bindings = m.bindings
             /\ n.coverage = Prune(c)
             /\ n.coverage = None <=> c.fully_bound = None /\ c.curated = None
             /\ n.coverage # None => n.coverage = c
             /\ c.comment = m.coverage.comment /\ c.fully_bound = m.coverage.fully_bound
             /\ OrEmpty(c.curated) = Drop(OrEmpty(m.coverage.curated), kind)
  <1> DEFINE old == m.coverage
             new == OrNone(Drop(old.curated, kind))
             c == [old EXCEPT !.curated = new]
             d == Drop(old.curated, kind)
  <1>1. CoverageGood(old) /\ old \in CoverageType /\ old.comment \in FreeText
    BY CoverageOfGood DEF CoverageGood
  <1>2. old.curated # None
    BY EmptyList DEF OrEmpty
  <1>3. OrEmpty(old.curated) = old.curated
    BY <1>2 DEF OrEmpty
  <1>4. /\ old.curated \in Seq(Reasons) /\ UniqueKeys(old.curated)
        /\ \A e \in Range(old.curated) : InputOK(e)
    BY <1>1, <1>2 DEF CoverageGood, ReasonsGood
  <1>5. /\ d \in Seq(Reasons) /\ UniqueKeys(d)
        /\ Range(d) = {e \in Range(old.curated) : e.key # kind}
    BY <1>3, <1>4, DropList
  <1> HIDE DEF d
  <1>6. new = OrNone(d)
    BY DEF d
  <1> HIDE DEF new
  <1>7. ReasonsGood(new) /\ OrEmpty(new) = d /\ new \in {None} \cup Seq(Reasons)
    BY <1>4, <1>5, <1>6, NoneAssumption DEF ReasonsGood, OrEmpty, OrNone
  <1>8. /\ c \in CoverageType /\ c.comment = old.comment /\ c.fully_bound = old.fully_bound
        /\ c.curated = new
    BY <1>1, <1>7 DEF CoverageType
  <1>9. CuratedUnset(m, kind) = [m EXCEPT !.coverage = Prune(c)]
    BY DEF CuratedUnset, new
  <1> HIDE DEF c
  <1>10. Keys(d) \subseteq Keys(old.curated)
    BY <1>4, <1>5, ListProperties
  <1>11. Range(OrEmpty(c.fully_bound)) \cap Keys(OrEmpty(c.curated)) = {}
    BY <1>1, <1>3, <1>7, <1>8, <1>10 DEF CoverageGood
  <1>12. KindsGood(c.fully_bound)
    BY <1>1, <1>8 DEF CoverageGood
  <1>13. /\ Prune(c) # None => CoverageGood(Prune(c))
         /\ Prune(c) = None <=> c.fully_bound = None /\ c.curated = None
         /\ Prune(c) # None => Prune(c) = c
    BY <1>1, <1>7, <1>8, <1>11, <1>12, PruneGood
  <1>14. LET n == [m EXCEPT !.coverage = Prune(c)]
         IN  MapGood(n) /\ n.header = m.header /\ n.bindings = m.bindings /\ n.coverage = Prune(c)
    BY <1>13, WithCoverageGood
  <1> QED
    BY <1>3, <1>7, <1>8, <1>9, <1>13, <1>14 DEF c, new, d

LEMMA ReasonCommentGood ==
  ASSUME NEW m, MapGood(m), m.coverage # None,
         NEW kind \in Keys(OrEmpty(m.coverage.curated)), NEW text \in FreeText
  PROVE  LET n == SetComment(m, Anchor("curated", None, kind), text)
             curated == OrEmpty(m.coverage.curated)
             e == Commented(curated, kind, text)
         IN  /\ MapGood(n) /\ n.header = m.header /\ n.bindings = m.bindings /\ n.coverage # None
             /\ n.coverage.curated = Put(curated, e)
             /\ n.coverage.comment = m.coverage.comment
             /\ n.coverage.fully_bound = m.coverage.fully_bound
             /\ e \in Reasons /\ e.key = kind /\ e.value = At(curated, kind).value /\ e.comment = text
             /\ At(curated, kind) \in Range(curated) /\ At(curated, kind).key = kind
  <1> DEFINE old == m.coverage
             s == old.curated
             e == Commented(s, kind, text)
             new == Put(s, e)
             c == [old EXCEPT !.curated = new]
             at == Anchor("curated", None, kind)
  <1>1. CoverageGood(old) /\ old \in CoverageType /\ old.comment \in FreeText
    BY CoverageOfGood DEF CoverageGood
  <1>2. s # None /\ OrEmpty(s) = s
    BY EmptyList DEF OrEmpty
  <1>3. /\ s \in Seq(Reasons) /\ UniqueKeys(s)
        /\ \A d \in Range(s) : InputOK(d)
    BY <1>1, <1>2 DEF CoverageGood, ReasonsGood
  <1>4. at[1] = "curated" /\ at[3] = kind
    BY DEF Anchor
  <1>5. SetComment(m, at, text) = [m EXCEPT !.coverage.curated = WithComment(@, kind, text)]
    BY <1>4 DEF SetComment
  <1> HIDE DEF s, at
  <1>6. At(s, kind) \in Range(s) /\ At(s, kind).key = kind /\ kind \in Keys(s)
    BY <1>2, IndexProperties DEF s
  <1>7. Range(s) \subseteq Reasons
    BY <1>3, ListProperties
  <1>8. \A d \in Range(s) : [d EXCEPT !.comment = text].key = d.key
    BY <1>7 DEF Reasons
  <1>9. WithComment(s, kind, text) = new
    BY <1>6, <1>8, CommentList DEF Commented
  <1>10. InputOK(At(s, kind)) /\ At(s, kind) \in Reasons
    BY <1>3, <1>6, <1>7
  <1>11. e \in Reasons /\ InputOK(e) /\ e.key = kind /\ e.value = At(s, kind).value /\ e.comment = text
    BY <1>6, <1>10 DEF Commented, Reasons, InputOK, EntryOK, CommentOK, FreeText
  <1> HIDE DEF e
  <1>12. /\ new \in Seq(Reasons) /\ new # <<>> /\ UniqueKeys(new)
         /\ Range(new) = {d \in Range(s) : d.key # e.key} \cup {e}
    <2>1. s \in Seq(Reasons) /\ UniqueKeys(s) /\ e \in Reasons
      BY <1>3, <1>11
    <2> QED
      BY <2>1, PutList
  <1>13. Keys(new) = Keys(s)
    <2>1. Keys(new) = {d.key : d \in Range(new)} /\ Keys(s) = {d.key : d \in Range(s)}
      BY <1>3, <1>12, ListProperties
    <2>2. e.key = kind /\ At(s, kind) \in Range(s) /\ At(s, kind).key = kind
      BY <1>6, <1>11
    <2> HIDE DEF new
    <2>3. ASSUME NEW k
          PROVE  k \in {d.key : d \in Range(new)} <=> k \in {d.key : d \in Range(s)}
      BY <1>12, <2>2
    <2> QED
      BY <2>1, <2>3
  <1>14. SetComment(m, at, text) = [m EXCEPT !.coverage = c]
    BY <1>5, <1>9 DEF MapGood, MapType, s
  <1> HIDE DEF new
  <1>15. /\ c \in CoverageType /\ c.comment = old.comment /\ c.curated = new
         /\ c.fully_bound = old.fully_bound
    BY <1>1, <1>12 DEF CoverageType
  <1> HIDE DEF c
  <1>16. new # None /\ OrEmpty(new) = new
    BY <1>12, NoneAssumption DEF OrEmpty
  <1>17. ReasonsGood(new)
    BY <1>3, <1>11, <1>12 DEF ReasonsGood
  <1>18. CoverageGood(c)
    BY <1>1, <1>2, <1>13, <1>15, <1>16, <1>17 DEF CoverageGood, s
  <1>19. c # None
    BY <1>15, NoneAssumption
  <1>20. LET n == [m EXCEPT !.coverage = c]
         IN  MapGood(n) /\ n.header = m.header /\ n.bindings = m.bindings /\ n.coverage = c
    BY <1>18, WithCoverageGood
  <1> QED
    BY <1>2, <1>6, <1>11, <1>14, <1>15, <1>19, <1>20 DEF new, e, s, at

LEMMA CoverageCommentGood ==
  ASSUME NEW m, MapGood(m), m.coverage # None, NEW text \in FreeText
  PROVE  LET n == SetComment(m, Anchor("coverage", None, None), text)
         IN  /\ MapGood(n) /\ n.header = m.header /\ n.bindings = m.bindings /\ n.coverage # None
             /\ n.coverage.comment = text
             /\ n.coverage.fully_bound = m.coverage.fully_bound
             /\ n.coverage.curated = m.coverage.curated
  <1> DEFINE c == [m.coverage EXCEPT !.comment = text]
             at == Anchor("coverage", None, None)
  <1>1. CoverageGood(m.coverage) /\ m.coverage \in CoverageType
    BY DEF MapGood, CoverageGood
  <1>2. /\ c \in CoverageType /\ c.comment = text /\ c.curated = m.coverage.curated
        /\ c.fully_bound = m.coverage.fully_bound
    BY <1>1 DEF CoverageType, FreeText
  <1>3. at[1] = "coverage"
    BY DEF Anchor
  <1>4. SetComment(m, at, text) = [m EXCEPT !.coverage = c]
    BY <1>3 DEF SetComment, MapGood, MapType
  <1> HIDE DEF c, at
  <1>5. CoverageGood(c)
    BY <1>1, <1>2 DEF CoverageGood, FreeText
  <1>6. c # None
    BY <1>2, NoneAssumption
  <1>7. LET n == [m EXCEPT !.coverage = c]
        IN  MapGood(n) /\ n.header = m.header /\ n.bindings = m.bindings /\ n.coverage = c
    BY <1>5, WithCoverageGood
  <1> QED
    BY <1>2, <1>4, <1>6, <1>7 DEF at

(* format: sorted(bindings), sorted(fully_bound), sorted(curated).         *)
LEMMA CanonicalCoverageGood ==
  ASSUME NEW c, CoverageGood(c)
  PROVE  LET d == CanonicalCoverage(c)
         IN  /\ CoverageGood(d) /\ d.comment = c.comment /\ CanonicalCoverage(d) = d
             /\ Range(OrEmpty(d.fully_bound)) = Range(OrEmpty(c.fully_bound))
             /\ Range(OrEmpty(d.curated)) = Range(OrEmpty(c.curated))
             /\ \A i, j \in DOMAIN OrEmpty(d.fully_bound) :
                  i < j => Rank[OrEmpty(d.fully_bound)[i]] < Rank[OrEmpty(d.fully_bound)[j]]
             /\ \A i, j \in DOMAIN OrEmpty(d.curated) :
                  i < j => Rank[OrEmpty(d.curated)[i].key] < Rank[OrEmpty(d.curated)[j].key]
  <1> DEFINE kinds == IF c.fully_bound = None THEN None ELSE SortKinds(c.fully_bound)
             reasons == IF c.curated = None THEN None ELSE SortEntries(c.curated)
             d == [c EXCEPT !.fully_bound = kinds, !.curated = reasons]
  <1>1. c \in CoverageType /\ KindsGood(c.fully_bound) /\ ReasonsGood(c.curated)
    BY DEF CoverageGood
  <1>2. /\ KindsGood(kinds) /\ kinds \in {None} \cup Seq(Kinds)
        /\ kinds = None <=> c.fully_bound = None
        /\ Range(OrEmpty(kinds)) = Range(OrEmpty(c.fully_bound))
        /\ kinds = IF kinds = None THEN None ELSE SortKinds(kinds)
        /\ \A i, j \in DOMAIN OrEmpty(kinds) :
             i < j => Rank[OrEmpty(kinds)[i]] < Rank[OrEmpty(kinds)[j]]
    <2>1. CASE c.fully_bound = None
      BY <2>1, EmptyList DEF KindsGood, OrEmpty
    <2>2. CASE c.fully_bound # None
      <3> DEFINE s == c.fully_bound
                 t == SortKinds(s)
      <3>1. s \in Seq(Kinds) /\ IsInjective(s) /\ s # <<>>
        BY <1>1, <2>2 DEF KindsGood
      <3>2. \A k, l \in Kinds : Rank[k] \in Nat /\ (Rank[k] = Rank[l] => k = l)
        BY RankAssumption
      <3> HIDE DEF s
      <3>3. /\ t \in Seq(Kinds) /\ IsInjective(t) /\ Range(t) = Range(s)
            /\ t = <<>> <=> s = <<>>
            /\ \A m, n \in DOMAIN t : m < n => Rank[t[m]] < Rank[t[n]]
            /\ SortKinds(t) = t
        BY <3>1, <3>2, SortedKinds
      <3> HIDE DEF t
      <3>4. t # None /\ kinds = t /\ OrEmpty(t) = t /\ OrEmpty(s) = s /\ s # None
        BY <2>2, <3>3, NoneAssumption DEF OrEmpty, s, t
      <3> HIDE DEF kinds
      <3> QED
        BY <2>2, <3>1, <3>3, <3>4 DEF KindsGood, s
    <2> QED
      BY <2>1, <2>2
  <1>3. /\ ReasonsGood(reasons) /\ reasons \in {None} \cup Seq(Reasons)
        /\ reasons = None <=> c.curated = None
        /\ Range(OrEmpty(reasons)) = Range(OrEmpty(c.curated))
        /\ reasons = IF reasons = None THEN None ELSE SortEntries(reasons)
        /\ \A i, j \in DOMAIN OrEmpty(reasons) :
             i < j => Rank[OrEmpty(reasons)[i].key] < Rank[OrEmpty(reasons)[j].key]
    <2>1. CASE c.curated = None
      BY <2>1, EmptyList DEF ReasonsGood, OrEmpty
    <2>2. CASE c.curated # None
      <3> DEFINE s == c.curated
                 t == SortEntries(s)
      <3>1. s \in Seq(Reasons) /\ UniqueKeys(s) /\ s # <<>> /\ \A e \in Range(s) : InputOK(e)
        BY <1>1, <2>2 DEF ReasonsGood
      <3>2. \A a, e \in Reasons : Rank[e.key] \in Nat /\ (Rank[e.key] = Rank[a.key] => e.key = a.key)
        BY RankAssumption DEF Reasons
      <3> HIDE DEF s
      <3>3. /\ t \in Seq(Reasons) /\ UniqueKeys(t) /\ Range(t) = Range(s)
            /\ t = <<>> <=> s = <<>>
            /\ \A m, n \in DOMAIN t : m < n => Rank[t[m].key] < Rank[t[n].key]
            /\ SortEntries(t) = t
        BY <3>1, <3>2, SortedEntries
      <3> HIDE DEF t
      <3>4. t # None /\ reasons = t /\ OrEmpty(t) = t /\ OrEmpty(s) = s /\ s # None
        BY <2>2, <3>3, NoneAssumption DEF OrEmpty, s, t
      <3> HIDE DEF reasons
      <3> QED
        BY <2>2, <3>1, <3>3, <3>4 DEF ReasonsGood, s
    <2> QED
      BY <2>1, <2>2
  <1>4. CanonicalCoverage(c) = d
    BY DEF CanonicalCoverage
  <1> HIDE DEF kinds, reasons
  <1>5. /\ d \in CoverageType /\ d.comment = c.comment
        /\ d.fully_bound = kinds /\ d.curated = reasons
    BY <1>1, <1>2, <1>3 DEF CoverageType
  <1> HIDE DEF d
  <1>6. CanonicalCoverage(d) = d
    <2>1. d = [d EXCEPT !.fully_bound = d.fully_bound, !.curated = d.curated]
      BY <1>5 DEF CoverageType
    <2> QED
      BY <1>2, <1>3, <1>5, <2>1 DEF CanonicalCoverage
  <1>7. Keys(OrEmpty(d.curated)) = Keys(OrEmpty(c.curated))
    <2>1. OrEmpty(reasons) \in Seq(Reasons) /\ OrEmpty(c.curated) \in Seq(Reasons)
      BY <1>1, <1>3, ReasonsList
    <2> QED
      BY <1>3, <1>5, <2>1, ListProperties
  <1>8. CoverageGood(d)
    BY <1>2, <1>3, <1>5, <1>7 DEF CoverageGood
  <1> QED
    BY <1>2, <1>3, <1>4, <1>5, <1>6, <1>8

LEMMA CanonicaliseGood ==
  ASSUME NEW m, MapGood(m)
  PROVE  LET n == Canonicalise(m)
         IN  /\ MapGood(n) /\ n.header = m.header /\ Canonicalise(n) = n
             /\ Range(n.bindings) = Range(m.bindings)
             /\ \A i, j \in DOMAIN n.bindings :
                  i < j => Rank[n.bindings[i].key] < Rank[n.bindings[j].key]
             /\ n.coverage = IF m.coverage = None THEN None ELSE CanonicalCoverage(m.coverage)
             /\ n.coverage = None <=> m.coverage = None
  <1> DEFINE s == m.bindings
             t == SortEntries(s)
             c == IF m.coverage = None THEN None ELSE CanonicalCoverage(m.coverage)
             n == [m EXCEPT !.bindings = t, !.coverage = c]
  <1>1. m \in MapType /\ s \in Seq(BindingType) /\ UniqueKeys(s)
    BY DEF MapGood, MapType
  <1>2. \A b, d \in BindingType : Rank[b.key] \in Nat /\ (Rank[b.key] = Rank[d.key] => b.key = d.key)
    BY RankAssumption DEF BindingType
  <1> HIDE DEF s
  <1>3. /\ t \in Seq(BindingType) /\ UniqueKeys(t) /\ Range(t) = Range(s) /\ SortEntries(t) = t
        /\ \A i, j \in DOMAIN t : i < j => Rank[t[i].key] < Rank[t[j].key]
    BY <1>1, <1>2, SortedEntries
  <1> HIDE DEF t
  <1>4. /\ c \in {None} \cup CoverageType
        /\ c # None => CoverageGood(c)
        /\ c = None <=> m.coverage = None
        /\ c = IF c = None THEN None ELSE CanonicalCoverage(c)
    <2>1. CASE m.coverage = None
      BY <2>1
    <2>2. CASE m.coverage # None
      <3>1. CoverageGood(m.coverage)
        BY <2>2 DEF MapGood
      <3>2. /\ CoverageGood(CanonicalCoverage(m.coverage))
            /\ CanonicalCoverage(CanonicalCoverage(m.coverage)) = CanonicalCoverage(m.coverage)
        BY <3>1, CanonicalCoverageGood
      <3> QED
        BY <2>2, <3>2, NoneAssumption DEF CoverageGood
    <2> QED
      BY <2>1, <2>2
  <1>5. Canonicalise(m) = n
    BY DEF Canonicalise, t, s
  <1>6. c = IF m.coverage = None THEN None ELSE CanonicalCoverage(m.coverage)
    OBVIOUS
  <1> HIDE DEF c
  <1>7. n \in MapType /\ n.header = m.header /\ n.bindings = t /\ n.coverage = c
    <2>1. m \in MapType /\ t \in Seq(BindingType) /\ c \in {None} \cup CoverageType
      BY <1>1, <1>3, <1>4
    <2> QED
      BY <2>1 DEF MapType
  <1> HIDE DEF n
  <1>8. MapGood(n)
    <2>1. \A b \in Range(t) : BindingGood(b)
      BY <1>3 DEF MapGood, s
    <2>2. m.header \notin Unwritable \cup Unclean
      BY DEF MapGood
    <2>3. UniqueKeys(t) /\ (c # None => CoverageGood(c))
      BY <1>3, <1>4
    <2> QED
      BY <1>7, <2>1, <2>2, <2>3 DEF MapGood
  <1>9. Canonicalise(n) = n
    <2>1. n = [n EXCEPT !.bindings = n.bindings, !.coverage = n.coverage]
      BY <1>7 DEF MapType
    <2> QED
      BY <1>3, <1>4, <1>7, <2>1 DEF Canonicalise
  <1> QED
    BY <1>3, <1>4, <1>5, <1>6, <1>7, <1>8, <1>9 DEF s

(***************************************************************************)
(* The anchors of a good map: what a command finds.                        *)
(***************************************************************************)
LEMMA AnchorsOfMap ==
  ASSUME NEW m, NEW at
  PROVE  at \in Anchors(m) <=>
           \/ at = Anchor("header", None, None)
           \/ \E b \in Range(m.bindings) :
                \/ at = Anchor("binding", b.key, None)
                \/ \E type \in EntryTypes : \E e \in Range(ListOf(b, type)) :
                     at = Anchor(type, b.key, e.key)
           \/ /\ m.coverage # None
              /\ \/ at = Anchor("coverage", None, None)
                 \/ \E k \in Range(OrEmpty(m.coverage.fully_bound)) :
                      at = Anchor("fully_bound", None, k)
                 \/ \E e \in Range(OrEmpty(m.coverage.curated)) :
                      at = Anchor("curated", None, e.key)
  <1>1. at \in Anchors(m) <=> \E fact \in Facts(m) : at = fact.anchor
    BY DEF Anchors
  <1>2. /\ HeaderFact(m).anchor = Anchor("header", None, None)
        /\ \A b : BindingFact(b).anchor = Anchor("binding", b.key, None)
        /\ \A type, id, e : EntryFact(type, id, e).anchor = Anchor(type, id, e.key)
        /\ \A c : CoverageFact(c).anchor = Anchor("coverage", None, None)
        /\ \A k : KindFact(k).anchor = Anchor("fully_bound", None, k)
    BY DEF HeaderFact, BindingFact, EntryFact, CoverageFact, KindFact, Fact
  <1>3. \A b : (\E fact \in FactsOfBinding(b) : at = fact.anchor) <=>
           \/ at = Anchor("binding", b.key, None)
           \/ \E type \in EntryTypes : \E e \in Range(ListOf(b, type)) :
                at = Anchor(type, b.key, e.key)
    <2> TAKE b
    <2>1. \A fact : fact \in FactsOfBinding(b) <=>
           \/ fact = BindingFact(b)
           \/ \E type \in EntryTypes : \E e \in Range(ListOf(b, type)) :
                fact = EntryFact(type, b.key, e)
      BY FactsOfOne
    <2> QED
      BY <1>2, <2>1
  <1>4. \A c : (\E fact \in CoverageFacts(c) : at = fact.anchor) <=>
           \/ at = Anchor("coverage", None, None)
           \/ \E k \in Range(OrEmpty(c.fully_bound)) : at = Anchor("fully_bound", None, k)
           \/ \E e \in Range(OrEmpty(c.curated)) : at = Anchor("curated", None, e.key)
    <2> TAKE c
    <2>1. \A fact : fact \in CoverageFacts(c) <=>
           \/ fact = CoverageFact(c)
           \/ \E k \in Range(OrEmpty(c.fully_bound)) : fact = KindFact(k)
           \/ \E e \in Range(OrEmpty(c.curated)) : fact = EntryFact("curated", None, e)
      BY FactsOfCoverage
    <2> QED
      BY <1>2, <2>1
  <1>5. \A fact : fact \in Facts(m) <=>
           \/ fact = HeaderFact(m)
           \/ \E b \in Range(m.bindings) : fact \in FactsOfBinding(b)
           \/ m.coverage # None /\ fact \in CoverageFacts(m.coverage)
    BY FactsOfMap
  <1> QED
    BY <1>1, <1>2, <1>3, <1>4, <1>5, Zenon

LEMMA Found ==
  ASSUME NEW m, MapGood(m)
  PROVE  /\ Anchor("header", None, None) \in Anchors(m)
         /\ Anchor("coverage", None, None) \in Anchors(m) <=> m.coverage # None
         /\ \A id : Anchor("binding", id, None) \in Anchors(m) <=> id \in Ids(m)
         /\ \A id, key : \A type \in EntryTypes :
              Anchor(type, id, key) \in Anchors(m) <=>
                id \in Ids(m) /\ key \in Keys(ListOf(BindingOf(m, id), type))
         /\ \A kind : Anchor("fully_bound", None, kind) \in Anchors(m) <=>
              m.coverage # None /\ kind \in Range(OrEmpty(m.coverage.fully_bound))
         /\ \A kind : Anchor("curated", None, kind) \in Anchors(m) <=>
              m.coverage # None /\ kind \in Keys(OrEmpty(m.coverage.curated))
  <1>1. \A s, t, u, x, y, z : Anchor(s, t, u) = Anchor(x, y, z) <=> s = x /\ t = y /\ u = z
    BY DEF Anchor
  <1>2. m.bindings \in Seq(BindingType) /\ Ids(m) = {b.key : b \in Range(m.bindings)}
    BY ListProperties DEF MapGood, MapType, Ids
  <1>3. \A s : Keys(s) = {e.key : e \in Range(s)}
    BY DEF Keys, Range
  <1>4. /\ \A type \in EntryTypes : type \notin {"header", "coverage", "binding", "fully_bound", "curated"}
    BY DEF EntryTypes
  <1> HIDE DEF Anchor
  <1>5. ASSUME NEW id
        PROVE  Anchor("binding", id, None) \in Anchors(m) <=> id \in Ids(m)
    <2> DEFINE at == Anchor("binding", id, None)
    <2>1. at # Anchor("header", None, None) /\ at # Anchor("coverage", None, None)
      BY <1>1
    <2>2. \A k : at # Anchor("fully_bound", None, k) /\ at # Anchor("curated", None, k)
      BY <1>1
    <2>3. \A type \in EntryTypes : \A i, k : at # Anchor(type, i, k)
      BY <1>1, <1>4
    <2>4. \A i : at = Anchor("binding", i, None) <=> i = id
      BY <1>1
    <2> HIDE DEF at
    <2>5. at \in Anchors(m) <=> \E b \in Range(m.bindings) : b.key = id
      BY <2>1, <2>2, <2>3, <2>4, AnchorsOfMap
    <2> QED
      BY <1>2, <2>5 DEF at
  <1>6. ASSUME NEW id, NEW key, NEW type \in EntryTypes
        PROVE  Anchor(type, id, key) \in Anchors(m) <=>
                 id \in Ids(m) /\ key \in Keys(ListOf(BindingOf(m, id), type))
    <2> DEFINE at == Anchor(type, id, key)
    <2>1. at # Anchor("header", None, None) /\ at # Anchor("coverage", None, None)
      BY <1>1, <1>4
    <2>2. \A k : at # Anchor("fully_bound", None, k) /\ at # Anchor("curated", None, k)
      BY <1>1, <1>4
    <2>3. \A t, i, k : at = Anchor(t, i, k) <=> t = type /\ i = id /\ k = key
      BY <1>1
    <2>4. \A i : at # Anchor("binding", i, None)
      BY <1>1, <1>4
    <2> HIDE DEF at
    <2>5. at \in Anchors(m) <=>
            \E b \in Range(m.bindings) : b.key = id /\ \E e \in Range(ListOf(b, type)) : e.key = key
      BY <2>1, <2>2, <2>3, <2>4, AnchorsOfMap
    <2>6. id \in Ids(m) => /\ BindingOf(m, id) \in Range(m.bindings) /\ BindingOf(m, id).key = id
                           /\ \A b \in Range(m.bindings) : b.key = id => b = BindingOf(m, id)
      BY BindingOfGood
    <2> QED
      BY <1>2, <1>3, <2>5, <2>6 DEF at
  <1>7. Anchor("header", None, None) \in Anchors(m)
    BY AnchorsOfMap
  <1>8. Anchor("coverage", None, None) \in Anchors(m) <=> m.coverage # None
    <2> DEFINE at == Anchor("coverage", None, None)
    <2>1. /\ at # Anchor("header", None, None)
          /\ \A type \in EntryTypes : \A i, k : at # Anchor(type, i, k)
          /\ \A i : at # Anchor("binding", i, None)
      BY <1>1, <1>4
    <2> HIDE DEF at
    <2>2. at = Anchor("coverage", None, None)
      BY DEF at
    <2>3. at \in Anchors(m) <=> m.coverage # None
      BY <2>1, <2>2, AnchorsOfMap
    <2> QED
      BY <2>3 DEF at
  <1>9. ASSUME NEW kind
        PROVE  /\ Anchor("fully_bound", None, kind) \in Anchors(m) <=>
                    m.coverage # None /\ kind \in Range(OrEmpty(m.coverage.fully_bound))
               /\ Anchor("curated", None, kind) \in Anchors(m) <=>
                    m.coverage # None /\ kind \in Keys(OrEmpty(m.coverage.curated))
    <2>1. ASSUME NEW at, at \in {Anchor("fully_bound", None, kind), Anchor("curated", None, kind)}
          PROVE  at \in Anchors(m) <=>
                   /\ m.coverage # None
                   /\ \/ \E k \in Range(OrEmpty(m.coverage.fully_bound)) :
                           at = Anchor("fully_bound", None, k)
                      \/ \E e \in Range(OrEmpty(m.coverage.curated)) :
                           at = Anchor("curated", None, e.key)
      <3>1. /\ at # Anchor("header", None, None) /\ at # Anchor("coverage", None, None)
            /\ \A type \in EntryTypes : \A i, k : at # Anchor(type, i, k)
            /\ \A i : at # Anchor("binding", i, None)
        BY <1>1, <1>4, <2>1
      <3> QED
        BY <3>1, AnchorsOfMap
    <2> QED
      BY <1>1, <1>3, <2>1
  <1> QED
    BY <1>5, <1>6, <1>7, <1>8, <1>9

(***************************************************************************)
(* What an invocation does to a good map: nothing, or one of these.        *)
(***************************************************************************)
Reported(codes) == done'.code \in codes /\ done'.comment \in Texts

(* A refusal has looked at the target before the input, and at the input   *)
(* before the identity.                                                    *)
Refused ==
    /\ UNCHANGED map /\ Reported(Codes \ {"ok", "ERR-INTERNAL"}) /\ done'.op # "format"
    /\ done'.code # "ERR-NOT-FOUND" /\ done'.op \in {"add-locator", "add-field", "add-assertion"}
         => Anchor("binding", done'.at[2], None) \in Anchors(map)
    /\ done'.code = "ERR-DUPLICATE" =>
         done'.at \in Anchors(map) /\ done'.comment \notin Unclean \cup Unwritable

(* The comment is the one the invocation gives, or takes away.             *)
Spoken(text) ==
    \/ done'.comment # None /\ text = done'.comment
    \/ done'.op = "comment unset" /\ text = None

SetStep ==
    \E b : /\ BindingGood(b) /\ map' = WithBinding(map, b)
           /\ done'.op = "set" /\ done'.at = Anchor("binding", b.key, None)

PutStep ==
    \E id \in Ids(map), type \in EntryTypes, e \in Entries :
      LET s == ListOf(BindingOf(map, id), type)
      IN  /\ InputOK(e) /\ map' = PutIn(map, id, type, e)
          /\ done'.op \notin {"set", "remove", "format"} /\ done'.at = Anchor(type, id, e.key)
          /\ e.key \in Keys(s) => e.comment = At(s, e.key).comment \/ Spoken(e.comment)

DropStep ==
    \E id \in Ids(map), type \in EntryTypes :
      \E key \in Keys(ListOf(BindingOf(map, id), type)) :
        /\ map' = DropIn(map, id, type, key)
        /\ done'.op = "remove" /\ done'.at = Anchor(type, id, key)

RemoveStep ==
    \E id \in Ids(map) :
      /\ map' = RemoveBinding(map, id)
      /\ done'.op = "remove" /\ done'.at = Anchor("binding", id, None)

CommentStep(at) ==
    \E text \in FreeText :
      /\ map' = SetComment(map, at, text)
      /\ done'.op \in {"comment set", "comment unset"} /\ done'.at = at
      /\ Spoken(text)

BindingCommentStep == \E id \in Ids(map) : CommentStep(Anchor("binding", id, None))
HeaderCommentStep == CommentStep(Anchor("header", None, None))
CoverageCommentStep == map.coverage # None /\ CommentStep(Anchor("coverage", None, None))
ReasonCommentStep ==
    /\ map.coverage # None
    /\ \E kind \in Keys(OrEmpty(map.coverage.curated)) : CommentStep(Anchor("curated", None, kind))

AddKindStep ==
    \E kind \in Kinds :
      /\ MapOK(FullyBoundAdd(map, kind)) /\ map' = FullyBoundAdd(map, kind)
      /\ done'.op = "fully-bound add" /\ done'.at = Anchor("fully_bound", None, kind)

DropKindStep ==
    /\ map.coverage # None
    /\ \E kind \in Range(OrEmpty(map.coverage.fully_bound)) :
         /\ map' = FullyBoundRemove(map, kind)
         /\ done'.op = "fully-bound remove" /\ done'.at = Anchor("fully_bound", None, kind)

CurateStep ==
    \E e \in Reasons :
      /\ InputOK(e) /\ MapOK(CuratedSet(map, e)) /\ map' = CuratedSet(map, e)
      /\ done'.op = "curated set" /\ done'.at = Anchor("curated", None, e.key)
      /\ done'.comment = e.comment

UncurateStep ==
    /\ map.coverage # None
    /\ \E kind \in Keys(OrEmpty(map.coverage.curated)) :
         /\ map' = CuratedUnset(map, kind)
         /\ done'.op = "curated unset" /\ done'.at = Anchor("curated", None, kind)

FormatStep == map' = Canonicalise(map) /\ done'.op = "format"

Written ==
    /\ Reported({"ok"})
    /\ \/ SetStep \/ PutStep \/ DropStep \/ RemoveStep
       \/ BindingCommentStep \/ HeaderCommentStep \/ CoverageCommentStep \/ ReasonCommentStep
       \/ AddKindStep \/ DropKindStep \/ CurateStep \/ UncurateStep
       \/ FormatStep

LEMMA Installs ==
  ASSUME NEW n, MapGood(n), NEW op, NEW at, NEW comment, Install(op, at, comment, n)
  PROVE  /\ map' = n
         /\ done' = [op |-> op, at |-> at, comment |-> comment, code |-> "ok"]
  <1>1. MapOK(n)
    BY GoodTests DEF Good, MapGood
  <1> QED
    BY <1>1 DEF Install, Reply

LEMMA Refuses ==
  ASSUME NEW op, op # "format", NEW at, NEW comment \in Texts,
         NEW code \in Codes \ {"ok", "ERR-INTERNAL"}, Refuse(op, at, comment, code),
         code # "ERR-NOT-FOUND" /\ op \in {"add-locator", "add-field", "add-assertion"}
           => Anchor("binding", at[2], None) \in Anchors(map),
         code = "ERR-DUPLICATE" =>
           at \in Anchors(map) /\ comment \notin Unclean \cup Unwritable
  PROVE  Refused
  BY DEF Refuse, Reply, Refused, Reported

LEMMA InputsTyped ==
  /\ Inputs(LocatorKeys) \cup Inputs(FieldKeys) \cup Inputs(AssertionKeys) \subseteq Entries
  /\ Inputs(Kinds) \subseteq Reasons
  /\ None \in Texts /\ None \in FreeText /\ None \notin Unclean \cup Unwritable
  <1>1. /\ LocatorKeys \subseteq Scalars /\ FieldKeys \subseteq Scalars
        /\ AssertionKeys \subseteq Scalars /\ Values \subseteq Scalars
        /\ None \in Texts \ (Unwritable \cup Unclean)
    BY ScalarAssumption
  <1> QED
    BY <1>1 DEF Inputs, Entry, Entries, Reasons, FreeText

LEMMA SetSteps ==
  ASSUME MapGood(map), NEW id \in IDs, NEW body \in Bodies, SetBinding(id, body)
  PROVE  Refused \/ Written
  <1> DEFINE b == Binding(id, body.value, body.comment, body.locators, body.fields, body.asserted_by)
             at == Anchor("binding", id, None)
  <1>1. body \in BodyType /\ UniqueKeys(OrEmpty(body.fields))
    BY BodyAssumption
  <1>2. b \in BindingType /\ b.fields = body.fields /\ b.key = id
    BY <1>1 DEF Binding, BodyType, BindingType
  <1> HIDE DEF b
  <1>3. CASE InputBindingOK(b)
    <2>1. BindingGood(b)
      BY <1>1, <1>2, <1>3, BindingTests
    <2>2. MapGood(Set(map, b))
      BY <2>1, WithBindingGood DEF Set
    <2>3. Install("set", at, None, Set(map, b))
      BY <1>3 DEF SetBinding, b
    <2>4. /\ map' = Set(map, b)
          /\ done' = [op |-> "set", at |-> at, comment |-> None, code |-> "ok"]
      BY <2>2, <2>3, Installs
    <2> QED
      BY <1>2, <2>1, <2>4, InputsTyped DEF Written, Reported, SetStep, Set
  <1>4. CASE ~InputBindingOK(b)
    <2>1. Refuse("set", at, None, "ERR-INPUT-INVALID")
      BY <1>4 DEF SetBinding, b
    <2> QED
      BY <2>1, Refuses, InputsTyped DEF Codes
  <1> QED
    BY <1>3, <1>4

LEMMA PutInstalled ==
  ASSUME MapGood(map), NEW id \in Ids(map), NEW type \in EntryTypes, NEW e \in Entries,
         InputOK(e), NEW op, op \notin {"set", "remove", "format"}, NEW comment \in Texts,
         Install(op, Anchor(type, id, e.key), comment, PutIn(map, id, type, e)),
         LET s == ListOf(BindingOf(map, id), type)
         IN  e.key \in Keys(s) =>
               \/ e.comment = At(s, e.key).comment
               \/ comment # None /\ e.comment = comment
               \/ op = "comment unset" /\ e.comment = None
  PROVE  Written
  <1>1. MapGood(PutIn(map, id, type, e))
    BY PutInGood
  <1>2. /\ map' = PutIn(map, id, type, e)
        /\ done' = [op |-> op, at |-> Anchor(type, id, e.key), comment |-> comment, code |-> "ok"]
    BY <1>1, Installs
  <1>3. PutStep
    BY <1>2 DEF PutStep, Spoken
  <1> QED
    BY <1>2, <1>3 DEF Written, Reported

LEMMA AddSteps ==
  ASSUME MapGood(map), NEW id \in IDs
  PROVE  /\ \A e \in Inputs(LocatorKeys) : AddLocatorEntry(id, e) => Refused \/ Written
         /\ \A e \in Inputs(FieldKeys) : AddFieldEntry(id, e) => Refused \/ Written
         /\ \A e \in Inputs(AssertionKeys) : AddAssertionEntry(id, e) => Refused \/ Written
  <1>1. ASSUME NEW e \in Inputs(LocatorKeys), AddLocatorEntry(id, e)
        PROVE  Refused \/ Written
    <2> DEFINE at == Anchor("locator", id, e.key)
    <2>1. e \in Entries /\ e.comment \in Texts
      BY InputsTyped DEF Entries
    <2>2. /\ at[2] = id
          /\ Anchor("binding", id, None) \in Anchors(map) <=> id \in Ids(map)
          /\ InputOK(e) => e.comment \notin Unclean \cup Unwritable
      BY Found DEF Anchor, InputOK, EntryOK, CommentOK
    <2>3. CASE id \in Ids(map) /\ InputOK(e) /\ at \notin Anchors(map)
      <3>1. Install("add-locator", at, e.comment, AddLocator(map, id, e))
        BY <1>1, <2>3 DEF AddLocatorEntry
      <3>2. e.key \notin Keys(ListOf(BindingOf(map, id), "locator"))
        BY <2>3, Found DEF EntryTypes
      <3>3. AddLocator(map, id, e) = PutIn(map, id, "locator", e)
        BY <2>1, <2>3, <3>2, AddIsPut
      <3> QED
        BY <2>1, <2>3, <3>1, <3>2, <3>3, PutInstalled DEF EntryTypes
    <2>4. CASE ~(id \in Ids(map) /\ InputOK(e) /\ at \notin Anchors(map))
      BY <1>1, <2>1, <2>2, <2>4, Refuses DEF AddLocatorEntry, Codes
    <2> QED
      BY <2>3, <2>4
  <1>2. ASSUME NEW e \in Inputs(FieldKeys), AddFieldEntry(id, e)
        PROVE  Refused \/ Written
    <2> DEFINE at == Anchor("field", id, e.key)
               s == ListOf(BindingOf(map, id), "field")
    <2>1. e \in Entries /\ e.comment \in Texts
      BY InputsTyped DEF Entries
    <2>2. /\ at[2] = id
          /\ Anchor("binding", id, None) \in Anchors(map) <=> id \in Ids(map)
          /\ InputOK(e) => e.comment \notin Unclean \cup Unwritable
      BY Found DEF Anchor, InputOK, EntryOK, CommentOK
    <2>3. CASE id \in Ids(map) /\ InputOK(e)
      <3>1. Install("add-field", at, e.comment, AddField(map, id, e))
        BY <1>2, <2>3 DEF AddFieldEntry
      <3>2. AddField(map, id, e) = PutIn(map, id, "field", Kept(s, e))
        BY <2>1, <2>3, AddIsPut
      <3>3. s \in Seq(Entries) /\ \A d \in Range(s) : InputOK(d)
        BY <2>3, BindingOfGood, ListOfGood DEF EntriesGood, ListGood
      <3> HIDE DEF s
      <3>4. /\ Kept(s, e) \in Entries /\ InputOK(Kept(s, e)) /\ Kept(s, e).key = e.key
            /\ e.comment # None => Kept(s, e).comment = e.comment
            /\ e.comment = None /\ e.key \in Keys(s) => Kept(s, e).comment = At(s, e.key).comment
        BY <2>1, <2>3, <3>3, KeptGood, ZenonT(60) DEF Entries
      <3> QED
        BY <2>1, <2>3, <3>1, <3>2, <3>4, PutInstalled, ZenonT(60) DEF EntryTypes, s
    <2>4. CASE ~(id \in Ids(map) /\ InputOK(e))
      BY <1>2, <2>1, <2>2, <2>4, Refuses DEF AddFieldEntry, Codes
    <2> QED
      BY <2>3, <2>4
  <1>3. ASSUME NEW e \in Inputs(AssertionKeys), AddAssertionEntry(id, e)
        PROVE  Refused \/ Written
    <2> DEFINE at == Anchor("assertion", id, e.key)
    <2>1. e \in Entries /\ e.comment \in Texts
      BY InputsTyped DEF Entries
    <2>2. /\ at[2] = id
          /\ Anchor("binding", id, None) \in Anchors(map) <=> id \in Ids(map)
          /\ InputOK(e) => e.comment \notin Unclean \cup Unwritable
      BY Found DEF Anchor, InputOK, EntryOK, CommentOK
    <2>3. CASE id \in Ids(map) /\ InputOK(e) /\ at \notin Anchors(map)
      <3>1. Install("add-assertion", at, e.comment, AddAssertion(map, id, e))
        BY <1>3, <2>3 DEF AddAssertionEntry
      <3>2. e.key \notin Keys(ListOf(BindingOf(map, id), "assertion"))
        BY <2>3, Found DEF EntryTypes
      <3>3. AddAssertion(map, id, e) = PutIn(map, id, "assertion", e)
        BY <2>1, <2>3, <3>2, AddIsPut
      <3> QED
        BY <2>1, <2>3, <3>1, <3>2, <3>3, PutInstalled DEF EntryTypes
    <2>4. CASE ~(id \in Ids(map) /\ InputOK(e) /\ at \notin Anchors(map))
      BY <1>3, <2>1, <2>2, <2>4, Refuses DEF AddAssertionEntry, Codes
    <2> QED
      BY <2>3, <2>4
  <1> QED
    BY <1>1, <1>2, <1>3

LEMMA Targets ==
  ASSUME NEW at \in EntryTargets
  PROVE  \/ \E type \in EntryTypes : \E id, key : at = Anchor(type, id, key)
         \/ \E id : at = Anchor("binding", id, None)
  BY DEF EntryTargets, EntryTypes

LEMMA RemoveSteps ==
  ASSUME MapGood(map), NEW at \in EntryTargets, RemoveTarget(at)
  PROVE  Refused \/ Written
  <1>1. CASE at \notin Anchors(map)
    BY <1>1, Refuses, InputsTyped DEF RemoveTarget, Codes
  <1>2. CASE at \in Anchors(map)
    <2>1. ASSUME NEW type \in EntryTypes, NEW id, NEW key, at = Anchor(type, id, key)
          PROVE  Written
      <3>1. at[1] = type /\ at[2] = id /\ at[3] = key
        BY <2>1 DEF Anchor
      <3>2. id \in Ids(map) /\ key \in Keys(ListOf(BindingOf(map, id), type))
        BY <1>2, <2>1, Found
      <3>3. /\ type = "locator" => RemoveLocator(map, id, key) = DropIn(map, id, type, key)
            /\ type = "field" => RemoveField(map, id, key) = DropIn(map, id, type, key)
            /\ type = "assertion" => RemoveAssertion(map, id, key) = DropIn(map, id, type, key)
        BY <3>2, RemoveIsDrop
      <3>4. Install("remove", at, None, DropIn(map, id, type, key))
        BY <1>2, <3>1, <3>3 DEF RemoveTarget, EntryTypes
      <3>5. MapGood(DropIn(map, id, type, key))
        BY <3>2, DropInGood
      <3>6. /\ map' = DropIn(map, id, type, key)
            /\ done' = [op |-> "remove", at |-> at, comment |-> None, code |-> "ok"]
        BY <3>4, <3>5, Installs
      <3>7. DropStep
        BY <2>1, <3>2, <3>6 DEF DropStep
      <3> QED
        BY <3>6, <3>7, InputsTyped DEF Written, Reported
    <2>2. ASSUME NEW id, at = Anchor("binding", id, None)
          PROVE  Written
      <3>1. at[1] = "binding" /\ at[2] = id
        BY <2>2 DEF Anchor
      <3>2. id \in Ids(map)
        BY <1>2, <2>2, Found
      <3>3. Install("remove", at, None, RemoveBinding(map, id))
        BY <1>2, <3>1 DEF RemoveTarget
      <3>4. MapGood(RemoveBinding(map, id))
        BY <3>2, RemoveBindingGood
      <3>5. /\ map' = RemoveBinding(map, id)
            /\ done' = [op |-> "remove", at |-> at, comment |-> None, code |-> "ok"]
        BY <3>3, <3>4, Installs
      <3>6. RemoveStep
        BY <2>2, <3>2, <3>5 DEF RemoveStep
      <3> QED
        BY <3>5, <3>6, InputsTyped DEF Written, Reported
    <2>3. \/ \E type \in EntryTypes : \E id, key : at = Anchor(type, id, key)
          \/ \E id : at = Anchor("binding", id, None)
      BY Targets
    <2> QED
      BY <2>1, <2>2, <2>3
  <1> QED
    BY <1>1, <1>2

LEMMA CoverageSteps ==
  ASSUME MapGood(map)
  PROVE  /\ \A kind \in Kinds : FullyBound(kind) \/ FullyUnbound(kind) \/ Uncurate(kind)
                                  => Refused \/ Written
         /\ \A e \in Inputs(Kinds) : Curate(e) => Refused \/ Written
  <1>1. ASSUME NEW kind \in Kinds, FullyBound(kind)
        PROVE  Refused \/ Written
    <2> DEFINE at == Anchor("fully_bound", None, kind)
    <2>1. CASE at \notin Anchors(map) /\ MapOK(FullyBoundAdd(map, kind))
      <3>1. Install("fully-bound add", at, None, FullyBoundAdd(map, kind))
        BY <1>1, <2>1 DEF FullyBound
      <3>2. MapGood(FullyBoundAdd(map, kind))
        BY <2>1, FullyBoundAddGood
      <3>3. /\ map' = FullyBoundAdd(map, kind)
            /\ done' = [op |-> "fully-bound add", at |-> at, comment |-> None, code |-> "ok"]
        BY <3>1, <3>2, Installs
      <3>4. AddKindStep
        BY <2>1, <3>3 DEF AddKindStep
      <3> QED
        BY <3>3, <3>4, InputsTyped DEF Written, Reported
    <2>2. CASE ~(at \notin Anchors(map) /\ MapOK(FullyBoundAdd(map, kind)))
      BY <1>1, <2>2, Refuses, InputsTyped DEF FullyBound, Codes
    <2> QED
      BY <2>1, <2>2
  <1>2. ASSUME NEW kind \in Kinds, FullyUnbound(kind)
        PROVE  Refused \/ Written
    <2> DEFINE at == Anchor("fully_bound", None, kind)
    <2>1. CASE at \in Anchors(map)
      <3>1. Install("fully-bound remove", at, None, FullyBoundRemove(map, kind))
        BY <1>2, <2>1 DEF FullyUnbound
      <3>2. map.coverage # None /\ kind \in Range(OrEmpty(map.coverage.fully_bound))
        BY <2>1, Found
      <3>3. MapGood(FullyBoundRemove(map, kind))
        BY <3>2, FullyBoundRemoveGood
      <3>4. /\ map' = FullyBoundRemove(map, kind)
            /\ done' = [op |-> "fully-bound remove", at |-> at, comment |-> None, code |-> "ok"]
        BY <3>1, <3>3, Installs
      <3>5. DropKindStep
        BY <3>2, <3>4 DEF DropKindStep
      <3> QED
        BY <3>4, <3>5, InputsTyped DEF Written, Reported
    <2>2. CASE at \notin Anchors(map)
      BY <1>2, <2>2, Refuses, InputsTyped DEF FullyUnbound, Codes
    <2> QED
      BY <2>1, <2>2
  <1>3. ASSUME NEW kind \in Kinds, Uncurate(kind)
        PROVE  Refused \/ Written
    <2> DEFINE at == Anchor("curated", None, kind)
    <2>1. CASE at \in Anchors(map)
      <3>1. Install("curated unset", at, None, CuratedUnset(map, kind))
        BY <1>3, <2>1 DEF Uncurate
      <3>2. map.coverage # None /\ kind \in Keys(OrEmpty(map.coverage.curated))
        BY <2>1, Found
      <3>3. MapGood(CuratedUnset(map, kind))
        BY <3>2, CuratedUnsetGood
      <3>4. /\ map' = CuratedUnset(map, kind)
            /\ done' = [op |-> "curated unset", at |-> at, comment |-> None, code |-> "ok"]
        BY <3>1, <3>3, Installs
      <3>5. UncurateStep
        BY <3>2, <3>4 DEF UncurateStep
      <3> QED
        BY <3>4, <3>5, InputsTyped DEF Written, Reported
    <2>2. CASE at \notin Anchors(map)
      BY <1>3, <2>2, Refuses, InputsTyped DEF Uncurate, Codes
    <2> QED
      BY <2>1, <2>2
  <1>4. ASSUME NEW e \in Inputs(Kinds), Curate(e)
        PROVE  Refused \/ Written
    <2> DEFINE at == Anchor("curated", None, e.key)
    <2>1. e \in Reasons /\ e.comment \in Texts
      BY InputsTyped DEF Reasons
    <2>2. CASE InputOK(e) /\ MapOK(CuratedSet(map, e))
      <3>1. Install("curated set", at, e.comment, CuratedSet(map, e))
        BY <1>4, <2>2 DEF Curate
      <3>2. MapGood(CuratedSet(map, e))
        BY <2>1, <2>2, CuratedSetGood
      <3>3. /\ map' = CuratedSet(map, e)
            /\ done' = [op |-> "curated set", at |-> at, comment |-> e.comment, code |-> "ok"]
        BY <3>1, <3>2, Installs
      <3>4. CurateStep
        BY <2>1, <2>2, <3>3 DEF CurateStep
      <3> QED
        BY <2>1, <3>3, <3>4 DEF Written, Reported
    <2>3. CASE ~(InputOK(e) /\ MapOK(CuratedSet(map, e)))
      BY <1>4, <2>1, <2>3, Refuses DEF Curate, Codes
    <2> QED
      BY <2>2, <2>3
  <1> QED
    BY <1>1, <1>2, <1>3, <1>4

LEMMA Commenting ==
  ASSUME MapGood(map), NEW at \in Carriers, at \in Anchors(map), NEW text \in FreeText,
         NEW op \in {"comment set", "comment unset"}, NEW comment \in Texts,
         \/ comment # None /\ text = comment
         \/ op = "comment unset" /\ text = None,
         Install(op, at, comment, SetComment(map, at, text))
  PROVE  Written
  <1>1. ASSUME MapGood(SetComment(map, at, text))
        PROVE  CommentStep(at) /\ Reported({"ok"})
    <2>1. /\ map' = SetComment(map, at, text)
          /\ done' = [op |-> op, at |-> at, comment |-> comment, code |-> "ok"]
      BY <1>1, Installs
    <2> QED
      BY <2>1 DEF CommentStep, Spoken, Reported
  <1>2. ASSUME NEW type \in EntryTypes, NEW id, NEW key, at = Anchor(type, id, key)
        PROVE  Written
    <2> DEFINE s == ListOf(BindingOf(map, id), type)
               e == Commented(s, key, text)
    <2>1. id \in Ids(map) /\ key \in Keys(s)
      BY <1>2, Found
    <2>2. EntriesGood(s)
      BY <2>1, BindingOfGood, ListOfGood
    <2>3. e \in Entries /\ InputOK(e) /\ e.key = key /\ e.comment = text
      BY <2>1, <2>2, CommentedGood, ZenonT(60)
    <2>4. SetComment(map, at, text) = PutIn(map, id, type, e)
      BY <1>2, <2>1, CommentIsPut
    <2> HIDE DEF e, s
    <2>5. op \notin {"set", "remove", "format"}
      OBVIOUS
    <2> QED
      BY <1>2, <2>1, <2>3, <2>4, <2>5, PutInstalled, ZenonT(60) DEF s
  <1>3. ASSUME NEW id, at = Anchor("binding", id, None)
        PROVE  Written
    <2>1. id \in Ids(map)
      BY <1>3, Found
    <2>2. MapGood(SetComment(map, at, text))
      BY <1>3, <2>1, BindingCommentGood
    <2>3. BindingCommentStep
      BY <1>1, <1>3, <2>1, <2>2 DEF BindingCommentStep
    <2> QED
      BY <1>1, <2>2, <2>3 DEF Written
  <1>4. ASSUME at = Anchor("header", None, None)
        PROVE  Written
    <2>1. MapGood(SetComment(map, at, text))
      BY <1>4, HeaderCommentGood
    <2>2. HeaderCommentStep
      BY <1>1, <1>4, <2>1 DEF HeaderCommentStep
    <2> QED
      BY <1>1, <2>1, <2>2 DEF Written
  <1>5. ASSUME at = Anchor("coverage", None, None)
        PROVE  Written
    <2>1. map.coverage # None
      BY <1>5, Found
    <2>2. MapGood(SetComment(map, at, text))
      BY <1>5, <2>1, CoverageCommentGood
    <2>3. CoverageCommentStep
      BY <1>1, <1>5, <2>1, <2>2 DEF CoverageCommentStep
    <2> QED
      BY <1>1, <2>2, <2>3 DEF Written
  <1>6. ASSUME NEW kind, at = Anchor("curated", None, kind)
        PROVE  Written
    <2>1. map.coverage # None /\ kind \in Keys(OrEmpty(map.coverage.curated))
      BY <1>6, Found
    <2>2. MapGood(SetComment(map, at, text))
      BY <1>6, <2>1, ReasonCommentGood
    <2>3. ReasonCommentStep
      BY <1>1, <1>6, <2>1, <2>2 DEF ReasonCommentStep
    <2> QED
      BY <1>1, <2>2, <2>3 DEF Written
  <1>7. \/ \E type \in EntryTypes : \E id, key : at = Anchor(type, id, key)
        \/ \E id : at = Anchor("binding", id, None)
        \/ at \in {Anchor("header", None, None), Anchor("coverage", None, None)}
        \/ \E kind : at = Anchor("curated", None, kind)
    <2>1. CASE at \in EntryTargets
      <3>1. \/ \E type \in EntryTypes : \E id, key : at = Anchor(type, id, key)
            \/ \E id : at = Anchor("binding", id, None)
        BY <2>1, Targets
      <3> QED
        BY <3>1
    <2>2. CASE at \notin EntryTargets
      BY <2>2 DEF Carriers
    <2> QED
      BY <2>1, <2>2
  <1> QED
    BY <1>2, <1>3, <1>4, <1>5, <1>6, <1>7

LEMMA CommentSteps ==
  ASSUME MapGood(map), NEW at \in Carriers
  PROVE  /\ CommentUnset(at) => Refused \/ Written
         /\ \A text \in Texts \ {None} : CommentSet(at, text) => Refused \/ Written
  <1>1. ASSUME CommentUnset(at)
        PROVE  Refused \/ Written
    <2>1. CASE Refuse("comment unset", at, None, "ERR-NOT-FOUND")
      BY <2>1, Refuses, InputsTyped DEF Codes
    <2>2. CASE at \in Anchors(map) /\ Install("comment unset", at, None, SetComment(map, at, None))
      BY <2>2, Commenting, InputsTyped
    <2> QED
      BY <1>1, <2>1, <2>2 DEF CommentUnset
  <1>2. ASSUME NEW text \in Texts \ {None}, CommentSet(at, text)
        PROVE  Refused \/ Written
    <2>1. CASE at \in Anchors(map) /\ text \notin Unwritable \cup Unclean
      <3>1. Install("comment set", at, text, SetComment(map, at, text))
        BY <1>2, <2>1 DEF CommentSet
      <3>2. text \in FreeText /\ text # None
        BY <2>1 DEF FreeText
      <3> QED
        BY <2>1, <3>1, <3>2, Commenting
    <2>2. CASE ~(at \in Anchors(map) /\ text \notin Unwritable \cup Unclean)
      BY <1>2, <2>2, Refuses DEF CommentSet, Codes
    <2> QED
      BY <2>1, <2>2
  <1> QED
    BY <1>1, <1>2

LEMMA Classified ==
  ASSUME MapGood(map), Next
  PROVE  Refused \/ Written
  <1>1. ASSUME Format
        PROVE  Written
    <2>1. MapGood(Canonicalise(map))
      BY CanonicaliseGood
    <2>2. /\ map' = Canonicalise(map)
          /\ done' = [op |-> "format", at |-> Anchor("file", None, None), comment |-> None,
                      code |-> "ok"]
      BY <1>1, <2>1, Installs DEF Format
    <2> QED
      BY <2>2, InputsTyped DEF Written, Reported, FormatStep
  <1> QED
    BY <1>1, SetSteps, AddSteps, RemoveSteps, CoverageSteps, CommentSteps, Zenon DEF Next

(* Every one of them leaves a good map.                                    *)
LEMMA WrittenGood ==
  ASSUME MapGood(map), Written
  PROVE  MapGood(map')
  <1>1. CASE SetStep
    BY <1>1, WithBindingGood DEF SetStep
  <1>2. CASE PutStep
    BY <1>2, PutInGood DEF PutStep
  <1>3. CASE DropStep
    BY <1>3, DropInGood DEF DropStep
  <1>4. CASE RemoveStep
    BY <1>4, RemoveBindingGood DEF RemoveStep
  <1>5. CASE BindingCommentStep
    <2>1. PICK id \in Ids(map) : CommentStep(Anchor("binding", id, None))
      BY <1>5 DEF BindingCommentStep
    <2>2. PICK text \in FreeText : map' = SetComment(map, Anchor("binding", id, None), text)
      BY <2>1 DEF CommentStep
    <2> QED
      BY <2>2, BindingCommentGood
  <1>6. CASE HeaderCommentStep
    BY <1>6, HeaderCommentGood DEF HeaderCommentStep, CommentStep
  <1>7. CASE CoverageCommentStep
    BY <1>7, CoverageCommentGood DEF CoverageCommentStep, CommentStep
  <1>8. CASE ReasonCommentStep
    <2>1. PICK kind \in Keys(OrEmpty(map.coverage.curated)) :
            CommentStep(Anchor("curated", None, kind))
      BY <1>8 DEF ReasonCommentStep
    <2>2. PICK text \in FreeText : map' = SetComment(map, Anchor("curated", None, kind), text)
      BY <2>1 DEF CommentStep
    <2> QED
      BY <1>8, <2>2, ReasonCommentGood DEF ReasonCommentStep
  <1>9. CASE AddKindStep
    BY <1>9, FullyBoundAddGood DEF AddKindStep
  <1>10. CASE DropKindStep
    <2>1. map.coverage # None
      BY <1>10 DEF DropKindStep
    <2>2. PICK kind \in Range(OrEmpty(map.coverage.fully_bound)) : map' = FullyBoundRemove(map, kind)
      BY <1>10 DEF DropKindStep
    <2>3. MapGood(FullyBoundRemove(map, kind))
      BY <2>1, FullyBoundRemoveGood
    <2> QED
      BY <2>2, <2>3
  <1>11. CASE CurateStep
    <2>1. PICK e \in Reasons :
            InputOK(e) /\ MapOK(CuratedSet(map, e)) /\ map' = CuratedSet(map, e)
      BY <1>11 DEF CurateStep
    <2> QED
      BY <2>1, CuratedSetGood
  <1>12. CASE UncurateStep
    <2>1. map.coverage # None
      BY <1>12 DEF UncurateStep
    <2>2. PICK kind \in Keys(OrEmpty(map.coverage.curated)) : map' = CuratedUnset(map, kind)
      BY <1>12 DEF UncurateStep
    <2>3. MapGood(CuratedUnset(map, kind))
      BY <2>1, CuratedUnsetGood
    <2> QED
      BY <2>2, <2>3
  <1>13. CASE FormatStep
    BY <1>13, CanonicaliseGood DEF FormatStep
  <1> QED
    BY <1>1, <1>2, <1>3, <1>4, <1>5, <1>6, <1>7, <1>8, <1>9, <1>10, <1>11, <1>12, <1>13 DEF Written

(***************************************************************************)
(* A valid map and valid input yield a valid map, after any number of      *)
(* invocations: the second validation of _Run._write never refuses.        *)
(***************************************************************************)
LEMMA GoodIsMapGood ==
  ASSUME NEW m
  PROVE  Good(m) <=> MapGood(m)
  BY GoodTests DEF Good, MapGood

LEMMA InitGood ==
  Init => GoodAlways
  BY StartAssumption, ScalarAssumption DEF Init, GoodAlways, Codes

LEMMA StepGood ==
  GoodAlways /\ [Next]_vars => GoodAlways'
  <1> SUFFICES ASSUME GoodAlways, [Next]_vars
               PROVE  GoodAlways'
    OBVIOUS
  <1>1. MapGood(map)
    BY GoodIsMapGood DEF GoodAlways
  <1>2. CASE Refused
    BY <1>2 DEF Refused, Reported, GoodAlways
  <1>3. CASE Written
    <2>1. Good(map')
      BY <1>1, <1>3, WrittenGood, GoodIsMapGood
    <2> QED
      BY <1>3, <2>1 DEF Written, Reported, GoodAlways, Codes
  <1>4. CASE UNCHANGED vars
    BY <1>4 DEF GoodAlways, vars
  <1> QED
    BY <1>1, <1>2, <1>3, <1>4, Classified

(* The inductive invariant: whatever sequence of commands has been run, a  *)
(* command that writes starts from a valid map, loaded as it was written.  *)
THEOREM AlwaysGood == Spec => []GoodAlways
  BY InitGood, StepGood, PTL DEF Spec

(* The lists stay lists and the dicts dicts, and every reply is one of     *)
(* those a writing command has.                                            *)
THEOREM TypeCorrect == Spec => []TypeOK
  <1>1. GoodAlways => TypeOK
    BY DEF GoodAlways, Good, TypeOK
  <1> QED
    BY <1>1, AlwaysGood, PTL

(* The branch of _Run._write that cli.py marks as unreachable is           *)
(* unreachable: no command makes an invalid map of a valid one.            *)
THEOREM ValidityPreserved == Spec => []ValidInValidOut
  <1>1. GoodAlways => ValidInValidOut
    BY DEF GoodAlways, ValidInValidOut
  <1> QED
    BY <1>1, AlwaysGood, PTL

(* No command writes a comment that the next load would shorten.           *)
THEOREM CommentsStayClean == Spec => []CommentsClean
  <1>1. GoodAlways => CommentsClean
    BY DEF GoodAlways, Good, CommentsClean
  <1> QED
    BY <1>1, AlwaysGood, PTL

(* A refusal names the first problem in the documented order, and leaves   *)
(* the file as it was.                                                     *)
THEOREM RefusalsInOrder == Spec => RefusalInOrder
  <1>1. GoodAlways /\ [Next]_vars =>
          [done'.code # "ok" =>
            /\ UNCHANGED map
            /\ done'.code # "ERR-NOT-FOUND"
                 /\ done'.op \in {"add-locator", "add-field", "add-assertion"}
                 => Anchor("binding", done'.at[2], None) \in Anchors(map)
            /\ done'.code = "ERR-DUPLICATE" =>
                 /\ done'.at \in Anchors(map)
                 /\ done'.comment \notin Unclean \cup Unwritable]_vars
    <2> SUFFICES ASSUME GoodAlways, Next, done'.code # "ok"
                 PROVE  Refused
      BY DEF Refused
    <2>1. MapGood(map)
      BY GoodIsMapGood DEF GoodAlways
    <2> QED
      BY <2>1, Classified DEF Written, Reported
  <1> QED
    BY <1>1, AlwaysGood, PTL DEF Spec, RefusalInOrder

(***************************************************************************)
(* Adding an entry and removing it again gives back the map there was.     *)
(***************************************************************************)
LEMMA ThereAndBack ==
  ASSUME NEW m, MapGood(m), NEW id \in Ids(m), NEW b, b.key = id
  PROVE  LET n == WithBinding(m, b)
         IN  BindingOf(n, id) = b /\ WithBinding(n, BindingOf(m, id)) = m
  <1> DEFINE s == m.bindings
             i == IndexOf(s, id)
             t == [s EXCEPT ![i] = b]
             n == WithBinding(m, b)
             old == BindingOf(m, id)
  <1>1. m \in MapType /\ s \in Seq(BindingType) /\ UniqueKeys(s) /\ id \in Keys(s)
    BY DEF MapGood, MapType, Ids
  <1>2. /\ i \in DOMAIN s /\ s[i].key = id /\ old = s[i]
        /\ \A k \in DOMAIN s : s[k].key = id => k = i
    BY <1>1, IndexProperties DEF BindingOf, At
  <1>3. s \in [1..Len(s) -> BindingType] /\ DOMAIN s = 1..Len(s)
    BY <1>1, LenProperties
  <1>4. n = [m EXCEPT !.bindings = t]
    BY <1>1 DEF WithBinding, Put
  <1> HIDE DEF s, i
  <1>5. /\ DOMAIN t = DOMAIN s /\ t[i] = b /\ [t EXCEPT ![i] = s[i]] = s
        /\ \A k \in DOMAIN t : t[k].key = id <=> k = i
    BY <1>2, <1>3
  <1> HIDE DEF t
  <1>6. /\ IndexOf(t, id) = i /\ id \in Keys(t)
        /\ \A k \in DOMAIN t : t[k].key = id <=> k = i
    BY <1>2, <1>5 DEF IndexOf, Keys
  <1>7. n.bindings = t /\ [n EXCEPT !.bindings = s] = m
    BY <1>1, <1>4 DEF MapType, s
  <1> HIDE DEF n
  <1>8. BindingOf(n, id) = b
    BY <1>5, <1>6, <1>7 DEF BindingOf, At
  <1>9. Put(t, old) = s
    BY <1>2, <1>5, <1>6 DEF Put
  <1>10. WithBinding(n, old) = m
    BY <1>7, <1>9 DEF WithBinding
  <1> QED
    BY <1>8, <1>10 DEF n

LEMMA AddedRemoved ==
  ASSUME NEW m, MapGood(m), NEW id \in Ids(m), NEW k
  PROVE  LET b == BindingOf(m, id)
             e == Entry(k, None, None)
         IN  /\ k \notin Keys(b.locators) => RemoveLocator(AddLocator(m, id, e), id, k) = m
             /\ k \notin Keys(OrEmpty(b.fields)) => RemoveField(AddField(m, id, e), id, k) = m
             /\ k \notin Keys(OrEmpty(b.asserted_by)) =>
                  RemoveAssertion(AddAssertion(m, id, e), id, k) = m
  <1> DEFINE b == BindingOf(m, id)
             e == Entry(k, None, None)
             fields == OrEmpty(b.fields)
             list == OrEmpty(b.asserted_by)
  <1>1. BindingGood(b) /\ b.key = id /\ b \in BindingType
    BY BindingOfGood DEF BindingGood
  <1>2. /\ b.locators \in Seq(Entries) /\ fields \in Seq(Entries) /\ list \in Seq(Entries)
        /\ OrNone(fields) = b.fields /\ OrNone(list) = b.asserted_by
    <2>1. b.locators \in Seq(Entries) /\ BlockGood(b.fields) /\ BlockGood(b.asserted_by)
      BY <1>1 DEF BindingGood, ListGood
    <2> QED
      BY <2>1, EmptyList DEF BlockGood, ListGood, OrEmpty, OrNone
  <1>3. e.key = k /\ e.comment = None
    BY DEF Entry
  <1> HIDE DEF e
  <1>4. \A s \in Seq(Entries) : k \notin Keys(s) =>
          Drop(Append(s, e), k) = s /\ Put(s, Kept(s, e)) = Append(s, e)
    <2> TAKE s \in Seq(Entries)
    <2>1. k \notin Keys(s) => Drop(Append(s, e), k) = s
      BY <1>3, DropAppended
    <2> QED
      BY <1>3, <2>1 DEF Put, Kept
  <1>5. ASSUME k \notin Keys(b.locators)
        PROVE  RemoveLocator(AddLocator(m, id, e), id, k) = m
    <2> DEFINE c == [b EXCEPT !.locators = Append(@, e)]
               n == WithBinding(m, c)
    <2>1. Drop(Append(b.locators, e), k) = b.locators
      BY <1>2, <1>4, <1>5
    <2>2. c.key = id /\ [c EXCEPT !.locators = Drop(@, k)] = b
      BY <1>1, <2>1 DEF BindingType
    <2>3. AddLocator(m, id, e) = n
      BY DEF AddLocator
    <2> HIDE DEF c
    <2>4. BindingOf(n, id) = c /\ WithBinding(n, b) = m
      BY <2>2, ThereAndBack
    <2> QED
      BY <2>2, <2>3, <2>4 DEF RemoveLocator
  <1>6. ASSUME k \notin Keys(fields)
        PROVE  RemoveField(AddField(m, id, e), id, k) = m
    <2> DEFINE c == [b EXCEPT !.fields = Append(fields, e)]
               n == WithBinding(m, c)
    <2>1. Drop(Append(fields, e), k) = fields /\ Put(fields, Kept(fields, e)) = Append(fields, e)
      BY <1>2, <1>4, <1>6
    <2>2. c.key = id /\ [c EXCEPT !.fields = OrNone(Drop(@, k))] = b
      BY <1>1, <1>2, <2>1 DEF BindingType
    <2>3. AddField(m, id, e) = n
      BY <2>1 DEF AddField
    <2> HIDE DEF c
    <2>4. BindingOf(n, id) = c /\ WithBinding(n, b) = m
      BY <2>2, ThereAndBack
    <2> QED
      BY <2>2, <2>3, <2>4 DEF RemoveField
  <1>7. ASSUME k \notin Keys(list)
        PROVE  RemoveAssertion(AddAssertion(m, id, e), id, k) = m
    <2> DEFINE c == [b EXCEPT !.asserted_by = Append(list, e)]
               n == WithBinding(m, c)
    <2>1. Drop(Append(list, e), k) = list
      BY <1>2, <1>4, <1>7
    <2>2. c.key = id /\ [c EXCEPT !.asserted_by = OrNone(Drop(@, k))] = b
      BY <1>1, <1>2, <2>1 DEF BindingType
    <2>3. AddAssertion(m, id, e) = n
      BY DEF AddAssertion
    <2> HIDE DEF c
    <2>4. BindingOf(n, id) = c /\ WithBinding(n, b) = m
      BY <2>2, ThereAndBack
    <2> QED
      BY <2>2, <2>3, <2>4 DEF RemoveAssertion
  <1> QED
    BY <1>5, <1>6, <1>7 DEF e

LEMMA KindAddedRemoved ==
  ASSUME NEW m, MapGood(m), NEW k
  PROVE  /\ k \notin Range(OrEmpty(CoverageOf(m).fully_bound)) =>
              FullyBoundRemove(FullyBoundAdd(m, k), k) = m
         /\ k \notin Keys(OrEmpty(CoverageOf(m).curated)) =>
              CuratedUnset(CuratedSet(m, Entry(k, None, None)), k) = m
  <1> DEFINE c == CoverageOf(m)
             listed == OrEmpty(c.fully_bound)
             curated == OrEmpty(c.curated)
             e == Entry(k, None, None)
  <1>1. /\ c \in CoverageType /\ KindsGood(c.fully_bound) /\ ReasonsGood(c.curated)
        /\ m.coverage # None => c = m.coverage /\ CoverageGood(m.coverage)
    BY CoverageOfGood
  <1>2. /\ listed \in Seq(Kinds) /\ IsInjective(listed) /\ OrNone(listed) = c.fully_bound
        /\ curated \in Seq(Reasons) /\ OrNone(curated) = c.curated
    <2>1. listed \in Seq(Kinds) /\ IsInjective(listed) /\ curated \in Seq(Reasons)
      BY <1>1, KindsList, ReasonsList
    <2>2. OrNone(listed) = c.fully_bound /\ OrNone(curated) = c.curated
      BY <1>1, EmptyList DEF KindsGood, ReasonsGood, OrEmpty, OrNone
    <2> QED
      BY <2>1, <2>2
  <1>3. Prune(c) = m.coverage
    <2>1. CASE m.coverage = None
      BY <2>1 DEF Prune, CoverageOf, EmptyCoverage
    <2>2. CASE m.coverage # None
      BY <1>1, <2>2 DEF Prune, CoverageGood
    <2> QED
      BY <2>1, <2>2
  <1>4. \A d : [m EXCEPT !.coverage = d].coverage = d
               /\ [[m EXCEPT !.coverage = d] EXCEPT !.coverage = m.coverage] = m
    BY DEF MapGood, MapType
  <1> HIDE DEF c
  <1>5. ASSUME k \notin Range(listed)
        PROVE  FullyBoundRemove(FullyBoundAdd(m, k), k) = m
    <2> DEFINE d == [c EXCEPT !.fully_bound = Append(listed, k)]
               n == [m EXCEPT !.coverage = d]
    <2>1. Without(Append(listed, k), k) = listed
      BY <1>2, <1>5, WithoutAppended
    <2>2. /\ d.fully_bound = Append(listed, k)
          /\ [d EXCEPT !.fully_bound = OrNone(listed)] = c
      BY <1>1, <1>2 DEF CoverageType
    <2>3. FullyBoundAdd(m, k) = n
      BY DEF FullyBoundAdd, c
    <2> HIDE DEF d
    <2>4. n.coverage = d /\ [n EXCEPT !.coverage = m.coverage] = m
      BY <1>4
    <2> HIDE DEF n
    <2>5. FullyBoundRemove(n, k) =
            [n EXCEPT !.coverage = Prune([d EXCEPT !.fully_bound = OrNone(listed)])]
      BY <2>1, <2>2, <2>4 DEF FullyBoundRemove
    <2> QED
      BY <1>3, <2>2, <2>3, <2>4, <2>5
  <1>6. ASSUME k \notin Keys(curated)
        PROVE  CuratedUnset(CuratedSet(m, e), k) = m
    <2> DEFINE d == [c EXCEPT !.curated = Append(curated, e)]
               n == [m EXCEPT !.coverage = d]
    <2>1. e.key = k /\ e.comment = None
      BY DEF Entry
    <2> HIDE DEF e
    <2>2. Drop(Append(curated, e), k) = curated
      BY <1>2, <1>6, <2>1, DropAppended
    <2>3. /\ d.curated = Append(curated, e)
          /\ [d EXCEPT !.curated = OrNone(curated)] = c
      BY <1>1, <1>2 DEF CoverageType
    <2>4. Put(curated, Kept(curated, e)) = Append(curated, e)
      BY <1>6, <2>1 DEF Put, Kept
    <2>5. CuratedSet(m, e) = n
      BY <2>4 DEF CuratedSet, c
    <2> HIDE DEF d
    <2>6. n.coverage = d /\ [n EXCEPT !.coverage = m.coverage] = m
      BY <1>4
    <2> HIDE DEF n
    <2>7. CuratedUnset(n, k) =
            [n EXCEPT !.coverage = Prune([d EXCEPT !.curated = OrNone(curated)])]
      BY <2>2, <2>3, <2>6 DEF CuratedUnset
    <2> QED
      BY <1>3, <2>3, <2>5, <2>6, <2>7
  <1> QED
    BY <1>5, <1>6 DEF c

(* Nothing is left behind by an entry that is added and removed again: no  *)
(* empty block in its binding, no coverage block without entries.          *)
THEOREM AddingIsUndone == Spec => []AddThenRemove
  <1>1. GoodAlways => AddThenRemove
    BY AddedRemoved, KindAddedRemoved, GoodIsMapGood DEF GoodAlways, AddThenRemove
  <1> QED
    BY <1>1, AlwaysGood, PTL

(***************************************************************************)
(* A good map has one fact for each of its anchors.                        *)
(***************************************************************************)
LEMMA AnchorIs ==
  /\ \A s, t, u, x, y, z : Anchor(s, t, u) = Anchor(x, y, z) <=> s = x /\ t = y /\ u = z
  /\ \A type \in EntryTypes : type \notin {"header", "coverage", "binding", "fully_bound", "curated"}
  BY DEF Anchor, EntryTypes

LEMMA AnchorParts ==
  ASSUME NEW s, NEW t, NEW u
  PROVE  Anchor(s, t, u)[1] = s /\ Anchor(s, t, u)[2] = t /\ Anchor(s, t, u)[3] = u
  BY DEF Anchor

LEMMA FactParts ==
  /\ \A m : HeaderFact(m).anchor = Anchor("header", None, None)
  /\ \A m : HeaderFact(m).comment = m.header
  /\ \A b : BindingFact(b).anchor = Anchor("binding", b.key, None)
  /\ \A b : BindingFact(b).comment = b.comment
  /\ \A type, id, e : EntryFact(type, id, e).anchor = Anchor(type, id, e.key)
  /\ \A type, id, e : EntryFact(type, id, e).comment = e.comment
  /\ \A c : CoverageFact(c).anchor = Anchor("coverage", None, None)
  /\ \A c : CoverageFact(c).comment = c.comment
  /\ \A k : KindFact(k).anchor = Anchor("fully_bound", None, k)
  /\ \A k : KindFact(k).comment = None
  BY DEF HeaderFact, BindingFact, EntryFact, CoverageFact, KindFact, Fact

LEMMA FactsFound ==
  ASSUME NEW m, MapGood(m), NEW fact \in Facts(m)
  PROVE  \/ fact = HeaderFact(m)
         \/ \E id \in Ids(m) : fact = BindingFact(BindingOf(m, id))
         \/ \E id \in Ids(m), type \in EntryTypes :
              LET s == ListOf(BindingOf(m, id), type)
              IN  \E key \in Keys(s) : fact = EntryFact(type, id, At(s, key))
         \/ m.coverage # None /\ fact = CoverageFact(m.coverage)
         \/ /\ m.coverage # None
            /\ \E k \in Range(OrEmpty(m.coverage.fully_bound)) : fact = KindFact(k)
         \/ /\ m.coverage # None
            /\ LET s == OrEmpty(m.coverage.curated)
               IN  \E key \in Keys(s) : fact = EntryFact("curated", None, At(s, key))
  <1>1. \A s : UniqueKeys(s) => \A e \in Range(s) : e.key \in Keys(s) /\ e = At(s, e.key)
    <2> TAKE s
    <2> HAVE UniqueKeys(s)
    <2> TAKE e \in Range(s)
    <2>1. e.key \in Keys(s)
      BY DEF Keys, Range
    <2> QED
      BY <2>1, IndexProperties
  <1>2. CASE fact = HeaderFact(m)
    BY <1>2
  <1>3. ASSUME NEW b \in Range(m.bindings), fact \in FactsOfBinding(b)
        PROVE  \/ \E id \in Ids(m) : fact = BindingFact(BindingOf(m, id))
               \/ \E id \in Ids(m), type \in EntryTypes :
                    LET s == ListOf(BindingOf(m, id), type)
                    IN  \E key \in Keys(s) : fact = EntryFact(type, id, At(s, key))
    <2>1. b.key \in Ids(m) /\ b = BindingOf(m, b.key)
      BY <1>1 DEF MapGood, Ids, BindingOf
    <2>2. CASE fact = BindingFact(b)
      BY <2>1, <2>2
    <2>3. ASSUME NEW type \in EntryTypes, NEW e \in Range(ListOf(b, type)),
                 fact = EntryFact(type, b.key, e)
          PROVE  \E id \in Ids(m), t \in EntryTypes :
                   LET s == ListOf(BindingOf(m, id), t)
                   IN  \E key \in Keys(s) : fact = EntryFact(t, id, At(s, key))
      <3>1. UniqueKeys(ListOf(b, type))
        BY ListOfGood DEF MapGood, EntriesGood
      <3>2. e.key \in Keys(ListOf(b, type)) /\ e = At(ListOf(b, type), e.key)
        BY <1>1, <3>1
      <3> QED
        BY <2>1, <2>3, <3>2
    <2> QED
      BY <1>3, <2>2, <2>3, FactsOfOne
  <1>4. ASSUME m.coverage # None, NEW e \in Range(OrEmpty(m.coverage.curated)),
               fact = EntryFact("curated", None, e)
        PROVE  LET s == OrEmpty(m.coverage.curated)
               IN  \E key \in Keys(s) : fact = EntryFact("curated", None, At(s, key))
    <2>1. UniqueKeys(OrEmpty(m.coverage.curated))
      BY <1>4, ReasonsList DEF MapGood, CoverageGood
    <2> QED
      BY <1>1, <1>4, <2>1
  <1>5. CASE m.coverage # None /\ fact \in CoverageFacts(m.coverage)
    BY <1>4, <1>5, FactsOfCoverage
  <1> QED
    BY <1>2, <1>3, <1>5, FactsOfMap

LEMMA FactAt ==
  ASSUME NEW m, MapGood(m), NEW fact \in Facts(m)
  PROVE  /\ fact.anchor = Anchor("header", None, None) => fact = HeaderFact(m)
         /\ \A id : fact.anchor = Anchor("binding", id, None) => fact = BindingFact(BindingOf(m, id))
         /\ \A type \in EntryTypes : \A id, key : fact.anchor = Anchor(type, id, key) =>
              fact = EntryFact(type, id, At(ListOf(BindingOf(m, id), type), key))
         /\ fact.anchor = Anchor("coverage", None, None) => fact = CoverageFact(m.coverage)
         /\ \A k : fact.anchor = Anchor("fully_bound", None, k) => fact = KindFact(k)
         /\ \A k : fact.anchor = Anchor("curated", None, k) =>
              fact = EntryFact("curated", None, At(OrEmpty(m.coverage.curated), k))
  <1>1. ASSUME fact = HeaderFact(m)
        PROVE  fact.anchor = Anchor("header", None, None)
    BY <1>1, FactParts
  <1>2. ASSUME NEW id \in Ids(m), fact = BindingFact(BindingOf(m, id))
        PROVE  fact.anchor = Anchor("binding", id, None)
    <2>1. BindingOf(m, id).key = id
      BY BindingOfGood
    <2> QED
      BY <1>2, <2>1, FactParts
  <1>3. ASSUME NEW s, NEW key \in Keys(s), NEW type, NEW id, fact = EntryFact(type, id, At(s, key))
        PROVE  fact.anchor = Anchor(type, id, key)
    <2>1. At(s, key).key = key
      BY IndexProperties
    <2> QED
      BY <1>3, <2>1 DEF EntryFact, Fact
  <1>4. ASSUME fact = CoverageFact(m.coverage)
        PROVE  fact.anchor = Anchor("coverage", None, None)
    BY <1>4, FactParts
  <1>5. ASSUME NEW k, fact = KindFact(k)
        PROVE  fact.anchor = Anchor("fully_bound", None, k)
    BY <1>5, FactParts
  <1>6. \/ fact = HeaderFact(m) /\ fact.anchor = Anchor("header", None, None)
        \/ \E id \in Ids(m) :
             fact = BindingFact(BindingOf(m, id)) /\ fact.anchor = Anchor("binding", id, None)
        \/ \E id \in Ids(m), type \in EntryTypes : \E key :
             /\ fact = EntryFact(type, id, At(ListOf(BindingOf(m, id), type), key))
             /\ fact.anchor = Anchor(type, id, key)
        \/ fact = CoverageFact(m.coverage) /\ fact.anchor = Anchor("coverage", None, None)
        \/ \E k : fact = KindFact(k) /\ fact.anchor = Anchor("fully_bound", None, k)
        \/ \E k : /\ fact = EntryFact("curated", None, At(OrEmpty(m.coverage.curated), k))
                 /\ fact.anchor = Anchor("curated", None, k)
    <2>1. CASE \E id \in Ids(m), type \in EntryTypes :
                 LET s == ListOf(BindingOf(m, id), type)
                 IN  \E key \in Keys(s) : fact = EntryFact(type, id, At(s, key))
      <3>1. PICK id \in Ids(m), type \in EntryTypes :
                 \E key \in Keys(ListOf(BindingOf(m, id), type)) :
                   fact = EntryFact(type, id, At(ListOf(BindingOf(m, id), type), key))
        BY <2>1
      <3>2. PICK key \in Keys(ListOf(BindingOf(m, id), type)) :
                 fact = EntryFact(type, id, At(ListOf(BindingOf(m, id), type), key))
        BY <3>1
      <3>3. fact.anchor = Anchor(type, id, key)
        BY <1>3, <3>2
      <3> QED
        BY <3>2, <3>3
    <2>2. CASE LET s == OrEmpty(m.coverage.curated)
               IN  \E key \in Keys(s) : fact = EntryFact("curated", None, At(s, key))
      <3>1. PICK key \in Keys(OrEmpty(m.coverage.curated)) :
                 fact = EntryFact("curated", None, At(OrEmpty(m.coverage.curated), key))
        BY <2>2
      <3>2. fact.anchor = Anchor("curated", None, key)
        BY <1>3, <3>1
      <3> QED
        BY <3>1, <3>2
    <2>3. CASE \E id \in Ids(m) : fact = BindingFact(BindingOf(m, id))
      BY <1>2, <2>3
    <2>4. CASE \E k : fact = KindFact(k)
      BY <1>5, <2>4
    <2> QED
      BY <1>1, <1>4, <2>1, <2>2, <2>3, <2>4, FactsFound
  <1>7. CASE fact = HeaderFact(m) /\ fact.anchor = Anchor("header", None, None)
    BY <1>7, AnchorIs
  <1>8. CASE \E id \in Ids(m) :
               fact = BindingFact(BindingOf(m, id)) /\ fact.anchor = Anchor("binding", id, None)
    BY <1>8, AnchorIs
  <1>9. CASE \E id \in Ids(m), type \in EntryTypes : \E key :
               /\ fact = EntryFact(type, id, At(ListOf(BindingOf(m, id), type), key))
               /\ fact.anchor = Anchor(type, id, key)
    BY <1>9, AnchorIs
  <1>10. CASE fact = CoverageFact(m.coverage) /\ fact.anchor = Anchor("coverage", None, None)
    BY <1>10, AnchorIs
  <1>11. CASE \E k : fact = KindFact(k) /\ fact.anchor = Anchor("fully_bound", None, k)
    BY <1>11, AnchorIs
  <1>12. CASE \E k : /\ fact = EntryFact("curated", None, At(OrEmpty(m.coverage.curated), k))
                    /\ fact.anchor = Anchor("curated", None, k)
    BY <1>12, AnchorIs
  <1> QED
    BY <1>6, <1>7, <1>8, <1>9, <1>10, <1>11, <1>12

(* Each of its facts has an anchor of one of these six forms.              *)
LEMMA AnchorForms ==
  ASSUME NEW m, MapGood(m), NEW fact \in Facts(m)
  PROVE  \/ fact.anchor = Anchor("header", None, None)
         \/ \E id : fact.anchor = Anchor("binding", id, None)
         \/ \E type \in EntryTypes : \E id, key : fact.anchor = Anchor(type, id, key)
         \/ fact.anchor = Anchor("coverage", None, None)
         \/ \E k : fact.anchor = Anchor("fully_bound", None, k)
         \/ \E k : fact.anchor = Anchor("curated", None, k)
  <1>1. fact.anchor \in Anchors(m)
    BY DEF Anchors
  <1> QED
    BY <1>1, AnchorsOfMap

LEMMA OneFact ==
  ASSUME NEW m, MapGood(m), NEW f \in Facts(m), NEW g \in Facts(m), f.anchor = g.anchor
  PROVE  f = g
  <1>1. ASSUME NEW type \in EntryTypes, NEW id, NEW key, f.anchor = Anchor(type, id, key)
        PROVE  f = g
    <2> DEFINE h == EntryFact(type, id, At(ListOf(BindingOf(m, id), type), key))
    <2>1. f = h
      BY <1>1, FactAt
    <2>2. g.anchor = Anchor(type, id, key)
      BY <1>1
    <2>3. g = h
      BY <2>2, FactAt
    <2> QED
      BY <2>1, <2>3
  <1> QED
    BY <1>1, AnchorForms, FactAt

(***************************************************************************)
(* From one map to another: where the facts differ.                        *)
(***************************************************************************)
Gone(m, n) == Facts(m) \ Facts(n)

LEMMA BindingsChanged ==
  ASSUME NEW m, NEW n, n.header = m.header, n.coverage = m.coverage, NEW fact \in Gone(m, n)
  PROVE  \E b \in Range(m.bindings) :
           /\ fact \in FactsOfBinding(b)
           /\ \A c \in Range(n.bindings) : fact \notin FactsOfBinding(c)
  <1>1. HeaderFact(m) = HeaderFact(n)
    BY DEF HeaderFact
  <1>2. fact \in Facts(m) /\ fact \notin Facts(n)
    BY DEF Gone
  <1>3. /\ fact # HeaderFact(n)
        /\ \A c \in Range(n.bindings) : fact \notin FactsOfBinding(c)
        /\ ~(n.coverage # None /\ fact \in CoverageFacts(n.coverage))
    BY <1>2, FactsOfMap
  <1>4. \/ fact = HeaderFact(m)
        \/ \E b \in Range(m.bindings) : fact \in FactsOfBinding(b)
        \/ m.coverage # None /\ fact \in CoverageFacts(m.coverage)
    BY <1>2, FactsOfMap
  <1> QED
    BY <1>1, <1>3, <1>4

LEMMA CoverageChanged ==
  ASSUME NEW m, NEW n, n.header = m.header, Range(n.bindings) = Range(m.bindings),
         NEW fact \in Gone(m, n)
  PROVE  /\ m.coverage # None /\ fact \in CoverageFacts(m.coverage)
         /\ n.coverage # None => fact \notin CoverageFacts(n.coverage)
  <1>1. HeaderFact(m) = HeaderFact(n)
    BY DEF HeaderFact
  <1>2. fact \in Facts(m) /\ fact \notin Facts(n)
    BY DEF Gone
  <1>3. /\ fact # HeaderFact(n)
        /\ \A c \in Range(n.bindings) : fact \notin FactsOfBinding(c)
        /\ ~(n.coverage # None /\ fact \in CoverageFacts(n.coverage))
    BY <1>2, FactsOfMap
  <1>4. \/ fact = HeaderFact(m)
        \/ \E b \in Range(m.bindings) : fact \in FactsOfBinding(b)
        \/ m.coverage # None /\ fact \in CoverageFacts(m.coverage)
    BY <1>2, FactsOfMap
  <1> QED
    BY <1>1, <1>3, <1>4

(* A binding is replaced, added or removed.                                *)
LEMMA OneBindingChanged ==
  ASSUME NEW m, NEW n, n.header = m.header, n.coverage = m.coverage, NEW id,
         {b \in Range(n.bindings) : b.key # id} = {b \in Range(m.bindings) : b.key # id},
         NEW fact \in Gone(m, n)
  PROVE  \E b \in Range(m.bindings) :
           /\ b.key = id /\ fact \in FactsOfBinding(b)
           /\ \A c \in Range(n.bindings) : fact \notin FactsOfBinding(c)
  <1>1. PICK b \in Range(m.bindings) :
           /\ fact \in FactsOfBinding(b)
           /\ \A c \in Range(n.bindings) : fact \notin FactsOfBinding(c)
    BY BindingsChanged
  <1>2. b.key = id
    BY <1>1
  <1> QED
    BY <1>1, <1>2

(* Everything about a binding has its ID in its anchor.                    *)
LEMMA AboutBinding ==
  ASSUME NEW b, NEW fact \in FactsOfBinding(b)
  PROVE  fact.anchor[2] = b.key
  <1>1. CASE fact = BindingFact(b)
    <2>1. fact.anchor = Anchor("binding", b.key, None)
      BY <1>1, FactParts
    <2> QED
      BY <2>1, AnchorParts
  <1>2. ASSUME NEW type, NEW e, fact = EntryFact(type, b.key, e)
        PROVE  fact.anchor[2] = b.key
    <2>1. fact.anchor = Anchor(type, b.key, e.key)
      BY <1>2 DEF EntryFact, Fact
    <2> QED
      BY <2>1, AnchorParts
  <1> QED
    BY <1>1, <1>2, FactsOfOne

(* One list of a binding is replaced.                                      *)
LEMMA OneListChanged ==
  ASSUME NEW b, BindingGood(b), NEW c, BindingGood(c), NEW type \in EntryTypes,
         c.key = b.key, c.value = b.value, c.comment = b.comment,
         \A other \in EntryTypes \ {type} : ListOf(c, other) = ListOf(b, other),
         NEW fact \in FactsOfBinding(b), fact \notin FactsOfBinding(c)
  PROVE  \E e \in Range(ListOf(b, type)) \ Range(ListOf(c, type)) :
           fact = EntryFact(type, b.key, e)
  <1>1. BindingFact(b) = BindingFact(c)
    BY DEF BindingFact
  <1>2. /\ fact # BindingFact(c)
        /\ \A t \in EntryTypes : \A e \in Range(ListOf(c, t)) : fact # EntryFact(t, c.key, e)
    BY FactsOfOne
  <1>3. \/ fact = BindingFact(b)
        \/ \E t \in EntryTypes : \E e \in Range(ListOf(b, t)) : fact = EntryFact(t, b.key, e)
    BY FactsOfOne
  <1>4. PICK t \in EntryTypes : \E e \in Range(ListOf(b, t)) : fact = EntryFact(t, b.key, e)
    BY <1>1, <1>2, <1>3
  <1>5. PICK e \in Range(ListOf(b, t)) : fact = EntryFact(t, b.key, e)
    BY <1>4
  <1>6. e \notin Range(ListOf(c, t))
    BY <1>2, <1>5
  <1>7. t = type
    BY <1>5, <1>6
  <1> QED
    BY <1>5, <1>6, <1>7

(***************************************************************************)
(* What an invocation may take away and bring in.                          *)
(***************************************************************************)
Addressed(fact) ==
    \/ fact.anchor = done'.at
    \/ done'.op \in {"set", "remove"} /\ done'.at[3] = None /\ fact.anchor[2] = done'.at[2]
    \/ /\ fact.anchor = Anchor("coverage", None, None)
       /\ done'.at[1] \in {"fully_bound", "curated"}
       /\ Cardinality({f \in Facts(map) \cup Facts(map') :
                         f.anchor[1] \in {"fully_bound", "curated"}}) = 1

(* A fact that was not there before: about something new, or of a binding  *)
(* that was set, or with the comment that was given or the one that was    *)
(* there.                                                                  *)
Fresh(fact) ==
    \/ fact.anchor \notin Anchors(map)
    \/ done'.op = "set" /\ fact.anchor[2] = done'.at[2]
    \/ /\ fact.anchor = done'.at
       /\ \/ Spoken(fact.comment)
          \/ \E old \in Facts(map) : old.anchor = fact.anchor /\ old.comment = fact.comment

Local ==
    /\ \A fact \in Gone(map, map') : Addressed(fact)
    /\ \A fact \in Gone(map', map) : Addressed(fact) /\ Fresh(fact)

LEMMA SetIsLocal ==
  ASSUME MapGood(map), SetStep
  PROVE  Local
  <1>1. PICK b : /\ BindingGood(b) /\ map' = WithBinding(map, b)
                 /\ done'.op = "set" /\ done'.at = Anchor("binding", b.key, None)
    BY DEF SetStep
  <1>2. /\ map'.header = map.header /\ map'.coverage = map.coverage
        /\ Range(map'.bindings) = {d \in Range(map.bindings) : d.key # b.key} \cup {b}
    BY <1>1, WithBindingGood
  <1>3. {d \in Range(map'.bindings) : d.key # b.key} = {d \in Range(map.bindings) : d.key # b.key}
    BY <1>2
  <1>4. done'.at[2] = b.key /\ done'.at[3] = None
    BY <1>1, AnchorParts
  <1>5. ASSUME NEW fact \in Gone(map, map') \cup Gone(map', map)
        PROVE  fact.anchor[2] = b.key
    <2>1. CASE fact \in Gone(map, map')
      <3>1. PICK d \in Range(map.bindings) : d.key = b.key /\ fact \in FactsOfBinding(d)
        BY <1>2, <1>3, <2>1, OneBindingChanged
      <3> QED
        BY <3>1, AboutBinding
    <2>2. CASE fact \in Gone(map', map)
      <3>1. PICK d \in Range(map'.bindings) : d.key = b.key /\ fact \in FactsOfBinding(d)
        BY <1>2, <1>3, <2>2, OneBindingChanged
      <3> QED
        BY <3>1, AboutBinding
    <2> QED
      BY <2>1, <2>2
  <1> QED
    BY <1>1, <1>4, <1>5 DEF Local, Addressed, Fresh

LEMMA RemoveIsLocal ==
  ASSUME MapGood(map), RemoveStep
  PROVE  Local
  <1>1. PICK id \in Ids(map) : /\ map' = RemoveBinding(map, id)
                               /\ done'.op = "remove" /\ done'.at = Anchor("binding", id, None)
    BY DEF RemoveStep
  <1>2. /\ map'.header = map.header /\ map'.coverage = map.coverage
        /\ Range(map'.bindings) = {d \in Range(map.bindings) : d.key # id}
    BY <1>1, RemoveBindingGood
  <1>3. {d \in Range(map'.bindings) : d.key # id} = {d \in Range(map.bindings) : d.key # id}
    BY <1>2
  <1>4. done'.at[2] = id /\ done'.at[3] = None
    BY <1>1, AnchorParts
  <1>5. ASSUME NEW fact \in Gone(map, map')
        PROVE  fact.anchor[2] = id
    <2>1. PICK d \in Range(map.bindings) : d.key = id /\ fact \in FactsOfBinding(d)
      BY <1>2, <1>3, OneBindingChanged
    <2> QED
      BY <2>1, AboutBinding
  <1>6. ASSUME NEW fact \in Gone(map', map)
        PROVE  FALSE
    <2>1. PICK d \in Range(map'.bindings) : d.key = id
      BY <1>2, <1>3, OneBindingChanged
    <2> QED
      BY <1>2, <2>1
  <1> QED
    BY <1>1, <1>4, <1>5, <1>6 DEF Local, Addressed

LEMMA ListReplaced ==
  ASSUME NEW m, MapGood(m), NEW id \in Ids(m), NEW type \in EntryTypes, NEW t, EntriesGood(t),
         NEW n, n = WithBinding(m, WithList(BindingOf(m, id), type, t))
  PROVE  /\ \A fact \in Gone(m, n) : \E e \in Range(ListOf(BindingOf(m, id), type)) \ Range(t) :
              fact = EntryFact(type, id, e)
         /\ \A fact \in Gone(n, m) : \E e \in Range(t) \ Range(ListOf(BindingOf(m, id), type)) :
              fact = EntryFact(type, id, e)
  <1> DEFINE b == BindingOf(m, id)
             c == WithList(b, type, t)
  <1>1. /\ BindingGood(b) /\ b.key = id /\ b \in Range(m.bindings)
        /\ \A d \in Range(m.bindings) : d.key = id => d = b
    BY BindingOfGood
  <1>2. /\ BindingGood(c) /\ c.key = b.key /\ c.value = b.value /\ c.comment = b.comment
        /\ ListOf(c, type) = t
        /\ \A other \in EntryTypes \ {type} : ListOf(c, other) = ListOf(b, other)
    BY <1>1, WithListGood
  <1> HIDE DEF b, c
  <1>3. /\ n.header = m.header /\ n.coverage = m.coverage
        /\ Range(n.bindings) = {d \in Range(m.bindings) : d.key # c.key} \cup {c}
    BY <1>2, WithBindingGood DEF b, c
  <1>4. /\ {d \in Range(n.bindings) : d.key # id} = {d \in Range(m.bindings) : d.key # id}
        /\ c \in Range(n.bindings) /\ \A d \in Range(n.bindings) : d.key = id => d = c
    BY <1>1, <1>2, <1>3
  <1>5. ASSUME NEW fact \in Gone(m, n)
        PROVE  \E e \in Range(ListOf(b, type)) \ Range(t) : fact = EntryFact(type, id, e)
    <2>1. PICK d \in Range(m.bindings) :
             /\ d.key = id /\ fact \in FactsOfBinding(d)
             /\ \A x \in Range(n.bindings) : fact \notin FactsOfBinding(x)
      BY <1>3, <1>4, OneBindingChanged
    <2>2. fact \in FactsOfBinding(b) /\ fact \notin FactsOfBinding(c)
      BY <1>1, <1>4, <2>1
    <2>3. \E e \in Range(ListOf(b, type)) \ Range(ListOf(c, type)) : fact = EntryFact(type, b.key, e)
      BY <1>1, <1>2, <2>2, OneListChanged
    <2> QED
      BY <1>1, <1>2, <2>3
  <1>6. ASSUME NEW fact \in Gone(n, m)
        PROVE  \E e \in Range(t) \ Range(ListOf(b, type)) : fact = EntryFact(type, id, e)
    <2>1. PICK d \in Range(n.bindings) :
             /\ d.key = id /\ fact \in FactsOfBinding(d)
             /\ \A x \in Range(m.bindings) : fact \notin FactsOfBinding(x)
      BY <1>3, <1>4, OneBindingChanged
    <2>2. fact \in FactsOfBinding(c) /\ fact \notin FactsOfBinding(b)
      BY <1>1, <1>4, <2>1
    <2>3. \A other \in EntryTypes \ {type} : ListOf(b, other) = ListOf(c, other)
      BY <1>2
    <2>4. \E e \in Range(ListOf(c, type)) \ Range(ListOf(b, type)) : fact = EntryFact(type, c.key, e)
      BY <1>1, <1>2, <2>2, <2>3, OneListChanged
    <2> QED
      BY <1>1, <1>2, <2>4
  <1> QED
    BY <1>5, <1>6 DEF b

LEMMA EntryFactParts ==
  ASSUME NEW type, NEW id, NEW e
  PROVE  /\ EntryFact(type, id, e).anchor = Anchor(type, id, e.key)
         /\ EntryFact(type, id, e).comment = e.comment
         /\ EntryFact(type, id, e).anchor[1] = type
  BY DEF EntryFact, Fact, Anchor

LEMMA PutIsLocal ==
  ASSUME MapGood(map), PutStep
  PROVE  Local
  <1>1. PICK id \in Ids(map), type \in EntryTypes, e \in Entries :
          LET s == ListOf(BindingOf(map, id), type)
          IN  /\ InputOK(e) /\ map' = PutIn(map, id, type, e)
              /\ done'.op \notin {"set", "remove", "format"} /\ done'.at = Anchor(type, id, e.key)
              /\ e.key \in Keys(s) => e.comment = At(s, e.key).comment \/ Spoken(e.comment)
    BY DEF PutStep
  <1> DEFINE b == BindingOf(map, id)
             s == ListOf(b, type)
             t == Put(s, e)
  <1>2. BindingGood(b) /\ b.key = id /\ b \in Range(map.bindings)
    BY BindingOfGood
  <1>3. s \in Seq(Entries) /\ UniqueKeys(s) /\ EntriesGood(s)
    BY <1>2, ListOfGood DEF EntriesGood
  <1>4. EntriesGood(t) /\ Range(t) = {d \in Range(s) : d.key # e.key} \cup {e}
    BY <1>1, <1>3, PutGood, PutList
  <1>5. /\ \A fact \in Gone(map, map') : \E d \in Range(s) \ Range(t) : fact = EntryFact(type, id, d)
        /\ \A fact \in Gone(map', map) : \E d \in Range(t) \ Range(s) : fact = EntryFact(type, id, d)
    BY <1>1, <1>4, ListReplaced DEF PutIn
  <1> HIDE DEF t
  <1>6. ASSUME NEW fact \in Gone(map, map')
        PROVE  Addressed(fact)
    <2>1. PICK d \in Range(s) \ Range(t) : fact = EntryFact(type, id, d)
      BY <1>5
    <2>2. d.key = e.key
      BY <1>4, <2>1
    <2>3. fact.anchor = Anchor(type, id, e.key)
      BY <2>1, <2>2, EntryFactParts
    <2> QED
      BY <1>1, <2>3 DEF Addressed
  <1>7. ASSUME NEW fact \in Gone(map', map)
        PROVE  Addressed(fact) /\ Fresh(fact)
    <2>1. PICK d \in Range(t) \ Range(s) : fact = EntryFact(type, id, d)
      BY <1>5
    <2>2. d = e
      BY <1>4, <2>1
    <2>3. fact.anchor = Anchor(type, id, e.key) /\ fact.comment = e.comment
      BY <2>1, <2>2, EntryFactParts
    <2>4. Addressed(fact)
      BY <1>1, <2>3 DEF Addressed
    <2>5. CASE e.key \notin Keys(s)
      <3>1. fact.anchor \notin Anchors(map)
        BY <2>3, <2>5, Found
      <3> QED
        BY <2>4, <3>1 DEF Fresh
    <2>6. CASE e.key \in Keys(s) /\ e.comment = At(s, e.key).comment
      <3> DEFINE old == EntryFact(type, id, At(s, e.key))
      <3>1. At(s, e.key) \in Range(s) /\ At(s, e.key).key = e.key
        BY <2>6, IndexProperties
      <3>2. old \in FactsOfBinding(b)
        BY <1>2, <3>1, FactsOfOne
      <3>3. old \in Facts(map)
        BY <1>2, <3>2, FactsOfMap
      <3>4. old.anchor = fact.anchor /\ old.comment = fact.comment
        BY <2>3, <2>6, <3>1, EntryFactParts
      <3>5. fact.anchor = done'.at
        BY <1>1, <2>3
      <3> HIDE DEF old
      <3> QED
        BY <2>4, <3>3, <3>4, <3>5 DEF Fresh
    <2>7. CASE Spoken(e.comment)
      BY <1>1, <2>3, <2>4, <2>7 DEF Fresh
    <2> QED
      BY <1>1, <2>5, <2>6, <2>7
  <1> QED
    BY <1>6, <1>7 DEF Local

LEMMA DropIsLocal ==
  ASSUME MapGood(map), DropStep
  PROVE  Local
  <1>1. PICK id \in Ids(map), type \in EntryTypes :
          \E key \in Keys(ListOf(BindingOf(map, id), type)) :
            map' = DropIn(map, id, type, key) /\ done'.at = Anchor(type, id, key)
    BY DEF DropStep
  <1> DEFINE s == ListOf(BindingOf(map, id), type)
  <1>2. PICK key \in Keys(s) : map' = DropIn(map, id, type, key) /\ done'.at = Anchor(type, id, key)
    BY <1>1
  <1> DEFINE t == Drop(s, key)
  <1>3. s \in Seq(Entries) /\ UniqueKeys(s) /\ EntriesGood(s)
    BY BindingOfGood, ListOfGood DEF EntriesGood
  <1>4. EntriesGood(t) /\ Range(t) = {d \in Range(s) : d.key # key}
    BY <1>3, DropGood, DropList
  <1>5. /\ \A fact \in Gone(map, map') : \E d \in Range(s) \ Range(t) : fact = EntryFact(type, id, d)
        /\ \A fact \in Gone(map', map) : \E d \in Range(t) \ Range(s) : fact = EntryFact(type, id, d)
    BY <1>2, <1>4, ListReplaced DEF DropIn
  <1> HIDE DEF t, s
  <1>6. ASSUME NEW fact \in Gone(map, map')
        PROVE  Addressed(fact)
    <2>1. PICK d \in Range(s) \ Range(t) : fact = EntryFact(type, id, d)
      BY <1>5
    <2>2. d.key = key
      BY <1>4, <2>1
    <2>3. fact.anchor = Anchor(type, id, key)
      BY <2>1, <2>2, EntryFactParts
    <2> QED
      BY <1>2, <2>3 DEF Addressed
  <1>7. ASSUME NEW fact \in Gone(map', map)
        PROVE  FALSE
    BY <1>4, <1>5
  <1> QED
    BY <1>6, <1>7 DEF Local

LEMMA BindingCommentIsLocal ==
  ASSUME MapGood(map), BindingCommentStep
  PROVE  Local
  <1>1. PICK id \in Ids(map) : CommentStep(Anchor("binding", id, None))
    BY DEF BindingCommentStep
  <1>2. PICK text \in FreeText :
          /\ map' = SetComment(map, Anchor("binding", id, None), text)
          /\ done'.at = Anchor("binding", id, None) /\ Spoken(text)
    BY <1>1 DEF CommentStep
  <1> DEFINE b == BindingOf(map, id)
             c == [b EXCEPT !.comment = text]
  <1>3. /\ BindingGood(b) /\ b.key = id /\ b \in Range(map.bindings)
        /\ \A d \in Range(map.bindings) : d.key = id => d = b
    BY BindingOfGood
  <1>4. /\ BindingGood(c) /\ c.key = id /\ c.comment = text
        /\ \A type : ListOf(c, type) = ListOf(b, type)
        /\ map' = WithBinding(map, c)
    BY <1>2, BindingCommentGood
  <1> HIDE DEF b, c
  <1>5. /\ map'.header = map.header /\ map'.coverage = map.coverage
        /\ Range(map'.bindings) = {d \in Range(map.bindings) : d.key # c.key} \cup {c}
    BY <1>4, WithBindingGood
  <1>6. /\ {d \in Range(map'.bindings) : d.key # id} = {d \in Range(map.bindings) : d.key # id}
        /\ c \in Range(map'.bindings) /\ \A d \in Range(map'.bindings) : d.key = id => d = c
    BY <1>4, <1>5
  <1>7. \A fact : fact \in FactsOfBinding(b) /\ fact \notin FactsOfBinding(c)
                    => fact = BindingFact(b)
    <2> TAKE fact
    <2> HAVE fact \in FactsOfBinding(b) /\ fact \notin FactsOfBinding(c)
    <2>1. \A type \in EntryTypes : \A e \in Range(ListOf(c, type)) : fact # EntryFact(type, c.key, e)
      BY FactsOfOne
    <2>2. \/ fact = BindingFact(b)
          \/ \E type \in EntryTypes : \E e \in Range(ListOf(b, type)) : fact = EntryFact(type, b.key, e)
      BY FactsOfOne
    <2> QED
      BY <1>3, <1>4, <2>1, <2>2
  <1>8. \A fact : fact \in FactsOfBinding(c) /\ fact \notin FactsOfBinding(b)
                    => fact = BindingFact(c)
    <2> TAKE fact
    <2> HAVE fact \in FactsOfBinding(c) /\ fact \notin FactsOfBinding(b)
    <2>1. \A type \in EntryTypes : \A e \in Range(ListOf(b, type)) : fact # EntryFact(type, b.key, e)
      BY FactsOfOne
    <2>2. \/ fact = BindingFact(c)
          \/ \E type \in EntryTypes : \E e \in Range(ListOf(c, type)) : fact = EntryFact(type, c.key, e)
      BY FactsOfOne
    <2> QED
      BY <1>3, <1>4, <2>1, <2>2
  <1>9. ASSUME NEW fact \in Gone(map, map')
        PROVE  fact = BindingFact(b)
    <2>1. PICK d \in Range(map.bindings) :
             /\ d.key = id /\ fact \in FactsOfBinding(d)
             /\ \A x \in Range(map'.bindings) : fact \notin FactsOfBinding(x)
      BY <1>5, <1>6, OneBindingChanged
    <2> QED
      BY <1>3, <1>6, <1>7, <2>1
  <1>10. ASSUME NEW fact \in Gone(map', map)
         PROVE  fact = BindingFact(c)
    <2>1. PICK d \in Range(map'.bindings) :
             /\ d.key = id /\ fact \in FactsOfBinding(d)
             /\ \A x \in Range(map.bindings) : fact \notin FactsOfBinding(x)
      BY <1>5, <1>6, OneBindingChanged
    <2> QED
      BY <1>3, <1>6, <1>8, <2>1
  <1>11. /\ BindingFact(b).anchor = done'.at /\ BindingFact(c).anchor = done'.at
         /\ Spoken(BindingFact(c).comment)
    BY <1>2, <1>3, <1>4, FactParts
  <1> QED
    BY <1>9, <1>10, <1>11 DEF Local, Addressed, Fresh

LEMMA HeaderCommentIsLocal ==
  ASSUME MapGood(map), HeaderCommentStep
  PROVE  Local
  <1>1. PICK text \in FreeText :
          /\ map' = SetComment(map, Anchor("header", None, None), text)
          /\ done'.at = Anchor("header", None, None) /\ Spoken(text)
    BY DEF HeaderCommentStep, CommentStep
  <1>2. map'.header = text /\ map'.bindings = map.bindings /\ map'.coverage = map.coverage
    BY <1>1, HeaderCommentGood
  <1>3. ASSUME NEW m, NEW n, n.bindings = m.bindings, n.coverage = m.coverage, NEW fact \in Gone(m, n)
        PROVE  fact = HeaderFact(m)
    <2>1. fact \in Facts(m) /\ fact \notin Facts(n)
      BY <1>3 DEF Gone
    <2> QED
      BY <1>3, <2>1, FactsOfMap
  <1>4. /\ \A fact \in Gone(map, map') : fact = HeaderFact(map)
        /\ \A fact \in Gone(map', map) : fact = HeaderFact(map')
    BY <1>2, <1>3
  <1>5. /\ HeaderFact(map).anchor = done'.at /\ HeaderFact(map').anchor = done'.at
        /\ Spoken(HeaderFact(map').comment)
    BY <1>1, <1>2, FactParts
  <1> QED
    BY <1>4, <1>5 DEF Local, Addressed, Fresh

(***************************************************************************)
(* The coverage block: its two lists, empty when there is no block.        *)
(***************************************************************************)
Listed(m) == OrEmpty(CoverageOf(m).fully_bound)
Reasoned(m) == OrEmpty(CoverageOf(m).curated)

LEMMA CoverageDiffers ==
  ASSUME NEW m, NEW n, n.header = m.header, Range(n.bindings) = Range(m.bindings),
         NEW fact \in Gone(m, n)
  PROVE  \/ /\ m.coverage # None /\ fact = CoverageFact(m.coverage)
            /\ n.coverage = None \/ n.coverage.comment # m.coverage.comment
         \/ \E k \in Range(Listed(m)) \ Range(Listed(n)) : fact = KindFact(k)
         \/ \E e \in Range(Reasoned(m)) \ Range(Reasoned(n)) : fact = EntryFact("curated", None, e)
  <1>1. /\ m.coverage # None /\ fact \in CoverageFacts(m.coverage)
        /\ n.coverage # None => fact \notin CoverageFacts(n.coverage)
    BY CoverageChanged
  <1>2. /\ Listed(m) = OrEmpty(m.coverage.fully_bound) /\ Reasoned(m) = OrEmpty(m.coverage.curated)
        /\ n.coverage # None =>
             Listed(n) = OrEmpty(n.coverage.fully_bound) /\ Reasoned(n) = OrEmpty(n.coverage.curated)
    BY <1>1 DEF Listed, Reasoned, CoverageOf
  <1>3. n.coverage = None => Range(Listed(n)) = {} /\ Range(Reasoned(n)) = {}
    BY EmptyList DEF Listed, Reasoned, CoverageOf, EmptyCoverage, OrEmpty
  <1>4. \/ fact = CoverageFact(m.coverage)
        \/ \E k \in Range(Listed(m)) : fact = KindFact(k)
        \/ \E e \in Range(Reasoned(m)) : fact = EntryFact("curated", None, e)
    BY <1>1, <1>2, FactsOfCoverage
  <1>5. n.coverage # None =>
          /\ fact # CoverageFact(n.coverage)
          /\ \A k \in Range(Listed(n)) : fact # KindFact(k)
          /\ \A e \in Range(Reasoned(n)) : fact # EntryFact("curated", None, e)
    BY <1>1, <1>2, FactsOfCoverage
  <1>6. CASE fact = CoverageFact(m.coverage)
    BY <1>1, <1>5, <1>6 DEF CoverageFact
  <1>7. CASE \E k \in Range(Listed(m)) : fact = KindFact(k)
    BY <1>3, <1>5, <1>7
  <1>8. CASE \E e \in Range(Reasoned(m)) : fact = EntryFact("curated", None, e)
    BY <1>3, <1>5, <1>8
  <1> QED
    BY <1>4, <1>6, <1>7, <1>8

(* The facts about entries of the coverage block.                          *)
Covered(m, n) == {f \in Facts(m) \cup Facts(n) : f.anchor[1] \in {"fully_bound", "curated"}}

LEMMA CoveredFacts ==
  ASSUME NEW m, NEW n, NEW fact
  PROVE  fact \in Covered(m, n) <=>
           \/ \E k \in Range(Listed(m)) \cup Range(Listed(n)) : fact = KindFact(k)
           \/ \E e \in Range(Reasoned(m)) \cup Range(Reasoned(n)) : fact = EntryFact("curated", None, e)
  <1>1. ASSUME NEW x
        PROVE  fact \in Facts(x) /\ fact.anchor[1] \in {"fully_bound", "curated"} <=>
                 \/ \E k \in Range(Listed(x)) : fact = KindFact(k)
                 \/ \E e \in Range(Reasoned(x)) : fact = EntryFact("curated", None, e)
    <2>1. x.coverage = None => Range(Listed(x)) = {} /\ Range(Reasoned(x)) = {}
      BY EmptyList DEF Listed, Reasoned, CoverageOf, EmptyCoverage, OrEmpty
    <2>2. x.coverage # None =>
            Listed(x) = OrEmpty(x.coverage.fully_bound) /\ Reasoned(x) = OrEmpty(x.coverage.curated)
      BY DEF Listed, Reasoned, CoverageOf
    <2>3. /\ HeaderFact(x).anchor[1] = "header" /\ CoverageFact(x.coverage).anchor[1] = "coverage"
          /\ \A k : KindFact(k).anchor[1] = "fully_bound"
          /\ \A e : EntryFact("curated", None, e).anchor[1] = "curated"
      BY DEF HeaderFact, CoverageFact, KindFact, EntryFact, Fact, Anchor
    <2>4. ASSUME NEW b \in Range(x.bindings), fact \in FactsOfBinding(b)
          PROVE  fact.anchor[1] \notin {"fully_bound", "curated"}
      <3>1. BindingFact(b).anchor[1] = "binding"
        BY DEF BindingFact, Fact, Anchor
      <3>2. \A type \in EntryTypes : type \notin {"fully_bound", "curated"}
        BY AnchorIs
      <3>3. \/ fact = BindingFact(b)
            \/ \E type \in EntryTypes : \E e \in Range(ListOf(b, type)) : fact = EntryFact(type, b.key, e)
        BY <2>4, FactsOfOne
      <3>4. CASE fact = BindingFact(b)
        BY <3>1, <3>4
      <3>5. ASSUME NEW type \in EntryTypes, NEW e, fact = EntryFact(type, b.key, e)
            PROVE  fact.anchor[1] \notin {"fully_bound", "curated"}
        <4>1. fact.anchor[1] = type
          BY <3>5, EntryFactParts
        <4> QED
          BY <3>2, <4>1
      <3> QED
        BY <3>3, <3>4, <3>5
    <2>5. x.coverage # None =>
            (fact \in CoverageFacts(x.coverage) <=>
               \/ fact = CoverageFact(x.coverage)
               \/ \E k \in Range(Listed(x)) : fact = KindFact(k)
               \/ \E e \in Range(Reasoned(x)) : fact = EntryFact("curated", None, e))
      BY <2>2, FactsOfCoverage
    <2>6. fact \in Facts(x) <=>
            \/ fact = HeaderFact(x)
            \/ \E b \in Range(x.bindings) : fact \in FactsOfBinding(b)
            \/ x.coverage # None /\ fact \in CoverageFacts(x.coverage)
      BY FactsOfMap
    <2> QED
      BY <2>1, <2>3, <2>4, <2>5, <2>6
  <1>2. fact \in Covered(m, n) <=>
          \/ fact \in Facts(m) /\ fact.anchor[1] \in {"fully_bound", "curated"}
          \/ fact \in Facts(n) /\ fact.anchor[1] \in {"fully_bound", "curated"}
    BY DEF Covered
  <1>3. /\ fact \in Facts(m) /\ fact.anchor[1] \in {"fully_bound", "curated"} <=>
             \/ \E k \in Range(Listed(m)) : fact = KindFact(k)
             \/ \E e \in Range(Reasoned(m)) : fact = EntryFact("curated", None, e)
        /\ fact \in Facts(n) /\ fact.anchor[1] \in {"fully_bound", "curated"} <=>
             \/ \E k \in Range(Listed(n)) : fact = KindFact(k)
             \/ \E e \in Range(Reasoned(n)) : fact = EntryFact("curated", None, e)
    BY <1>1
  <1> QED
    BY <1>2, <1>3

(* The block has one entry before or after the step: it came with it, or   *)
(* goes with it.                                                           *)
LEMMA OnlyEntry ==
  ASSUME NEW m, NEW n, NEW only,
         \/ \E k : /\ Range(Listed(m)) \cup Range(Listed(n)) = {k}
                   /\ Range(Reasoned(m)) \cup Range(Reasoned(n)) = {} /\ only = KindFact(k)
         \/ \E e : /\ Range(Reasoned(m)) \cup Range(Reasoned(n)) = {e}
                   /\ Range(Listed(m)) \cup Range(Listed(n)) = {} /\ only = EntryFact("curated", None, e)
  PROVE  Cardinality(Covered(m, n)) = 1
  <1>1. Covered(m, n) = {only}
    BY CoveredFacts
  <1> QED
    BY <1>1, FS_Singleton

LEMMA NoCoverage ==
  ASSUME NEW m, m.coverage = None
  PROVE  /\ Listed(m) = <<>> /\ Reasoned(m) = <<>>
         /\ Range(Listed(m)) = {} /\ Range(Reasoned(m)) = {}
  BY EmptyList DEF Listed, Reasoned, CoverageOf, EmptyCoverage, OrEmpty

LEMMA CoverageLists ==
  ASSUME NEW m, MapGood(m)
  PROVE  /\ Listed(m) \in Seq(Kinds) /\ IsInjective(Listed(m))
         /\ Reasoned(m) \in Seq(Reasons) /\ UniqueKeys(Reasoned(m))
         /\ \A e \in Range(Reasoned(m)) : InputOK(e) /\ e \in Reasons
  BY CoverageOfGood, KindsList, ReasonsList DEF Listed, Reasoned

(* The anchor of an entry, or the block itself when it comes or goes.      *)
LEMMA CoverageAddressed ==
  ASSUME NEW fact,
         \/ fact.anchor = done'.at
         \/ /\ fact.anchor = Anchor("coverage", None, None)
            /\ done'.at[1] \in {"fully_bound", "curated"}
            /\ Cardinality(Covered(map, map')) = 1
  PROVE  Addressed(fact)
  BY DEF Addressed, Covered

LEMMA AddKindIsLocal ==
  ASSUME MapGood(map), AddKindStep
  PROVE  Local
  <1>1. PICK kind \in Kinds :
          /\ MapOK(FullyBoundAdd(map, kind)) /\ map' = FullyBoundAdd(map, kind)
          /\ done'.at = Anchor("fully_bound", None, kind)
    BY DEF AddKindStep
  <1>2. /\ map'.header = map.header /\ map'.bindings = map.bindings /\ map'.coverage # None
        /\ map'.coverage.fully_bound = Append(Listed(map), kind)
        /\ map'.coverage.comment = CoverageOf(map).comment
        /\ map'.coverage.curated = CoverageOf(map).curated
        /\ kind \notin Range(Listed(map))
    BY <1>1, FullyBoundAddGood DEF Listed
  <1>3. /\ Append(Listed(map), kind) \in Seq(Kinds)
        /\ Range(Append(Listed(map), kind)) = Range(Listed(map)) \cup {kind}
    BY <1>2, CoverageLists, AppendDistinct
  <1>4. Listed(map') = Append(Listed(map), kind) /\ Reasoned(map') = Reasoned(map)
    BY <1>2, <1>3, NoneAssumption DEF Listed, Reasoned, CoverageOf, OrEmpty
  <1>5. done'.at[1] = "fully_bound" /\ KindFact(kind).anchor = done'.at
    BY <1>1, FactParts, AnchorParts
  <1>6. ASSUME NEW fact \in Gone(map, map')
        PROVE  FALSE
    <2>1. \/ /\ map.coverage # None /\ fact = CoverageFact(map.coverage)
             /\ map'.coverage = None \/ map'.coverage.comment # map.coverage.comment
          \/ \E k \in Range(Listed(map)) \ Range(Listed(map')) : fact = KindFact(k)
          \/ \E e \in Range(Reasoned(map)) \ Range(Reasoned(map')) : fact = EntryFact("curated", None, e)
      BY <1>2, CoverageDiffers
    <2> QED
      BY <1>2, <1>3, <1>4, <2>1 DEF CoverageOf
  <1>7. ASSUME NEW fact \in Gone(map', map)
        PROVE  Addressed(fact) /\ fact.anchor \notin Anchors(map)
    <2>1. \/ /\ map'.coverage # None /\ fact = CoverageFact(map'.coverage)
             /\ map.coverage = None \/ map.coverage.comment # map'.coverage.comment
          \/ \E k \in Range(Listed(map')) \ Range(Listed(map)) : fact = KindFact(k)
          \/ \E e \in Range(Reasoned(map')) \ Range(Reasoned(map)) : fact = EntryFact("curated", None, e)
      BY <1>2, CoverageDiffers
    <2>2. CASE map.coverage = None /\ fact = CoverageFact(map'.coverage)
      <3>1. Range(Listed(map)) \cup Range(Listed(map')) = {kind}
        BY <1>3, <1>4, <2>2, NoCoverage
      <3>2. Range(Reasoned(map)) \cup Range(Reasoned(map')) = {}
        BY <1>4, <2>2, NoCoverage
      <3>3. Cardinality(Covered(map, map')) = 1
        BY <3>1, <3>2, OnlyEntry
      <3>4. fact.anchor = Anchor("coverage", None, None)
        BY <2>2, FactParts
      <3>5. fact.anchor \notin Anchors(map)
        BY <2>2, <3>4, Found
      <3> QED
        BY <1>5, <3>3, <3>4, <3>5, CoverageAddressed
    <2>3. CASE fact = KindFact(kind)
      <3>1. fact.anchor = Anchor("fully_bound", None, kind)
        BY <2>3, FactParts
      <3>2. map.coverage # None => kind \notin Range(OrEmpty(map.coverage.fully_bound))
        BY <1>2 DEF Listed, CoverageOf
      <3>3. fact.anchor \notin Anchors(map)
        BY <3>1, <3>2, Found
      <3> QED
        BY <1>5, <2>3, <3>3, CoverageAddressed
    <2> QED
      BY <1>2, <1>3, <1>4, <2>1, <2>2, <2>3 DEF CoverageOf
  <1> QED
    BY <1>6, <1>7 DEF Local, Fresh

LEMMA DropKindIsLocal ==
  ASSUME MapGood(map), DropKindStep
  PROVE  Local
  <1>1. PICK kind \in Range(OrEmpty(map.coverage.fully_bound)) :
          map' = FullyBoundRemove(map, kind) /\ done'.at = Anchor("fully_bound", None, kind)
    BY DEF DropKindStep
  <1>2. map.coverage # None
    BY DEF DropKindStep
  <1>3. Listed(map) = OrEmpty(map.coverage.fully_bound) /\ Reasoned(map) = OrEmpty(map.coverage.curated)
    BY <1>2 DEF Listed, Reasoned, CoverageOf
  <1> DEFINE c == [map.coverage EXCEPT !.fully_bound = OrNone(Without(@, kind))]
  <1>4. /\ map'.header = map.header /\ map'.bindings = map.bindings
        /\ map'.coverage = None <=> c.fully_bound = None /\ c.curated = None
        /\ map'.coverage # None => map'.coverage = c
        /\ c.comment = map.coverage.comment /\ c.curated = map.coverage.curated
        /\ OrEmpty(c.fully_bound) = Without(Listed(map), kind)
    BY <1>1, <1>2, <1>3, FullyBoundRemoveGood
  <1> HIDE DEF c
  <1>5. Range(Without(Listed(map), kind)) = Range(Listed(map)) \ {kind}
    BY <1>1, <1>3, CoverageLists, WithoutProperties
  <1>6. Range(Listed(map')) = Range(Listed(map)) \ {kind} /\ Reasoned(map') = Reasoned(map)
    <2>1. CASE map'.coverage = None
      BY <1>3, <1>4, <1>5, <2>1, NoCoverage, EmptyList DEF OrEmpty
    <2>2. CASE map'.coverage # None
      BY <1>3, <1>4, <1>5, <2>2 DEF Listed, Reasoned, CoverageOf
    <2> QED
      BY <2>1, <2>2
  <1>7. done'.at[1] = "fully_bound" /\ KindFact(kind).anchor = done'.at
    <2>1. KindFact(kind).anchor = Anchor("fully_bound", None, kind)
      BY FactParts
    <2>2. Anchor("fully_bound", None, kind)[1] = "fully_bound"
      BY AnchorParts
    <2> QED
      BY <1>1, <2>1, <2>2
  <1>8. ASSUME NEW fact \in Gone(map, map')
        PROVE  Addressed(fact)
    <2>1. \/ /\ map.coverage # None /\ fact = CoverageFact(map.coverage)
             /\ map'.coverage = None \/ map'.coverage.comment # map.coverage.comment
          \/ \E k \in Range(Listed(map)) \ Range(Listed(map')) : fact = KindFact(k)
          \/ \E e \in Range(Reasoned(map)) \ Range(Reasoned(map')) : fact = EntryFact("curated", None, e)
      BY <1>4, CoverageDiffers
    <2>2. CASE map'.coverage = None /\ fact = CoverageFact(map.coverage)
      <3>1. Range(Listed(map')) = {} /\ Range(Reasoned(map')) = {}
        BY <2>2, NoCoverage
      <3>2. Range(Listed(map)) \cup Range(Listed(map')) = {kind}
        BY <1>1, <1>3, <1>6, <3>1
      <3>3. Range(Reasoned(map)) \cup Range(Reasoned(map')) = {}
        BY <1>6, <3>1
      <3>4. Cardinality(Covered(map, map')) = 1
        BY <3>2, <3>3, OnlyEntry
      <3>5. fact.anchor = Anchor("coverage", None, None)
        BY <2>2, FactParts
      <3> QED
        BY <1>7, <3>4, <3>5, CoverageAddressed
    <2>3. CASE fact = KindFact(kind)
      BY <1>7, <2>3, CoverageAddressed
    <2> QED
      BY <1>4, <1>6, <2>1, <2>2, <2>3
  <1>9. ASSUME NEW fact \in Gone(map', map)
        PROVE  FALSE
    <2>1. \/ /\ map'.coverage # None /\ fact = CoverageFact(map'.coverage)
             /\ map.coverage = None \/ map.coverage.comment # map'.coverage.comment
          \/ \E k \in Range(Listed(map')) \ Range(Listed(map)) : fact = KindFact(k)
          \/ \E e \in Range(Reasoned(map')) \ Range(Reasoned(map)) : fact = EntryFact("curated", None, e)
      BY <1>4, CoverageDiffers
    <2> QED
      BY <1>2, <1>4, <1>6, <2>1
  <1> QED
    BY <1>8, <1>9 DEF Local

LEMMA UncurateIsLocal ==
  ASSUME MapGood(map), UncurateStep
  PROVE  Local
  <1>1. PICK kind \in Keys(OrEmpty(map.coverage.curated)) :
          map' = CuratedUnset(map, kind) /\ done'.at = Anchor("curated", None, kind)
    BY DEF UncurateStep
  <1>2. map.coverage # None
    BY DEF UncurateStep
  <1>3. Listed(map) = OrEmpty(map.coverage.fully_bound) /\ Reasoned(map) = OrEmpty(map.coverage.curated)
    BY <1>2 DEF Listed, Reasoned, CoverageOf
  <1> DEFINE c == [map.coverage EXCEPT !.curated = OrNone(Drop(@, kind))]
  <1>4. /\ map'.header = map.header /\ map'.bindings = map.bindings
        /\ map'.coverage = None <=> c.fully_bound = None /\ c.curated = None
        /\ map'.coverage # None => map'.coverage = c
        /\ c.comment = map.coverage.comment /\ c.fully_bound = map.coverage.fully_bound
        /\ OrEmpty(c.curated) = Drop(Reasoned(map), kind)
    BY <1>1, <1>2, <1>3, CuratedUnsetGood
  <1> HIDE DEF c
  <1>5. Range(Drop(Reasoned(map), kind)) = {e \in Range(Reasoned(map)) : e.key # kind}
    BY <1>1, <1>3, CoverageLists, DropList
  <1>6. /\ Range(Reasoned(map')) = {e \in Range(Reasoned(map)) : e.key # kind}
        /\ Listed(map') = Listed(map)
    <2>1. CASE map'.coverage = None
      BY <1>3, <1>4, <1>5, <2>1, NoCoverage, EmptyList DEF OrEmpty
    <2>2. CASE map'.coverage # None
      BY <1>3, <1>4, <1>5, <2>2 DEF Listed, Reasoned, CoverageOf
    <2> QED
      BY <2>1, <2>2
  <1> DEFINE old == At(Reasoned(map), kind)
  <1>7. /\ old \in Range(Reasoned(map)) /\ old.key = kind
        /\ \A e \in Range(Reasoned(map)) : e.key = kind => e = old
    BY <1>1, <1>3, CoverageLists, IndexProperties
  <1> HIDE DEF old
  <1>8. done'.at[1] = "curated" /\ EntryFact("curated", None, old).anchor = done'.at
    BY <1>1, <1>7, EntryFactParts, AnchorParts
  <1>9. ASSUME NEW fact \in Gone(map, map')
        PROVE  Addressed(fact)
    <2>1. \/ /\ map.coverage # None /\ fact = CoverageFact(map.coverage)
             /\ map'.coverage = None \/ map'.coverage.comment # map.coverage.comment
          \/ \E k \in Range(Listed(map)) \ Range(Listed(map')) : fact = KindFact(k)
          \/ \E e \in Range(Reasoned(map)) \ Range(Reasoned(map')) : fact = EntryFact("curated", None, e)
      BY <1>4, CoverageDiffers
    <2>2. CASE map'.coverage = None /\ fact = CoverageFact(map.coverage)
      <3>1. Range(Listed(map')) = {} /\ Range(Reasoned(map')) = {}
        BY <2>2, NoCoverage
      <3>2. Range(Reasoned(map)) \cup Range(Reasoned(map')) = {old}
        BY <1>6, <1>7, <3>1
      <3>3. Range(Listed(map)) \cup Range(Listed(map')) = {}
        BY <1>6, <3>1
      <3>4. Cardinality(Covered(map, map')) = 1
        BY <3>2, <3>3, OnlyEntry
      <3>5. fact.anchor = Anchor("coverage", None, None)
        BY <2>2, FactParts
      <3> QED
        BY <1>8, <3>4, <3>5, CoverageAddressed
    <2>3. CASE fact = EntryFact("curated", None, old)
      BY <1>8, <2>3, CoverageAddressed
    <2> QED
      BY <1>4, <1>6, <1>7, <2>1, <2>2, <2>3
  <1>10. ASSUME NEW fact \in Gone(map', map)
         PROVE  FALSE
    <2>1. \/ /\ map'.coverage # None /\ fact = CoverageFact(map'.coverage)
             /\ map.coverage = None \/ map.coverage.comment # map'.coverage.comment
          \/ \E k \in Range(Listed(map')) \ Range(Listed(map)) : fact = KindFact(k)
          \/ \E e \in Range(Reasoned(map')) \ Range(Reasoned(map)) : fact = EntryFact("curated", None, e)
      BY <1>4, CoverageDiffers
    <2> QED
      BY <1>2, <1>4, <1>6, <2>1
  <1> QED
    BY <1>9, <1>10 DEF Local

(* A curated kind is set, or its comment is.                               *)
LEMMA ReasonPutIsLocal ==
  ASSUME MapGood(map), NEW e \in Reasons,
         map'.header = map.header, map'.bindings = map.bindings, map'.coverage # None,
         map'.coverage.curated = Put(Reasoned(map), e),
         map'.coverage.comment = CoverageOf(map).comment,
         map'.coverage.fully_bound = CoverageOf(map).fully_bound,
         done'.at = Anchor("curated", None, e.key),
         e.key \in Keys(Reasoned(map)) =>
           e.comment = At(Reasoned(map), e.key).comment \/ Spoken(e.comment)
  PROVE  Local
  <1> DEFINE s == Reasoned(map)
             at(d) == EntryFact("curated", None, d)
  <1>1. s \in Seq(Reasons) /\ UniqueKeys(s)
    BY CoverageLists
  <1>2. Put(s, e) \in Seq(Reasons) /\ Range(Put(s, e)) = {d \in Range(s) : d.key # e.key} \cup {e}
    BY <1>1, PutList
  <1>3. /\ Range(Reasoned(map')) = {d \in Range(s) : d.key # e.key} \cup {e}
        /\ Listed(map') = Listed(map)
    BY <1>2, NoneAssumption DEF Listed, Reasoned, CoverageOf, OrEmpty
  <1> HIDE DEF s
  <1>4. /\ \A d : at(d).anchor = Anchor("curated", None, d.key)
        /\ \A d : at(d).comment = d.comment
    BY EntryFactParts
  <1>5. done'.at[1] = "curated" /\ at(e).anchor = done'.at
    <2>1. at(e).anchor = Anchor("curated", None, e.key)
      BY EntryFactParts
    <2>2. Anchor("curated", None, e.key)[1] = "curated"
      BY AnchorParts
    <2> QED
      BY <2>1, <2>2
  <1>6. map.coverage # None => map'.coverage.comment = map.coverage.comment
    BY DEF CoverageOf
  <1> HIDE DEF at
  <1>7. ASSUME NEW fact \in Gone(map, map')
        PROVE  Addressed(fact)
    <2>1. \/ /\ map.coverage # None /\ fact = CoverageFact(map.coverage)
             /\ map'.coverage = None \/ map'.coverage.comment # map.coverage.comment
          \/ \E k \in Range(Listed(map)) \ Range(Listed(map')) : fact = KindFact(k)
          \/ \E d \in Range(s) \ Range(Reasoned(map')) : fact = at(d)
      BY CoverageDiffers DEF s, at
    <2>2. PICK d \in Range(s) \ Range(Reasoned(map')) : fact = at(d)
      BY <1>3, <1>6, <2>1
    <2>3. d.key = e.key
      BY <1>3, <2>2
    <2>4. fact.anchor = done'.at
      BY <1>4, <2>2, <2>3
    <2> QED
      BY <2>4, CoverageAddressed
  <1>8. ASSUME NEW fact \in Gone(map', map)
        PROVE  Addressed(fact) /\ Fresh(fact)
    <2>1. \/ /\ map'.coverage # None /\ fact = CoverageFact(map'.coverage)
             /\ map.coverage = None \/ map.coverage.comment # map'.coverage.comment
          \/ \E k \in Range(Listed(map')) \ Range(Listed(map)) : fact = KindFact(k)
          \/ \E d \in Range(Reasoned(map')) \ Range(s) : fact = at(d)
      BY CoverageDiffers DEF s, at
    <2>2. CASE map.coverage = None /\ fact = CoverageFact(map'.coverage)
      <3>1. Range(s) \cup Range(Reasoned(map')) = {e}
        BY <1>3, <2>2, NoCoverage DEF s
      <3>2. Range(Listed(map)) \cup Range(Listed(map')) = {}
        BY <1>3, <2>2, NoCoverage
      <3>3. Cardinality(Covered(map, map')) = 1
        BY <3>1, <3>2, OnlyEntry DEF s
      <3>4. fact.anchor = Anchor("coverage", None, None)
        BY <2>2, FactParts
      <3>5. fact.anchor \notin Anchors(map)
        BY <2>2, <3>4, Found
      <3> QED
        BY <1>5, <3>3, <3>4, <3>5, CoverageAddressed DEF Fresh
    <2>3. CASE fact = at(e)
      <3>1. fact.anchor = done'.at /\ fact.comment = e.comment
        BY <1>4, <1>5, <2>3
      <3>2. Addressed(fact)
        BY <3>1, CoverageAddressed
      <3>3. map.coverage # None => s = OrEmpty(map.coverage.curated)
        BY DEF s, Reasoned, CoverageOf
      <3>4. map.coverage = None => e.key \notin Keys(s)
        BY NoCoverage, EmptyList DEF s
      <3>5. CASE e.key \notin Keys(s)
        <4>1. fact.anchor \notin Anchors(map)
          BY <3>1, <3>3, <3>5, Found
        <4> QED
          BY <3>2, <4>1 DEF Fresh
      <3>6. CASE e.key \in Keys(s) /\ e.comment = At(s, e.key).comment
        <4> DEFINE old == At(s, e.key)
        <4>1. old \in Range(s) /\ old.key = e.key
          BY <3>6, IndexProperties
        <4>2. at(old) \in CoverageFacts(map.coverage)
          BY <3>3, <3>4, <3>6, <4>1, FactsOfCoverage DEF at
        <4>3. at(old) \in Facts(map)
          BY <3>4, <3>6, <4>2, FactsOfMap
        <4>4. at(old).anchor = fact.anchor /\ at(old).comment = fact.comment
          BY <1>4, <2>3, <3>6, <4>1
        <4> HIDE DEF old
        <4> QED
          BY <3>1, <3>2, <4>3, <4>4 DEF Fresh
      <3>7. CASE Spoken(e.comment)
        BY <3>1, <3>2, <3>7 DEF Fresh
      <3> QED
        BY <3>5, <3>6, <3>7 DEF s
    <2> QED
      BY <1>3, <1>6, <2>1, <2>2, <2>3
  <1> QED
    BY <1>7, <1>8 DEF Local

LEMMA CurateIsLocal ==
  ASSUME MapGood(map), CurateStep
  PROVE  Local
  <1>1. PICK e \in Reasons :
          /\ InputOK(e) /\ MapOK(CuratedSet(map, e)) /\ map' = CuratedSet(map, e)
          /\ done'.at = Anchor("curated", None, e.key) /\ done'.comment = e.comment
    BY DEF CurateStep
  <1> DEFINE d == Kept(Reasoned(map), e)
  <1>2. /\ map'.header = map.header /\ map'.bindings = map.bindings /\ map'.coverage # None
        /\ map'.coverage.curated = Put(Reasoned(map), d)
        /\ map'.coverage.comment = CoverageOf(map).comment
        /\ map'.coverage.fully_bound = CoverageOf(map).fully_bound
    BY <1>1, CuratedSetGood DEF Reasoned
  <1>3. /\ d \in Reasons /\ d.key = e.key
        /\ e.comment # None => d.comment = e.comment
        /\ e.comment = None /\ e.key \in Keys(Reasoned(map)) =>
             d.comment = At(Reasoned(map), e.key).comment
    <2>1. /\ Reasoned(map) \in Seq([key : Kinds, value : Scalars, comment : Texts])
          /\ e \in [key : Kinds, value : Scalars, comment : Texts]
          /\ \A x \in Range(Reasoned(map)) : InputOK(x)
      BY CoverageLists DEF Reasons
    <2> QED
      BY <1>1, <2>1, KeptGood DEF Reasons
  <1> HIDE DEF d
  <1>4. d.key \in Keys(Reasoned(map)) =>
          d.comment = At(Reasoned(map), d.key).comment \/ Spoken(d.comment)
    BY <1>1, <1>3 DEF Spoken
  <1> QED
    BY <1>1, <1>2, <1>3, <1>4, ReasonPutIsLocal

LEMMA ReasonCommentIsLocal ==
  ASSUME MapGood(map), ReasonCommentStep
  PROVE  Local
  <1>1. map.coverage # None
    BY DEF ReasonCommentStep
  <1>2. PICK kind \in Keys(OrEmpty(map.coverage.curated)) : CommentStep(Anchor("curated", None, kind))
    BY DEF ReasonCommentStep
  <1>3. PICK text \in FreeText :
          /\ map' = SetComment(map, Anchor("curated", None, kind), text)
          /\ done'.at = Anchor("curated", None, kind) /\ Spoken(text)
    BY <1>2 DEF CommentStep
  <1>4. Reasoned(map) = OrEmpty(map.coverage.curated) /\ CoverageOf(map) = map.coverage
    BY <1>1 DEF Reasoned, CoverageOf
  <1> DEFINE e == Commented(Reasoned(map), kind, text)
  <1>5. /\ map'.header = map.header /\ map'.bindings = map.bindings /\ map'.coverage # None
        /\ map'.coverage.curated = Put(Reasoned(map), e)
        /\ map'.coverage.comment = map.coverage.comment
        /\ map'.coverage.fully_bound = map.coverage.fully_bound
        /\ e \in Reasons /\ e.key = kind /\ e.comment = text
    BY <1>1, <1>2, <1>3, <1>4, ReasonCommentGood
  <1> HIDE DEF e
  <1> QED
    BY <1>3, <1>4, <1>5, ReasonPutIsLocal

LEMMA CoverageCommentIsLocal ==
  ASSUME MapGood(map), CoverageCommentStep
  PROVE  Local
  <1>1. map.coverage # None
    BY DEF CoverageCommentStep
  <1>2. PICK text \in FreeText :
          /\ map' = SetComment(map, Anchor("coverage", None, None), text)
          /\ done'.at = Anchor("coverage", None, None) /\ Spoken(text)
    BY DEF CoverageCommentStep, CommentStep
  <1>3. /\ map'.header = map.header /\ map'.bindings = map.bindings /\ map'.coverage # None
        /\ map'.coverage.comment = text
        /\ map'.coverage.fully_bound = map.coverage.fully_bound
        /\ map'.coverage.curated = map.coverage.curated
    BY <1>1, <1>2, CoverageCommentGood
  <1>4. Listed(map') = Listed(map) /\ Reasoned(map') = Reasoned(map)
    BY <1>1, <1>3 DEF Listed, Reasoned, CoverageOf
  <1>5. \A fact \in Gone(map, map') : fact = CoverageFact(map.coverage)
    BY <1>3, <1>4, CoverageDiffers
  <1>6. \A fact \in Gone(map', map) : fact = CoverageFact(map'.coverage)
    BY <1>3, <1>4, CoverageDiffers
  <1>7. /\ CoverageFact(map.coverage).anchor = done'.at
        /\ CoverageFact(map'.coverage).anchor = done'.at
        /\ Spoken(CoverageFact(map'.coverage).comment)
    BY <1>2, <1>3, FactParts
  <1> QED
    BY <1>5, <1>6, <1>7 DEF Local, Addressed, Fresh

LEMMA FormatIsLocal ==
  ASSUME MapGood(map), FormatStep
  PROVE  Facts(map') = Facts(map) /\ Local
  <1>1. /\ map'.header = map.header /\ Range(map'.bindings) = Range(map.bindings)
        /\ map'.coverage = None <=> map.coverage = None
        /\ map.coverage # None => map'.coverage = CanonicalCoverage(map.coverage)
    BY CanonicaliseGood DEF FormatStep
  <1>2. map.coverage # None =>
          /\ map'.coverage.comment = map.coverage.comment
          /\ Range(Listed(map')) = Range(Listed(map))
          /\ Range(Reasoned(map')) = Range(Reasoned(map))
    <2> HAVE map.coverage # None
    <2>1. CoverageGood(map.coverage)
      BY DEF MapGood
    <2> QED
      BY <1>1, <2>1, CanonicalCoverageGood DEF Listed, Reasoned, CoverageOf
  <1>3. map.coverage = None =>
          Range(Listed(map')) = Range(Listed(map)) /\ Range(Reasoned(map')) = Range(Reasoned(map))
    BY <1>1, NoCoverage
  <1>4. Gone(map, map') = {}
    BY <1>1, <1>2, <1>3, CoverageDiffers
  <1>5. Gone(map', map) = {}
    BY <1>1, <1>2, <1>3, CoverageDiffers
  <1> QED
    BY <1>4, <1>5 DEF Local, Gone

LEMMA WrittenIsLocal ==
  ASSUME MapGood(map), Written
  PROVE  Local
  BY SetIsLocal, PutIsLocal, DropIsLocal, RemoveIsLocal, BindingCommentIsLocal,
     HeaderCommentIsLocal, CoverageCommentIsLocal, ReasonCommentIsLocal, AddKindIsLocal,
     DropKindIsLocal, CurateIsLocal, UncurateIsLocal, FormatIsLocal DEF Written

(***************************************************************************)
(* Every step of the specification, from a good map.                       *)
(***************************************************************************)
LEMMA StepCases ==
  ASSUME GoodAlways, [Next]_vars, ~UNCHANGED vars
  PROVE  MapGood(map) /\ MapGood(map') /\ (UNCHANGED map \/ (Written /\ Local))
  <1>1. MapGood(map)
    BY GoodIsMapGood DEF GoodAlways
  <1>2. Refused \/ Written
    BY <1>1, Classified
  <1>3. CASE Refused
    BY <1>1, <1>3 DEF Refused
  <1>4. CASE Written
    BY <1>1, <1>4, WrittenGood, WrittenIsLocal
  <1> QED
    BY <1>2, <1>3, <1>4

(* A command changes what it names and nothing else, though it rewrites    *)
(* the whole file: every other value and comment is still there.           *)
THEOREM OnlyAddressedChanges == Spec => OnlyAddressed
  <1>1. ASSUME GoodAlways, [Next]_vars, ~UNCHANGED vars,
               NEW fact \in (Facts(map) \ Facts(map')) \cup (Facts(map') \ Facts(map))
        PROVE  Addressed(fact)
    <2>1. UNCHANGED map \/ Local
      BY <1>1, StepCases
    <2> QED
      BY <1>1, <2>1 DEF Local, Gone
  <1>2. GoodAlways /\ [Next]_vars =>
          [\A fact \in (Facts(map) \ Facts(map')) \cup (Facts(map') \ Facts(map)) :
             \/ fact.anchor = done'.at
             \/ done'.op \in {"set", "remove"} /\ done'.at[3] = None /\ fact.anchor[2] = done'.at[2]
             \/ /\ fact.anchor = Anchor("coverage", None, None)
                /\ done'.at[1] \in {"fully_bound", "curated"}
                /\ Cardinality({f \in Facts(map) \cup Facts(map') :
                                  f.anchor[1] \in {"fully_bound", "curated"}}) = 1]_vars
    BY <1>1 DEF Addressed
  <1> QED
    BY <1>2, AlwaysGood, PTL DEF Spec, OnlyAddressed

(* A comment changes only to the one the command was given, or is unset:   *)
(* never by replacing the field or the reason it belongs to.               *)
THEOREM CommentsAreKept == Spec => CommentsKept
  <1>1. ASSUME GoodAlways, [Next]_vars, ~UNCHANGED vars,
               NEW old \in Facts(map), NEW new \in Facts(map'),
               old.anchor = new.anchor, old.comment # new.comment
        PROVE  \/ done'.op = "set" /\ old.anchor[2] = done'.at[2]
               \/ done'.op = "comment unset" /\ old.anchor = done'.at /\ new.comment = None
               \/ old.anchor = done'.at /\ done'.comment # None /\ new.comment = done'.comment
    <2>1. MapGood(map) /\ (UNCHANGED map \/ Local)
      BY <1>1, StepCases
    <2>2. new \notin Facts(map)
      BY <1>1, <2>1, OneFact
    <2>3. Fresh(new)
      BY <1>1, <2>1, <2>2 DEF Local, Gone
    <2>4. new.anchor \in Anchors(map)
      BY <1>1 DEF Anchors
    <2>5. CASE done'.op = "set" /\ new.anchor[2] = done'.at[2]
      BY <1>1, <2>5
    <2>6. CASE new.anchor = done'.at /\ Spoken(new.comment)
      BY <1>1, <2>6 DEF Spoken
    <2>7. ASSUME NEW other \in Facts(map), other.anchor = new.anchor, other.comment = new.comment
          PROVE  FALSE
      BY <1>1, <2>1, <2>7, OneFact
    <2> QED
      BY <2>3, <2>4, <2>5, <2>6, <2>7 DEF Fresh
  <1>2. GoodAlways /\ [Next]_vars =>
          [\A old \in Facts(map), new \in Facts(map') :
             old.anchor = new.anchor /\ old.comment # new.comment =>
               \/ done'.op = "set" /\ old.anchor[2] = done'.at[2]
               \/ done'.op = "comment unset" /\ old.anchor = done'.at /\ new.comment = None
               \/ old.anchor = done'.at /\ done'.comment # None /\ new.comment = done'.comment]_vars
    BY <1>1
  <1> QED
    BY <1>2, AlwaysGood, PTL DEF Spec, CommentsKept

(***************************************************************************)
(* The lists of a map, as lists of anchors.                                *)
(***************************************************************************)
BindingAnchors(m) == [n \in DOMAIN m.bindings |-> Anchor("binding", m.bindings[n].key, None)]
KindAnchors(m) == [n \in DOMAIN Listed(m) |-> Anchor("fully_bound", None, Listed(m)[n])]
ReasonAnchors(m) == EntryAnchors("curated", None, Reasoned(m))

LEMMA OuterOf ==
  ASSUME NEW m
  PROVE  OuterLists(m) = {BindingAnchors(m), ReasonAnchors(m), KindAnchors(m)}
  BY DEF OuterLists, BindingAnchors, KindAnchors, ReasonAnchors, Listed, Reasoned

LEMMA InnerOf ==
  ASSUME NEW m, NEW t
  PROVE  t \in InnerLists(m) <=>
           \E b \in Range(m.bindings), type \in EntryTypes : t = EntryAnchors(type, b.key, ListOf(b, type))
  <1>1. ASSUME NEW b
        PROVE  t \in {EntryAnchors("locator", b.key, b.locators),
                      EntryAnchors("field", b.key, OrEmpty(b.fields)),
                      EntryAnchors("assertion", b.key, OrEmpty(b.asserted_by))}
               <=> \E type \in EntryTypes : t = EntryAnchors(type, b.key, ListOf(b, type))
    <2>1. /\ ListOf(b, "locator") = b.locators
          /\ ListOf(b, "field") = OrEmpty(b.fields)
          /\ ListOf(b, "assertion") = OrEmpty(b.asserted_by)
      BY DEF ListOf
    <2> QED
      BY <2>1 DEF EntryTypes
  <1> QED
    BY <1>1 DEF InnerLists

LEMMA Preceding ==
  ASSUME NEW lists, NEW d
  PROVE  d \in Precedes(lists) <=>
           \E s \in lists : \E i, j \in DOMAIN s : i < j /\ d = <<s[i], s[j]>>
  <1> DEFINE pairs(s) == {<<s[e[1]], s[e[2]]>> :
                            e \in {x \in (DOMAIN s) \X (DOMAIN s) : x[1] < x[2]}}
  <1>1. d \in Precedes(lists) <=> \E s \in lists : d \in pairs(s)
    BY DEF Precedes
  <1>2. ASSUME NEW s, d \in pairs(s)
        PROVE  \E i, j \in DOMAIN s : i < j /\ d = <<s[i], s[j]>>
    <2>1. PICK x \in (DOMAIN s) \X (DOMAIN s) : x[1] < x[2] /\ d = <<s[x[1]], s[x[2]]>>
      BY <1>2
    <2> QED
      BY <2>1
  <1>3. ASSUME NEW s, NEW i \in DOMAIN s, NEW j \in DOMAIN s, i < j, d = <<s[i], s[j]>>
        PROVE  d \in pairs(s)
    <2> DEFINE x == <<i, j>>
    <2>1. /\ x \in (DOMAIN s) \X (DOMAIN s) /\ x[1] < x[2]
          /\ d = <<s[x[1]], s[x[2]]>>
      BY <1>3
    <2> QED
      BY <2>1
  <1> HIDE DEF pairs
  <1> QED
    BY <1>1, <1>2, <1>3

(***************************************************************************)
(* format.                                                                 *)
(***************************************************************************)
LEMMA FormatSteps ==
  ASSUME GoodAlways, [Next]_vars, ~UNCHANGED vars, done'.op = "format"
  PROVE  MapGood(map) /\ FormatStep
  <1>1. MapGood(map) /\ (Refused \/ Written)
    BY GoodIsMapGood, Classified DEF GoodAlways
  <1>2. ~Refused
    BY DEF Refused
  <1>3. FormatStep
    BY <1>1, <1>2 DEF Written, SetStep, PutStep, DropStep, RemoveStep, BindingCommentStep,
       HeaderCommentStep, CoverageCommentStep, ReasonCommentStep, CommentStep, AddKindStep,
       DropKindStep, CurateStep, UncurateStep
  <1> QED
    BY <1>1, <1>3

LEMMA FormatSorts ==
  ASSUME MapGood(map), FormatStep
  PROVE  /\ InnerLists(map') = InnerLists(map) /\ Canonicalise(map') = map'
         /\ \A d \in Precedes(OuterLists(map')) :
              IF d[1][1] = "binding" THEN Rank[d[1][2]] < Rank[d[2][2]]
                                     ELSE Rank[d[1][3]] < Rank[d[2][3]]
  <1>1. /\ Range(map'.bindings) = Range(map.bindings) /\ Canonicalise(map') = map'
        /\ \A i, j \in DOMAIN map'.bindings :
             i < j => Rank[map'.bindings[i].key] < Rank[map'.bindings[j].key]
        /\ map'.coverage = None <=> map.coverage = None
        /\ map.coverage # None => map'.coverage = CanonicalCoverage(map.coverage)
    BY CanonicaliseGood DEF FormatStep
  <1>2. InnerLists(map') = InnerLists(map)
    BY <1>1 DEF InnerLists
  <1>3. /\ \A i, j \in DOMAIN Listed(map') : i < j => Rank[Listed(map')[i]] < Rank[Listed(map')[j]]
        /\ \A i, j \in DOMAIN Reasoned(map') :
             i < j => Rank[Reasoned(map')[i].key] < Rank[Reasoned(map')[j].key]
    <2>1. CASE map.coverage = None
      <3>1. Listed(map') = <<>> /\ Reasoned(map') = <<>>
        BY <1>1, <2>1, NoCoverage
      <3> QED
        BY <3>1, EmptyList
    <2>2. CASE map.coverage # None
      <3>1. CoverageGood(map.coverage)
        BY <2>2 DEF MapGood
      <3>2. /\ Listed(map') = OrEmpty(CanonicalCoverage(map.coverage).fully_bound)
            /\ Reasoned(map') = OrEmpty(CanonicalCoverage(map.coverage).curated)
        BY <1>1, <2>2 DEF Listed, Reasoned, CoverageOf
      <3> QED
        BY <3>1, <3>2, CanonicalCoverageGood
    <2> QED
      BY <2>1, <2>2
  <1>4. ASSUME NEW d \in Precedes(OuterLists(map'))
        PROVE  IF d[1][1] = "binding" THEN Rank[d[1][2]] < Rank[d[2][2]]
                                      ELSE Rank[d[1][3]] < Rank[d[2][3]]
    <2>1. PICK s \in OuterLists(map') : \E i, j \in DOMAIN s : i < j /\ d = <<s[i], s[j]>>
      BY Preceding
    <2>2. PICK i \in DOMAIN s, j \in DOMAIN s : i < j /\ d = <<s[i], s[j]>>
      BY <2>1
    <2>3. d[1] = s[i] /\ d[2] = s[j]
      BY <2>2
    <2>4. CASE s = BindingAnchors(map')
      <3>1. /\ i \in DOMAIN map'.bindings /\ j \in DOMAIN map'.bindings
            /\ d[1] = Anchor("binding", map'.bindings[i].key, None)
            /\ d[2] = Anchor("binding", map'.bindings[j].key, None)
        BY <2>2, <2>3, <2>4 DEF BindingAnchors
      <3>2. /\ d[1][1] = "binding" /\ d[1][2] = map'.bindings[i].key
            /\ d[2][2] = map'.bindings[j].key
        BY <3>1 DEF Anchor
      <3> QED
        BY <1>1, <2>2, <3>1, <3>2
    <2>5. CASE s = ReasonAnchors(map')
      <3>1. /\ i \in DOMAIN Reasoned(map') /\ j \in DOMAIN Reasoned(map')
            /\ d[1] = Anchor("curated", None, Reasoned(map')[i].key)
            /\ d[2] = Anchor("curated", None, Reasoned(map')[j].key)
        BY <2>2, <2>3, <2>5 DEF ReasonAnchors, EntryAnchors
      <3>2. /\ d[1][1] = "curated" /\ d[1][3] = Reasoned(map')[i].key
            /\ d[2][3] = Reasoned(map')[j].key
        BY <3>1 DEF Anchor
      <3> QED
        BY <1>3, <2>2, <3>1, <3>2
    <2>6. CASE s = KindAnchors(map')
      <3>1. /\ i \in DOMAIN Listed(map') /\ j \in DOMAIN Listed(map')
            /\ d[1] = Anchor("fully_bound", None, Listed(map')[i])
            /\ d[2] = Anchor("fully_bound", None, Listed(map')[j])
        BY <2>2, <2>3, <2>6 DEF KindAnchors
      <3>2. /\ d[1][1] = "fully_bound" /\ d[1][3] = Listed(map')[i]
            /\ d[2][3] = Listed(map')[j]
        BY <3>1 DEF Anchor
      <3> QED
        BY <1>3, <2>2, <3>1, <3>2
    <2> QED
      BY <2>4, <2>5, <2>6, OuterOf
  <1> QED
    BY <1>1, <1>2, <1>4

(* format brings bindings and coverage entries into byte order, leaves     *)
(* every value, comment and author's order as it was, and is idempotent.   *)
THEOREM FormatSortsOnly == Spec => FormatOnlySorts
  <1>1. ASSUME GoodAlways, [Next]_vars, ~UNCHANGED vars, done'.op = "format"
        PROVE  /\ Facts(map') = Facts(map)
               /\ Precedes(InnerLists(map')) = Precedes(InnerLists(map))
               /\ \A d \in Precedes(OuterLists(map')) :
                    IF d[1][1] = "binding" THEN Rank[d[1][2]] < Rank[d[2][2]]
                                           ELSE Rank[d[1][3]] < Rank[d[2][3]]
               /\ Canonicalise(map') = map'
    <2>1. MapGood(map) /\ FormatStep
      BY <1>1, FormatSteps
    <2> QED
      BY <2>1, FormatIsLocal, FormatSorts
  <1>2. GoodAlways /\ [Next]_vars =>
          [done'.op = "format" =>
             /\ Facts(map') = Facts(map)
             /\ Precedes(InnerLists(map')) = Precedes(InnerLists(map))
             /\ \A d \in Precedes(OuterLists(map')) :
                  IF d[1][1] = "binding" THEN Rank[d[1][2]] < Rank[d[2][2]]
                                         ELSE Rank[d[1][3]] < Rank[d[2][3]]
             /\ Canonicalise(map') = map']_vars
    BY <1>1
  <1> QED
    BY <1>2, AlwaysGood, PTL DEF Spec, FormatOnlySorts

(***************************************************************************)
(* The order of what is left.                                              *)
(***************************************************************************)
SameOrder(s, t) == InOrder(KeyList(s), KeyList(t))

LEMMA OrderOfSame ==
  ASSUME NEW s
  PROVE  InOrder(s, s) /\ SameOrder(s, s)
  BY DEF SameOrder, InOrder

LEMMA OrderOfNone ==
  ASSUME NEW s
  PROVE  InOrder(s, <<>>) /\ SameOrder(s, <<>>)
  BY EmptyList DEF SameOrder, InOrder, KeyList

(* Order, list by list: but for the binding that is set.                   *)
OrderKept ==
    /\ SameOrder(map.bindings, map'.bindings)
    /\ InOrder(Listed(map), Listed(map'))
    /\ SameOrder(Reasoned(map), Reasoned(map'))
    /\ \A id \in Ids(map'), type \in EntryTypes :
         \/ done'.op = "set" /\ id = done'.at[2]
         \/ /\ id \in Ids(map)
            /\ SameOrder(ListOf(BindingOf(map, id), type), ListOf(BindingOf(map', id), type))

LEMMA OtherBinding ==
  ASSUME NEW m, MapGood(m), NEW n, MapGood(n), NEW id,
         {b \in Range(n.bindings) : b.key # id} = {b \in Range(m.bindings) : b.key # id},
         NEW other \in Ids(n), other # id
  PROVE  other \in Ids(m) /\ BindingOf(n, other) = BindingOf(m, other)
  <1>1. BindingOf(n, other) \in Range(n.bindings) /\ BindingOf(n, other).key = other
    BY BindingOfGood
  <1>2. BindingOf(n, other) \in Range(m.bindings)
    BY <1>1
  <1>3. other \in Ids(m)
    BY <1>1, <1>2 DEF Ids, Keys, Range
  <1> QED
    BY <1>1, <1>2, <1>3, BindingOfGood

(* The same bindings, and the same coverage block, are in the same order.  *)
LEMMA SameBindingsOrder ==
  ASSUME MapGood(map), map'.bindings = map.bindings
  PROVE  /\ SameOrder(map.bindings, map'.bindings)
         /\ \A id \in Ids(map'), type \in EntryTypes :
              /\ id \in Ids(map)
              /\ SameOrder(ListOf(BindingOf(map, id), type), ListOf(BindingOf(map', id), type))
  <1>1. Ids(map') = Ids(map) /\ \A id : BindingOf(map', id) = BindingOf(map, id)
    BY DEF Ids, BindingOf
  <1> QED
    BY <1>1, OrderOfSame

LEMMA SameCoverageOrder ==
  ASSUME map'.coverage = map.coverage
  PROVE  InOrder(Listed(map), Listed(map')) /\ SameOrder(Reasoned(map), Reasoned(map'))
  <1>1. Listed(map') = Listed(map) /\ Reasoned(map') = Reasoned(map)
    BY DEF Listed, Reasoned, CoverageOf
  <1> QED
    BY <1>1, OrderOfSame

(* A binding that is put back with its lists in order.                     *)
LEMMA BindingOrder ==
  ASSUME MapGood(map), NEW c, BindingGood(c), map' = WithBinding(map, c),
         \/ done'.op = "set" /\ c.key = done'.at[2]
         \/ /\ c.key \in Ids(map)
            /\ \A type \in EntryTypes : SameOrder(ListOf(BindingOf(map, c.key), type), ListOf(c, type))
  PROVE  OrderKept
  <1>1. /\ MapGood(map') /\ map'.coverage = map.coverage
        /\ Range(map'.bindings) = {b \in Range(map.bindings) : b.key # c.key} \cup {c}
        /\ SameOrder(map.bindings, map'.bindings)
    BY WithBindingGood DEF SameOrder
  <1>2. {b \in Range(map'.bindings) : b.key # c.key} = {b \in Range(map.bindings) : b.key # c.key}
    BY <1>1
  <1>3. ASSUME NEW id \in Ids(map'), NEW type \in EntryTypes
        PROVE  \/ done'.op = "set" /\ id = done'.at[2]
               \/ /\ id \in Ids(map)
                  /\ SameOrder(ListOf(BindingOf(map, id), type), ListOf(BindingOf(map', id), type))
    <2>1. CASE id = c.key
      <3>1. c \in Range(map'.bindings)
        BY <1>1
      <3>2. BindingOf(map', id) = c
        BY <1>1, <2>1, <3>1, BindingOfGood
      <3> QED
        BY <2>1, <3>2
    <2>2. CASE id # c.key
      <3>1. id \in Ids(map) /\ BindingOf(map', id) = BindingOf(map, id)
        BY <1>1, <1>2, <2>2, OtherBinding
      <3> QED
        BY <3>1, OrderOfSame
    <2> QED
      BY <2>1, <2>2
  <1> QED
    BY <1>1, <1>3, SameCoverageOrder DEF OrderKept

LEMMA ListOrder ==
  ASSUME MapGood(map), NEW id \in Ids(map), NEW type \in EntryTypes, NEW t, EntriesGood(t),
         map' = WithBinding(map, WithList(BindingOf(map, id), type, t)),
         SameOrder(ListOf(BindingOf(map, id), type), t)
  PROVE  OrderKept
  <1> DEFINE b == BindingOf(map, id)
             c == WithList(b, type, t)
  <1>1. BindingGood(b) /\ b.key = id
    BY BindingOfGood
  <1>2. /\ BindingGood(c) /\ c.key = b.key /\ ListOf(c, type) = t
        /\ \A other \in EntryTypes \ {type} : ListOf(c, other) = ListOf(b, other)
    BY <1>1, WithListGood
  <1> HIDE DEF b, c
  <1>3. \A other \in EntryTypes : SameOrder(ListOf(b, other), ListOf(c, other))
    <2> TAKE other \in EntryTypes
    <2>1. CASE other = type
      BY <1>2, <2>1 DEF b
    <2>2. CASE other # type
      BY <1>2, <2>2, OrderOfSame
    <2> QED
      BY <2>1, <2>2
  <1>4. /\ BindingGood(c) /\ map' = WithBinding(map, c) /\ c.key \in Ids(map)
        /\ \A other \in EntryTypes : SameOrder(ListOf(BindingOf(map, c.key), other), ListOf(c, other))
    BY <1>1, <1>2, <1>3 DEF b, c
  <1> QED
    BY <1>4, BindingOrder

LEMMA BindingStepsOrder ==
  ASSUME MapGood(map), SetStep \/ PutStep \/ DropStep \/ BindingCommentStep
  PROVE  OrderKept
  <1>1. CASE SetStep
    <2>1. PICK b : /\ BindingGood(b) /\ map' = WithBinding(map, b)
                   /\ done'.op = "set" /\ done'.at = Anchor("binding", b.key, None)
      BY <1>1 DEF SetStep
    <2>2. b.key = done'.at[2]
      BY <2>1, AnchorParts
    <2> QED
      BY <2>1, <2>2, BindingOrder
  <1>2. CASE PutStep
    <2>1. PICK id \in Ids(map), type \in EntryTypes, e \in Entries :
            InputOK(e) /\ map' = PutIn(map, id, type, e)
      BY <1>2 DEF PutStep
    <2> DEFINE s == ListOf(BindingOf(map, id), type)
    <2>2. s \in Seq(Entries) /\ UniqueKeys(s) /\ EntriesGood(s)
      BY BindingOfGood, ListOfGood DEF EntriesGood
    <2>3. EntriesGood(Put(s, e)) /\ SameOrder(s, Put(s, e))
      BY <2>1, <2>2, PutGood, PutList DEF SameOrder
    <2> QED
      BY <2>1, <2>3, ListOrder DEF PutIn
  <1>3. CASE DropStep
    <2>1. PICK id \in Ids(map), type \in EntryTypes :
            \E key \in Keys(ListOf(BindingOf(map, id), type)) : map' = DropIn(map, id, type, key)
      BY <1>3 DEF DropStep
    <2> DEFINE s == ListOf(BindingOf(map, id), type)
    <2>2. PICK key \in Keys(s) : map' = DropIn(map, id, type, key)
      BY <2>1
    <2>3. s \in Seq(Entries) /\ UniqueKeys(s) /\ EntriesGood(s)
      BY BindingOfGood, ListOfGood DEF EntriesGood
    <2>4. EntriesGood(Drop(s, key)) /\ SameOrder(s, Drop(s, key))
      BY <2>3, DropGood, DropList DEF SameOrder
    <2> QED
      BY <2>2, <2>4, ListOrder DEF DropIn
  <1>4. CASE BindingCommentStep
    <2>1. PICK id \in Ids(map) : CommentStep(Anchor("binding", id, None))
      BY <1>4 DEF BindingCommentStep
    <2>2. PICK text \in FreeText : map' = SetComment(map, Anchor("binding", id, None), text)
      BY <2>1 DEF CommentStep
    <2> DEFINE c == [BindingOf(map, id) EXCEPT !.comment = text]
    <2>3. /\ BindingGood(c) /\ c.key = id /\ map' = WithBinding(map, c)
          /\ \A type : ListOf(c, type) = ListOf(BindingOf(map, id), type)
      BY <2>2, BindingCommentGood
    <2> HIDE DEF c
    <2> QED
      BY <2>3, OrderOfSame, BindingOrder
  <1> QED
    BY <1>1, <1>2, <1>3, <1>4

LEMMA RemoveOrder ==
  ASSUME MapGood(map), RemoveStep
  PROVE  OrderKept
  <1>1. PICK id \in Ids(map) : map' = RemoveBinding(map, id)
    BY DEF RemoveStep
  <1>2. /\ MapGood(map') /\ map'.coverage = map.coverage
        /\ Range(map'.bindings) = {b \in Range(map.bindings) : b.key # id}
        /\ SameOrder(map.bindings, map'.bindings)
    BY <1>1, RemoveBindingGood DEF SameOrder
  <1>3. {b \in Range(map'.bindings) : b.key # id} = {b \in Range(map.bindings) : b.key # id}
    BY <1>2
  <1>4. id \notin Ids(map')
    <2>1. ~\E b \in Range(map'.bindings) : b.key = id
      BY <1>2
    <2> QED
      BY <1>2, <2>1, BindingOfGood
  <1>5. ASSUME NEW other \in Ids(map'), NEW type \in EntryTypes
        PROVE  /\ other \in Ids(map)
               /\ SameOrder(ListOf(BindingOf(map, other), type), ListOf(BindingOf(map', other), type))
    <2>1. other \in Ids(map) /\ BindingOf(map', other) = BindingOf(map, other)
      BY <1>2, <1>3, <1>4, OtherBinding
    <2> QED
      BY <2>1, OrderOfSame
  <1> QED
    BY <1>2, <1>5, SameCoverageOrder DEF OrderKept

LEMMA CoverageOrder ==
  ASSUME MapGood(map), map'.bindings = map.bindings,
         InOrder(Listed(map), Listed(map')), SameOrder(Reasoned(map), Reasoned(map'))
  PROVE  OrderKept
  BY SameBindingsOrder DEF OrderKept

LEMMA CoverageStepsOrder ==
  ASSUME MapGood(map),
         \/ HeaderCommentStep \/ CoverageCommentStep \/ ReasonCommentStep
         \/ AddKindStep \/ DropKindStep \/ CurateStep \/ UncurateStep
  PROVE  OrderKept
  <1>1. map.coverage # None =>
          /\ Listed(map) = OrEmpty(map.coverage.fully_bound)
          /\ Reasoned(map) = OrEmpty(map.coverage.curated)
    BY DEF Listed, Reasoned, CoverageOf
  <1>2. map'.coverage # None =>
          /\ Listed(map') = OrEmpty(map'.coverage.fully_bound)
          /\ Reasoned(map') = OrEmpty(map'.coverage.curated)
    BY DEF Listed, Reasoned, CoverageOf
  <1>3. /\ Listed(map) \in Seq(Kinds) /\ IsInjective(Listed(map))
        /\ Reasoned(map) \in Seq(Reasons) /\ UniqueKeys(Reasoned(map))
    BY CoverageLists
  <1>4. ASSUME NEW e \in Reasons, map'.bindings = map.bindings, map'.coverage # None,
               map'.coverage.curated = Put(Reasoned(map), e),
               map'.coverage.fully_bound = CoverageOf(map).fully_bound
        PROVE  OrderKept
    <2>1. Put(Reasoned(map), e) \in Seq(Reasons) /\ SameOrder(Reasoned(map), Put(Reasoned(map), e))
      BY <1>3, PutList DEF SameOrder
    <2>2. OrEmpty(map'.coverage.curated) = Put(Reasoned(map), e)
      BY <1>4, <2>1, NoneAssumption DEF OrEmpty
    <2>3. Listed(map') = Listed(map)
      BY <1>2, <1>4 DEF Listed
    <2> QED
      BY <1>2, <1>4, <2>1, <2>2, <2>3, OrderOfSame, CoverageOrder
  <1>5. CASE HeaderCommentStep
    <2>1. PICK text \in FreeText : map' = SetComment(map, Anchor("header", None, None), text)
      BY <1>5 DEF HeaderCommentStep, CommentStep
    <2>2. map'.bindings = map.bindings /\ map'.coverage = map.coverage
      BY <2>1, HeaderCommentGood
    <2> QED
      BY <2>2, SameCoverageOrder, CoverageOrder
  <1>6. CASE CoverageCommentStep
    <2>1. map.coverage # None
      BY <1>6 DEF CoverageCommentStep
    <2>2. PICK text \in FreeText : map' = SetComment(map, Anchor("coverage", None, None), text)
      BY <1>6 DEF CoverageCommentStep, CommentStep
    <2>3. /\ map'.bindings = map.bindings /\ map'.coverage # None
          /\ map'.coverage.fully_bound = map.coverage.fully_bound
          /\ map'.coverage.curated = map.coverage.curated
      BY <2>1, <2>2, CoverageCommentGood
    <2>4. Listed(map') = Listed(map) /\ Reasoned(map') = Reasoned(map)
      BY <1>1, <1>2, <2>1, <2>3
    <2> QED
      BY <2>3, <2>4, OrderOfSame, CoverageOrder
  <1>7. CASE ReasonCommentStep
    <2>1. map.coverage # None
      BY <1>7 DEF ReasonCommentStep
    <2>2. PICK kind \in Keys(OrEmpty(map.coverage.curated)) : CommentStep(Anchor("curated", None, kind))
      BY <1>7 DEF ReasonCommentStep
    <2>3. PICK text \in FreeText : map' = SetComment(map, Anchor("curated", None, kind), text)
      BY <2>2 DEF CommentStep
    <2> DEFINE e == Commented(Reasoned(map), kind, text)
    <2>4. /\ map'.bindings = map.bindings /\ map'.coverage # None
          /\ map'.coverage.curated = Put(Reasoned(map), e)
          /\ map'.coverage.fully_bound = map.coverage.fully_bound
          /\ e \in Reasons
      BY <1>1, <2>1, <2>2, <2>3, ReasonCommentGood
    <2>5. CoverageOf(map) = map.coverage
      BY <2>1 DEF CoverageOf
    <2> HIDE DEF e
    <2> QED
      BY <1>4, <2>4, <2>5
  <1>8. CASE AddKindStep
    <2>1. PICK kind \in Kinds : MapOK(FullyBoundAdd(map, kind)) /\ map' = FullyBoundAdd(map, kind)
      BY <1>8 DEF AddKindStep
    <2>2. /\ map'.bindings = map.bindings /\ map'.coverage # None
          /\ map'.coverage.fully_bound = Append(Listed(map), kind)
          /\ map'.coverage.curated = CoverageOf(map).curated
          /\ kind \notin Range(Listed(map))
      BY <2>1, FullyBoundAddGood DEF Listed
    <2>3. /\ Append(Listed(map), kind) \in Seq(Kinds)
          /\ InOrder(Listed(map), Append(Listed(map), kind))
      BY <1>3, <2>2, AppendDistinct
    <2>4. OrEmpty(map'.coverage.fully_bound) = Append(Listed(map), kind)
      BY <2>2, <2>3, NoneAssumption DEF OrEmpty
    <2>5. Reasoned(map') = Reasoned(map)
      BY <1>2, <2>2 DEF Reasoned
    <2> QED
      BY <1>2, <2>2, <2>3, <2>4, <2>5, OrderOfSame, CoverageOrder
  <1>9. CASE DropKindStep
    <2>1. map.coverage # None
      BY <1>9 DEF DropKindStep
    <2>2. PICK kind \in Range(OrEmpty(map.coverage.fully_bound)) : map' = FullyBoundRemove(map, kind)
      BY <1>9 DEF DropKindStep
    <2> DEFINE c == [map.coverage EXCEPT !.fully_bound = OrNone(Without(@, kind))]
    <2>3. /\ map'.bindings = map.bindings
          /\ map'.coverage # None => map'.coverage = c
          /\ c.curated = map.coverage.curated
          /\ OrEmpty(c.fully_bound) = Without(Listed(map), kind)
      BY <1>1, <2>1, <2>2, FullyBoundRemoveGood
    <2> HIDE DEF c
    <2>4. InOrder(Listed(map), Without(Listed(map), kind))
      BY <1>1, <1>3, <2>1, <2>2, WithoutProperties
    <2>5. CASE map'.coverage = None
      <3>1. Listed(map') = <<>> /\ Reasoned(map') = <<>>
        BY <2>5, NoCoverage
      <3> QED
        BY <2>3, <3>1, OrderOfNone, CoverageOrder
    <2>6. CASE map'.coverage # None
      <3>1. Listed(map') = Without(Listed(map), kind) /\ Reasoned(map') = Reasoned(map)
        BY <1>1, <1>2, <2>1, <2>3, <2>6
      <3> QED
        BY <2>3, <2>4, <3>1, OrderOfSame, CoverageOrder
    <2> QED
      BY <2>5, <2>6
  <1>10. CASE CurateStep
    <2>1. PICK e \in Reasons :
            InputOK(e) /\ MapOK(CuratedSet(map, e)) /\ map' = CuratedSet(map, e)
      BY <1>10 DEF CurateStep
    <2> DEFINE d == Kept(Reasoned(map), e)
    <2>2. /\ map'.bindings = map.bindings /\ map'.coverage # None
          /\ map'.coverage.curated = Put(Reasoned(map), d)
          /\ map'.coverage.fully_bound = CoverageOf(map).fully_bound
      BY <2>1, CuratedSetGood DEF Reasoned
    <2>3. /\ Reasoned(map) \in Seq([key : Kinds, value : Scalars, comment : Texts])
          /\ e \in [key : Kinds, value : Scalars, comment : Texts]
          /\ \A x \in Range(Reasoned(map)) : InputOK(x)
      BY CoverageLists DEF Reasons
    <2>4. d \in Reasons
      BY <2>1, <2>3, KeptGood DEF Reasons
    <2> HIDE DEF d
    <2> QED
      BY <1>4, <2>2, <2>4
  <1>11. CASE UncurateStep
    <2>1. map.coverage # None
      BY <1>11 DEF UncurateStep
    <2>2. PICK kind \in Keys(OrEmpty(map.coverage.curated)) : map' = CuratedUnset(map, kind)
      BY <1>11 DEF UncurateStep
    <2> DEFINE c == [map.coverage EXCEPT !.curated = OrNone(Drop(@, kind))]
    <2>3. /\ map'.bindings = map.bindings
          /\ map'.coverage # None => map'.coverage = c
          /\ c.fully_bound = map.coverage.fully_bound
          /\ OrEmpty(c.curated) = Drop(Reasoned(map), kind)
      BY <1>1, <2>1, <2>2, CuratedUnsetGood
    <2> HIDE DEF c
    <2>4. SameOrder(Reasoned(map), Drop(Reasoned(map), kind))
      BY <1>1, <1>3, <2>1, <2>2, DropList DEF SameOrder
    <2>5. CASE map'.coverage = None
      <3>1. Listed(map') = <<>> /\ Reasoned(map') = <<>>
        BY <2>5, NoCoverage
      <3> QED
        BY <2>3, <3>1, OrderOfNone, CoverageOrder
    <2>6. CASE map'.coverage # None
      <3>1. Reasoned(map') = Drop(Reasoned(map), kind) /\ Listed(map') = Listed(map)
        BY <1>1, <1>2, <2>1, <2>3, <2>6
      <3> QED
        BY <2>3, <2>4, <3>1, OrderOfSame, CoverageOrder
    <2> QED
      BY <2>5, <2>6
  <1> QED
    BY <1>5, <1>6, <1>7, <1>8, <1>9, <1>10, <1>11

LEMMA WrittenInOrder ==
  ASSUME MapGood(map), Written, done'.op # "format"
  PROVE  OrderKept
  BY BindingStepsOrder, RemoveOrder, CoverageStepsOrder DEF Written, FormatStep

(* What stands before something old in t stood before it in s.             *)
Follows(s, t) ==
    \A i, j \in DOMAIN t : i < j =>
      t[j] \notin Anchors(map) \/ \E k, l \in DOMAIN s : k < l /\ s[k] = t[i] /\ s[l] = t[j]

LEMMA EntriesFollow ==
  ASSUME NEW s, NEW t, SameOrder(s, t), NEW type, NEW id,
         \A key : Anchor(type, id, key) \in Anchors(map) => key \in Keys(s)
  PROVE  Follows(EntryAnchors(type, id, s), EntryAnchors(type, id, t))
  <1> DEFINE a == EntryAnchors(type, id, s)
             c == EntryAnchors(type, id, t)
  <1>1. /\ DOMAIN a = DOMAIN s /\ \A n \in DOMAIN s : a[n] = Anchor(type, id, s[n].key)
        /\ DOMAIN c = DOMAIN t /\ \A n \in DOMAIN t : c[n] = Anchor(type, id, t[n].key)
    BY DEF EntryAnchors
  <1> HIDE DEF a, c
  <1>2. ASSUME NEW i \in DOMAIN t, NEW j \in DOMAIN t, i < j, c[j] \in Anchors(map)
        PROVE  \E k, l \in DOMAIN a : k < l /\ a[k] = c[i] /\ a[l] = c[j]
    <2>1. t[j].key \in Keys(s)
      BY <1>1, <1>2
    <2>2. KeyList(t)[j] \in Range(KeyList(s))
      BY <2>1 DEF Keys, KeyList, Range
    <2>3. PICK k \in DOMAIN KeyList(s), l \in DOMAIN KeyList(s) :
            k < l /\ KeyList(s)[k] = KeyList(t)[i] /\ KeyList(s)[l] = KeyList(t)[j]
      <3>1. i \in DOMAIN KeyList(t) /\ j \in DOMAIN KeyList(t)
        BY DEF KeyList
      <3> QED
        BY <1>2, <2>2, <3>1 DEF SameOrder, InOrder
    <2>4. k \in DOMAIN s /\ l \in DOMAIN s /\ s[k].key = t[i].key /\ s[l].key = t[j].key
      BY <2>3 DEF KeyList
    <2> QED
      BY <1>1, <2>3, <2>4
  <1> QED
    BY <1>1, <1>2 DEF Follows, a, c

LEMMA BindingsFollow ==
  ASSUME MapGood(map), SameOrder(map.bindings, map'.bindings)
  PROVE  Follows(BindingAnchors(map), BindingAnchors(map'))
  <1> DEFINE s == map.bindings
             t == map'.bindings
             a == BindingAnchors(map)
             c == BindingAnchors(map')
  <1>1. /\ DOMAIN a = DOMAIN s /\ \A n \in DOMAIN s : a[n] = Anchor("binding", s[n].key, None)
        /\ DOMAIN c = DOMAIN t /\ \A n \in DOMAIN t : c[n] = Anchor("binding", t[n].key, None)
    BY DEF BindingAnchors
  <1>2. \A id : Anchor("binding", id, None) \in Anchors(map) => id \in Keys(s)
    BY Found DEF Ids
  <1> HIDE DEF a, c, s, t
  <1>3. ASSUME NEW i \in DOMAIN t, NEW j \in DOMAIN t, i < j, c[j] \in Anchors(map)
        PROVE  \E k, l \in DOMAIN a : k < l /\ a[k] = c[i] /\ a[l] = c[j]
    <2>1. t[j].key \in Keys(s)
      BY <1>1, <1>2, <1>3
    <2>2. KeyList(t)[j] \in Range(KeyList(s))
      BY <2>1 DEF Keys, KeyList, Range
    <2>3. PICK k \in DOMAIN KeyList(s), l \in DOMAIN KeyList(s) :
            k < l /\ KeyList(s)[k] = KeyList(t)[i] /\ KeyList(s)[l] = KeyList(t)[j]
      <3>1. i \in DOMAIN KeyList(t) /\ j \in DOMAIN KeyList(t)
        BY DEF KeyList
      <3> QED
        BY <1>3, <2>2, <3>1 DEF SameOrder, InOrder, s, t
    <2>4. k \in DOMAIN s /\ l \in DOMAIN s /\ s[k].key = t[i].key /\ s[l].key = t[j].key
      BY <2>3 DEF KeyList
    <2> QED
      BY <1>1, <2>3, <2>4
  <1> QED
    BY <1>1, <1>3 DEF Follows, a, c

LEMMA KindsFollow ==
  ASSUME MapGood(map), InOrder(Listed(map), Listed(map'))
  PROVE  Follows(KindAnchors(map), KindAnchors(map'))
  <1> DEFINE s == Listed(map)
             t == Listed(map')
             a == KindAnchors(map)
             c == KindAnchors(map')
  <1>1. /\ DOMAIN a = DOMAIN s /\ \A n \in DOMAIN s : a[n] = Anchor("fully_bound", None, s[n])
        /\ DOMAIN c = DOMAIN t /\ \A n \in DOMAIN t : c[n] = Anchor("fully_bound", None, t[n])
    BY DEF KindAnchors
  <1>2. \A k : Anchor("fully_bound", None, k) \in Anchors(map) => k \in Range(s)
    BY Found DEF Listed, CoverageOf
  <1> HIDE DEF a, c, s, t
  <1>3. ASSUME NEW i \in DOMAIN t, NEW j \in DOMAIN t, i < j, c[j] \in Anchors(map)
        PROVE  \E k, l \in DOMAIN a : k < l /\ a[k] = c[i] /\ a[l] = c[j]
    <2>1. t[j] \in Range(s)
      BY <1>1, <1>2, <1>3
    <2>2. \E k, l \in DOMAIN s : k < l /\ s[k] = t[i] /\ s[l] = t[j]
      BY <1>3, <2>1 DEF InOrder, s, t
    <2> QED
      BY <1>1, <2>2
  <1> QED
    BY <1>1, <1>3 DEF Follows, a, c

LEMMA ReasonsFollow ==
  ASSUME MapGood(map), SameOrder(Reasoned(map), Reasoned(map'))
  PROVE  Follows(ReasonAnchors(map), ReasonAnchors(map'))
  <1>1. \A k : Anchor("curated", None, k) \in Anchors(map) => k \in Keys(Reasoned(map))
    BY Found DEF Reasoned, CoverageOf
  <1> QED
    BY <1>1, EntriesFollow DEF ReasonAnchors

(* The lists of the bindings follow those of the bindings of the same ID;  *)
(* those of a binding that is set are free.                                *)
LEMMA InnerFollow ==
  ASSUME MapGood(map), MapGood(map'), OrderKept, NEW t \in InnerLists(map')
  PROVE  \/ \E s \in InnerLists(map) : Follows(s, t)
         \/ /\ done'.op = "set"
            /\ \A i \in DOMAIN t : /\ t[i] \in Anchors(map')
                                   /\ t[i][2] = done'.at[2] /\ t[i][3] # None
  <1>1. PICK b \in Range(map'.bindings), type \in EntryTypes :
          t = EntryAnchors(type, b.key, ListOf(b, type))
    BY InnerOf
  <1>2. b.key \in Ids(map') /\ b = BindingOf(map', b.key)
    <2>1. b.key \in Ids(map')
      BY DEF Ids, Keys, Range
    <2> QED
      BY <2>1, BindingOfGood
  <1>3. CASE done'.op = "set" /\ b.key = done'.at[2]
    <2>1. ASSUME NEW i \in DOMAIN t
          PROVE  t[i] \in Anchors(map') /\ t[i][2] = done'.at[2] /\ t[i][3] # None
      <3> DEFINE s == ListOf(b, type)
      <3>1. i \in DOMAIN s /\ t[i] = Anchor(type, b.key, s[i].key)
        BY <1>1 DEF EntryAnchors
      <3>2. s \in Seq(Entries) /\ s[i].key \in Keys(s)
        BY <1>2, <3>1, BindingOfGood, ListOfGood DEF Keys
      <3>3. t[i] \in Anchors(map')
        BY <1>2, <3>1, <3>2, Found
      <3>4. s[i] \in Entries
        BY <3>1, <3>2, ListProperties
      <3>5. s[i].key # None
        BY <3>4, ScalarAssumption DEF Entries
      <3>6. t[i][2] = b.key /\ t[i][3] = s[i].key
        BY <3>1, AnchorParts
      <3> QED
        BY <1>3, <3>3, <3>5, <3>6
    <2> QED
      BY <1>3, <2>1
  <1>4. CASE ~(done'.op = "set" /\ b.key = done'.at[2])
    <2> DEFINE old == BindingOf(map, b.key)
               s == EntryAnchors(type, b.key, ListOf(old, type))
    <2>1. /\ b.key \in Ids(map)
          /\ SameOrder(ListOf(old, type), ListOf(b, type))
      BY <1>2, <1>4 DEF OrderKept
    <2>2. old \in Range(map.bindings) /\ old.key = b.key
      BY <2>1, BindingOfGood
    <2>3. \A key : Anchor(type, b.key, key) \in Anchors(map) => key \in Keys(ListOf(old, type))
      BY <2>1, Found
    <2>4. Follows(s, t)
      BY <1>1, <2>1, <2>3, EntriesFollow
    <2>5. s \in InnerLists(map)
      BY <2>2, InnerOf
    <2> QED
      BY <2>4, <2>5
  <1> QED
    BY <1>3, <1>4

LEMMA OuterFollow ==
  ASSUME MapGood(map), OrderKept, NEW t \in OuterLists(map')
  PROVE  \E s \in OuterLists(map) : Follows(s, t)
  <1>1. CASE t = BindingAnchors(map')
    BY <1>1, BindingsFollow, OuterOf DEF OrderKept
  <1>2. CASE t = KindAnchors(map')
    BY <1>2, KindsFollow, OuterOf DEF OrderKept
  <1>3. CASE t = ReasonAnchors(map')
    BY <1>3, ReasonsFollow, OuterOf DEF OrderKept
  <1> QED
    BY <1>1, <1>2, <1>3, OuterOf

(* INV-ORDER-PRESERVED: but for format, and within the binding that set    *)
(* replaces, what was before something else still is, and what is new is   *)
(* last in its list.                                                       *)
THEOREM OrderIsPreserved == Spec => OrderPreserved
  <1> DEFINE all(m) == InnerLists(m) \cup OuterLists(m)
             free == {a \in Anchors(map') : done'.op = "set" /\ a[2] = done'.at[2] /\ a[3] # None}
  <1>1. ASSUME GoodAlways, [Next]_vars, ~UNCHANGED vars, done'.op # "format",
               NEW d \in Precedes(all(map'))
        PROVE  d[1] \in free \/ d[2] \notin Anchors(map) \/ d \in Precedes(all(map))
    <2>1. MapGood(map) /\ MapGood(map') /\ (UNCHANGED map \/ Written)
      BY <1>1, StepCases
    <2>2. CASE UNCHANGED map
      <3>1. Precedes(all(map')) = Precedes(all(map))
        BY <2>2
      <3> QED
        BY <1>1, <3>1
    <2>3. CASE Written
      <3>1. OrderKept
        BY <1>1, <2>1, <2>3, WrittenInOrder
      <3>2. PICK t \in all(map') : \E i, j \in DOMAIN t : i < j /\ d = <<t[i], t[j]>>
        BY <1>1, Preceding
      <3>3. PICK i \in DOMAIN t, j \in DOMAIN t : i < j /\ d = <<t[i], t[j]>>
        BY <3>2
      <3>4. d[1] = t[i] /\ d[2] = t[j]
        BY <3>3
      <3>5. CASE \E s \in all(map) : Follows(s, t)
        <4>1. PICK s \in all(map) : Follows(s, t)
          BY <3>5
        <4>2. ASSUME d[2] \in Anchors(map)
              PROVE  d \in Precedes(all(map))
          <5>1. \E k, l \in DOMAIN s : k < l /\ s[k] = t[i] /\ s[l] = t[j]
            BY <3>3, <3>4, <4>1, <4>2 DEF Follows
          <5>2. \E k, l \in DOMAIN s : k < l /\ d = <<s[k], s[l]>>
            BY <3>3, <5>1
          <5> HIDE DEF all
          <5> QED
            BY <5>2, Preceding
        <4> QED
          BY <4>2
      <3>6. CASE /\ done'.op = "set"
                 /\ \A n \in DOMAIN t : /\ t[n] \in Anchors(map')
                                        /\ t[n][2] = done'.at[2] /\ t[n][3] # None
        BY <3>3, <3>4, <3>6
      <3> QED
        BY <2>1, <3>1, <3>2, <3>5, <3>6, InnerFollow, OuterFollow
    <2> QED
      BY <2>1, <2>2, <2>3
  <1>2. GoodAlways /\ [Next]_vars =>
          [done'.op # "format" =>
             LET before == Precedes(InnerLists(map) \cup OuterLists(map))
                 after == Precedes(InnerLists(map') \cup OuterLists(map'))
                 new == {a \in Anchors(map') : done'.op = "set" /\ a[2] = done'.at[2] /\ a[3] # None}
             IN  \A d \in after : d[1] \in new \/ d[2] \notin Anchors(map) \/ d \in before]_vars
    BY <1>1
  <1> QED
    BY <1>2, AlwaysGood, PTL DEF Spec, OrderPreserved
===========================================================================
