--------------------------- MODULE Documents_proofs ---------------------------
(***************************************************************************)
(* Documents and Interchange, operator by operator: which objects are made *)
(* of which values, which values are made of those again, and what the     *)
(* rules find.  Exchange_proofs puts these facts together.                 *)
(***************************************************************************)
EXTENDS Interchange, Lists_proofs

(***************************************************************************)
(* Lists of what could be represented, and dicts.                          *)
(***************************************************************************)
LEMMA MappedList ==
  ASSUME NEW S, NEW T, NEW s \in Seq(S), NEW t, DOMAIN t = DOMAIN s,
         t = [n \in DOMAIN t |-> t[n]], \A n \in DOMAIN s : t[n] \in T
  PROVE  t \in Seq(T) /\ Len(t) = Len(s)
  <1>1. Len(s) \in Nat /\ DOMAIN s = 1..Len(s)
    BY ListProperties
  <1>2. t \in [1..Len(s) -> T]
    BY <1>1
  <1>3. t \in Seq(T)
    BY <1>1, <1>2, IsASeq
  <1> QED
    BY <1>1, <1>2, <1>3, LenProperties

LEMMA RepresentedList ==
  ASSUME NEW S, None \notin S, NEW s \in Seq(S \cup {None})
  PROVE  /\ Represented(s) \in Seq(S)
         /\ Range(Represented(s)) = Range(s) \ {None}
         /\ s \in Seq(S) => Represented(s) = s
  <1> DEFINE P == {n \in DOMAIN s : s[n] # None}
  <1>1. P \in SUBSET Nat /\ IsFiniteSet(P)
    BY PlacesFinite
  <1>2. \A n \in DOMAIN s : s[n] \in S \cup {None}
    BY ListProperties
  <1>3. \A n \in P : s[n] \in S
    BY <1>2
  <1>4. Represented(s) = Chosen(s, P)
    BY DEF Represented
  <1>5. Represented(s) \in Seq(S) /\ Range(Represented(s)) = {s[n] : n \in P}
    <2> HIDE DEF P
    <2>1. Chosen(s, P) \in Seq(S) /\ Range(Chosen(s, P)) = {s[n] : n \in P}
      BY <1>1, <1>3, ChosenProperties
    <2> QED
      BY <1>4, <2>1
  <1>6. {s[n] : n \in P} = Range(s) \ {None}
    BY DEF Range
  <1>7. ASSUME s \in Seq(S)
        PROVE  Represented(s) = s
    <2>1. \A n \in DOMAIN s : s[n] \in S
      BY <1>7, ListProperties
    <2>2. P = DOMAIN s
      BY <2>1
    <2> QED
      BY <1>4, <1>7, <2>2, ChosenAll
  <1> QED
    BY <1>5, <1>6, <1>7

(* Which places Dict takes, and what it takes for them.                    *)
GivenPlaces(entries) == {n \in DOMAIN entries : entries[n] # None}
Same(entries, n) == {m \in GivenPlaces(entries) : entries[m].key = entries[n].key}
Firsts(entries) == {n \in GivenPlaces(entries) : \A m \in Same(entries, n) : n <= m}
Latest(entries, n) == CHOOSE m \in Same(entries, n) : \A k \in Same(entries, n) : k <= m

LEMMA DictIs ==
  ASSUME NEW entries
  PROVE  Dict(entries) =
           Chosen([n \in Firsts(entries) |-> entries[Latest(entries, n)]], Firsts(entries))
  BY DEF Dict, GivenPlaces, Same, Firsts, Latest

LEMMA LastOf ==
  ASSUME NEW E, NEW entries \in Seq(E), NEW n \in GivenPlaces(entries)
  PROVE  /\ Latest(entries, n) \in GivenPlaces(entries)
         /\ entries[Latest(entries, n)].key = entries[n].key
         /\ \A m \in Same(entries, n) : m <= Latest(entries, n)
  <1>1. Same(entries, n) \in SUBSET DOMAIN entries /\ n \in Same(entries, n)
    BY DEF Same, GivenPlaces
  <1>2. Same(entries, n) \in SUBSET Nat /\ IsFiniteSet(Same(entries, n))
    BY <1>1, PlacesFinite
  <1>3. \E m \in Same(entries, n) : \A k \in Same(entries, n) : k <= m
    BY <1>1, <1>2, Extremes
  <1>4. Latest(entries, n) \in Same(entries, n)
        /\ \A k \in Same(entries, n) : k <= Latest(entries, n)
    BY <1>3 DEF Latest
  <1> QED
    BY <1>4 DEF Same

LEMMA DictProperties ==
  ASSUME NEW E, None \notin E, NEW entries \in Seq(E \cup {None})
  PROVE  /\ Dict(entries) \in Seq(E) /\ UniqueKeys(Dict(entries))
         /\ Range(Dict(entries)) \subseteq Range(entries) \ {None}
  <1> DEFINE first == Firsts(entries)
             g == [n \in first |-> entries[Latest(entries, n)]]
             t == Chosen(g, first)
  <1>1. first \in SUBSET DOMAIN entries /\ first \subseteq GivenPlaces(entries)
    BY DEF Firsts, GivenPlaces
  <1>2. first \in SUBSET Nat /\ IsFiniteSet(first)
    BY <1>1, PlacesFinite
  <1>3. \A n \in DOMAIN entries : entries[n] \in E \cup {None}
    BY ListProperties
  <1>4. ASSUME NEW n \in first
        PROVE  /\ g[n] \in E /\ g[n] \in Range(entries) \ {None}
               /\ g[n].key = entries[n].key
    <2>1. n \in GivenPlaces(entries)
      BY <1>1
    <2>2. Latest(entries, n) \in GivenPlaces(entries) /\ entries[Latest(entries, n)].key = entries[n].key
      BY <2>1, LastOf
    <2>3. g[n] = entries[Latest(entries, n)]
      OBVIOUS
    <2>4. Latest(entries, n) \in DOMAIN entries /\ entries[Latest(entries, n)] # None
      BY <2>2 DEF GivenPlaces
    <2> QED
      BY <1>3, <2>2, <2>3, <2>4 DEF Range
  <1>5. Dict(entries) = t
    BY DictIs
  <1> HIDE DEF first, g
  <1>6. \A n \in first : g[n] \in E
    BY <1>4
  <1>7. t \in Seq(E) /\ Range(t) = {g[n] : n \in first}
    BY <1>2, <1>6, ChosenProperties
  <1>a. Picks(t, g, first)
    BY <1>2, <1>6, ChosenPicks
  <1>8. PICK c \in Nat : \E at \in [1..c -> first] :
          /\ \A i, j \in 1..c : i < j => at[i] < at[j]
          /\ \A n \in first : \E i \in 1..c : at[i] = n
          /\ t = [i \in 1..c |-> g[at[i]]]
    BY <1>a DEF Picks
  <1>9. PICK at \in [1..c -> first] :
          /\ \A i, j \in 1..c : i < j => at[i] < at[j]
          /\ t = [i \in 1..c |-> g[at[i]]]
    BY <1>8
  <1>10. UniqueKeys(t)
    <2>1. SUFFICES ASSUME NEW i \in 1..c, NEW j \in 1..c, t[i].key = t[j].key
                   PROVE  i = j
      BY <1>9 DEF UniqueKeys
    <2>2. at[i] \in first /\ at[j] \in first
      BY <1>9
    <2>3. t[i] = g[at[i]] /\ t[j] = g[at[j]]
      BY <1>9
    <2>4. entries[at[i]].key = entries[at[j]].key
      BY <1>4, <2>1, <2>2, <2>3
    <2>5. at[i] \in GivenPlaces(entries) /\ at[j] \in GivenPlaces(entries)
      BY <1>1, <2>2
    <2>6. at[i] \in Same(entries, at[j]) /\ at[j] \in Same(entries, at[i])
      BY <2>4, <2>5 DEF Same
    <2>7. at[i] <= at[j] /\ at[j] <= at[i]
      BY <2>2, <2>6 DEF first, Firsts
    <2>8. at[i] \in Nat /\ at[j] \in Nat
      BY <1>2, <2>2
    <2>9. at[i] = at[j]
      BY <2>7, <2>8
    <2>10. ~(at[i] < at[j]) /\ ~(at[j] < at[i])
      BY <2>8, <2>9
    <2> QED
      BY <1>9, <2>10
  <1>11. Range(t) \subseteq Range(entries) \ {None}
    BY <1>4, <1>7
  <1> QED
    BY <1>5, <1>7, <1>10, <1>11

LEMMA DictOfUnique ==
  ASSUME NEW E, None \notin E, NEW entries \in Seq(E), UniqueKeys(entries)
  PROVE  Dict(entries) = entries
  <1>1. \A n \in DOMAIN entries : entries[n] \in E
    BY ListProperties
  <1>2. GivenPlaces(entries) = DOMAIN entries
    BY <1>1 DEF GivenPlaces
  <1>3. \A n \in DOMAIN entries : Same(entries, n) = {n}
    BY <1>2 DEF Same, UniqueKeys
  <1>4. DOMAIN entries \subseteq Nat
    BY PlacesFinite
  <1>5. Firsts(entries) = DOMAIN entries
    <2>1. \A n \in DOMAIN entries : n \in Nat /\ n <= n
      BY <1>4
    <2>2. \A n \in DOMAIN entries : \A m \in Same(entries, n) : n <= m
      BY <1>3, <2>1
    <2> QED
      BY <1>2, <2>2 DEF Firsts
  <1>6. \A n \in DOMAIN entries : Latest(entries, n) = n
    <2>1. TAKE n \in DOMAIN entries
    <2>2. n \in GivenPlaces(entries)
      BY <1>2
    <2>3. Latest(entries, n) \in GivenPlaces(entries)
          /\ entries[Latest(entries, n)].key = entries[n].key
      BY <2>2, LastOf
    <2>4. Latest(entries, n) \in Same(entries, n)
      BY <2>3 DEF Same
    <2> QED
      BY <1>3, <2>4
  <1>7. [n \in Firsts(entries) |-> entries[Latest(entries, n)]] = [n \in DOMAIN entries |-> entries[n]]
    BY <1>5, <1>6
  <1>8. entries = [n \in DOMAIN entries |-> entries[n]]
    BY LenProperties
  <1> QED
    BY <1>5, <1>7, <1>8, DictIs, ChosenAll

(***************************************************************************)
(* The rule table, and the values in one another.                          *)
(***************************************************************************)
Nodes == {"locator", "field_locator", "wire", "assertion"}

LEMMA ShapeFacts ==
  /\ Nodes \subseteq DOMAIN Shape
  /\ DOMAIN Shape["locator"].keys = {"path", "symbol", "role"}
  /\ DOMAIN Shape["field_locator"].keys = {"path", "symbol"}
  /\ DOMAIN Shape["wire"].keys = {"casing", "enums", "dates"}
  /\ DOMAIN Shape["assertion"].keys = {"path", "symbol", "run", "arm", "owed"}
  /\ Shape["locator"].required = {"path"} /\ Shape["field_locator"].required = {"path"}
  /\ Shape["wire"].required = {} /\ Shape["assertion"].required = {}
  /\ Shape["locator"].keys["role"].type = "enum"
  /\ \A node \in Nodes : \A k \in DOMAIN Shape[node].keys :
       Shape[node].keys[k].type = "enum" <=> node = "locator" /\ k = "role"
  BY SMTT(30) DEF Nodes, Shape, Typed, Text

LEMMA KeyTexts ==
  /\ \A node \in Nodes : DOMAIN Shape[node].keys \subseteq Texts
  /\ {"locators", "compare_via", "fields", "wire", "asserted_by", "schema_version", "bindings",
      "coverage", "fully_bound", "curated", "id", "kind", "comment", "reason", "None", "1"} \subseteq Texts
  <1>1. \A node \in DOMAIN Shape : DOMAIN Shape[node].keys \subseteq Texts
    BY TraitAssumption
  <1>2. /\ "document" \in DOMAIN Shape /\ "binding" \in DOMAIN Shape /\ "coverage" \in DOMAIN Shape
        /\ DOMAIN Shape["document"].keys = {"schema_version", "bindings", "coverage"}
        /\ DOMAIN Shape["binding"].keys =
             {"locators", "compare_via", "fields", "wire", "asserted_by"}
        /\ DOMAIN Shape["coverage"].keys = {"fully_bound", "curated"}
    BY DEF Shape
  <1>3. {"id", "kind", "comment", "reason", "None", "1"} \subseteq Texts
    BY TraitAssumption
  <1> QED
    BY <1>1, <1>2, <1>3, ShapeFacts

PairsOf(S) == [key : Scalars, value : S, note : Note]
ItemsOf(S) == [value : S, note : Note]

LEMMA ValueParts ==
  ASSUME NEW S, NEW v \in Values(S)
  PROVE  /\ v.type = "mapping" => v \in MappingsOf(S) /\ v.pairs \in Seq(PairsOf(S))
         /\ v.type = "list" => v \in ListsOf(S) /\ v.items \in Seq(ItemsOf(S))
         /\ v.type \in ScalarTypes => v \in Scalars /\ v.text \in Texts
         /\ v.type \in ScalarTypes \cup {"list", "mapping"}
  <1>1. CASE v \in Scalars
    BY <1>1 DEF Scalars, ScalarTypes
  <1>2. CASE v \in ListsOf(S)
    BY <1>2 DEF ListsOf, ItemsOf, ScalarTypes
  <1>3. CASE v \in MappingsOf(S)
    BY <1>3 DEF MappingsOf, PairsOf, ScalarTypes
  <1> QED
    BY <1>1, <1>2, <1>3 DEF Values

LEMMA StringScalar ==
  /\ \A t \in Texts : String(t) \in Scalars /\ String(t).type = "string" /\ String(t).text = t
  /\ Null \in Scalars /\ Null.type = "null"
  /\ \A S : Scalars \subseteq Values(S)
  <1>1. \A t \in Texts : String(t) \in Scalars /\ String(t).type = "string" /\ String(t).text = t
    BY DEF String, Null, Scalar, Scalars, ScalarTypes
  <1>2. Null \in Scalars /\ Null.type = "null"
    BY TraitAssumption DEF Null, Scalar, Scalars, ScalarTypes, Is
  <1> QED
    BY <1>1, <1>2 DEF Values

(* What is at a key.                                                       *)
LEMMA AtValue ==
  ASSUME NEW S, NEW m, m.pairs \in Seq(PairsOf(S)), NEW k, Has(m, k)
  PROVE  /\ PairAt(m, k) \in Range(m.pairs) /\ PairAt(m, k).key = String(k)
         /\ PairAt(m, k) \in PairsOf(S) /\ At(m, k) = PairAt(m, k).value
         /\ At(m, k) \in S /\ PairAt(m, k).note \in Note
  <1>1. \E p \in Range(m.pairs) : p.key = String(k)
    BY DEF Has, KeysOf
  <1>2. PairAt(m, k) \in Range(m.pairs) /\ PairAt(m, k).key = String(k)
    BY <1>1 DEF PairAt
  <1>3. Range(m.pairs) \subseteq PairsOf(S)
    BY ListProperties
  <1> QED
    BY <1>2, <1>3 DEF At, PairsOf

LEMMA StringAtKey ==
  ASSUME NEW S, NEW m, m.pairs \in Seq(PairsOf(Values(S))), NEW k
  PROVE  /\ HasA(m, k, "string") => At(m, k).text \in Texts
         /\ TextAt(m, k) \in TextOrNone
  <1>1. ASSUME HasA(m, k, "string")
        PROVE  At(m, k).text \in Texts
    <2>1. At(m, k) \in Values(S) /\ At(m, k).type = "string"
      BY <1>1, AtValue DEF HasA
    <2>2. "string" \in ScalarTypes
      BY DEF ScalarTypes
    <2> QED
      BY <2>1, <2>2, ValueParts
  <1> QED
    BY <1>1 DEF TextAt, TextOrNone

(***************************************************************************)
(* The objects that are made of values.                                    *)
(***************************************************************************)
LEMMA NotesAreTexts ==
  /\ Note \subseteq TextOrNone /\ None \in Note /\ None \notin Texts
  /\ \A c \in Note : c = None \/ (c \in Texts /\ ~Is(c, "unclean"))
  BY NoneAssumption DEF Note, TextOrNone

LEMMA FlatTyped ==
  ASSUME NEW S, NEW v \in Values(Values(S)), NEW node \in Nodes, NEW C, NEW comment \in C
  PROVE  /\ Flat(v, node, comment) \in EntryType(node, C) \cup {None}
         /\ v.type = "mapping" /\ Shape[node].required \subseteq DOMAIN Strings(v, node) =>
              Flat(v, node, comment) \in EntryType(node, C)
  <1> DEFINE keys == Shape[node].keys
             D == {k \in DOMAIN keys : Allowed(v, k, keys[k])}
             f == Strings(v, node)
  <1>1. SUFFICES ASSUME v.type = "mapping", Shape[node].required \subseteq DOMAIN f
                 PROVE  [strings |-> f, comment |-> comment] \in EntryType(node, C)
    BY DEF Flat
  <1>2. v.pairs \in Seq(PairsOf(Values(S)))
    BY <1>1, ValueParts
  <1>3. f = [k \in D |-> At(v, k).text]
    BY DEF Strings
  <1>4. \A k \in D : HasA(v, k, "string") /\ At(v, k).text \in Texts
    BY <1>2, StringAtKey DEF Allowed
  <1>5. f \in [D -> Texts] /\ D \in SUBSET DOMAIN Shape[node].keys
    BY <1>3, <1>4
  <1>6. f \in StringsOf(node)
    BY <1>5 DEF StringsOf
  <1>7. ASSUME "role" \in DOMAIN f
        PROVE  f["role"] \in Roles
    <2>1. "role" \in D
      BY <1>3, <1>7
    <2>2. node = "locator" /\ keys["role"].type = "enum"
      BY <2>1, ShapeFacts DEF Nodes
    <2>3. At(v, "role").text \in Roles
      BY <2>1, <2>2 DEF Allowed
    <2> QED
      BY <1>3, <2>1, <2>3
  <1> QED
    BY <1>1, <1>6, <1>7 DEF EntryType

LEMMA EntryKinds ==
  ASSUME NEW node \in Nodes, NEW C \in SUBSET TextOrNone
  PROVE  /\ EntryType(node, C) \subseteq EntryType(node, TextOrNone)
         /\ None \notin EntryType(node, C) /\ None \notin Seq(EntryType(node, C))
         /\ None \notin [key : Texts, value : EntryType(node, C)]
         /\ None \notin DictsOf(Texts, EntryType(node, C))
  <1>1. EntryType(node, C) \subseteq EntryType(node, TextOrNone)
    BY DEF EntryType
  <1>2. Seq(EntryType(node, C)) \subseteq Seq(EntryType(node, TextOrNone))
    BY <1>1, SeqMonotonic
  <1>3. [key : Texts, value : EntryType(node, C)] \subseteq
          [key : Texts, value : EntryType(node, TextOrNone)]
    BY <1>1
  <1>4. DictsOf(Texts, EntryType(node, C)) \subseteq DictsOf(Texts, EntryType(node, TextOrNone))
    BY <1>3, SeqMonotonic DEF DictsOf
  <1>5. node \in DOMAIN KeyOrder
    BY DEF Nodes, KeyOrder
  <1> QED
    BY <1>1, <1>2, <1>3, <1>4, <1>5, NoneAssumption

LEMMA EntriesTyped ==
  ASSUME NEW S, NEW items \in Seq(ItemsOf(Values(Values(S)))), NEW node \in Nodes,
         NEW C \in SUBSET TextOrNone, Note \subseteq C
  PROVE  Entries(items, node) \in Seq(EntryType(node, C))
  <1> DEFINE E == EntryType(node, C)
             t == [n \in DOMAIN items |-> Flat(items[n].value, node, items[n].note)]
  <1>1. ASSUME NEW n \in DOMAIN items
        PROVE  t[n] \in E \cup {None}
    <2>1. items[n] \in ItemsOf(Values(Values(S)))
      BY ListProperties
    <2>2. items[n].value \in Values(Values(S)) /\ items[n].note \in C
      BY <2>1 DEF ItemsOf
    <2> QED
      BY <2>2, FlatTyped
  <1>2. None \notin E
    BY EntryKinds
  <1> HIDE DEF E
  <1>3. t \in Seq(E \cup {None})
    BY <1>1, MappedList
  <1>4. Represented(t) \in Seq(E)
    BY <1>2, <1>3, RepresentedList
  <1> QED
    BY <1>4 DEF Entries, E

LEMMA FieldsTyped ==
  ASSUME NEW S, NEW pairs \in Seq(PairsOf(Values(Values(S)))),
         NEW C \in SUBSET TextOrNone, Note \subseteq C
  PROVE  Fields(pairs) \in DictsOf(Texts, EntryType("field_locator", C))
  <1> DEFINE E == [key : Texts, value : EntryType("field_locator", C)]
             t == [n \in DOMAIN pairs |-> FieldEntry(pairs[n])]
  <1>0. "field_locator" \in Nodes
    BY DEF Nodes
  <1>1. ASSUME NEW n \in DOMAIN pairs
        PROVE  t[n] \in E \cup {None}
    <2>1. pairs[n] \in PairsOf(Values(Values(S)))
      BY ListProperties
    <2>2. /\ pairs[n].value \in Values(Values(S)) /\ pairs[n].note \in C
          /\ pairs[n].key.text \in Texts
      BY <2>1 DEF PairsOf, Scalars
    <2>3. Flat(pairs[n].value, "field_locator", pairs[n].note)
            \in EntryType("field_locator", C) \cup {None}
      BY <1>0, <2>2, FlatTyped
    <2> QED
      BY <2>2, <2>3 DEF FieldEntry, Keyed
  <1>2. None \notin E
    BY <1>0, EntryKinds
  <1> HIDE DEF E
  <1>3. t \in Seq(E \cup {None})
    BY <1>1, MappedList
  <1>4. Dict(t) \in Seq(E) /\ UniqueKeys(Dict(t))
    BY <1>2, <1>3, DictProperties
  <1> QED
    BY <1>4 DEF Fields, E, DictsOf

LEMMA Layers ==
  /\ EntryValues = Values(Values({})) /\ SectionValues = Values(EntryValues)
  /\ DocumentValues = Values(SectionValues)
  BY DEF EntryValues, SectionValues, DocumentValues

LEMMA BindingKinds ==
  ASSUME NEW C \in SUBSET TextOrNone
  PROVE  /\ BindingType(C) \subseteq BindingType(TextOrNone) /\ None \notin BindingType(C)
         /\ None \notin [key : Texts, value : BindingType(C)]
  <1>1. /\ EntryType("locator", C) \subseteq EntryType("locator", TextOrNone)
        /\ EntryType("field_locator", C) \subseteq EntryType("field_locator", TextOrNone)
        /\ EntryType("assertion", C) \subseteq EntryType("assertion", TextOrNone)
    BY EntryKinds DEF Nodes
  <1>2. /\ Seq(EntryType("locator", C)) \subseteq Seq(EntryType("locator", TextOrNone))
        /\ Seq(EntryType("assertion", C)) \subseteq Seq(EntryType("assertion", TextOrNone))
    BY <1>1, SeqMonotonic
  <1>3. [key : Texts, value : EntryType("field_locator", C)] \subseteq
          [key : Texts, value : EntryType("field_locator", TextOrNone)]
    BY <1>1
  <1>4. DictsOf(Texts, EntryType("field_locator", C)) \subseteq
          DictsOf(Texts, EntryType("field_locator", TextOrNone))
    BY <1>3, SeqMonotonic DEF DictsOf
  <1>5. BindingType(C) \subseteq BindingType(TextOrNone)
    BY <1>2, <1>4 DEF BindingType
  <1>6. [key : Texts, value : BindingType(C)] \subseteq [key : Texts, value : BindingType(TextOrNone)]
    BY <1>5
  <1> QED
    BY <1>5, <1>6, NoneAssumption

LEMMA BindingTyped ==
  ASSUME NEW v \in DocumentValues, NEW C \in SUBSET TextOrNone, Note \subseteq C, NEW comment \in C
  PROVE  /\ Binding(v, comment) \in BindingType(C) \cup {None}
         /\ Binding(v, comment) # None <=> v.type = "mapping" /\ HasA(v, "locators", "list")
  <1> DEFINE locators == Entries(At(v, "locators").items, "locator")
             compare == TextAt(v, "compare_via")
             fields == IF HasA(v, "fields", "mapping") THEN Fields(At(v, "fields").pairs) ELSE None
             wire == IF Has(v, "wire") THEN Flat(At(v, "wire"), "wire", None) ELSE None
             asserted == IF HasA(v, "asserted_by", "list")
                           THEN Entries(At(v, "asserted_by").items, "assertion") ELSE None
             made == [locators |-> locators, compare_via |-> compare, fields |-> fields,
                      wire |-> wire, asserted_by |-> asserted, comment |-> comment]
  <1>1. SUFFICES ASSUME v.type = "mapping", HasA(v, "locators", "list")
                 PROVE  made \in BindingType(C)
    <2>1. v.type = "mapping" /\ HasA(v, "locators", "list") => Binding(v, comment) = made
      BY DEF Binding
    <2>2. ~(v.type = "mapping" /\ HasA(v, "locators", "list")) => Binding(v, comment) = None
      BY DEF Binding
    <2>3. None \notin BindingType(C)
      BY BindingKinds
    <2> HIDE DEF made
    <2> QED
      BY <2>1, <2>2, <2>3
  <1>2. v.pairs \in Seq(PairsOf(Values(EntryValues)))
    BY <1>1, ValueParts, Layers
  <1>3. ASSUME NEW k, HasA(v, k, "list")
        PROVE  At(v, k).items \in Seq(ItemsOf(Values(Values({}))))
    <2>1. At(v, k) \in Values(EntryValues) /\ At(v, k).type = "list"
      BY <1>2, <1>3, AtValue DEF HasA
    <2> QED
      BY <2>1, ValueParts, Layers
  <1>4. locators \in Seq(EntryType("locator", C))
    BY <1>1, <1>3, EntriesTyped DEF Nodes
  <1>5. compare \in TextOrNone
    BY <1>2, StringAtKey
  <1>6. fields \in DictsOf(Texts, EntryType("field_locator", C)) \cup {None}
    <2>1. CASE HasA(v, "fields", "mapping")
      <3>1. At(v, "fields") \in Values(EntryValues) /\ At(v, "fields").type = "mapping"
        BY <1>2, <2>1, AtValue DEF HasA
      <3>2. At(v, "fields").pairs \in Seq(PairsOf(Values(Values({}))))
        BY <3>1, ValueParts, Layers
      <3> QED
        BY <2>1, <3>2, FieldsTyped
    <2> QED
      BY <2>1
  <1>7. wire \in EntryType("wire", {None}) \cup {None}
    <2>1. CASE Has(v, "wire")
      <3>1. At(v, "wire") \in Values(Values(Values({})))
        BY <1>2, <2>1, AtValue, Layers
      <3> QED
        BY <2>1, <3>1, FlatTyped DEF Nodes
    <2> QED
      BY <2>1
  <1>8. asserted \in Seq(EntryType("assertion", C)) \cup {None}
    BY <1>3, EntriesTyped DEF Nodes
  <1> HIDE DEF locators, compare, fields, wire, asserted
  <1> QED
    BY <1>4, <1>5, <1>6, <1>7, <1>8 DEF BindingType

LEMMA CoverageTyped ==
  ASSUME NEW v \in Values(DocumentValues), NEW comment \in Note
  PROVE  /\ Coverage(v, comment) \in CoverageType \cup {None}
         /\ v.type = "mapping" => Coverage(v, comment) \in CoverageType
  <1> DEFINE curated == At(v, "curated").pairs
             listed == At(v, "fully_bound").items
             texts == [n \in DOMAIN listed |-> AsText(listed[n].value)]
             entries == [n \in DOMAIN curated |-> CuratedEntry(curated[n])]
             E == [key : Texts, value : [reason : Texts, comment : Note]]
             first == IF HasA(v, "fully_bound", "list") THEN Represented(texts) ELSE None
             second == IF HasA(v, "curated", "mapping") THEN Dict(entries) ELSE None
  <1>1. SUFFICES ASSUME v.type = "mapping"
                 PROVE  [fully_bound |-> first, curated |-> second, comment |-> comment]
                          \in CoverageType
    BY DEF Coverage
  <1>2. v.pairs \in Seq(PairsOf(Values(SectionValues)))
    BY <1>1, ValueParts, Layers
  <1>3. \A w \in Values(EntryValues) : IsString(w) => w.text \in Texts
    BY ValueParts DEF IsString, ScalarTypes
  <1>4. first \in Seq(Texts) \cup {None}
    <2>1. SUFFICES ASSUME HasA(v, "fully_bound", "list")
                   PROVE  Represented(texts) \in Seq(Texts)
      OBVIOUS
    <2>2. At(v, "fully_bound") \in Values(SectionValues) /\ At(v, "fully_bound").type = "list"
      BY <1>2, <2>1, AtValue DEF HasA
    <2>3. listed \in Seq(ItemsOf(Values(EntryValues)))
      BY <2>2, ValueParts, Layers
    <2>4. \A n \in DOMAIN listed : listed[n].value \in Values(EntryValues)
      <3>1. \A n \in DOMAIN listed : listed[n] \in ItemsOf(Values(EntryValues))
        BY <2>3, ListProperties
      <3> QED
        BY <3>1 DEF ItemsOf
    <2>5. \A n \in DOMAIN listed : texts[n] \in Texts \cup {None}
      BY <1>3, <2>4 DEF AsText
    <2> HIDE DEF listed
    <2>6. texts \in Seq(Texts \cup {None})
      BY <2>3, <2>5, MappedList
    <2> QED
      BY <2>6, NotesAreTexts, RepresentedList
  <1>5. second \in DictsOf(Texts, [reason : Texts, comment : Note]) \cup {None}
    <2>1. SUFFICES ASSUME HasA(v, "curated", "mapping")
                   PROVE  Dict(entries) \in DictsOf(Texts, [reason : Texts, comment : Note])
      OBVIOUS
    <2>2. At(v, "curated") \in Values(SectionValues) /\ At(v, "curated").type = "mapping"
      BY <1>2, <2>1, AtValue DEF HasA
    <2>3. curated \in Seq(PairsOf(Values(EntryValues)))
      BY <2>2, ValueParts, Layers
    <2>4. \A n \in DOMAIN curated : /\ curated[n].value \in Values(EntryValues)
                                    /\ curated[n].key.text \in Texts /\ curated[n].note \in Note
      <3>1. \A n \in DOMAIN curated : curated[n] \in PairsOf(Values(EntryValues))
        BY <2>3, ListProperties
      <3> QED
        BY <3>1 DEF PairsOf, Scalars
    <2>5. \A n \in DOMAIN curated : entries[n] \in E \cup {None}
      BY <1>3, <2>4 DEF CuratedEntry, Keyed
    <2>6. None \notin E
      BY NoneAssumption
    <2> HIDE DEF curated, E
    <2>7. entries \in Seq(E \cup {None})
      BY <2>3, <2>5, MappedList
    <2>8. Dict(entries) \in Seq(E) /\ UniqueKeys(Dict(entries))
      BY <2>6, <2>7, DictProperties
    <2> QED
      BY <2>8 DEF DictsOf, E
  <1> HIDE DEF first, second
  <1> QED
    BY <1>4, <1>5 DEF CoverageType

(* The comment of a binding that goes to a field.                          *)
LEMMA RelocatedTyped ==
  ASSUME NEW v, NEW b \in BindingType(Note)
  PROVE  /\ Relocated(v, b) \in BindingType(Note)
         /\ ~Relocates(v, b) => Relocated(v, b) = b
  <1>1. CASE ~Relocates(v, b)
    BY <1>1 DEF Relocated
  <1>2. CASE Relocates(v, b)
    <2> DEFINE F == EntryType("field_locator", Note)
               E == [key : Texts, value : F]
               last == LastStray(v, b)
               fields == [n \in DOMAIN b.fields |->
                            IF n = last THEN [b.fields[n] EXCEPT !.value.comment = b.comment]
                            ELSE b.fields[n]]
    <2>1. Relocated(v, b) = [b EXCEPT !.comment = None, !.fields = fields]
      BY <1>2 DEF Relocated
    <2>2. b.comment \in Note /\ None \in Note
      BY NotesAreTexts DEF BindingType
    <2>3. b.fields # None
      BY <1>2 DEF Relocates, Strays, OrEmpty
    <2>4. b.fields \in DictsOf(Texts, F)
      BY <2>3 DEF BindingType
    <2>5. b.fields \in Seq(E) /\ UniqueKeys(b.fields)
      BY <2>4 DEF DictsOf
    <2>6. ASSUME NEW n \in DOMAIN b.fields
          PROVE  fields[n] \in E /\ fields[n].key = b.fields[n].key
      <3>1. b.fields[n] \in E
        BY <2>5, ListProperties
      <3>2. [b.fields[n] EXCEPT !.value.comment = b.comment] \in E
        BY <2>2, <3>1 DEF EntryType
      <3> QED
        BY <3>1, <3>2
    <2>7. fields \in Seq(E)
      <3>1. DOMAIN fields = DOMAIN b.fields /\ fields = [n \in DOMAIN fields |-> fields[n]]
        OBVIOUS
      <3> HIDE DEF fields, E
      <3> QED
        BY <2>5, <2>6, <3>1, MappedList
    <2>8. UniqueKeys(fields)
      <3>1. DOMAIN fields = DOMAIN b.fields
        OBVIOUS
      <3> HIDE DEF fields, E
      <3> QED
        BY <2>5, <2>6, <3>1 DEF UniqueKeys
    <2> HIDE DEF fields, last
    <2>9. fields \in DictsOf(Texts, F)
      BY <2>7, <2>8 DEF DictsOf
    <2> HIDE DEF F, E
    <2>10. [b EXCEPT !.comment = None, !.fields = fields] \in BindingType(Note)
      BY <2>2, <2>9 DEF BindingType, F
    <2> QED
      BY <1>2, <2>1, <2>10
  <1> QED
    BY <1>1, <1>2

(* The IDs of bindings.                                                    *)
IdTexts == {t \in Texts : Is(t, "id")}

LEMMA MapTyped ==
  ASSUME NEW f \in FileType
  PROVE  Map(f) \in MapType
  <1> DEFINE v == f.root
             pairs == At(v, "bindings").pairs
             entries == [n \in DOMAIN pairs |-> BindingEntry(pairs[n])]
             E == [key : IdTexts, value : BindingType(Note)]
             version == IF HasA(v, "schema_version", "integer")
                          THEN At(v, "schema_version").text ELSE None
             bindings == IF HasA(v, "bindings", "mapping") THEN Dict(entries) ELSE <<>>
             coverage == IF Has(v, "coverage")
                           THEN Coverage(At(v, "coverage"), PairAt(v, "coverage").note) ELSE None
  <1>1. v.pairs \in Seq(PairsOf(Values(DocumentValues))) /\ f.header \in Note
    BY DEF FileType, MappingsOf, PairsOf
  <1>2. version \in TextOrNone
    <2>1. SUFFICES ASSUME HasA(v, "schema_version", "integer")
                   PROVE  At(v, "schema_version").text \in Texts
      BY DEF TextOrNone
    <2>2. /\ At(v, "schema_version") \in Values(DocumentValues)
          /\ At(v, "schema_version").type \in ScalarTypes
      BY <1>1, <2>1, AtValue DEF HasA, ScalarTypes
    <2> QED
      BY <2>2, ValueParts
  <1>3. bindings \in DictsOf(IdTexts, BindingType(Note))
    <2>1. CASE HasA(v, "bindings", "mapping")
      <3>1. At(v, "bindings") \in Values(DocumentValues) /\ At(v, "bindings").type = "mapping"
        BY <1>1, <2>1, AtValue DEF HasA
      <3>2. pairs \in Seq(PairsOf(DocumentValues))
        BY <3>1, ValueParts
      <3>3. ASSUME NEW n \in DOMAIN pairs
            PROVE  entries[n] \in E \cup {None}
        <4>1. pairs[n] \in PairsOf(DocumentValues)
          BY <3>2, ListProperties
        <4>2. /\ pairs[n].value \in DocumentValues /\ pairs[n].note \in Note
              /\ pairs[n].key.text \in Texts
          BY <4>1 DEF PairsOf, Scalars
        <4>3. Binding(pairs[n].value, pairs[n].note) \in BindingType(Note) \cup {None}
          BY <4>2, BindingTyped, NotesAreTexts
        <4>4. \A b \in BindingType(Note) : Relocated(pairs[n].value, b) \in BindingType(Note)
          BY RelocatedTyped
        <4> QED
          BY <4>2, <4>3, <4>4 DEF BindingEntry, Keyed, IdTexts
      <3>4. None \notin E
        <4>1. E \subseteq [key : Texts, value : BindingType(Note)]
          BY DEF IdTexts
        <4> QED
          BY <4>1, BindingKinds, NotesAreTexts
      <3> HIDE DEF pairs, E
      <3>5. entries \in Seq(E \cup {None})
        BY <3>2, <3>3, MappedList
      <3>6. Dict(entries) \in Seq(E) /\ UniqueKeys(Dict(entries))
        BY <3>4, <3>5, DictProperties
      <3> QED
        BY <2>1, <3>6 DEF DictsOf, E
    <2>2. CASE ~HasA(v, "bindings", "mapping")
      BY <2>2, EmptyList DEF DictsOf
    <2> QED
      BY <2>1, <2>2
  <1>4. coverage \in CoverageType \cup {None}
    <2>1. SUFFICES ASSUME Has(v, "coverage")
                   PROVE  Coverage(At(v, "coverage"), PairAt(v, "coverage").note)
                            \in CoverageType \cup {None}
      OBVIOUS
    <2>2. At(v, "coverage") \in Values(DocumentValues) /\ PairAt(v, "coverage").note \in Note
      BY <1>1, <2>1, AtValue
    <2> QED
      BY <2>2, CoverageTyped
  <1>5. Map(f) = [schema_version |-> version, bindings |-> bindings, coverage |-> coverage,
                  header |-> f.header]
    BY DEF Map
  <1> HIDE DEF version, bindings, coverage
  <1> QED
    BY <1>1, <1>2, <1>3, <1>4, <1>5 DEF MapType, IdTexts

(***************************************************************************)
(* The values that are made of objects: in the file.                       *)
(***************************************************************************)
LEMMA Concatenated ==
  ASSUME NEW S, NEW s \in Seq(S), NEW t \in Seq(S)
  PROVE  s \o t \in Seq(S) /\ Range(s \o t) = Range(s) \cup Range(t)
  BY ConcatProperties, RangeConcatenation

LEMMA Single ==
  ASSUME NEW S, NEW x \in S
  PROVE  <<x>> \in Seq(S) /\ Range(<<x>>) = {x}
  <1>1. <<x>> \in Seq(S) /\ DOMAIN <<x>> = {1} /\ <<x>>[1] = x
    OBVIOUS
  <1> QED
    BY <1>1 DEF Range

LEMMA KeyOrders ==
  ASSUME NEW node \in Nodes
  PROVE  /\ KeyOrder[node] \in Seq(Texts) /\ IsInjective(KeyOrder[node])
         /\ Range(KeyOrder[node]) = DOMAIN Shape[node].keys
  <1>1. CASE node = "locator"
    <2>1. KeyOrder[node] = <<"path", "symbol", "role">>
      BY <1>1 DEF KeyOrder
    <2>2. {"path", "symbol", "role"} \subseteq Texts
      BY KeyTexts, ShapeFacts DEF Nodes
    <2> QED
      BY <1>1, <2>1, <2>2, ShapeFacts DEF Range, IsInjective
  <1>2. CASE node = "field_locator"
    <2>1. KeyOrder[node] = <<"path", "symbol">>
      BY <1>2 DEF KeyOrder
    <2>2. {"path", "symbol"} \subseteq Texts
      BY KeyTexts, ShapeFacts DEF Nodes
    <2> QED
      BY <1>2, <2>1, <2>2, ShapeFacts DEF Range, IsInjective
  <1>3. CASE node = "wire"
    <2>1. KeyOrder[node] = <<"casing", "enums", "dates">>
      BY <1>3 DEF KeyOrder
    <2>2. {"casing", "enums", "dates"} \subseteq Texts
      BY KeyTexts, ShapeFacts DEF Nodes
    <2> QED
      BY <1>3, <2>1, <2>2, ShapeFacts DEF Range, IsInjective
  <1>4. CASE node = "assertion"
    <2>1. KeyOrder[node] = <<"path", "symbol", "run", "arm", "owed">>
      BY <1>4 DEF KeyOrder
    <2>2. {"path", "symbol", "run", "arm", "owed"} \subseteq Texts
      BY KeyTexts, ShapeFacts DEF Nodes
    <2> QED
      BY <1>4, <2>1, <2>2, ShapeFacts DEF Range, IsInjective
  <1> QED
    BY <1>1, <1>2, <1>3, <1>4 DEF Nodes

(* No text is one of those that YAML takes for something else although     *)
(* needs_quotes does not look for it (`<<` and `=`).                       *)
NoneResolved == \A t \in Texts : ~Is(t, "resolved")

LEMMA TextsWritten ==
  ASSUME NEW t \in Texts
  PROVE  /\ String(t) \in Scalars /\ Written(t) \in Scalars /\ Bare(t) \in Scalars
         /\ NoneResolved /\ ~Is(t, "control") => Written(t) = String(t)
  BY ReadsAssumption, StringScalar DEF Written, Bare, NeedsQuotes, Is, NoneResolved

LEMMA Pairs ==
  ASSUME NEW S, NEW key \in Scalars, NEW value \in S, NEW note \in Note
  PROVE  /\ Pair(key, value, note) \in PairsOf(S) /\ Item(value, note) \in ItemsOf(S)
         /\ Pair(key, value, note).key = key /\ Pair(key, value, note).value = value
         /\ Pair(key, value, note).note = note
  BY DEF Pair, Item, PairsOf, ItemsOf

LEMMA Containers ==
  /\ \A S : \A s \in Seq(PairsOf(S)) :
       /\ Mapping(s) \in MappingsOf(S) /\ Mapping(s) \in Values(S)
       /\ Mapping(s).type = "mapping" /\ Mapping(s).pairs = s
  /\ \A S : \A s \in Seq(ItemsOf(S)) :
       /\ List(s) \in ListsOf(S) /\ List(s) \in Values(S)
       /\ List(s).type = "list" /\ List(s).items = s
  BY DEF Mapping, MappingsOf, PairsOf, List, ListsOf, ItemsOf, Values

(* An object's strings in the order of the keys.                           *)
LEMMA StringsInOrder ==
  ASSUME NEW node \in Nodes, NEW x, DOMAIN x.strings \subseteq DOMAIN Shape[node].keys,
         NEW keys,
         keys = Chosen(KeyOrder[node],
                       {n \in DOMAIN KeyOrder[node] : KeyOrder[node][n] \in DOMAIN x.strings})
  PROVE  keys \in Seq(Texts) /\ Range(keys) = DOMAIN x.strings
  <1> DEFINE order == KeyOrder[node]
             P == {n \in DOMAIN order : order[n] \in DOMAIN x.strings}
  <1>1. order \in Seq(Texts) /\ Range(order) = DOMAIN Shape[node].keys
    BY KeyOrders
  <1>2. P \in SUBSET Nat /\ IsFiniteSet(P)
    BY <1>1, PlacesFinite
  <1>3. \A n \in P : order[n] \in Texts
    BY <1>1, ListProperties
  <1>4. {order[n] : n \in P} = DOMAIN x.strings
    BY <1>1 DEF Range
  <1>5. keys = Chosen(order, P)
    OBVIOUS
  <1> HIDE DEF P, order
  <1>6. Chosen(order, P) \in Seq(Texts) /\ Range(Chosen(order, P)) = {order[n] : n \in P}
    BY <1>2, <1>3, ChosenProperties
  <1> QED
    BY <1>4, <1>5, <1>6

LEMMA FlatWritten ==
  ASSUME NEW node \in Nodes, NEW C, NEW x \in EntryType(node, C)
  PROVE  /\ WrittenFlat(x, node) \in MappingsOf(Values({})) /\ WrittenFlat(x, node) \in EntryValues
         /\ WrittenFlat(x, node).type = "mapping"
         /\ Range(WrittenFlat(x, node).pairs) =
              {Pair(String(k), Written(x.strings[k]), None) : k \in DOMAIN x.strings}
  <1> DEFINE order == KeyOrder[node]
             keys == Chosen(order, {n \in DOMAIN order : order[n] \in DOMAIN x.strings})
             f == [n \in DOMAIN keys |-> Pair(String(keys[n]), Written(x.strings[keys[n]]), None)]
  <1>1. /\ DOMAIN x.strings \subseteq DOMAIN Shape[node].keys
        /\ x.strings \in [DOMAIN x.strings -> Texts]
    BY DEF EntryType, StringsOf
  <1>2. WrittenFlat(x, node) = Mapping(f)
    BY DEF WrittenFlat
  <1>3. keys \in Seq(Texts) /\ Range(keys) = DOMAIN x.strings
    BY <1>1, StringsInOrder
  <1> HIDE DEF keys
  <1>4. ASSUME NEW n \in DOMAIN keys
        PROVE  f[n] \in PairsOf(Values({}))
    <2>1. keys[n] \in Texts /\ keys[n] \in DOMAIN x.strings
      BY <1>3, ListProperties DEF Range
    <2>2. x.strings[keys[n]] \in Texts
      BY <1>1, <2>1
    <2>3. String(keys[n]) \in Scalars /\ Written(x.strings[keys[n]]) \in Values({})
      BY <2>1, <2>2, TextsWritten, StringScalar
    <2> QED
      BY <2>3, Pairs, NotesAreTexts
  <1>5. f \in Seq(PairsOf(Values({})))
    BY <1>3, <1>4, MappedList
  <1>6. Range(f) = {Pair(String(k), Written(x.strings[k]), None) : k \in Range(keys)}
    BY DEF Range
  <1>7. MappingsOf(Values({})) \subseteq EntryValues
    BY DEF EntryValues, Values
  <1> HIDE DEF f
  <1>8. Mapping(f) \in MappingsOf(Values({})) /\ Mapping(f).type = "mapping" /\ Mapping(f).pairs = f
    BY <1>5, Containers
  <1> QED
    BY <1>2, <1>3, <1>6, <1>7, <1>8

LEMMA ValuesMonotonic ==
  ASSUME NEW T, NEW S \in SUBSET T
  PROVE  /\ Values(S) \subseteq Values(T)
         /\ MappingsOf(S) \subseteq MappingsOf(T) /\ ListsOf(S) \subseteq ListsOf(T)
  <1>1. PairsOf(S) \subseteq PairsOf(T) /\ ItemsOf(S) \subseteq ItemsOf(T)
    BY DEF PairsOf, ItemsOf
  <1>2. Seq(PairsOf(S)) \subseteq Seq(PairsOf(T)) /\ Seq(ItemsOf(S)) \subseteq Seq(ItemsOf(T))
    BY <1>1, SeqMonotonic
  <1>3. MappingsOf(S) \subseteq MappingsOf(T) /\ ListsOf(S) \subseteq ListsOf(T)
    BY <1>2 DEF MappingsOf, ListsOf, PairsOf, ItemsOf
  <1> QED
    BY <1>3 DEF Values

LEMMA Nested ==
  /\ Values({}) \subseteq EntryValues /\ EntryValues \subseteq SectionValues
  /\ SectionValues \subseteq DocumentValues
  <1>1. Values({}) \subseteq EntryValues
    BY ValuesMonotonic, Layers
  <1>2. EntryValues \subseteq SectionValues
    BY <1>1, ValuesMonotonic, Layers
  <1>3. SectionValues \subseteq DocumentValues
    BY <1>2, ValuesMonotonic, Layers
  <1> QED
    BY <1>1, <1>2, <1>3

LEMMA ListWritten ==
  ASSUME NEW node \in Nodes, NEW s \in Seq(EntryType(node, Note))
  PROVE  /\ WrittenList(s, node) \in EntryValues \cup ListsOf(EntryValues)
         /\ WrittenList(s, node) \in SectionValues /\ WrittenList(s, node).type = "list"
         /\ WrittenList(s, node).items \in Seq(ItemsOf(EntryValues))
         /\ WrittenList(s, node).items =
              [n \in DOMAIN s |-> Item(WrittenFlat(s[n], node), s[n].comment)]
  <1> DEFINE f == [n \in DOMAIN s |-> Item(WrittenFlat(s[n], node), s[n].comment)]
  <1>1. ASSUME NEW n \in DOMAIN s
        PROVE  f[n] \in ItemsOf(EntryValues)
    <2>1. s[n] \in EntryType(node, Note)
      BY ListProperties
    <2>2. s[n].comment \in Note /\ WrittenFlat(s[n], node) \in EntryValues
      BY <2>1, FlatWritten DEF EntryType
    <2> QED
      BY <2>2 DEF Item, ItemsOf
  <1>2. f \in Seq(ItemsOf(EntryValues))
    BY <1>1, MappedList
  <1>3. WrittenList(s, node) = List(f)
    BY DEF WrittenList
  <1> HIDE DEF f
  <1>4. List(f) \in ListsOf(EntryValues) /\ List(f) \in Values(EntryValues)
        /\ List(f).type = "list" /\ List(f).items = f
    BY <1>2, Containers
  <1> QED
    BY <1>2, <1>3, <1>4, Layers DEF f

LEMMA MergedTyped ==
  ASSUME NEW pairs \in Seq(PairsOf(EntryValues)),
         \A n \in DOMAIN pairs : pairs[n].value \in MappingsOf(Values({}))
  PROVE  /\ Merged(pairs) \in Seq(PairsOf(EntryValues))
         /\ (\A n \in DOMAIN pairs : IsString(pairs[n].key)) => Merged(pairs) = pairs
  <1>1. CASE \A p \in Range(pairs) : ~Merges(p)
    BY <1>1 DEF Merged
  <1>2. CASE \E p \in Range(pairs) : Merges(p)
    <2> DEFINE P == {n \in DOMAIN pairs : ~Merges(pairs[n])}
               own == Chosen(pairs, P)
               taken == (CHOOSE p \in Range(pairs) : Merges(p)).value.pairs
               Q == {n \in DOMAIN taken : taken[n].key \notin KeysOf(Mapping(own))}
    <2>1. Merged(pairs) = own \o Chosen(taken, Q)
      BY <1>2 DEF Merged
    <2>2. own \in Seq(PairsOf(EntryValues))
      <3>1. P \in SUBSET Nat /\ IsFiniteSet(P)
        BY PlacesFinite
      <3>2. \A n \in P : pairs[n] \in PairsOf(EntryValues)
        BY ListProperties
      <3> HIDE DEF P
      <3> QED
        BY <3>1, <3>2, ChosenProperties
    <2>3. taken \in Seq(PairsOf(EntryValues))
      <3>1. PICK n \in DOMAIN pairs :
              (CHOOSE p \in Range(pairs) : Merges(p)) = pairs[n]
        BY <1>2 DEF Range
      <3>2. taken \in Seq(PairsOf(Values({})))
        BY <3>1 DEF MappingsOf, PairsOf
      <3>3. PairsOf(Values({})) \subseteq PairsOf(EntryValues)
        BY Nested DEF PairsOf
      <3> HIDE DEF taken
      <3> QED
        BY <3>2, <3>3, SeqMonotonic
    <2>4. Chosen(taken, Q) \in Seq(PairsOf(EntryValues))
      <3> HIDE DEF taken, own
      <3>1. Q \in SUBSET Nat /\ IsFiniteSet(Q)
        BY <2>3, PlacesFinite
      <3>2. \A n \in Q : taken[n] \in PairsOf(EntryValues)
        BY <2>3, ListProperties
      <3> HIDE DEF Q
      <3> QED
        BY <3>1, <3>2, ChosenProperties
    <2>5. ~(\A n \in DOMAIN pairs : IsString(pairs[n].key))
      BY <1>2 DEF Range, Merges, IsString
    <2> HIDE DEF P, Q, own, taken
    <2> QED
      BY <2>1, <2>2, <2>4, <2>5, Concatenated
  <1> QED
    BY <1>1, <1>2

LEMMA FieldsWritten ==
  ASSUME NEW d \in DictsOf(Texts, EntryType("field_locator", Note))
  PROVE  /\ WrittenFields(d) \in SectionValues /\ WrittenFields(d).type = "mapping"
         /\ WrittenFields(d).pairs \in Seq(PairsOf(EntryValues))
         /\ (\A n \in DOMAIN d : Written(d[n].key) = String(d[n].key)) =>
              WrittenFields(d).pairs =
                [n \in DOMAIN d |-> Pair(Written(d[n].key), WrittenFlat(d[n].value, "field_locator"),
                                         d[n].value.comment)]
  <1> DEFINE f == [n \in DOMAIN d |->
                     Pair(Written(d[n].key), WrittenFlat(d[n].value, "field_locator"),
                          d[n].value.comment)]
             E == [key : Texts, value : EntryType("field_locator", Note)]
  <1>1. d \in Seq(E)
    BY DEF DictsOf
  <1>2. ASSUME NEW n \in DOMAIN d
        PROVE  /\ f[n] \in PairsOf(EntryValues) /\ f[n].value \in MappingsOf(Values({}))
               /\ Written(d[n].key) = String(d[n].key) => IsString(f[n].key)
    <2>1. d[n] \in E
      BY <1>1, ListProperties
    <2>2. d[n].key \in Texts /\ d[n].value \in EntryType("field_locator", Note)
      BY <2>1
    <2>3. Written(d[n].key) \in Scalars /\ d[n].value.comment \in Note
      BY <2>2, TextsWritten DEF EntryType
    <2>4. /\ WrittenFlat(d[n].value, "field_locator") \in EntryValues
          /\ WrittenFlat(d[n].value, "field_locator") \in MappingsOf(Values({}))
      BY <2>2, FlatWritten DEF Nodes
    <2>5. IsString(String(d[n].key))
      BY DEF IsString, String, Scalar
    <2> QED
      BY <2>3, <2>4, <2>5, Pairs
  <1> HIDE DEF E
  <1>3. f \in Seq(PairsOf(EntryValues))
    BY <1>1, <1>2, MappedList
  <1>4. WrittenFields(d) = Mapping(Merged(f))
    BY DEF WrittenFields, WrittenField
  <1>5. DOMAIN f = DOMAIN d
    OBVIOUS
  <1> HIDE DEF f
  <1>6. /\ Merged(f) \in Seq(PairsOf(EntryValues))
        /\ (\A n \in DOMAIN f : IsString(f[n].key)) => Merged(f) = f
    BY <1>2, <1>3, <1>5, MergedTyped
  <1>7. /\ Mapping(Merged(f)) \in Values(EntryValues) /\ Mapping(Merged(f)).type = "mapping"
        /\ Mapping(Merged(f)).pairs = Merged(f)
    BY <1>6, Containers
  <1> QED
    BY <1>2, <1>4, <1>5, <1>6, <1>7, Layers DEF f

LEMMA OnePair ==
  ASSUME NEW S, NEW k \in Texts, NEW v \in S
  PROVE  /\ <<Pair(String(k), v, None)>> \in Seq(PairsOf(S))
         /\ Range(<<Pair(String(k), v, None)>>) = {Pair(String(k), v, None)}
  <1>1. Pair(String(k), v, None) \in PairsOf(S)
    BY StringScalar, NotesAreTexts, Pairs
  <1> QED
    BY <1>1, Single

(* The pair of a section if that is there, as a set.                       *)
PairIf(present, k, v) == {p \in {Pair(String(k), v, None)} : present}

LEMMA OrNullTyped ==
  ASSUME NEW S, NEW v \in Values(S), NEW empty
  PROVE  OrNull(v, empty) \in Values(S)
  BY StringScalar DEF OrNull

LEMMA BindingWritten ==
  ASSUME NEW b \in BindingType(Note)
  PROVE  /\ WrittenBinding(b) \in DocumentValues /\ WrittenBinding(b).type = "mapping"
         /\ WrittenBinding(b).pairs \in Seq(PairsOf(SectionValues))
         /\ Range(WrittenBinding(b).pairs) =
              {Pair(String("locators"), WrittenList(b.locators, "locator"), None)}
                \cup PairIf(b.compare_via # None, "compare_via", Written(b.compare_via))
                \cup PairIf(b.fields # None, "fields",
                            OrNull(WrittenFields(b.fields), b.fields = <<>>))
                \cup PairIf(b.wire # None, "wire",
                            OrNull(WrittenFlat(b.wire, "wire"), DOMAIN b.wire.strings = {}))
                \cup PairIf(b.asserted_by # None, "asserted_by",
                            OrNull(WrittenList(b.asserted_by, "assertion"), b.asserted_by = <<>>))
  <1> DEFINE P == PairsOf(SectionValues)
             s1 == <<Pair(String("locators"), WrittenList(b.locators, "locator"), None)>>
             s2 == Section(b.compare_via # None, "compare_via", Written(b.compare_via))
             s3 == Section(b.fields # None, "fields",
                           OrNull(WrittenFields(b.fields), b.fields = <<>>))
             s4 == Section(b.wire # None, "wire",
                           OrNull(WrittenFlat(b.wire, "wire"), DOMAIN b.wire.strings = {}))
             s5 == Section(b.asserted_by # None, "asserted_by",
                           OrNull(WrittenList(b.asserted_by, "assertion"), b.asserted_by = <<>>))
             r1 == {Pair(String("locators"), WrittenList(b.locators, "locator"), None)}
             r2 == PairIf(b.compare_via # None, "compare_via", Written(b.compare_via))
             r3 == PairIf(b.fields # None, "fields",
                          OrNull(WrittenFields(b.fields), b.fields = <<>>))
             r4 == PairIf(b.wire # None, "wire",
                          OrNull(WrittenFlat(b.wire, "wire"), DOMAIN b.wire.strings = {}))
             r5 == PairIf(b.asserted_by # None, "asserted_by",
                          OrNull(WrittenList(b.asserted_by, "assertion"), b.asserted_by = <<>>))
             v2 == Written(b.compare_via)
             v3 == OrNull(WrittenFields(b.fields), b.fields = <<>>)
             v4 == OrNull(WrittenFlat(b.wire, "wire"), DOMAIN b.wire.strings = {})
             v5 == OrNull(WrittenList(b.asserted_by, "assertion"), b.asserted_by = <<>>)
  <1>1. /\ b.locators \in Seq(EntryType("locator", Note)) /\ b.compare_via \in Texts \cup {None}
        /\ b.fields \in DictsOf(Texts, EntryType("field_locator", Note)) \cup {None}
        /\ b.wire \in EntryType("wire", {None}) \cup {None}
        /\ b.asserted_by \in Seq(EntryType("assertion", Note)) \cup {None}
    BY DEF BindingType, TextOrNone
  <1>2. s1 \in Seq(P) /\ Range(s1) = r1
    <2>1. WrittenList(b.locators, "locator") \in SectionValues
      BY <1>1, ListWritten DEF Nodes
    <2>2. String("locators") \in Scalars
      BY KeyTexts, StringScalar
    <2>3. Pair(String("locators"), WrittenList(b.locators, "locator"), None) \in P
      BY <2>1, <2>2, Pairs, NotesAreTexts
    <2> QED
      BY <2>3, Single
  <1>3. s2 \in Seq(P) /\ Range(s2) = r2
    <2>1. b.compare_via # None => Written(b.compare_via) \in SectionValues
      BY <1>1, TextsWritten, StringScalar, Layers
    <2>2. CASE b.compare_via # None
      <3>1. s2 = <<Pair(String("compare_via"), v2, None)>> /\ r2 = {Pair(String("compare_via"), v2, None)}
        BY <2>2 DEF Section, PairIf
      <3>2. v2 \in SectionValues /\ "compare_via" \in Texts
        BY <2>1, <2>2, KeyTexts
      <3> HIDE DEF s2, r2, v2
      <3> QED
        BY <3>1, <3>2, OnePair
    <2>3. CASE b.compare_via = None
      <3>1. s2 = <<>> /\ r2 = {}
        BY <2>3 DEF Section, PairIf
      <3> HIDE DEF s2, r2
      <3> QED
        BY <3>1, EmptyList
    <2> QED
      BY <2>2, <2>3
  <1>4. s3 \in Seq(P) /\ Range(s3) = r3
    <2>1. ASSUME b.fields # None
          PROVE  OrNull(WrittenFields(b.fields), b.fields = <<>>) \in SectionValues
      <3>1. WrittenFields(b.fields) \in Values(EntryValues)
        BY <1>1, <2>1, FieldsWritten, Layers
      <3> QED
        BY <3>1, OrNullTyped, Layers
    <2>2. CASE b.fields # None
      <3>1. s3 = <<Pair(String("fields"), v3, None)>> /\ r3 = {Pair(String("fields"), v3, None)}
        BY <2>2 DEF Section, PairIf
      <3>2. v3 \in SectionValues /\ "fields" \in Texts
        BY <2>1, <2>2, KeyTexts
      <3> HIDE DEF s3, r3, v3
      <3> QED
        BY <3>1, <3>2, OnePair
    <2>3. CASE b.fields = None
      <3>1. s3 = <<>> /\ r3 = {}
        BY <2>3 DEF Section, PairIf
      <3> HIDE DEF s3, r3
      <3> QED
        BY <3>1, EmptyList
    <2> QED
      BY <2>2, <2>3
  <1>5. s4 \in Seq(P) /\ Range(s4) = r4
    <2>1. ASSUME b.wire # None
          PROVE  OrNull(WrittenFlat(b.wire, "wire"), DOMAIN b.wire.strings = {}) \in SectionValues
      <3>1. WrittenFlat(b.wire, "wire") \in EntryValues
        BY <1>1, <2>1, FlatWritten DEF Nodes
      <3>2. WrittenFlat(b.wire, "wire") \in Values(EntryValues)
        BY <3>1, Nested, Layers
      <3> QED
        BY <3>2, OrNullTyped, Layers
    <2>2. CASE b.wire # None
      <3>1. s4 = <<Pair(String("wire"), v4, None)>> /\ r4 = {Pair(String("wire"), v4, None)}
        BY <2>2 DEF Section, PairIf
      <3>2. v4 \in SectionValues /\ "wire" \in Texts
        BY <2>1, <2>2, KeyTexts
      <3> HIDE DEF s4, r4, v4
      <3> QED
        BY <3>1, <3>2, OnePair
    <2>3. CASE b.wire = None
      <3>1. s4 = <<>> /\ r4 = {}
        BY <2>3 DEF Section, PairIf
      <3> HIDE DEF s4, r4
      <3> QED
        BY <3>1, EmptyList
    <2> QED
      BY <2>2, <2>3
  <1>6. s5 \in Seq(P) /\ Range(s5) = r5
    <2>1. ASSUME b.asserted_by # None
          PROVE  OrNull(WrittenList(b.asserted_by, "assertion"), b.asserted_by = <<>>)
                   \in SectionValues
      <3>1. WrittenList(b.asserted_by, "assertion") \in Values(EntryValues)
        BY <1>1, <2>1, ListWritten, Layers DEF Nodes
      <3> QED
        BY <3>1, OrNullTyped, Layers
    <2>2. CASE b.asserted_by # None
      <3>1. s5 = <<Pair(String("asserted_by"), v5, None)>> /\ r5 = {Pair(String("asserted_by"), v5, None)}
        BY <2>2 DEF Section, PairIf
      <3>2. v5 \in SectionValues /\ "asserted_by" \in Texts
        BY <2>1, <2>2, KeyTexts
      <3> HIDE DEF s5, r5, v5
      <3> QED
        BY <3>1, <3>2, OnePair
    <2>3. CASE b.asserted_by = None
      <3>1. s5 = <<>> /\ r5 = {}
        BY <2>3 DEF Section, PairIf
      <3> HIDE DEF s5, r5
      <3> QED
        BY <3>1, EmptyList
    <2> QED
      BY <2>2, <2>3
  <1>7. WrittenBinding(b) = Mapping(s1 \o s2 \o s3 \o s4 \o s5)
    BY DEF WrittenBinding
  <1> HIDE DEF P, s1, s2, s3, s4, s5, r1, r2, r3, r4, r5
  <1> DEFINE t2 == s1 \o s2
             t3 == t2 \o s3
             t4 == t3 \o s4
             all == t4 \o s5
  <1>8. t2 \in Seq(P) /\ Range(t2) = r1 \cup r2
    BY <1>2, <1>3, Concatenated
  <1>9. t3 \in Seq(P) /\ Range(t3) = r1 \cup r2 \cup r3
    <2> HIDE DEF t2
    <2> QED
      BY <1>4, <1>8, Concatenated
  <1>10. t4 \in Seq(P) /\ Range(t4) = r1 \cup r2 \cup r3 \cup r4
    <2> HIDE DEF t3
    <2> QED
      BY <1>5, <1>9, Concatenated
  <1>11. all \in Seq(P) /\ Range(all) = r1 \cup r2 \cup r3 \cup r4 \cup r5
    <2> HIDE DEF t4
    <2> QED
      BY <1>6, <1>10, Concatenated
  <1>12. all \in Seq(PairsOf(SectionValues)) /\ Range(all) = r1 \cup r2 \cup r3 \cup r4 \cup r5
    BY <1>11 DEF P
  <1>13. WrittenBinding(b) = Mapping(all)
    BY <1>7
  <1> HIDE DEF all
  <1>14. Mapping(all) \in Values(SectionValues) /\ Mapping(all).type = "mapping"
         /\ Mapping(all).pairs = all
    BY <1>12, Containers
  <1> QED
    BY <1>12, <1>13, <1>14, Layers DEF r1, r2, r3, r4, r5

LEMMA CoverageWritten ==
  ASSUME NEW c \in CoverageType
  PROVE  LET listed == OrEmpty(c.fully_bound)
             curated == OrEmpty(c.curated)
             first == List([n \in DOMAIN listed |-> Item(Bare(listed[n]), None)])
             second == Mapping([n \in DOMAIN curated |->
                         Pair(Bare(curated[n].key), Written(curated[n].value.reason),
                              curated[n].value.comment)])
         IN  /\ WrittenCoverage(c) \in Values(DocumentValues)
             /\ WrittenCoverage(c).type = "mapping"
             /\ WrittenCoverage(c).pairs \in Seq(PairsOf(DocumentValues))
             /\ Range(WrittenCoverage(c).pairs) =
                  PairIf(c.fully_bound # None, "fully_bound", first)
                    \cup PairIf(c.curated # None, "curated", OrNull(second, c.curated = <<>>))
             /\ first.items \in Seq(ItemsOf(SectionValues))
             /\ second.pairs \in Seq(PairsOf(SectionValues))
  <1> DEFINE listed == OrEmpty(c.fully_bound)
             curated == OrEmpty(c.curated)
             f == [n \in DOMAIN listed |-> Item(Bare(listed[n]), None)]
             g == [n \in DOMAIN curated |->
                     Pair(Bare(curated[n].key), Written(curated[n].value.reason),
                          curated[n].value.comment)]
             R == [reason : Texts, comment : Note]
             E == [key : Texts, value : R]
             P == PairsOf(DocumentValues)
             v1 == List(f)
             v2 == OrNull(Mapping(g), c.curated = <<>>)
             s1 == Section(c.fully_bound # None, "fully_bound", v1)
             s2 == Section(c.curated # None, "curated", v2)
             r1 == PairIf(c.fully_bound # None, "fully_bound", v1)
             r2 == PairIf(c.curated # None, "curated", v2)
  <1>1. c.fully_bound \in Seq(Texts) \cup {None} /\ c.curated \in DictsOf(Texts, R) \cup {None}
    BY DEF CoverageType
  <1>2. listed \in Seq(Texts) /\ curated \in Seq(E)
    BY <1>1, EmptyList DEF OrEmpty, DictsOf
  <1>3. f \in Seq(ItemsOf(SectionValues))
    <2>1. \A n \in DOMAIN listed : listed[n] \in Texts
      BY <1>2, ListProperties
    <2>2. \A n \in DOMAIN listed : Bare(listed[n]) \in SectionValues
      BY <2>1, TextsWritten, StringScalar, Layers
    <2>3. \A n \in DOMAIN listed : f[n] \in ItemsOf(SectionValues)
      BY <2>2, NotesAreTexts DEF Item, ItemsOf
    <2> HIDE DEF listed
    <2> QED
      BY <1>2, <2>3, MappedList
  <1>4. g \in Seq(PairsOf(SectionValues))
    <2>1. ASSUME NEW n \in DOMAIN curated
          PROVE  g[n] \in PairsOf(SectionValues)
      <3>1. curated[n] \in E
        BY <1>2, ListProperties
      <3>2. /\ curated[n].key \in Texts /\ curated[n].value.reason \in Texts
            /\ curated[n].value.comment \in Note
        BY <3>1
      <3>3. Bare(curated[n].key) \in Scalars /\ Written(curated[n].value.reason) \in SectionValues
        BY <3>2, TextsWritten, StringScalar, Layers
      <3> QED
        BY <3>2, <3>3, Pairs
    <2> HIDE DEF curated, E
    <2> QED
      BY <1>2, <2>1, MappedList
  <1>5. /\ v1 \in DocumentValues /\ v1.items = f
        /\ Mapping(g) \in Values(SectionValues) /\ Mapping(g).pairs = g
    <2> HIDE DEF f, g
    <2> QED
      BY <1>3, <1>4, Containers, Layers
  <1>6. v2 \in DocumentValues
    <2> HIDE DEF g
    <2> QED
      BY <1>5, OrNullTyped, Layers
  <1> HIDE DEF v1, v2
  <1>7. s1 \in Seq(P) /\ Range(s1) = r1
    <2>1. CASE c.fully_bound # None
      <3>1. s1 = <<Pair(String("fully_bound"), v1, None)>>
            /\ r1 = {Pair(String("fully_bound"), v1, None)}
        BY <2>1 DEF Section, PairIf
      <3> HIDE DEF s1, r1
      <3> QED
        BY <1>5, <3>1, KeyTexts, OnePair
    <2>2. CASE c.fully_bound = None
      <3>1. s1 = <<>> /\ r1 = {}
        BY <2>2 DEF Section, PairIf
      <3> HIDE DEF s1, r1
      <3> QED
        BY <3>1, EmptyList
    <2> QED
      BY <2>1, <2>2
  <1>8. s2 \in Seq(P) /\ Range(s2) = r2
    <2>1. CASE c.curated # None
      <3>1. s2 = <<Pair(String("curated"), v2, None)>> /\ r2 = {Pair(String("curated"), v2, None)}
        BY <2>1 DEF Section, PairIf
      <3> HIDE DEF s2, r2
      <3> QED
        BY <1>6, <3>1, KeyTexts, OnePair
    <2>2. CASE c.curated = None
      <3>1. s2 = <<>> /\ r2 = {}
        BY <2>2 DEF Section, PairIf
      <3> HIDE DEF s2, r2
      <3> QED
        BY <3>1, EmptyList
    <2> QED
      BY <2>1, <2>2
  <1>9. WrittenCoverage(c) = Mapping(s1 \o s2)
    BY DEF WrittenCoverage, v1, v2
  <1> DEFINE all == s1 \o s2
  <1>10. all \in Seq(P) /\ Range(all) = r1 \cup r2
    <2> HIDE DEF s1, s2, r1, r2, P
    <2> QED
      BY <1>7, <1>8, Concatenated
  <1>11. WrittenCoverage(c) = Mapping(all)
    BY <1>9
  <1>12. Mapping(all) \in Values(DocumentValues) /\ Mapping(all).type = "mapping"
         /\ Mapping(all).pairs = all
    <2> HIDE DEF all
    <2> QED
      BY <1>10, Containers
  <1>13. /\ WrittenCoverage(c) \in Values(DocumentValues) /\ WrittenCoverage(c).type = "mapping"
         /\ WrittenCoverage(c).pairs \in Seq(P) /\ Range(WrittenCoverage(c).pairs) = r1 \cup r2
    <2> HIDE DEF all
    <2> QED
      BY <1>10, <1>11, <1>12
  <1> QED
    BY <1>3, <1>4, <1>5, <1>13 DEF v1, v2

LEMMA EmitTyped ==
  ASSUME NEW m \in MapType, m.schema_version = "1"
  PROVE  LET bindings == [n \in DOMAIN m.bindings |->
                            Pair(Bare(m.bindings[n].key), WrittenBinding(m.bindings[n].value),
                                 m.bindings[n].value.comment)]
         IN  /\ Emit(m) \in FileType /\ Emit(m).root.pairs \in Seq(PairsOf(Values(DocumentValues)))
             /\ Range(Emit(m).root.pairs) =
                  {Pair(String("schema_version"), Scalar("integer", m.schema_version), None),
                   Pair(String("bindings"), Mapping(bindings), None)}
                  \cup {p \in {Pair(String("coverage"), WrittenCoverage(m.coverage),
                                    m.coverage.comment)} : m.coverage # None}
             /\ bindings \in Seq(PairsOf(DocumentValues))
  <1> DEFINE bindings == [n \in DOMAIN m.bindings |->
                            Pair(Bare(m.bindings[n].key), WrittenBinding(m.bindings[n].value),
                                 m.bindings[n].value.comment)]
             P == PairsOf(Values(DocumentValues))
             p1 == Pair(String("schema_version"), Scalar("integer", m.schema_version), None)
             p2 == Pair(String("bindings"), Mapping(bindings), None)
             p3 == Pair(String("coverage"), WrittenCoverage(m.coverage), m.coverage.comment)
             s == IF m.coverage = None THEN <<>> ELSE <<p3>>
             r == {p \in {p3} : m.coverage # None}
             E == [key : IdTexts, value : BindingType(Note)]
  <1>1. /\ m.bindings \in Seq(E) /\ m.header \in Note
        /\ m.coverage \in CoverageType \cup {None}
    BY DEF MapType, DictsOf, IdTexts
  <1>2. bindings \in Seq(PairsOf(DocumentValues))
    <2>1. ASSUME NEW n \in DOMAIN m.bindings
          PROVE  bindings[n] \in PairsOf(DocumentValues)
      <3>1. m.bindings[n] \in E
        BY <1>1, ListProperties
      <3>2. m.bindings[n].key \in Texts /\ m.bindings[n].value \in BindingType(Note)
        BY <3>1 DEF IdTexts
      <3>3. m.bindings[n].value.comment \in Note
        BY <3>2 DEF BindingType
      <3>4. Bare(m.bindings[n].key) \in Scalars
        BY <3>2, TextsWritten
      <3>5. WrittenBinding(m.bindings[n].value) \in DocumentValues
        BY <3>2, BindingWritten
      <3> QED
        BY <3>3, <3>4, <3>5, Pairs
    <2> HIDE DEF E
    <2> QED
      BY <1>1, <2>1, MappedList
  <1>3. p1 \in P
    <2>1. String("schema_version") \in Scalars
      BY KeyTexts, StringScalar
    <2>2. Scalar("integer", m.schema_version) \in Scalars
      BY TraitAssumption DEF Scalar, Scalars, ScalarTypes, Is
    <2>3. Scalar("integer", m.schema_version) \in Values(DocumentValues)
      BY <2>2, StringScalar
    <2> QED
      BY <2>1, <2>3, Pairs, NotesAreTexts
  <1>4. p2 \in P
    <2>1. String("bindings") \in Scalars
      BY KeyTexts, StringScalar
    <2>2. Mapping(bindings) \in Values(DocumentValues)
      <3> HIDE DEF bindings
      <3> QED
        BY <1>2, Containers
    <2> QED
      BY <2>1, <2>2, Pairs, NotesAreTexts
  <1>5. s \in Seq(P) /\ Range(s) = r
    <2>1. CASE m.coverage = None
      BY <2>1, EmptyList
    <2>2. CASE m.coverage # None
      <3>1. m.coverage \in CoverageType /\ m.coverage.comment \in Note
        BY <1>1, <2>2 DEF CoverageType
      <3>2. WrittenCoverage(m.coverage) \in Values(DocumentValues)
        BY <3>1, CoverageWritten
      <3>3. String("coverage") \in Scalars
        BY KeyTexts, StringScalar
      <3>4. p3 \in P
        BY <3>1, <3>2, <3>3, Pairs
      <3>5. s = <<p3>> /\ r = {p3}
        BY <2>2
      <3> HIDE DEF p3, s, r
      <3> QED
        BY <3>4, <3>5, Single
    <2> QED
      BY <2>1, <2>2
  <1>6. Emit(m) = [header |-> m.header, root |-> Mapping(<<p1, p2>> \o s)]
    BY DEF Emit
  <1> HIDE DEF bindings, P, p1, p2, s, r
  <1>7. <<p1, p2>> \in Seq(P) /\ Range(<<p1, p2>>) = {p1, p2}
    <2>1. <<p1, p2>> \in Seq(P) /\ DOMAIN <<p1, p2>> = {1, 2}
          /\ <<p1, p2>>[1] = p1 /\ <<p1, p2>>[2] = p2
      BY <1>3, <1>4
    <2> QED
      BY <2>1 DEF Range
  <1> DEFINE all == <<p1, p2>> \o s
  <1>8. all \in Seq(P) /\ Range(all) = {p1, p2} \cup r
    BY <1>5, <1>7, Concatenated, ZenonT(60)
  <1>9. all \in Seq(PairsOf(Values(DocumentValues)))
    BY <1>8 DEF P
  <1>10. Emit(m) = [header |-> m.header, root |-> Mapping(all)]
    BY <1>6
  <1> HIDE DEF all
  <1>11. Mapping(all) \in MappingsOf(Values(DocumentValues)) /\ Mapping(all).pairs = all
    BY <1>9, Containers
  <1>12. Emit(m) \in FileType /\ Emit(m).root.pairs = all
    BY <1>1, <1>10, <1>11 DEF FileType
  <1> QED
    BY <1>2, <1>8, <1>9, <1>12 DEF bindings, p1, p2, p3, r

(***************************************************************************)
(* And in answers.                                                         *)
(***************************************************************************)
LEMMA ObjectTyped ==
  ASSUME NEW S, NEW rows \in Seq(Texts \X S)
  PROVE  /\ Object(rows) \in MappingsOf(S) /\ Object(rows) \in Values(S)
         /\ Object(rows).type = "mapping" /\ Object(rows).pairs \in Seq(PairsOf(S))
         /\ Object(rows).pairs = [n \in DOMAIN rows |-> Pair(String(rows[n][1]), rows[n][2], None)]
         /\ Range(Object(rows).pairs) = {Pair(String(r[1]), r[2], None) : r \in Range(rows)}
  <1> DEFINE f == [n \in DOMAIN rows |-> Pair(String(rows[n][1]), rows[n][2], None)]
  <1>1. ASSUME NEW n \in DOMAIN rows
        PROVE  f[n] \in PairsOf(S)
    <2>1. rows[n] \in Texts \X S
      BY ListProperties
    <2>2. rows[n][1] \in Texts /\ rows[n][2] \in S
      BY <2>1
    <2> QED
      BY <2>2, StringScalar, Pairs, NotesAreTexts
  <1>2. f \in Seq(PairsOf(S))
    BY <1>1, MappedList
  <1>3. Range(f) = {Pair(String(r[1]), r[2], None) : r \in Range(rows)}
    BY DEF Range
  <1>4. Object(rows) = Mapping(f)
    BY DEF Object
  <1>5. /\ Mapping(f) \in MappingsOf(S) /\ Mapping(f) \in Values(S)
        /\ Mapping(f).type = "mapping" /\ Mapping(f).pairs = f
    <2> HIDE DEF f
    <2> QED
      BY <1>2, Containers
  <1> QED
    BY <1>2, <1>3, <1>4, <1>5

(* Documents of the JSON parser.                                           *)
LEMMA JsonParts ==
  ASSUME NEW S, NEW v \in Json(S)
  PROVE  /\ v \in Values(S) /\ Unnoted(v)
         /\ v.type = "mapping" =>
              /\ v.pairs \in Seq(PairsOf(S)) /\ UniqueKeys(v.pairs)
              /\ \A p \in Range(v.pairs) : IsString(p.key) /\ p.value \in S /\ p.note = None
         /\ v.type = "list" =>
              /\ v.items \in Seq(ItemsOf(S))
              /\ \A i \in Range(v.items) : i.value \in S /\ i.note = None
  <1>1. v \in Values(S) /\ Unnoted(v)
    BY DEF Json, Once
  <1>2. ASSUME v.type = "mapping"
        PROVE  /\ v.pairs \in Seq(PairsOf(S)) /\ UniqueKeys(v.pairs)
               /\ \A p \in Range(v.pairs) : IsString(p.key) /\ p.value \in S /\ p.note = None
    <2>1. v.pairs \in Seq(PairsOf(S))
      BY <1>1, <1>2, ValueParts
    <2>2. UniqueKeys(v.pairs) /\ \A p \in Range(v.pairs) : IsString(p.key)
      BY <1>2 DEF Json, Once
    <2>3. Parts(v) = Range(v.pairs)
      BY <1>2 DEF Parts
    <2>4. Range(v.pairs) \subseteq PairsOf(S)
      BY <2>1, ListProperties
    <2> QED
      BY <1>1, <2>1, <2>2, <2>3, <2>4 DEF Unnoted, PairsOf
  <1>3. ASSUME v.type = "list"
        PROVE  /\ v.items \in Seq(ItemsOf(S))
               /\ \A i \in Range(v.items) : i.value \in S /\ i.note = None
    <2>1. v.items \in Seq(ItemsOf(S))
      BY <1>1, <1>3, ValueParts
    <2>2. Parts(v) = Range(v.items)
      BY <1>3 DEF Parts
    <2>3. Range(v.items) \subseteq ItemsOf(S)
      BY <2>1, ListProperties
    <2> QED
      BY <1>1, <2>1, <2>2, <2>3 DEF Unnoted, ItemsOf
  <1> QED
    BY <1>1, <1>2, <1>3

LEMMA JsonDepths ==
  /\ \A S : Scalars \subseteq Json(S) /\ Json(S) \subseteq Values(S)
  /\ Json({}) \subseteq Values({}) /\ Json(Json({})) \subseteq EntryValues
  /\ Json(Json(Json({}))) \subseteq SectionValues /\ InputDocuments \subseteq DocumentValues
  <1>1. \A S : Json(S) \subseteq Values(S)
    BY DEF Json, Once
  <1>2. \A S : Scalars \subseteq Json(S)
    <2> TAKE S
    <2>1. \A v \in Scalars : v \in Values(S) /\ v.type \notin {"list", "mapping"}
      BY DEF Scalars, ScalarTypes, Values
    <2> QED
      BY <2>1 DEF Json, Once, Unnoted, Parts
  <1>3. Values(Json({})) \subseteq Values(Values({}))
    BY <1>1, ValuesMonotonic
  <1>4. Json(Json({})) \subseteq EntryValues
    BY <1>1, <1>3, Layers
  <1>5. Values(Json(Json({}))) \subseteq Values(EntryValues)
    BY <1>4, ValuesMonotonic
  <1>6. Json(Json(Json({}))) \subseteq SectionValues
    BY <1>1, <1>5, Layers
  <1>7. Values(Json(Json(Json({})))) \subseteq Values(SectionValues)
    BY <1>6, ValuesMonotonic
  <1>8. Json(Json(Json(Json({})))) \subseteq DocumentValues
    BY <1>1, <1>7, Layers
  <1> QED
    BY <1>1, <1>2, <1>4, <1>6, <1>8 DEF InputDocuments

LEMMA JsonGrows ==
  Json({}) \subseteq Json(Json({}))
  <1>1. Values({}) \subseteq Values(Json({}))
    BY ValuesMonotonic
  <1> QED
    BY <1>1 DEF Json, Once

LEMMA DocumentParts ==
  ASSUME NEW v \in InputDocuments
  PROVE  /\ v \in DocumentValues
         /\ v.type = "mapping" =>
              /\ v.pairs \in Seq(PairsOf(SectionValues)) /\ UniqueKeys(v.pairs)
              /\ \A p \in Range(v.pairs) : /\ IsString(p.key) /\ p.note = None
                                           /\ p.value \in Json(Json(Json({})))
  <1>1. v \in DocumentValues
    BY JsonDepths
  <1>2. v.type = "mapping" => v.pairs \in Seq(PairsOf(SectionValues))
    BY <1>1, ValueParts, Layers
  <1> QED
    BY <1>1, <1>2, JsonParts DEF InputDocuments

LEMMA JsonObject ==
  ASSUME NEW S, NEW rows \in Seq(Texts \X S),
         \A m, n \in DOMAIN rows : rows[m][1] = rows[n][1] => m = n
  PROVE  Object(rows) \in Json(S)
  <1> DEFINE out == Object(rows)
  <1>1. /\ out \in Values(S) /\ out.type = "mapping" /\ out.pairs \in Seq(PairsOf(S))
        /\ out.pairs = [n \in DOMAIN rows |-> Pair(String(rows[n][1]), rows[n][2], None)]
        /\ Range(out.pairs) = {Pair(String(r[1]), r[2], None) : r \in Range(rows)}
    BY ObjectTyped
  <1>2. /\ \A r : /\ Pair(String(r[1]), r[2], None).note = None
                  /\ IsString(Pair(String(r[1]), r[2], None).key)
        /\ \A s, t : String(s) = String(t) => s = t
    BY DEF Pair, IsString, String, Scalar
  <1> HIDE DEF out
  <1>3. DOMAIN out.pairs = DOMAIN rows /\ \A n \in DOMAIN rows : out.pairs[n].key = String(rows[n][1])
    BY <1>1 DEF Pair
  <1>4. UniqueKeys(out.pairs)
    BY <1>2, <1>3 DEF UniqueKeys
  <1>5. Unnoted(out)
    BY <1>1, <1>2 DEF Unnoted, Parts
  <1>6. \A p \in Range(out.pairs) : IsString(p.key)
    BY <1>1, <1>2
  <1>7. \A p \in Range(out.pairs) : p.key.type # "merge"
    BY <1>6 DEF IsString
  <1>8. out \in Once(S)
    BY <1>1, <1>4, <1>7 DEF Once
  <1> QED
    BY <1>1, <1>5, <1>6, <1>8 DEF Json, out

LEMMA JsonList ==
  ASSUME NEW S, NEW f \in Seq(ItemsOf(S)), \A n \in DOMAIN f : f[n].note = None
  PROVE  List(f) \in Json(S)
  <1>1. List(f) \in Values(S) /\ List(f).type = "list" /\ List(f).items = f
    BY Containers
  <1>2. \A x \in Range(f) : x.note = None
    BY DEF Range
  <1>3. Unnoted(List(f))
    BY <1>1, <1>2 DEF Unnoted, Parts
  <1> QED
    BY <1>1, <1>3 DEF Json, Once

LEMMA NullableTyped ==
  /\ \A t \in TextOrNone : Nullable(t) \in Scalars /\ \A S : Nullable(t) \in Values(S)
  /\ \A t \in Texts : Nullable(t) = String(t)
  /\ Nullable(None) = Null
  BY StringScalar, NotesAreTexts DEF Nullable, TextOrNone

LEMMA ColumnsTyped ==
  ASSUME NEW node \in Nodes, NEW x, DOMAIN x.strings \subseteq DOMAIN Shape[node].keys,
         x.strings \in [DOMAIN x.strings -> Texts]
  PROVE  /\ Columns(x, node) \in Seq(Texts \X Values({}))
         /\ Columns(x, node) \in Seq(Texts \X EntryValues)
         /\ Range(Columns(x, node)) =
              {<<k, Nullable(StringAt(x, k))>> : k \in DOMAIN Shape[node].keys}
  <1> DEFINE order == KeyOrder[node]
             f == [n \in DOMAIN order |-> <<order[n], Nullable(StringAt(x, order[n]))>>]
  <1>1. order \in Seq(Texts) /\ Range(order) = DOMAIN Shape[node].keys
    BY KeyOrders
  <1>2. Columns(x, node) = f
    BY DEF Columns, Mapped
  <1>3. ASSUME NEW n \in DOMAIN order
        PROVE  f[n] \in Texts \X Values({})
    <2>1. order[n] \in Texts
      BY <1>1, ListProperties
    <2>2. StringAt(x, order[n]) \in TextOrNone
      BY DEF StringAt, TextOrNone
    <2>3. Nullable(StringAt(x, order[n])) \in Values({})
      BY <2>2, NullableTyped
    <2> QED
      BY <2>1, <2>3
  <1>4. Range(f) = {<<k, Nullable(StringAt(x, k))>> : k \in Range(order)}
    BY DEF Range
  <1>5. f \in Seq(Texts \X Values({}))
    <2> HIDE DEF order
    <2> QED
      BY <1>1, <1>3, MappedList
  <1>6. f \in Seq(Texts \X EntryValues)
    <2>1. Texts \X Values({}) \subseteq Texts \X EntryValues
      BY Nested
    <2> QED
      BY <1>5, <2>1, SeqMonotonic
  <1> QED
    BY <1>1, <1>2, <1>4, <1>5, <1>6

LEMMA FlatShown ==
  ASSUME NEW node \in Nodes, NEW x, DOMAIN x.strings \subseteq DOMAIN Shape[node].keys,
         x.strings \in [DOMAIN x.strings -> Texts], x.comment \in TextOrNone
  PROVE  /\ FlatOut(x, node) \in EntryValues /\ FlatOut(x, node).type = "mapping"
         /\ FlatOut(x, node).pairs \in Seq(PairsOf(Values({})))
         /\ Range(FlatOut(x, node).pairs) =
              {Pair(String(k), Nullable(StringAt(x, k)), None) : k \in DOMAIN Shape[node].keys}
                \cup {Pair(String("comment"), Nullable(x.comment), None)}
  <1> DEFINE row == <<"comment", Nullable(x.comment)>>
             columns == Columns(x, node)
             rows == Append(columns, row)
             T == Texts \X Values({})
  <1>1. columns \in Seq(T)
        /\ Range(columns) = {<<k, Nullable(StringAt(x, k))>> : k \in DOMAIN Shape[node].keys}
    BY ColumnsTyped
  <1>2. row \in T
    BY NullableTyped, KeyTexts
  <1>3. rows \in Seq(T) /\ Range(rows) = Range(columns) \cup {row}
    <2> HIDE DEF T, row, columns
    <2> QED
      BY <1>1, <1>2, AppendList
  <1>4. FlatOut(x, node) = Object(rows)
    BY DEF FlatOut
  <1>5. /\ Object(rows) \in Values(Values({})) /\ Object(rows).type = "mapping"
        /\ Object(rows).pairs \in Seq(PairsOf(Values({})))
        /\ Range(Object(rows).pairs) = {Pair(String(r[1]), r[2], None) : r \in Range(rows)}
    <2> HIDE DEF rows
    <2> QED
      BY <1>3, ObjectTyped
  <1>6. Range(Object(rows).pairs) =
          {Pair(String(k), Nullable(StringAt(x, k)), None) : k \in DOMAIN Shape[node].keys}
            \cup {Pair(String("comment"), Nullable(x.comment), None)}
    <2>1. Range(rows) = {<<k, Nullable(StringAt(x, k))>> : k \in DOMAIN Shape[node].keys} \cup {row}
      BY <1>1, <1>3
    <2> DEFINE G(r) == Pair(String(r[1]), r[2], None)
    <2>2. G(row) = Pair(String("comment"), Nullable(x.comment), None)
          /\ \A k : G(<<k, Nullable(StringAt(x, k))>>) = Pair(String(k), Nullable(StringAt(x, k)), None)
      OBVIOUS
    <2>3. Range(Object(rows).pairs) = {G(r) : r \in Range(rows)}
      BY <1>5
    <2> HIDE DEF G, rows, columns, row
    <2>4. Range(Object(rows).pairs) =
            {G(<<k, Nullable(StringAt(x, k))>>) : k \in DOMAIN Shape[node].keys} \cup {G(row)}
      BY <2>1, <2>3
    <2> QED
      BY <2>2, <2>4
  <1> QED
    BY <1>4, <1>5, <1>6, Layers

(* An entry as the lemmas above have it.                                   *)
LEMMA EntryParts ==
  ASSUME NEW node \in Nodes, NEW C \in SUBSET TextOrNone, NEW x \in EntryType(node, C)
  PROVE  /\ DOMAIN x.strings \subseteq DOMAIN Shape[node].keys
         /\ x.strings \in [DOMAIN x.strings -> Texts]
         /\ x.comment \in TextOrNone /\ x.comment \in C
         /\ Shape[node].required \subseteq DOMAIN x.strings
         /\ "role" \in DOMAIN x.strings => x.strings["role"] \in Roles
  BY DEF EntryType, StringsOf

LEMMA EntriesShown ==
  ASSUME NEW node \in Nodes, NEW C \in SUBSET TextOrNone, NEW s \in Seq(EntryType(node, C)),
         NEW f, f = [n \in DOMAIN s |-> Item(FlatOut(s[n], node), None)]
  PROVE  f \in Seq(ItemsOf(EntryValues)) /\ List(f) \in SectionValues
         /\ List(f).type = "list" /\ List(f).items = f
  <1>1. ASSUME NEW n \in DOMAIN s
        PROVE  f[n] \in ItemsOf(EntryValues)
    <2>1. s[n] \in EntryType(node, C)
      BY ListProperties
    <2>2. /\ DOMAIN s[n].strings \subseteq DOMAIN Shape[node].keys
          /\ s[n].strings \in [DOMAIN s[n].strings -> Texts] /\ s[n].comment \in TextOrNone
      BY <2>1, EntryParts
    <2>3. FlatOut(s[n], node) \in EntryValues
      BY <2>2, FlatShown
    <2> QED
      BY <2>3, NotesAreTexts DEF Item, ItemsOf
  <1>2. f \in Seq(ItemsOf(EntryValues))
    BY <1>1, MappedList
  <1> QED
    BY <1>2, Containers, Layers

LEMMA FieldsShown ==
  ASSUME NEW d \in DictsOf(Texts, EntryType("field_locator", Note)), NEW rows,
         rows = [n \in DOMAIN d |-> <<d[n].key, FlatOut(d[n].value, "field_locator")>>]
  PROVE  /\ Object(rows) \in SectionValues /\ Object(rows).type = "mapping"
         /\ Object(rows).pairs \in Seq(PairsOf(EntryValues))
         /\ Object(rows).pairs =
              [n \in DOMAIN d |->
                 Pair(String(d[n].key), FlatOut(d[n].value, "field_locator"), None)]
         /\ \A p \in Range(Object(rows).pairs) : IsString(p.key)
  <1> DEFINE E == [key : Texts, value : EntryType("field_locator", Note)]
  <1>1. d \in Seq(E)
    BY DEF DictsOf
  <1>2. ASSUME NEW n \in DOMAIN d
        PROVE  rows[n] \in Texts \X EntryValues
    <2>1. d[n] \in E
      BY <1>1, ListProperties
    <2>2. d[n].key \in Texts /\ d[n].value \in EntryType("field_locator", Note)
      BY <2>1
    <2>3. FlatOut(d[n].value, "field_locator") \in EntryValues
      BY <2>2, EntryParts, FlatShown, NotesAreTexts DEF Nodes
    <2> QED
      BY <2>2, <2>3
  <1>3. rows \in Seq(Texts \X EntryValues) /\ DOMAIN rows = DOMAIN d
    <2> HIDE DEF E
    <2> QED
      BY <1>1, <1>2, MappedList
  <1>4. /\ Object(rows) \in Values(EntryValues) /\ Object(rows).type = "mapping"
        /\ Object(rows).pairs \in Seq(PairsOf(EntryValues))
        /\ Object(rows).pairs = [n \in DOMAIN rows |-> Pair(String(rows[n][1]), rows[n][2], None)]
        /\ Range(Object(rows).pairs) = {Pair(String(r[1]), r[2], None) : r \in Range(rows)}
    BY <1>3, ObjectTyped, ZenonT(60)
  <1>5. \A n \in DOMAIN d : Pair(String(rows[n][1]), rows[n][2], None) =
                              Pair(String(d[n].key), FlatOut(d[n].value, "field_locator"), None)
    OBVIOUS
  <1>6. Object(rows).pairs =
          [n \in DOMAIN d |-> Pair(String(d[n].key), FlatOut(d[n].value, "field_locator"), None)]
    BY <1>3, <1>4, <1>5
  <1>7. \A p \in Range(Object(rows).pairs) : IsString(p.key)
    <2>1. \A t, v : IsString(Pair(String(t), v, None).key)
      BY DEF IsString, Pair, String, Scalar
    <2>2. TAKE p \in Range(Object(rows).pairs)
    <2>3. PICK r \in Range(rows) : p = Pair(String(r[1]), r[2], None)
      BY <1>4
    <2> QED
      BY <2>1, <2>3
  <1> QED
    BY <1>4, <1>6, <1>7, Layers

(* What `get` shows in each of the rows of a binding.                      *)
FieldsOut(b) ==
    IF b.fields = None THEN Null
    ELSE Object([n \in DOMAIN b.fields |->
                   <<b.fields[n].key, FlatOut(b.fields[n].value, "field_locator")>>])
WireOut(b) == IF b.wire = None THEN Null ELSE Object(Columns(b.wire, "wire"))
EntriesOut(s, node) == List([n \in DOMAIN s |-> Item(FlatOut(s[n], node), None)])
AssertedOut(b) == IF b.asserted_by = None THEN Null ELSE EntriesOut(b.asserted_by, "assertion")

LEMMA BindingOutIs ==
  ASSUME NEW id, NEW b
  PROVE  BindingOut(id, b) =
           Object(<<
             <<"id", String(id)>>, <<"kind", String(KindOf[id])>>, <<"comment", Nullable(b.comment)>>,
             <<"locators", EntriesOut(b.locators, "locator")>>,
             <<"compare_via", Nullable(b.compare_via)>>, <<"fields", FieldsOut(b)>>,
             <<"wire", WireOut(b)>>, <<"asserted_by", AssertedOut(b)>> >>)
  <1>1. ListOut(b.locators, LocatorOut) = EntriesOut(b.locators, "locator")
    BY DEF ListOut, Mapped, LocatorOut, EntriesOut
  <1>2. ListOut(b.asserted_by, AssertionOut) = EntriesOut(b.asserted_by, "assertion")
    BY DEF ListOut, Mapped, AssertionOut, EntriesOut
  <1>3. Object(Mapped(b.fields, LAMBDA e : <<e.key, FlatOut(e.value, "field_locator")>>)) =
          Object([n \in DOMAIN b.fields |->
                    <<b.fields[n].key, FlatOut(b.fields[n].value, "field_locator")>>])
    BY DEF Mapped
  <1> QED
    BY <1>1, <1>2, <1>3 DEF BindingOut, FieldsOut, WireOut, AssertedOut

(* Answers are documents.                                                  *)
LEMMA ColumnsJson ==
  ASSUME NEW node \in Nodes, NEW x, DOMAIN x.strings \subseteq DOMAIN Shape[node].keys,
         x.strings \in [DOMAIN x.strings -> Texts]
  PROVE  /\ Columns(x, node) \in Seq(Texts \X Json({}))
         /\ \A m, n \in DOMAIN Columns(x, node) :
              Columns(x, node)[m][1] = Columns(x, node)[n][1] => m = n
         /\ \A n \in DOMAIN Columns(x, node) : Columns(x, node)[n][1] # "comment"
  <1> DEFINE order == KeyOrder[node]
             f == [n \in DOMAIN order |-> <<order[n], Nullable(StringAt(x, order[n]))>>]
  <1>1. /\ order \in Seq(Texts) /\ IsInjective(order)
        /\ Range(order) = DOMAIN Shape[node].keys
    BY KeyOrders
  <1>2. Columns(x, node) = f
    BY DEF Columns, Mapped
  <1>3. ASSUME NEW n \in DOMAIN order
        PROVE  f[n] \in Texts \X Json({})
    <2>1. order[n] \in Texts
      BY <1>1, ListProperties
    <2>2. StringAt(x, order[n]) \in TextOrNone
      BY DEF StringAt, TextOrNone
    <2>3. Nullable(StringAt(x, order[n])) \in Json({})
      BY <2>2, NullableTyped, JsonDepths
    <2> QED
      BY <2>1, <2>3
  <1>4. f \in Seq(Texts \X Json({}))
    <2> HIDE DEF order
    <2> QED
      BY <1>1, <1>3, MappedList
  <1>5. \A m, n \in DOMAIN f : f[m][1] = f[n][1] => m = n
    BY <1>1 DEF IsInjective
  <1>6. \A n \in DOMAIN f : f[n][1] # "comment"
    <2>1. "comment" \notin DOMAIN Shape[node].keys
      BY ShapeFacts DEF Nodes
    <2> QED
      BY <1>1, <2>1 DEF Range
  <1> HIDE DEF f
  <1> QED
    BY <1>2, <1>4, <1>5, <1>6

LEMMA FlatJson ==
  ASSUME NEW node \in Nodes, NEW x, DOMAIN x.strings \subseteq DOMAIN Shape[node].keys,
         x.strings \in [DOMAIN x.strings -> Texts], x.comment \in TextOrNone
  PROVE  FlatOut(x, node) \in Json(Json({})) /\ Object(Columns(x, node)) \in Json(Json({}))
  <1> DEFINE row == <<"comment", Nullable(x.comment)>>
             columns == Columns(x, node)
             rows == Append(columns, row)
             T == Texts \X Json({})
  <1>1. /\ columns \in Seq(T) /\ \A m, n \in DOMAIN columns : columns[m][1] = columns[n][1] => m = n
        /\ \A n \in DOMAIN columns : columns[n][1] # "comment"
    BY ColumnsJson
  <1>2. row \in T /\ row[1] = "comment"
    BY NullableTyped, KeyTexts, JsonDepths
  <1>3. FlatOut(x, node) = Object(rows)
    BY DEF FlatOut
  <1> HIDE DEF columns, row
  <1>4. rows \in Seq(T)
    BY <1>1, <1>2, AppendList
  <1>5. \A n \in DOMAIN rows : IF n = Len(columns) + 1 THEN rows[n] = row
                                ELSE n \in DOMAIN columns /\ rows[n] = columns[n]
    <2> HIDE DEF T
    <2> QED
      BY <1>1, <1>2
  <1>6. \A m, n \in DOMAIN rows : rows[m][1] = rows[n][1] => m = n
    <2> HIDE DEF rows
    <2> QED
      BY <1>1, <1>2, <1>5
  <1>7. Object(columns) \in Json(Json({}))
    BY <1>1, JsonObject
  <1> HIDE DEF rows
  <1>8. Object(rows) \in Json(Json({}))
    BY <1>4, <1>6, JsonObject
  <1> QED
    BY <1>3, <1>7, <1>8 DEF columns

LEMMA EntriesJson ==
  ASSUME NEW node \in Nodes, NEW C \in SUBSET TextOrNone, NEW s \in Seq(EntryType(node, C))
  PROVE  EntriesOut(s, node) \in Json(Json(Json({})))
  <1> DEFINE f == [n \in DOMAIN s |-> Item(FlatOut(s[n], node), None)]
  <1>1. ASSUME NEW n \in DOMAIN s
        PROVE  f[n] \in ItemsOf(Json(Json({})))
    <2>1. s[n] \in EntryType(node, C)
      BY ListProperties
    <2>2. FlatOut(s[n], node) \in Json(Json({}))
      BY <2>1, EntryParts, FlatJson
    <2> QED
      BY <2>2, NotesAreTexts DEF Item, ItemsOf
  <1>2. f \in Seq(ItemsOf(Json(Json({}))))
    BY <1>1, MappedList
  <1>3. \A n \in DOMAIN f : f[n].note = None
    BY DEF Item
  <1> HIDE DEF f
  <1> QED
    BY <1>2, <1>3, JsonList DEF EntriesOut, f

LEMMA FieldsJson ==
  ASSUME NEW d \in DictsOf(Texts, EntryType("field_locator", Note)), NEW rows,
         rows = [n \in DOMAIN d |-> <<d[n].key, FlatOut(d[n].value, "field_locator")>>]
  PROVE  Object(rows) \in Json(Json(Json({})))
  <1> DEFINE E == [key : Texts, value : EntryType("field_locator", Note)]
  <1>1. d \in Seq(E) /\ UniqueKeys(d)
    BY DEF DictsOf
  <1>2. ASSUME NEW n \in DOMAIN d
        PROVE  rows[n] \in Texts \X Json(Json({}))
    <2>1. d[n] \in E
      BY <1>1, ListProperties
    <2>2. d[n].key \in Texts /\ d[n].value \in EntryType("field_locator", Note)
      BY <2>1
    <2>3. FlatOut(d[n].value, "field_locator") \in Json(Json({}))
      BY <2>2, EntryParts, FlatJson, NotesAreTexts DEF Nodes
    <2> QED
      BY <2>2, <2>3
  <1>3. rows \in Seq(Texts \X Json(Json({})))
    <2> HIDE DEF E
    <2> QED
      BY <1>1, <1>2, MappedList
  <1>4. \A m, n \in DOMAIN rows : rows[m][1] = rows[n][1] => m = n
    BY <1>1 DEF UniqueKeys
  <1> QED
    BY <1>3, <1>4, JsonObject

LEMMA BindingJson ==
  ASSUME NEW id \in IdTexts, NEW b \in BindingType(Note)
  PROVE  BindingOut(id, b) \in InputDocuments
  <1> DEFINE J == Json(Json(Json({})))
             T == Texts \X J
             a1 == <<"id", String(id)>>
             a2 == <<"kind", String(KindOf[id])>>
             a3 == <<"comment", Nullable(b.comment)>>
             a4 == <<"locators", EntriesOut(b.locators, "locator")>>
             a5 == <<"compare_via", Nullable(b.compare_via)>>
             a6 == <<"fields", FieldsOut(b)>>
             a7 == <<"wire", WireOut(b)>>
             a8 == <<"asserted_by", AssertedOut(b)>>
             rows == <<a1, a2, a3, a4, a5, a6, a7, a8>>
  <1>1. /\ b.locators \in Seq(EntryType("locator", Note)) /\ b.compare_via \in TextOrNone
        /\ b.fields \in DictsOf(Texts, EntryType("field_locator", Note)) \cup {None}
        /\ b.wire \in EntryType("wire", {None}) \cup {None}
        /\ b.asserted_by \in Seq(EntryType("assertion", Note)) \cup {None}
        /\ b.comment \in TextOrNone
    BY NotesAreTexts DEF BindingType
  <1>2. Scalars \subseteq J
    BY JsonDepths
  <1>3. a1 \in T /\ a2 \in T
    <2>1. id \in Texts /\ KindOf[id] \in Texts
      BY KindAssumption DEF IdTexts
    <2>2. String(id) \in J /\ String(KindOf[id]) \in J
      BY <1>2, <2>1, StringScalar
    <2> HIDE DEF J
    <2> QED
      BY <2>2, KeyTexts
  <1>4. a3 \in T /\ a5 \in T
    <2>1. Nullable(b.comment) \in J /\ Nullable(b.compare_via) \in J
      BY <1>1, <1>2, NullableTyped
    <2> HIDE DEF J
    <2> QED
      BY <2>1, KeyTexts
  <1>5. a4 \in T
    <2>1. EntriesOut(b.locators, "locator") \in J
      BY <1>1, EntriesJson, NotesAreTexts DEF Nodes
    <2> HIDE DEF J
    <2> QED
      BY <2>1, KeyTexts
  <1>6. a6 \in T
    <2>1. CASE b.fields = None
      BY <1>2, <2>1, StringScalar, KeyTexts DEF FieldsOut
    <2>2. CASE b.fields # None
      <3>1. FieldsOut(b) \in J
        BY <1>1, <2>2, FieldsJson DEF FieldsOut
      <3> HIDE DEF J
      <3> QED
        BY <3>1, KeyTexts
    <2> QED
      BY <2>1, <2>2
  <1>7. a7 \in T
    <2>1. CASE b.wire = None
      BY <1>2, <2>1, StringScalar, KeyTexts DEF WireOut
    <2>2. CASE b.wire # None
      <3>1. b.wire \in EntryType("wire", {None}) /\ {None} \in SUBSET TextOrNone
        BY <1>1, <2>2 DEF TextOrNone
      <3>2. Object(Columns(b.wire, "wire")) \in Json(Json({}))
        BY <3>1, EntryParts, FlatJson DEF Nodes
      <3>3. Unnoted(Object(Columns(b.wire, "wire")))
        BY <3>2, JsonParts
      <3>4. /\ Columns(b.wire, "wire") \in Seq(Texts \X Json({}))
            /\ \A m, n \in DOMAIN Columns(b.wire, "wire") :
                 Columns(b.wire, "wire")[m][1] = Columns(b.wire, "wire")[n][1] => m = n
        BY <3>1, EntryParts, ColumnsJson DEF Nodes
      <3>5. Texts \X Json({}) \subseteq Texts \X Json(Json({}))
        <4>1. Json({}) \subseteq Json(Json({}))
          BY JsonGrows
        <4> QED
          BY <4>1
      <3>6. Columns(b.wire, "wire") \in Seq(Texts \X Json(Json({})))
        BY <3>4, <3>5, SeqMonotonic
      <3>7. WireOut(b) \in J
        BY <2>2, <3>4, <3>6, JsonObject DEF WireOut
      <3> HIDE DEF J
      <3> QED
        BY <3>7, KeyTexts
    <2> QED
      BY <2>1, <2>2
  <1>8. a8 \in T
    <2>1. CASE b.asserted_by = None
      BY <1>2, <2>1, StringScalar, KeyTexts DEF AssertedOut
    <2>2. CASE b.asserted_by # None
      <3>1. AssertedOut(b) \in J
        BY <1>1, <2>2, EntriesJson, NotesAreTexts DEF Nodes, AssertedOut
      <3> HIDE DEF J
      <3> QED
        BY <3>1, KeyTexts
    <2> QED
      BY <2>1, <2>2
  <1>9. rows \in Seq(T) /\ DOMAIN rows = {1, 2, 3, 4, 5, 6, 7, 8}
    <2> HIDE DEF T, a1, a2, a3, a4, a5, a6, a7, a8
    <2> QED
      BY <1>3, <1>4, <1>5, <1>6, <1>7, <1>8
  <1>10. \A m, n \in DOMAIN rows : rows[m][1] = rows[n][1] => m = n
    <2>1. /\ rows[1][1] = "id" /\ rows[2][1] = "kind" /\ rows[3][1] = "comment"
          /\ rows[4][1] = "locators" /\ rows[5][1] = "compare_via" /\ rows[6][1] = "fields"
          /\ rows[7][1] = "wire" /\ rows[8][1] = "asserted_by"
      OBVIOUS
    <2> HIDE DEF rows
    <2> QED
      BY <1>9, <2>1
  <1>11. BindingOut(id, b) = Object(rows)
    BY BindingOutIs
  <1> HIDE DEF rows, J
  <1>12. Object(rows) \in Json(J)
    BY <1>9, <1>10, JsonObject
  <1> QED
    BY <1>11, <1>12 DEF InputDocuments, J

LEMMA BindingShown ==
  ASSUME NEW id \in IdTexts, NEW b \in BindingType(Note)
  PROVE  /\ BindingOut(id, b) \in InputDocuments /\ BindingOut(id, b).type = "mapping"
         /\ BindingOut(id, b).pairs \in Seq(PairsOf(SectionValues))
         /\ Range(BindingOut(id, b).pairs) =
              {Pair(String("id"), String(id), None), Pair(String("kind"), String(KindOf[id]), None),
               Pair(String("comment"), Nullable(b.comment), None),
               Pair(String("locators"), EntriesOut(b.locators, "locator"), None),
               Pair(String("compare_via"), Nullable(b.compare_via), None),
               Pair(String("fields"), FieldsOut(b), None), Pair(String("wire"), WireOut(b), None),
               Pair(String("asserted_by"), AssertedOut(b), None)}
  <1> DEFINE T == Texts \X SectionValues
             a1 == <<"id", String(id)>>
             a2 == <<"kind", String(KindOf[id])>>
             a3 == <<"comment", Nullable(b.comment)>>
             a4 == <<"locators", EntriesOut(b.locators, "locator")>>
             a5 == <<"compare_via", Nullable(b.compare_via)>>
             a6 == <<"fields", FieldsOut(b)>>
             a7 == <<"wire", WireOut(b)>>
             a8 == <<"asserted_by", AssertedOut(b)>>
             rows == <<a1, a2, a3, a4, a5, a6, a7, a8>>
             out == BindingOut(id, b)
             G(r) == Pair(String(r[1]), r[2], None)
  <1>1. /\ b.locators \in Seq(EntryType("locator", Note)) /\ b.compare_via \in TextOrNone
        /\ b.fields \in DictsOf(Texts, EntryType("field_locator", Note)) \cup {None}
        /\ b.wire \in EntryType("wire", {None}) \cup {None}
        /\ b.asserted_by \in Seq(EntryType("assertion", Note)) \cup {None}
        /\ b.comment \in TextOrNone
    BY NotesAreTexts DEF BindingType
  <1>2. a1 \in T /\ a2 \in T
    <2>1. id \in Texts /\ KindOf[id] \in Texts
      BY KindAssumption DEF IdTexts
    <2> QED
      BY <2>1, KeyTexts, StringScalar, Layers
  <1>3. a3 \in T /\ a5 \in T
    BY <1>1, KeyTexts, NullableTyped, Layers
  <1>4. a4 \in T
    <2>1. EntriesOut(b.locators, "locator") \in SectionValues
      BY <1>1, EntriesShown, NotesAreTexts DEF Nodes, EntriesOut
    <2> QED
      BY <2>1, KeyTexts
  <1>5. a6 \in T
    <2>1. FieldsOut(b) \in SectionValues
      BY <1>1, FieldsShown, StringScalar, Layers DEF FieldsOut
    <2> QED
      BY <2>1, KeyTexts
  <1>6. a7 \in T
    <2>1. CASE b.wire = None
      <3>1. WireOut(b) \in SectionValues
        BY <2>1, StringScalar, Layers DEF WireOut
      <3> QED
        BY <3>1, KeyTexts
    <2>2. CASE b.wire # None
      <3>1. Columns(b.wire, "wire") \in Seq(Texts \X EntryValues)
        <4>1. {None} \in SUBSET TextOrNone
          BY DEF TextOrNone
        <4>2. b.wire \in EntryType("wire", {None})
          BY <1>1, <2>2
        <4> QED
          BY <4>1, <4>2, EntryParts, ColumnsTyped DEF Nodes
      <3>2. Object(Columns(b.wire, "wire")) \in SectionValues
        BY <3>1, ObjectTyped, Layers
      <3> QED
        BY <2>2, <3>2, KeyTexts DEF WireOut
    <2> QED
      BY <2>1, <2>2
  <1>7. a8 \in T
    <2>1. AssertedOut(b) \in SectionValues
      <3>1. CASE b.asserted_by = None
        BY <3>1, StringScalar, Layers DEF AssertedOut
      <3>2. CASE b.asserted_by # None
        <4>1. EntriesOut(b.asserted_by, "assertion") \in SectionValues
          BY <1>1, <3>2, EntriesShown, NotesAreTexts DEF Nodes, EntriesOut
        <4> QED
          BY <3>2, <4>1 DEF AssertedOut
      <3> QED
        BY <3>1, <3>2
    <2> QED
      BY <2>1, KeyTexts
  <1>8. out = Object(rows)
    BY BindingOutIs
  <1>9. rows \in Seq(T) /\ Range(rows) = {a1, a2, a3, a4, a5, a6, a7, a8}
    <2> HIDE DEF T, a1, a2, a3, a4, a5, a6, a7, a8
    <2>1. rows \in Seq(T) /\ DOMAIN rows = {1, 2, 3, 4, 5, 6, 7, 8}
      BY <1>2, <1>3, <1>4, <1>5, <1>6, <1>7
    <2>2. /\ rows[1] = a1 /\ rows[2] = a2 /\ rows[3] = a3 /\ rows[4] = a4
          /\ rows[5] = a5 /\ rows[6] = a6 /\ rows[7] = a7 /\ rows[8] = a8
      OBVIOUS
    <2> HIDE DEF rows
    <2> QED
      BY <2>1, <2>2 DEF Range
  <1>10. /\ out \in DocumentValues /\ out.type = "mapping"
         /\ out.pairs \in Seq(PairsOf(SectionValues)) /\ Range(out.pairs) = {G(r) : r \in Range(rows)}
    <2> HIDE DEF rows, out
    <2> QED
      BY <1>8, <1>9, ObjectTyped, Layers
  <1>11. Range(out.pairs) = {G(a1), G(a2), G(a3), G(a4), G(a5), G(a6), G(a7), G(a8)}
    <2> HIDE DEF rows, out, a1, a2, a3, a4, a5, a6, a7, a8, G
    <2> QED
      BY <1>9, <1>10
  <1> QED
    BY <1>10, <1>11, BindingJson

(***************************************************************************)
(* The objects that are made of input documents.                           *)
(***************************************************************************)
LEMMA ChosenPairs ==
  ASSUME NEW S, NEW s \in Seq(PairsOf(S)), NEW P \in SUBSET DOMAIN s
  PROVE  /\ Mapping(Chosen(s, P)) \in MappingsOf(S) /\ Mapping(Chosen(s, P)) \in Values(S)
         /\ Mapping(Chosen(s, P)).type = "mapping" /\ Mapping(Chosen(s, P)).pairs = Chosen(s, P)
         /\ Chosen(s, P) \in Seq(PairsOf(S)) /\ Range(Chosen(s, P)) = {s[n] : n \in P}
  <1>1. P \in SUBSET Nat /\ IsFiniteSet(P)
    BY PlacesFinite
  <1>2. \A n \in P : s[n] \in PairsOf(S)
    BY ListProperties
  <1>3. Chosen(s, P) \in Seq(PairsOf(S)) /\ Range(Chosen(s, P)) = {s[n] : n \in P}
    BY <1>1, <1>2, ChosenProperties
  <1> QED
    BY <1>3, Containers

(* Pairs that stay, for each of the three that Without is told to take.    *)
LEMMA PlainIs ==
  ASSUME NEW S, NEW v \in Values(S)
  PROVE  /\ Plain(v) \in Values(S) /\ Plain(v).type = v.type
         /\ v.type # "mapping" => Plain(v) = v
         /\ v.type = "mapping" =>
              /\ Plain(v).pairs \in Seq(PairsOf(S))
              /\ Range(Plain(v).pairs) = {p \in Range(v.pairs) : ~NullOrComment(p)}
  <1>1. CASE v.type # "mapping"
    BY <1>1 DEF Plain, Without
  <1>2. CASE v.type = "mapping"
    <2> DEFINE P == {n \in DOMAIN v.pairs : ~NullOrComment(v.pairs[n])}
    <2>1. v.pairs \in Seq(PairsOf(S))
      BY <1>2, ValueParts
    <2>2. Plain(v) = Mapping(Chosen(v.pairs, P))
      BY <1>2 DEF Plain, Without
    <2>3. {v.pairs[n] : n \in P} = {p \in Range(v.pairs) : ~NullOrComment(p)}
      BY DEF Range
    <2>4. P \in SUBSET DOMAIN v.pairs
      OBVIOUS
    <2> HIDE DEF P
    <2> QED
      BY <1>2, <2>1, <2>2, <2>3, <2>4, ChosenPairs
  <1> QED
    BY <1>1, <1>2

LEMMA WithoutNulls ==
  ASSUME NEW S, NEW v \in Values(S)
  PROVE  /\ Without(v, IsNull) \in Values(S) /\ Without(v, IsNull).type = v.type
         /\ v.type # "mapping" => Without(v, IsNull) = v
         /\ v.type = "mapping" =>
              /\ Without(v, IsNull).pairs \in Seq(PairsOf(S))
              /\ Range(Without(v, IsNull).pairs) = {p \in Range(v.pairs) : ~IsNull(p)}
  <1>1. CASE v.type # "mapping"
    BY <1>1 DEF Without
  <1>2. CASE v.type = "mapping"
    <2> DEFINE P == {n \in DOMAIN v.pairs : ~IsNull(v.pairs[n])}
    <2>1. v.pairs \in Seq(PairsOf(S))
      BY <1>2, ValueParts
    <2>2. Without(v, IsNull) = Mapping(Chosen(v.pairs, P))
      BY <1>2 DEF Without
    <2>3. {v.pairs[n] : n \in P} = {p \in Range(v.pairs) : ~IsNull(p)}
      BY DEF Range
    <2>4. P \in SUBSET DOMAIN v.pairs
      OBVIOUS
    <2> HIDE DEF P
    <2> QED
      BY <1>2, <2>1, <2>2, <2>3, <2>4, ChosenPairs
  <1> QED
    BY <1>1, <1>2

LEMMA CommentTyped ==
  ASSUME NEW S, NEW v \in Values(Values(S))
  PROVE  CommentOf(v) \in TextOrNone
  <1>1. CASE v.type = "mapping"
    <2>1. v.pairs \in Seq(PairsOf(Values(S)))
      BY <1>1, ValueParts
    <2> QED
      BY <1>1, <2>1, StringAtKey DEF CommentOf
  <1>2. CASE v.type # "mapping"
    BY <1>2 DEF CommentOf, TextOrNone
  <1> QED
    BY <1>1, <1>2

LEMMA FlatInputTyped ==
  ASSUME NEW S, NEW v \in Values(Values(S)), NEW node \in Nodes
  PROVE  FlatInput(v, node) \in EntryType(node, TextOrNone) \cup {None}
  <1>1. Plain(v) \in Values(Values(S)) /\ CommentOf(v) \in TextOrNone
    BY PlainIs, CommentTyped
  <1> QED
    BY <1>1, FlatTyped DEF FlatInput

(* Items and fields without their comments.                                *)
PlainItems(s) == List([n \in DOMAIN s |-> Item(Plain(s[n].value), None)])
PlainPairs(s) == Mapping([n \in DOMAIN s |-> Pair(s[n].key, Plain(s[n].value), None)])

LEMMA StrippedIs ==
  ASSUME NEW p
  PROVE  Stripped(p) =
           IF p.key.text \in {"locators", "asserted_by"} /\ p.value.type = "list"
             THEN PlainItems(p.value.items)
           ELSE IF p.key.text = "fields" /\ p.value.type = "mapping"
             THEN PlainPairs(p.value.pairs)
           ELSE IF p.key.text = "wire" THEN Without(p.value, IsNull)
           ELSE p.value
  <1>1. ListOut(p.value.items, LAMBDA i : Plain(i.value)) = PlainItems(p.value.items)
    BY DEF ListOut, Mapped, PlainItems
  <1>2. Mapping(Mapped(p.value.pairs, LAMBDA q : Pair(q.key, Plain(q.value), None)))
          = PlainPairs(p.value.pairs)
    BY DEF Mapped, PlainPairs
  <1> QED
    BY <1>1, <1>2 DEF Stripped

LEMMA PlainItemsTyped ==
  ASSUME NEW S, NEW s \in Seq(ItemsOf(Values(S)))
  PROVE  /\ PlainItems(s) \in Values(Values(S)) /\ PlainItems(s).type = "list"
         /\ PlainItems(s).items = [n \in DOMAIN s |-> Item(Plain(s[n].value), None)]
         /\ PlainItems(s).items \in Seq(ItemsOf(Values(S)))
  <1> DEFINE f == [n \in DOMAIN s |-> Item(Plain(s[n].value), None)]
  <1>1. ASSUME NEW n \in DOMAIN s
        PROVE  f[n] \in ItemsOf(Values(S))
    <2>1. s[n] \in ItemsOf(Values(S))
      BY ListProperties
    <2>2. Plain(s[n].value) \in Values(S)
      BY <2>1, PlainIs DEF ItemsOf
    <2> QED
      BY <2>2, NotesAreTexts DEF Item, ItemsOf
  <1>2. f \in Seq(ItemsOf(Values(S)))
    BY <1>1, MappedList
  <1>3. PlainItems(s) = List(f)
    BY DEF PlainItems
  <1> HIDE DEF f
  <1> QED
    BY <1>2, <1>3, Containers DEF f

LEMMA PlainPairsTyped ==
  ASSUME NEW S, NEW s \in Seq(PairsOf(Values(S)))
  PROVE  /\ PlainPairs(s) \in Values(Values(S)) /\ PlainPairs(s).type = "mapping"
         /\ PlainPairs(s).pairs = [n \in DOMAIN s |-> Pair(s[n].key, Plain(s[n].value), None)]
         /\ PlainPairs(s).pairs \in Seq(PairsOf(Values(S)))
  <1> DEFINE f == [n \in DOMAIN s |-> Pair(s[n].key, Plain(s[n].value), None)]
  <1>1. ASSUME NEW n \in DOMAIN s
        PROVE  f[n] \in PairsOf(Values(S))
    <2>1. s[n] \in PairsOf(Values(S))
      BY ListProperties
    <2>2. Plain(s[n].value) \in Values(S) /\ s[n].key \in Scalars
      BY <2>1, PlainIs DEF PairsOf
    <2> QED
      BY <2>2, NotesAreTexts, Pairs
  <1>2. f \in Seq(PairsOf(Values(S)))
    BY <1>1, MappedList
  <1>3. PlainPairs(s) = Mapping(f)
    BY DEF PlainPairs
  <1> HIDE DEF f
  <1> QED
    BY <1>2, <1>3, Containers DEF f

LEMMA StrippedTyped ==
  ASSUME NEW p \in PairsOf(SectionValues)
  PROVE  Stripped(p) \in SectionValues /\ Stripped(p).type = p.value.type
  <1>1. p.value \in Values(EntryValues)
    BY Layers DEF PairsOf
  <1>2. CASE p.key.text \in {"locators", "asserted_by"} /\ p.value.type = "list"
    <2>1. p.value.items \in Seq(ItemsOf(Values(Values({}))))
      BY <1>1, <1>2, ValueParts, Layers
    <2>2. PlainItems(p.value.items) \in SectionValues /\ PlainItems(p.value.items).type = "list"
      BY <2>1, PlainItemsTyped, Layers
    <2> QED
      BY <1>2, <2>2, StrippedIs
  <1>3. CASE p.key.text = "fields" /\ p.value.type = "mapping"
    <2>1. p.value.pairs \in Seq(PairsOf(Values(Values({}))))
      BY <1>1, <1>3, ValueParts, Layers
    <2>2. PlainPairs(p.value.pairs) \in SectionValues /\ PlainPairs(p.value.pairs).type = "mapping"
      BY <2>1, PlainPairsTyped, Layers
    <2> QED
      BY <1>3, <2>2, StrippedIs
  <1>4. CASE /\ ~(p.key.text \in {"locators", "asserted_by"} /\ p.value.type = "list")
             /\ ~(p.key.text = "fields" /\ p.value.type = "mapping")
    <2>1. Stripped(p) = IF p.key.text = "wire" THEN Without(p.value, IsNull) ELSE p.value
      BY <1>4, StrippedIs
    <2>2. Without(p.value, IsNull) \in SectionValues /\ Without(p.value, IsNull).type = p.value.type
      BY <1>1, WithoutNulls, Layers
    <2> QED
      BY <1>1, <2>1, <2>2, Layers
  <1> QED
    BY <1>2, <1>3, <1>4

(* The pairs of a document that a binding is made of.                      *)
Kept(v) ==
    {p \in Range(v.pairs) : ~NullOrComment(p) /\ p.key \notin {String("id"), String("kind")}}

LEMMA StrippedBindingIs ==
  ASSUME NEW v \in DocumentValues, v.type = "mapping"
  PROVE  /\ StrippedBinding(v) \in DocumentValues /\ StrippedBinding(v).type = "mapping"
         /\ StrippedBinding(v).pairs \in Seq(PairsOf(SectionValues))
         /\ Range(StrippedBinding(v).pairs) = {Pair(p.key, Stripped(p), None) : p \in Kept(v)}
  <1> DEFINE s == Plain(v).pairs
             P == {n \in DOMAIN s : ~(s[n].key \in {String("id"), String("kind")})}
             t == Chosen(s, P)
             f == [n \in DOMAIN t |-> Pair(t[n].key, Stripped(t[n]), None)]
  <1>1. /\ Plain(v).type = "mapping" /\ s \in Seq(PairsOf(SectionValues))
        /\ Range(s) = {p \in Range(v.pairs) : ~NullOrComment(p)}
    BY PlainIs, Layers
  <1>2. StrippedBinding(v) = Mapping(f)
    BY <1>1 DEF StrippedBinding, Without, Mapped, Mapping
  <1>3. P \in SUBSET DOMAIN s
    OBVIOUS
  <1>4. {s[n] : n \in P} = Kept(v)
    <2>1. {s[n] : n \in P} = {p \in Range(s) : p.key \notin {String("id"), String("kind")}}
      <3> HIDE DEF s
      <3> QED
        BY DEF Range
    <2>2. {p \in Range(s) : p.key \notin {String("id"), String("kind")}} = Kept(v)
      <3> HIDE DEF s
      <3> QED
        BY <1>1 DEF Kept
    <2> QED
      BY <2>1, <2>2
  <1> HIDE DEF s, P
  <1>5. t \in Seq(PairsOf(SectionValues)) /\ Range(t) = Kept(v)
    BY <1>1, <1>3, <1>4, ChosenPairs, ZenonT(60)
  <1> HIDE DEF t
  <1>6. ASSUME NEW n \in DOMAIN t
        PROVE  f[n] \in PairsOf(SectionValues)
    <2>1. t[n] \in PairsOf(SectionValues)
      BY <1>5, ListProperties
    <2>2. t[n].key \in Scalars /\ Stripped(t[n]) \in SectionValues
      BY <2>1, StrippedTyped DEF PairsOf
    <2> QED
      BY <2>2, Pairs, NotesAreTexts
  <1>7. f \in Seq(PairsOf(SectionValues))
    BY <1>5, <1>6, MappedList
  <1>8. Range(f) = {Pair(p.key, Stripped(p), None) : p \in Range(t)}
    BY DEF Range
  <1> HIDE DEF f
  <1>9. Mapping(f) \in Values(SectionValues) /\ Mapping(f).type = "mapping" /\ Mapping(f).pairs = f
    BY <1>7, Containers
  <1> QED
    BY <1>2, <1>5, <1>7, <1>8, <1>9, Layers

LEMMA OnePairAt ==
  ASSUME NEW m, UniqueKeys(m.pairs), NEW p \in Range(m.pairs), NEW k, p.key = String(k)
  PROVE  Has(m, k) /\ PairAt(m, k) = p /\ At(m, k) = p.value
  <1>1. Has(m, k)
    BY DEF Has, KeysOf
  <1>2. PairAt(m, k) \in Range(m.pairs) /\ PairAt(m, k).key = String(k)
    BY DEF PairAt
  <1>3. PairAt(m, k) = p
    BY <1>2, UniqueIsInjective
  <1> QED
    BY <1>1, <1>3 DEF At

(* What a document has at a key is what is left of it there.               *)
LEMMA StrippedAt ==
  ASSUME NEW v \in InputDocuments, v.type = "mapping", NEW k, Has(StrippedBinding(v), k)
  PROVE  /\ PairAt(v, k) \in Range(v.pairs) /\ PairAt(v, k).key = String(k)
         /\ PairAt(v, k) \in PairsOf(SectionValues)
         /\ Has(v, k) /\ ~IsNull(PairAt(v, k)) /\ At(v, k) = PairAt(v, k).value
         /\ At(StrippedBinding(v), k) = Stripped(PairAt(v, k))
         /\ At(StrippedBinding(v), k).type = At(v, k).type
  <1> DEFINE b == StrippedBinding(v)
  <1>1. v \in DocumentValues /\ UniqueKeys(v.pairs)
    BY DocumentParts
  <1>2. v.pairs \in Seq(PairsOf(SectionValues))
    BY <1>1, ValueParts, Layers
  <1>3. /\ b.pairs \in Seq(PairsOf(SectionValues))
        /\ Range(b.pairs) = {Pair(p.key, Stripped(p), None) : p \in Kept(v)}
    BY <1>1, StrippedBindingIs
  <1> HIDE DEF b
  <1>4. PairAt(b, k) \in Range(b.pairs) /\ PairAt(b, k).key = String(k)
    BY <1>3, AtValue DEF b
  <1>5. PICK p \in Kept(v) : PairAt(b, k) = Pair(p.key, Stripped(p), None)
    BY <1>3, <1>4
  <1>6. p \in Range(v.pairs) /\ p.key = String(k) /\ ~IsNull(p)
    BY <1>4, <1>5 DEF Kept, NullOrComment, Pair
  <1>7. PairAt(v, k) = p /\ At(v, k) = p.value /\ Has(v, k)
    BY <1>1, <1>6, OnePairAt
  <1>8. At(b, k) = Stripped(p)
    BY <1>5 DEF At, Pair
  <1>9. p \in PairsOf(SectionValues)
    BY <1>2, <1>6, ListProperties
  <1> QED
    BY <1>6, <1>7, <1>8, <1>9, StrippedTyped DEF b

LEMMA ReattachedTyped ==
  ASSUME NEW node \in Nodes, NEW s \in Seq(EntryType(node, TextOrNone)), NEW c \in Seq(TextOrNone)
  PROVE  /\ Reattached(s, c) \in Seq(EntryType(node, TextOrNone))
         /\ Len(Reattached(s, c)) = Len(s)
  <1> DEFINE E == EntryType(node, TextOrNone)
             f == [n \in DOMAIN s |-> [s[n] EXCEPT !.comment = c[n]]]
  <1>1. CASE Len(s) # Len(c)
    BY <1>1 DEF Reattached
  <1>2. CASE Len(s) = Len(c)
    <2>1. Reattached(s, c) = f
      BY <1>2 DEF Reattached
    <2>2. DOMAIN s = DOMAIN c
      BY <1>2, ListProperties
    <2>3. ASSUME NEW n \in DOMAIN s
          PROVE  f[n] \in E
      <3>1. s[n] \in E /\ c[n] \in TextOrNone
        BY <2>2, ListProperties
      <3> QED
        BY <3>1 DEF EntryType
    <2> HIDE DEF E
    <2>4. f \in Seq(E) /\ Len(f) = Len(s)
      <3>1. s \in Seq(E)
        BY DEF E
      <3> QED
        BY <2>3, <3>1, MappedList
    <2> QED
      BY <2>1, <2>4 DEF E
  <1> QED
    BY <1>1, <1>2

LEMMA CommentsTyped ==
  ASSUME NEW v \in DocumentValues, v.type = "mapping", NEW k
  PROVE  /\ Comments(v, k) \in Seq(TextOrNone)
         /\ HasA(v, k, "list") =>
              Comments(v, k) = [n \in DOMAIN At(v, k).items |-> CommentOf(At(v, k).items[n].value)]
  <1>1. CASE HasA(v, k, "list")
    <2> DEFINE s == At(v, k).items
               f == [n \in DOMAIN s |-> CommentOf(s[n].value)]
    <2>1. v.pairs \in Seq(PairsOf(SectionValues))
      BY ValueParts, Layers
    <2>2. At(v, k) \in Values(EntryValues) /\ At(v, k).type = "list"
      BY <1>1, <2>1, AtValue, Layers DEF HasA
    <2>3. s \in Seq(ItemsOf(EntryValues))
      BY <2>2, ValueParts
    <2>4. ASSUME NEW n \in DOMAIN s
          PROVE  f[n] \in TextOrNone
      <3>1. s[n] \in ItemsOf(EntryValues)
        BY <2>3, ListProperties
      <3>2. s[n].value \in Values(Values({}))
        BY <3>1, Layers DEF ItemsOf
      <3> QED
        BY <3>2, CommentTyped
    <2>5. Comments(v, k) = f
      BY <1>1 DEF Comments, Mapped
    <2>6. f \in Seq(TextOrNone)
      <3> HIDE DEF s
      <3> QED
        BY <2>3, <2>4, MappedList
    <2> QED
      BY <2>5, <2>6
  <1>2. CASE ~HasA(v, k, "list")
    BY <1>2, EmptyList DEF Comments
  <1> QED
    BY <1>1, <1>2

LEMMA FieldSource ==
  ASSUME NEW v \in InputDocuments, v.type = "mapping",
         HasA(StrippedBinding(v), "fields", "mapping")
  PROVE  /\ HasA(v, "fields", "mapping") /\ At(v, "fields").pairs \in Seq(PairsOf(EntryValues))
         /\ At(StrippedBinding(v), "fields") = PlainPairs(At(v, "fields").pairs)
         /\ \A e \in Range(Fields(At(StrippedBinding(v), "fields").pairs)) :
              Has(At(v, "fields"), e.key)
  <1> DEFINE s == At(v, "fields").pairs
             t == PlainPairs(s).pairs
             entries == [n \in DOMAIN t |-> FieldEntry(t[n])]
             E == [key : Texts, value : EntryType("field_locator", TextOrNone)]
  <1>1. /\ Has(v, "fields") /\ At(v, "fields") = PairAt(v, "fields").value
        /\ PairAt(v, "fields").key = String("fields") /\ PairAt(v, "fields") \in PairsOf(SectionValues)
        /\ At(StrippedBinding(v), "fields") = Stripped(PairAt(v, "fields"))
        /\ At(v, "fields").type = "mapping"
    BY StrippedAt DEF HasA
  <1>2. HasA(v, "fields", "mapping") /\ PairAt(v, "fields").key.text = "fields"
    BY <1>1 DEF HasA, String, Scalar
  <1>3. s \in Seq(PairsOf(EntryValues))
    <2>1. At(v, "fields") \in Values(EntryValues)
      BY <1>1, Layers DEF PairsOf
    <2> QED
      BY <1>1, <2>1, ValueParts
  <1>4. At(StrippedBinding(v), "fields") = PlainPairs(s)
    BY <1>1, <1>2, StrippedIs
  <1>5. t = [n \in DOMAIN s |-> Pair(s[n].key, Plain(s[n].value), None)]
        /\ t \in Seq(PairsOf(Values(Values({}))))
    BY <1>3, PlainPairsTyped, Layers
  <1>6. ASSUME NEW n \in DOMAIN t
        PROVE  /\ entries[n] \in E \cup {None}
               /\ entries[n] # None => entries[n].key = s[n].key.text
    <2>1. t[n] \in PairsOf(Values(Values({}))) /\ t[n].key = s[n].key
      <3>1. t[n] \in PairsOf(Values(Values({})))
        BY <1>5, ListProperties
      <3>2. t[n] = Pair(s[n].key, Plain(s[n].value), None)
        BY <1>5
      <3> QED
        BY <3>1, <3>2 DEF Pair
    <2>2. /\ t[n].value \in Values(Values({})) /\ t[n].note \in TextOrNone
          /\ t[n].key.text \in Texts
      BY <2>1, NotesAreTexts DEF PairsOf, Scalars
    <2>3. Flat(t[n].value, "field_locator", t[n].note)
            \in EntryType("field_locator", TextOrNone) \cup {None}
      BY <2>2, FlatTyped DEF Nodes
    <2>4. entries[n] = FieldEntry(t[n])
      OBVIOUS
    <2> HIDE DEF t, entries
    <2>5. CASE Flat(t[n].value, "field_locator", t[n].note) = None
      BY <2>4, <2>5 DEF FieldEntry
    <2>6. CASE Flat(t[n].value, "field_locator", t[n].note) # None
      <3>1. entries[n] = [key |-> t[n].key.text,
                          value |-> Flat(t[n].value, "field_locator", t[n].note)]
        BY <2>4, <2>6 DEF FieldEntry, Keyed
      <3> QED
        BY <2>1, <2>2, <2>3, <2>6, <3>1
    <2> QED
      BY <2>5, <2>6
  <1>7. None \notin E
    BY EntryKinds DEF Nodes
  <1>8. entries \in Seq(E \cup {None})
    <2>1. \A n \in DOMAIN t : entries[n] \in E \cup {None}
      BY <1>6
    <2>2. t \in Seq(PairsOf(Values(Values({}))))
      BY <1>5
    <2> HIDE DEF t, E
    <2> QED
      BY <2>1, <2>2, MappedList
  <1>9. Range(Dict(entries)) \subseteq Range(entries) \ {None}
    <2> HIDE DEF entries, E
    <2> QED
      BY <1>7, <1>8, DictProperties
  <1>10. ASSUME NEW e \in Range(Dict(entries))
         PROVE  Has(At(v, "fields"), e.key)
    <2>1. e \in Range(entries) /\ e # None
      BY <1>9
    <2>2. PICK n \in DOMAIN t : e = entries[n]
      BY <2>1 DEF Range
    <2>3. e.key = s[n].key.text /\ n \in DOMAIN s
      <3>1. DOMAIN t = DOMAIN s
        BY <1>5
      <3> HIDE DEF t, s, entries
      <3> QED
        BY <1>6, <2>1, <2>2, <3>1
    <2>4. s[n] \in Range(s) /\ s[n] \in PairsOf(EntryValues)
      BY <1>3, <2>3, ListProperties
    <2>5. IsString(s[n].key)
      <3>1. PairAt(v, "fields") \in Range(v.pairs)
        BY StrippedAt DEF HasA
      <3>2. At(v, "fields") \in Json(Json(Json({})))
        BY <1>1, <3>1, DocumentParts
      <3> QED
        BY <1>1, <2>4, <3>2, JsonParts
    <2>6. s[n].key = String(e.key)
      BY <2>3, <2>4, <2>5 DEF PairsOf, Scalars, IsString, String, Scalar
    <2> QED
      BY <2>4, <2>6 DEF Has, KeysOf
  <1>11. Fields(At(StrippedBinding(v), "fields").pairs) = Dict(entries)
    BY <1>4 DEF Fields
  <1> QED
    BY <1>2, <1>3, <1>4, <1>10, <1>11

(* The fields of an input with their comments.                             *)
Recommented(v, d) == [n \in DOMAIN d |-> [d[n] EXCEPT !.value.comment = FieldComment(v, d[n].key)]]

Reattaching(v, b) ==
    [locators |-> Reattached(b.locators, Comments(v, "locators")), compare_via |-> b.compare_via,
     fields |-> IF b.fields = None THEN None ELSE Recommented(v, b.fields), wire |-> b.wire,
     asserted_by |-> IF b.asserted_by = None THEN None
                     ELSE Reattached(b.asserted_by, Comments(v, "asserted_by")),
     comment |-> b.comment]

LEMMA BindingInputIs ==
  ASSUME NEW v \in DocumentValues, v.type = "mapping",
         NEW b, b = Binding(StrippedBinding(v), CommentOf(v))
  PROVE  /\ b \in BindingType(TextOrNone) \cup {None}
         /\ b # None <=> HasA(StrippedBinding(v), "locators", "list")
         /\ b = None => BindingInput(v) = None
         /\ b # None => BindingInput(v) = Reattaching(v, b)
  <1>1. /\ b \in BindingType(TextOrNone) \cup {None}
        /\ b # None <=> HasA(StrippedBinding(v), "locators", "list")
    <2>1. StrippedBinding(v) \in DocumentValues /\ StrippedBinding(v).type = "mapping"
      BY StrippedBindingIs
    <2>2. CommentOf(v) \in TextOrNone
      <3>1. v \in Values(Values(EntryValues))
        BY Layers
      <3> QED
        BY <3>1, CommentTyped
    <2> QED
      BY <2>1, <2>2, BindingTyped, NotesAreTexts
  <1>2. b = None => BindingInput(v) = None
    BY DEF BindingInput
  <1>3. ASSUME b # None
        PROVE  BindingInput(v) = Reattaching(v, b)
    <2>1. BindingInput(v) =
            [b EXCEPT
               !.locators = Reattached(@, Comments(v, "locators")),
               !.fields = IF @ = None THEN None
                          ELSE Mapped(@, LAMBDA e :
                                 [e EXCEPT !.value.comment = FieldComment(v, e.key)]),
               !.asserted_by = IF @ = None THEN None
                               ELSE Reattached(@, Comments(v, "asserted_by"))]
      BY <1>3 DEF BindingInput
    <2>2. Mapped(b.fields, LAMBDA e : [e EXCEPT !.value.comment = FieldComment(v, e.key)])
            = Recommented(v, b.fields)
      BY DEF Mapped, Recommented
    <2>3. b = [locators |-> b.locators, compare_via |-> b.compare_via, fields |-> b.fields,
               wire |-> b.wire, asserted_by |-> b.asserted_by, comment |-> b.comment]
      BY <1>1, <1>3 DEF BindingType
    <2> DEFINE x == Reattached(b.locators, Comments(v, "locators"))
               y == IF b.fields = None THEN None ELSE Recommented(v, b.fields)
               z == IF b.asserted_by = None THEN None
                    ELSE Reattached(b.asserted_by, Comments(v, "asserted_by"))
    <2>4. BindingInput(v) = [b EXCEPT !.locators = x, !.fields = y, !.asserted_by = z]
      BY <2>1, <2>2
    <2>5. Reattaching(v, b) = [locators |-> x, compare_via |-> b.compare_via, fields |-> y,
                               wire |-> b.wire, asserted_by |-> z, comment |-> b.comment]
      BY DEF Reattaching
    <2> HIDE DEF x, y, z
    <2> QED
      BY <2>3, <2>4, <2>5
  <1> QED
    BY <1>1, <1>2, <1>3

LEMMA BindingInputTyped ==
  ASSUME NEW v \in InputDocuments, v.type = "mapping"
  PROVE  /\ BindingInput(v) \in BindingType(TextOrNone) \cup {None}
         /\ HasA(StrippedBinding(v), "locators", "list") =>
              BindingInput(v) \in BindingType(TextOrNone)
  <1> DEFINE w == StrippedBinding(v)
             b == Binding(w, CommentOf(v))
             C == TextOrNone
             E == [key : Texts, value : EntryType("field_locator", C)]
  <1>0. v \in DocumentValues
    BY DocumentParts
  <1>1. /\ b \in BindingType(C) \cup {None}
        /\ b # None <=> HasA(w, "locators", "list")
        /\ b = None => BindingInput(v) = None
        /\ b # None => BindingInput(v) = Reattaching(v, b)
    BY <1>0, BindingInputIs
  <1>2. SUFFICES ASSUME b # None
                 PROVE  Reattaching(v, b) \in BindingType(C)
    BY <1>1
  <1>3. b \in BindingType(C)
    BY <1>1, <1>2
  <1>4. /\ b.locators \in Seq(EntryType("locator", C)) /\ b.compare_via \in TextOrNone
        /\ b.fields \in DictsOf(Texts, EntryType("field_locator", C)) \cup {None}
        /\ b.wire \in EntryType("wire", {None}) \cup {None}
        /\ b.asserted_by \in Seq(EntryType("assertion", C)) \cup {None} /\ b.comment \in C
    <2> HIDE DEF b
    <2> QED
      BY <1>3 DEF BindingType
  <1>5. Reattached(b.locators, Comments(v, "locators")) \in Seq(EntryType("locator", C))
    <2>1. Comments(v, "locators") \in Seq(C)
      BY <1>0, CommentsTyped
    <2> HIDE DEF b
    <2> QED
      BY <1>4, <2>1, ReattachedTyped DEF Nodes
  <1>6. b.asserted_by # None =>
          Reattached(b.asserted_by, Comments(v, "asserted_by")) \in Seq(EntryType("assertion", C))
    <2>1. Comments(v, "asserted_by") \in Seq(C)
      BY <1>0, CommentsTyped
    <2> HIDE DEF b
    <2> QED
      BY <1>4, <2>1, ReattachedTyped DEF Nodes
  <1>7. ASSUME b.fields # None
        PROVE  Recommented(v, b.fields) \in DictsOf(Texts, EntryType("field_locator", C))
    <2>1. w.type = "mapping"
      BY <1>0, StrippedBindingIs
    <2>2. b.fields = IF HasA(w, "fields", "mapping") THEN Fields(At(w, "fields").pairs) ELSE None
      BY <1>1, <1>2, <2>1 DEF Binding
    <2>3. HasA(w, "fields", "mapping") /\ b.fields = Fields(At(w, "fields").pairs)
      BY <1>7, <2>2
    <2>4. /\ At(v, "fields").pairs \in Seq(PairsOf(EntryValues))
          /\ \A e \in Range(Fields(At(w, "fields").pairs)) : Has(At(v, "fields"), e.key)
      BY <2>3, FieldSource
    <2> DEFINE d == b.fields
               f == Recommented(v, d)
    <2>5. d \in Seq(E) /\ UniqueKeys(d)
      BY <1>4, <1>7 DEF DictsOf
    <2>6. \A e \in Range(d) : Has(At(v, "fields"), e.key)
      BY <2>3, <2>4
    <2> HIDE DEF d, w
    <2>7. f = [n \in DOMAIN d |-> [d[n] EXCEPT !.value.comment = FieldComment(v, d[n].key)]]
      BY DEF Recommented
    <2>8. ASSUME NEW n \in DOMAIN d
          PROVE  f[n] \in E /\ f[n].key = d[n].key
      <3>1. d[n] \in E /\ d[n] \in Range(d)
        BY <2>5, ListProperties
      <3>2. At(At(v, "fields"), d[n].key) \in EntryValues
        BY <2>4, <2>6, <3>1, AtValue
      <3>3. FieldComment(v, d[n].key) \in C
        <4>1. At(At(v, "fields"), d[n].key) \in Values(Values({}))
          BY <3>2, Layers
        <4> QED
          BY <4>1, CommentTyped DEF FieldComment
      <3>4. f[n] = [d[n] EXCEPT !.value.comment = FieldComment(v, d[n].key)]
        BY <2>7
      <3>5. d[n].key \in Texts /\ d[n].value \in EntryType("field_locator", C)
        BY <3>1
      <3>6. d[n] = [key |-> d[n].key, value |-> d[n].value]
        BY <3>1
      <3>7. [d[n].value EXCEPT !.comment = FieldComment(v, d[n].key)] \in EntryType("field_locator", C)
        BY <3>3, <3>5 DEF EntryType
      <3> HIDE DEF f
      <3>8. f[n] = [key |-> d[n].key,
                    value |-> [d[n].value EXCEPT !.comment = FieldComment(v, d[n].key)]]
        BY <3>4, <3>6
      <3> QED
        BY <3>5, <3>7, <3>8
    <2>9. DOMAIN f = DOMAIN d /\ f = [n \in DOMAIN f |-> f[n]]
      BY <2>7
    <2>10. f \in Seq(E)
      <3>1. \A n \in DOMAIN d : f[n] \in E
        BY <2>8
      <3> HIDE DEF E, f
      <3> QED
        BY <2>5, <2>9, <3>1, MappedList
    <2>11. UniqueKeys(f)
      <3> HIDE DEF f
      <3> QED
        BY <2>5, <2>8, <2>9 DEF UniqueKeys
    <2> QED
      BY <2>10, <2>11 DEF DictsOf, d
  <1> DEFINE x == Reattached(b.locators, Comments(v, "locators"))
             y == IF b.fields = None THEN None ELSE Recommented(v, b.fields)
             z == IF b.asserted_by = None THEN None
                  ELSE Reattached(b.asserted_by, Comments(v, "asserted_by"))
  <1>8. Reattaching(v, b) = [locators |-> x, compare_via |-> b.compare_via, fields |-> y,
                             wire |-> b.wire, asserted_by |-> z, comment |-> b.comment]
    BY DEF Reattaching
  <1>9. /\ x \in Seq(EntryType("locator", C))
        /\ y \in DictsOf(Texts, EntryType("field_locator", C)) \cup {None}
        /\ z \in Seq(EntryType("assertion", C)) \cup {None}
    BY <1>5, <1>6, <1>7
  <1> HIDE DEF x, y, z, b
  <1> QED
    BY <1>4, <1>8, <1>9 DEF BindingType

(***************************************************************************)
(* The rules, one by one: what it means that none finds anything.          *)
(***************************************************************************)
LEMMA NoCode ==
  /\ \A code, condition : condition \in BOOLEAN => (CodeIf(code, condition) = {} <=> ~condition)
  /\ \A code, reasons : Code(code, reasons) = {} <=> reasons = {}
  BY DEF CodeIf, Code

CommentRules(c, input) ==
    c = None \/ (~Is(c, "empty") /\ ~Is(c, "control") /\ (input => ~Is(c, "unclean")))

ScalarRules(t) == t = None \/ (~Is(t, "empty") /\ ~Is(t, "control"))

LEMMA CommentsFine ==
  ASSUME NEW c, NEW input \in BOOLEAN
  PROVE  CommentCodes(c, input) = {} <=> CommentRules(c, input)
  BY DEF CommentCodes, CommentRules, CodeIf, Is

LEMMA ScalarsFine ==
  ASSUME NEW t
  PROVE  ScalarCodes(t) = {} <=> ScalarRules(t)
  BY DEF ScalarCodes, ScalarRules, CodeIf, Is

(* The rules on an entry's strings.                                        *)
StringRules(x) ==
    /\ "path" \in DOMAIN x.strings => PathCodes(x.strings["path"]) = {}
    /\ "symbol" \in DOMAIN x.strings => ~Is(x.strings["symbol"], "suffix")
    /\ \A k \in DOMAIN x.strings \ {"path", "role"} : ScalarRules(x.strings[k])

LEMMA EntriesFine ==
  ASSUME NEW node \in Nodes, NEW C \in SUBSET TextOrNone, NEW x \in EntryType(node, C),
         NEW input \in BOOLEAN
  PROVE  EntryCodes(x, input) = {} <=> CommentRules(x.comment, input) /\ StringRules(x)
  <1> DEFINE paths == IF StringAt(x, "path") = None THEN {} ELSE PathCodes(StringAt(x, "path"))
             symbols == CodeIf("INV-NO-LINE-NUMBERS", "symbol" \in DOMAIN x.strings
                                                        /\ Is(StringAt(x, "symbol"), "suffix"))
             others == UNION {ScalarCodes(StringAt(x, k)) : k \in DOMAIN x.strings \ {"path", "role"}}
  <1>1. EntryCodes(x, input) = CommentCodes(x.comment, input) \cup paths \cup symbols \cup others
    BY DEF EntryCodes
  <1>2. \A k \in DOMAIN x.strings : StringAt(x, k) = x.strings[k] /\ StringAt(x, k) # None
    <2>1. x.strings \in [DOMAIN x.strings -> Texts]
      BY EntryParts
    <2> QED
      BY <2>1, NotesAreTexts DEF StringAt
  <1>3. paths = {} <=> ("path" \in DOMAIN x.strings => PathCodes(x.strings["path"]) = {})
    <2>1. CASE "path" \in DOMAIN x.strings
      BY <1>2, <2>1
    <2>2. CASE "path" \notin DOMAIN x.strings
      BY <2>2 DEF StringAt
    <2> QED
      BY <2>1, <2>2
  <1>4. symbols = {} <=> ("symbol" \in DOMAIN x.strings => ~Is(x.strings["symbol"], "suffix"))
    <2>1. CASE "symbol" \in DOMAIN x.strings
      BY <1>2, <2>1 DEF CodeIf
    <2>2. CASE "symbol" \notin DOMAIN x.strings
      BY <2>2 DEF CodeIf
    <2> QED
      BY <2>1, <2>2
  <1>5. others = {} <=> \A k \in DOMAIN x.strings \ {"path", "role"} : ScalarRules(x.strings[k])
    <2>1. others = {} <=> \A k \in DOMAIN x.strings \ {"path", "role"} :
                            ScalarCodes(StringAt(x, k)) = {}
      OBVIOUS
    <2> HIDE DEF others
    <2> QED
      BY <1>2, <2>1, ScalarsFine
  <1> HIDE DEF paths, symbols, others
  <1> QED
    BY <1>1, <1>3, <1>4, <1>5, CommentsFine DEF StringRules

FieldNameRules(name) == ~Is(name, "empty") /\ ~Is(name, "control")

LEMMA FieldNamesFine ==
  ASSUME NEW name
  PROVE  FieldNameCodes(name) = {} <=> FieldNameRules(name)
  BY DEF FieldNameCodes, FieldNameRules, CodeIf, Is

(* An assertion names what it asserts, or what it owes, and not both.      *)
AssertionRules(x) ==
    IF "owed" \in DOMAIN x.strings THEN DOMAIN x.strings \cap {"path", "symbol", "run"} = {}
    ELSE DOMAIN x.strings \cap {"path", "symbol", "run"} = {"path", "symbol", "run"}

LEMMA AssertionsFine ==
  ASSUME NEW x
  PROVE  AssertionCodes(x) = {} <=> AssertionRules(x)
  BY DEF AssertionCodes, AssertionRules, CodeIf

OneOfEachLocator(s) ==
    \A m, n \in DOMAIN s : LocatorIdentity(s[m]) = LocatorIdentity(s[n]) => m = n
OneOfEachAssertion(s) ==
    \A m, n \in DOMAIN s : AssertionIdentity(s[m]) = AssertionIdentity(s[n]) => m = n

LEMMA NoneRepeated ==
  ASSUME NEW s
  PROVE  /\ ~Repeated(s, LocatorIdentity) <=> OneOfEachLocator(s)
         /\ ~Repeated(s, AssertionIdentity) <=> OneOfEachAssertion(s)
         /\ Repeated(s, LocatorIdentity) \in BOOLEAN /\ Repeated(s, AssertionIdentity) \in BOOLEAN
  BY DEF Repeated, OneOfEachLocator, OneOfEachAssertion

(* What is asked of each of a binding's entries.                           *)
LocatorsRules(s, input) ==
    /\ \A x \in Range(s) : CommentRules(x.comment, input) /\ StringRules(x)
    /\ OneOfEachLocator(s)
FieldsRules(d, input) ==
    \A e \in Range(d) : /\ CommentRules(e.value.comment, input) /\ StringRules(e.value)
                        /\ FieldNameRules(e.key)
AssertedRules(s, input) ==
    /\ \A x \in Range(s) : CommentRules(x.comment, input) /\ StringRules(x) /\ AssertionRules(x)
    /\ OneOfEachAssertion(s)
WireRules(x) == DOMAIN x.strings # {} /\ StringRules(x)

BindingRules(b, input) ==
    /\ CommentRules(b.comment, input) /\ ScalarRules(b.compare_via)
    /\ LocatorsRules(b.locators, input)
    /\ b.fields # None => b.fields # <<>> /\ FieldsRules(b.fields, input)
    /\ b.wire # None => WireRules(b.wire)
    /\ b.asserted_by # None => b.asserted_by # <<>> /\ AssertedRules(b.asserted_by, input)

LEMMA BindingFine ==
  ASSUME NEW b \in BindingType(TextOrNone), NEW input \in BOOLEAN
  PROVE  BindingCodes(b, input) = {} <=> BindingRules(b, input)
  <1> DEFINE fields == OrEmpty(b.fields)
             asserted == OrEmpty(b.asserted_by)
             E == [key : Texts, value : EntryType("field_locator", TextOrNone)]
             entries == Range(b.locators) \cup Range(asserted) \cup {e.value : e \in Range(fields)}
             c1 == CommentCodes(b.comment, input)
             c2 == ScalarCodes(b.compare_via)
             c3 == UNION {EntryCodes(x, input) : x \in entries}
             c4 == CodeIf("INV-LOCATOR-UNIQUE", Repeated(b.locators, LocatorIdentity))
             c5 == CodeIf("INV-FIELD-NAME", b.fields = <<>>)
             c6 == UNION {FieldNameCodes(name) : name \in Keys(fields)}
             c7 == IF b.wire = None THEN {}
                   ELSE CodeIf("INV-WIRE-SUBSET", DOMAIN b.wire.strings = {})
                          \cup EntryCodes(b.wire, input)
             c8 == CodeIf("INV-ASSERTION-SHAPE", b.asserted_by = <<>>)
             c9 == UNION {AssertionCodes(x) : x \in Range(asserted)}
             c10 == CodeIf("INV-ASSERTION-UNIQUE", Repeated(asserted, AssertionIdentity))
  <1>1. BindingCodes(b, input) =
          c1 \cup c2 \cup c3 \cup c4 \cup c5 \cup c6 \cup c7 \cup c8 \cup c9 \cup c10
    BY DEF BindingCodes
  <1>2. /\ b.locators \in Seq(EntryType("locator", TextOrNone))
        /\ b.fields \in DictsOf(Texts, EntryType("field_locator", TextOrNone)) \cup {None}
        /\ b.wire \in EntryType("wire", {None}) \cup {None}
        /\ b.asserted_by \in Seq(EntryType("assertion", TextOrNone)) \cup {None}
    BY DEF BindingType
  <1>3. None # <<>>
    BY EmptyList, NoneAssumption
  <1>4. asserted \in Seq(EntryType("assertion", TextOrNone)) /\ fields \in Seq(E)
    BY <1>2, EmptyList DEF OrEmpty, DictsOf
  <1>5. c3 = {} <=>
          /\ \A x \in Range(b.locators) : CommentRules(x.comment, input) /\ StringRules(x)
          /\ \A x \in Range(asserted) : CommentRules(x.comment, input) /\ StringRules(x)
          /\ \A e \in Range(fields) : CommentRules(e.value.comment, input) /\ StringRules(e.value)
    <2>1. c3 = {} <=> \A x \in entries : EntryCodes(x, input) = {}
      <3> HIDE DEF entries
      <3> QED
        OBVIOUS
    <2>2. \A x \in Range(b.locators) :
            EntryCodes(x, input) = {} <=> CommentRules(x.comment, input) /\ StringRules(x)
      <3>1. Range(b.locators) \subseteq EntryType("locator", TextOrNone)
        BY <1>2, ListProperties
      <3> QED
        BY <3>1, EntriesFine DEF Nodes
    <2>3. \A x \in Range(asserted) :
            EntryCodes(x, input) = {} <=> CommentRules(x.comment, input) /\ StringRules(x)
      <3>1. Range(asserted) \subseteq EntryType("assertion", TextOrNone)
        BY <1>4, ListProperties
      <3> HIDE DEF asserted
      <3> QED
        BY <3>1, EntriesFine DEF Nodes
    <2>4. \A e \in Range(fields) :
            EntryCodes(e.value, input) = {} <=>
              CommentRules(e.value.comment, input) /\ StringRules(e.value)
      <3>1. Range(fields) \subseteq E
        <4> HIDE DEF E, fields
        <4> QED
          BY <1>4, ListProperties
      <3>2. \A e \in Range(fields) : e.value \in EntryType("field_locator", TextOrNone)
        BY <3>1
      <3> HIDE DEF fields
      <3> QED
        BY <3>2, EntriesFine DEF Nodes
    <2>5. (\A x \in entries : EntryCodes(x, input) = {}) <=>
            /\ \A x \in Range(b.locators) : EntryCodes(x, input) = {}
            /\ \A x \in Range(asserted) : EntryCodes(x, input) = {}
            /\ \A e \in Range(fields) : EntryCodes(e.value, input) = {}
      <3> HIDE DEF fields, asserted
      <3> QED
        OBVIOUS
    <2> HIDE DEF c3, entries, fields, asserted
    <2> QED
      BY <2>1, <2>2, <2>3, <2>4, <2>5
  <1>6. c6 = {} <=> \A e \in Range(fields) : FieldNameRules(e.key)
    <2>1. Keys(fields) = {e.key : e \in Range(fields)}
      <3> HIDE DEF E, fields
      <3> QED
        BY <1>4, ListProperties
    <2>2. c6 = {} <=> \A name \in Keys(fields) : FieldNameCodes(name) = {}
      <3> HIDE DEF fields
      <3> QED
        OBVIOUS
    <2> HIDE DEF c6, fields
    <2> QED
      BY <2>1, <2>2, FieldNamesFine
  <1>7. c7 = {} <=> (b.wire # None => WireRules(b.wire))
    <2>1. CASE b.wire = None
      BY <2>1
    <2>2. CASE b.wire # None
      <3>1. b.wire \in EntryType("wire", {None}) /\ {None} \in SUBSET TextOrNone
        BY <1>2, <2>2 DEF TextOrNone
      <3>2. EntryCodes(b.wire, input) = {} <=> CommentRules(b.wire.comment, input) /\ StringRules(b.wire)
        BY <3>1, EntriesFine DEF Nodes
      <3>3. b.wire.comment = None
        BY <3>1 DEF EntryType
      <3>4. CommentRules(b.wire.comment, input)
        BY <3>3 DEF CommentRules
      <3> QED
        BY <2>2, <3>2, <3>4, NoCode DEF WireRules
    <2> QED
      BY <2>1, <2>2
  <1>8. c9 = {} <=> \A x \in Range(asserted) : AssertionRules(x)
    <2>1. c9 = {} <=> \A x \in Range(asserted) : AssertionCodes(x) = {}
      <3> HIDE DEF asserted
      <3> QED
        OBVIOUS
    <2> HIDE DEF c9, asserted
    <2> QED
      BY <2>1, AssertionsFine
  <1>9. /\ c1 = {} <=> CommentRules(b.comment, input)
        /\ c2 = {} <=> ScalarRules(b.compare_via)
        /\ c4 = {} <=> OneOfEachLocator(b.locators)
        /\ c5 = {} <=> b.fields # <<>>
        /\ c8 = {} <=> b.asserted_by # <<>>
        /\ c10 = {} <=> OneOfEachAssertion(asserted)
    <2>1. c1 = {} <=> CommentRules(b.comment, input)
      BY CommentsFine
    <2>2. c2 = {} <=> ScalarRules(b.compare_via)
      BY ScalarsFine
    <2>3. c4 = {} <=> ~Repeated(b.locators, LocatorIdentity)
      BY NoneRepeated DEF CodeIf
    <2>4. c10 = {} <=> ~Repeated(asserted, AssertionIdentity)
      BY NoneRepeated DEF CodeIf
    <2>5. (c5 = {} <=> b.fields # <<>>) /\ (c8 = {} <=> b.asserted_by # <<>>)
      BY DEF CodeIf
    <2>6. ~Repeated(b.locators, LocatorIdentity) <=> OneOfEachLocator(b.locators)
      BY NoneRepeated
    <2>7. ~Repeated(asserted, AssertionIdentity) <=> OneOfEachAssertion(asserted)
      BY NoneRepeated
    <2> HIDE DEF c1, c2, c4, c5, c8, c10, asserted
    <2> QED
      BY <2>1, <2>2, <2>3, <2>4, <2>5, <2>6, <2>7
  <1> HIDE DEF c1, c2, c3, c4, c5, c6, c7, c8, c9, c10
  <1>10. BindingCodes(b, input) = {} <=>
           /\ c1 = {} /\ c2 = {} /\ c3 = {} /\ c4 = {} /\ c5 = {} /\ c6 = {} /\ c7 = {}
           /\ c8 = {} /\ c9 = {} /\ c10 = {}
    BY <1>1
  <1>11. (b.fields # None => b.fields # <<>> /\ FieldsRules(b.fields, input)) <=>
           /\ b.fields # <<>>
           /\ \A e \in Range(fields) : CommentRules(e.value.comment, input) /\ StringRules(e.value)
           /\ \A e \in Range(fields) : FieldNameRules(e.key)
    BY <1>3, EmptyList DEF OrEmpty, FieldsRules
  <1>12. (b.asserted_by # None => b.asserted_by # <<>> /\ AssertedRules(b.asserted_by, input)) <=>
           /\ b.asserted_by # <<>>
           /\ \A x \in Range(asserted) : CommentRules(x.comment, input) /\ StringRules(x)
           /\ \A x \in Range(asserted) : AssertionRules(x)
           /\ OneOfEachAssertion(asserted)
    <2>1. OneOfEachAssertion(<<>>)
      BY EmptyList DEF OneOfEachAssertion
    <2> QED
      BY <1>3, <2>1, EmptyList DEF OrEmpty, AssertedRules
  <1> HIDE DEF fields, asserted
  <1> QED
    BY <1>5, <1>6, <1>7, <1>8, <1>9, <1>10, <1>11, <1>12 DEF BindingRules, LocatorsRules

CoverageRules(c) ==
    /\ CommentRules(c.comment, FALSE)
    /\ c.fully_bound # None \/ c.curated # None
    /\ c.fully_bound # None =>
         /\ c.fully_bound # <<>> /\ IsInjective(c.fully_bound)
         /\ \A k \in Range(c.fully_bound) : Is(k, "kind")
    /\ c.curated # None =>
         /\ c.curated # <<>>
         /\ \A e \in Range(c.curated) : /\ Is(e.key, "kind") /\ CommentRules(e.value.comment, FALSE)
                                        /\ ~Is(e.value.reason, "empty")
                                        /\ ~Is(e.value.reason, "control")
    /\ c.fully_bound # None /\ c.curated # None => Range(c.fully_bound) \cap Keys(c.curated) = {}

LEMMA CoverageFine ==
  ASSUME NEW c \in CoverageType
  PROVE  CoverageCodes(c) = {} <=> CoverageRules(c)
  <1> DEFINE listed == OrEmpty(c.fully_bound)
             curated == OrEmpty(c.curated)
             E == [key : Texts, value : [reason : Texts, comment : Note]]
             none == {e \in Range(curated) : Is(e.value.reason, "empty")}
             wrong == {k \in Range(listed) \cup Keys(curated) : ~Is(k, "kind")}
                        \cup (Range(listed) \cap Keys(curated)) \cup {e.value.reason : e \in none}
             malformed == \/ c.fully_bound = None /\ c.curated = None
                          \/ c.fully_bound = <<>> \/ c.curated = <<>>
                          \/ wrong # {} \/ ~IsInjective(listed)
             controls == \E e \in Range(curated) : Is(e.value.reason, "control")
             comments == UNION {CommentCodes(e.value.comment, FALSE) : e \in Range(curated)}
  <1>1. CoverageCodes(c) =
          CommentCodes(c.comment, FALSE) \cup comments
            \cup CodeIf("INV-COVERAGE-WELLFORMED", malformed)
            \cup CodeIf("INV-SYMBOL-NONEMPTY", controls)
    BY DEF CoverageCodes
  <1>2. comments = {} <=> \A e \in Range(curated) : CommentRules(e.value.comment, FALSE)
    <2>1. comments = {} <=> \A e \in Range(curated) : CommentCodes(e.value.comment, FALSE) = {}
      <3> HIDE DEF curated
      <3> QED
        OBVIOUS
    <2> HIDE DEF comments, curated
    <2> QED
      BY <2>1, CommentsFine
  <1>3. CodeIf("INV-COVERAGE-WELLFORMED", malformed) = {} <=> ~malformed
    BY DEF CodeIf
  <1>4. CodeIf("INV-SYMBOL-NONEMPTY", controls) = {} <=> ~controls
    BY DEF CodeIf
  <1>5. CoverageCodes(c) = {} <=>
          /\ CommentRules(c.comment, FALSE)
          /\ \A e \in Range(curated) : CommentRules(e.value.comment, FALSE)
          /\ ~malformed /\ ~controls
    <2> HIDE DEF comments, malformed, controls, curated
    <2> QED
      BY <1>1, <1>2, <1>3, <1>4, CommentsFine
  <1>6. /\ c.fully_bound \in Seq(Texts) \cup {None}
        /\ c.curated \in DictsOf(Texts, [reason : Texts, comment : Note]) \cup {None}
    BY DEF CoverageType
  <1>7. None # <<>> /\ curated \in Seq(E)
    BY <1>6, EmptyList, NoneAssumption DEF OrEmpty, DictsOf
  <1>8. Keys(curated) = {e.key : e \in Range(curated)}
    <2> HIDE DEF E, curated
    <2> QED
      BY <1>7, ListProperties
  <1>9. wrong = {} <=>
          /\ \A k \in Range(listed) : Is(k, "kind")
          /\ \A e \in Range(curated) : Is(e.key, "kind") /\ ~Is(e.value.reason, "empty")
          /\ Range(listed) \cap Keys(curated) = {}
    <2>1. {e.value.reason : e \in none} = {} <=>
            \A e \in Range(curated) : ~Is(e.value.reason, "empty")
      <3> HIDE DEF curated
      <3> QED
        OBVIOUS
    <2>2. {k \in Range(listed) \cup Keys(curated) : ~Is(k, "kind")} = {} <=>
            /\ \A k \in Range(listed) : Is(k, "kind")
            /\ \A e \in Range(curated) : Is(e.key, "kind")
      <3> HIDE DEF curated, listed
      <3> QED
        BY <1>8
    <2> HIDE DEF none, curated, listed
    <2> QED
      BY <2>1, <2>2
  <1>10. IsInjective(<<>>) /\ Keys(<<>>) = {} /\ Range(<<>>) = {}
    BY EmptyList, UniqueIsInjective
  <1>11. /\ c.fully_bound # None => listed = c.fully_bound
         /\ c.fully_bound = None => listed = <<>>
         /\ c.curated # None => curated = c.curated
         /\ c.curated = None => curated = <<>>
    BY DEF OrEmpty
  <1>12. ~malformed <=>
           /\ c.fully_bound # None \/ c.curated # None
           /\ c.fully_bound # <<>> /\ c.curated # <<>> /\ wrong = {} /\ IsInjective(listed)
    <2> HIDE DEF wrong, listed
    <2> QED
      OBVIOUS
  <1> HIDE DEF wrong, malformed, listed, curated
  <1>13. CoverageCodes(c) = {} <=>
           /\ CommentRules(c.comment, FALSE)
           /\ c.fully_bound # None \/ c.curated # None
           /\ c.fully_bound # <<>> /\ c.curated # <<>> /\ IsInjective(listed)
           /\ \A k \in Range(listed) : Is(k, "kind")
           /\ \A e \in Range(curated) : /\ Is(e.key, "kind") /\ CommentRules(e.value.comment, FALSE)
                                        /\ ~Is(e.value.reason, "empty")
                                        /\ ~Is(e.value.reason, "control")
           /\ Range(listed) \cap Keys(curated) = {}
    BY <1>5, <1>9, <1>12
  <1>14. CASE c.fully_bound = None
    BY <1>7, <1>10, <1>11, <1>13, <1>14 DEF CoverageRules
  <1>15. CASE c.fully_bound # None
    BY <1>7, <1>10, <1>11, <1>13, <1>15 DEF CoverageRules
  <1> QED
    BY <1>14, <1>15

MapRules(m) ==
    /\ CommentRules(m.header, FALSE) /\ m.schema_version = "1"
    /\ \A e \in Range(m.bindings) : BindingRules(e.value, FALSE)
    /\ m.coverage # None => CoverageRules(m.coverage)

LEMMA MapFine ==
  ASSUME NEW m \in MapType
  PROVE  /\ MapCodes(m) = {} <=> MapRules(m)
         /\ \A e \in Range(m.bindings) : e.key \in IdTexts /\ e.value \in BindingType(Note)
  <1> DEFINE bindings == UNION {BindingCodes(e.value, FALSE) : e \in Range(m.bindings)}
             coverage == IF m.coverage = None THEN {} ELSE CoverageCodes(m.coverage)
             E == [key : IdTexts, value : BindingType(Note)]
  <1>1. MapCodes(m) =
          CommentCodes(m.header, FALSE) \cup CodeIf("INV-SCHEMA-VERSION", m.schema_version # "1")
            \cup bindings \cup coverage
    BY DEF MapCodes
  <1>2. m.bindings \in Seq(E) /\ m.coverage \in CoverageType \cup {None}
    BY DEF MapType, DictsOf, IdTexts
  <1>3. \A e \in Range(m.bindings) : e.key \in IdTexts /\ e.value \in BindingType(Note)
    <2>1. Range(m.bindings) \subseteq E
      <3> HIDE DEF E
      <3> QED
        BY <1>2, ListProperties
    <2> QED
      BY <2>1
  <1>4. bindings = {} <=> \A e \in Range(m.bindings) : BindingRules(e.value, FALSE)
    <2>1. bindings = {} <=> \A e \in Range(m.bindings) : BindingCodes(e.value, FALSE) = {}
      OBVIOUS
    <2>2. BindingType(Note) \subseteq BindingType(TextOrNone)
      BY BindingKinds, NotesAreTexts
    <2>3. \A e \in Range(m.bindings) : BindingCodes(e.value, FALSE) = {} <=> BindingRules(e.value, FALSE)
      BY <1>3, <2>2, BindingFine
    <2> HIDE DEF bindings
    <2> QED
      BY <2>1, <2>3
  <1>5. coverage = {} <=> (m.coverage # None => CoverageRules(m.coverage))
    BY <1>2, CoverageFine
  <1>6. CodeIf("INV-SCHEMA-VERSION", m.schema_version # "1") = {} <=> m.schema_version = "1"
    BY DEF CodeIf
  <1> HIDE DEF bindings, coverage
  <1> QED
    BY <1>1, <1>3, <1>4, <1>5, <1>6, CommentsFine DEF MapRules

(***************************************************************************)
(* Accepted inputs.                                                        *)
(***************************************************************************)
LEMMA AcceptedComment ==
  ASSUME NEW c \in TextOrNone, CommentRules(c, TRUE)
  PROVE  c \in Note /\ CommentRules(c, FALSE)
  BY DEF CommentRules, TextOrNone, Note

LEMMA AcceptedEntry ==
  ASSUME NEW node \in Nodes, NEW x \in EntryType(node, TextOrNone), CommentRules(x.comment, TRUE)
  PROVE  x \in EntryType(node, Note) /\ CommentRules(x.comment, FALSE)
  <1>1. x.comment \in Note /\ CommentRules(x.comment, FALSE)
    BY EntryParts, AcceptedComment
  <1> QED
    BY <1>1 DEF EntryType

LEMMA AcceptedBinding ==
  ASSUME NEW b \in BindingType(TextOrNone), BindingRules(b, TRUE)
  PROVE  b \in BindingType(Note) /\ BindingRules(b, FALSE)
  <1> DEFINE E == [key : Texts, value : EntryType("field_locator", TextOrNone)]
             F == [key : Texts, value : EntryType("field_locator", Note)]
  <1>1. /\ b.locators \in Seq(EntryType("locator", TextOrNone)) /\ b.compare_via \in TextOrNone
        /\ b.fields \in DictsOf(Texts, EntryType("field_locator", TextOrNone)) \cup {None}
        /\ b.wire \in EntryType("wire", {None}) \cup {None}
        /\ b.asserted_by \in Seq(EntryType("assertion", TextOrNone)) \cup {None}
        /\ b.comment \in TextOrNone
    BY DEF BindingType
  <1>2. b.comment \in Note /\ CommentRules(b.comment, FALSE)
    BY <1>1, AcceptedComment DEF BindingRules
  <1>3. b.locators \in Seq(EntryType("locator", Note)) /\ LocatorsRules(b.locators, FALSE)
    <2>1. LocatorsRules(b.locators, TRUE)
      BY DEF BindingRules
    <2>2. \A x \in Range(b.locators) : x \in EntryType("locator", Note)
                                         /\ CommentRules(x.comment, FALSE)
      <3>1. Range(b.locators) \subseteq EntryType("locator", TextOrNone)
        BY <1>1, ListProperties
      <3> QED
        BY <2>1, <3>1, AcceptedEntry DEF Nodes, LocatorsRules
    <2>3. b.locators \in Seq(EntryType("locator", Note))
      <3>1. \A n \in DOMAIN b.locators : b.locators[n] \in EntryType("locator", Note)
        BY <2>2 DEF Range
      <3>2. b.locators = [n \in DOMAIN b.locators |-> b.locators[n]]
        BY <1>1, LenProperties
      <3> QED
        BY <1>1, <3>1, <3>2, MappedList
    <2> QED
      BY <2>1, <2>2, <2>3 DEF LocatorsRules
  <1>4. ASSUME b.asserted_by # None
        PROVE  b.asserted_by \in Seq(EntryType("assertion", Note)) /\ AssertedRules(b.asserted_by, FALSE)
    <2> DEFINE s == b.asserted_by
    <2>0. s \in Seq(EntryType("assertion", TextOrNone))
      BY <1>1, <1>4
    <2>1. AssertedRules(s, TRUE)
      BY <1>4 DEF BindingRules
    <2>2. \A x \in Range(s) : x \in EntryType("assertion", Note) /\ CommentRules(x.comment, FALSE)
      <3>1. Range(s) \subseteq EntryType("assertion", TextOrNone)
        BY <2>0, ListProperties
      <3> QED
        BY <2>1, <3>1, AcceptedEntry DEF Nodes, AssertedRules
    <2>3. s \in Seq(EntryType("assertion", Note))
      <3>1. \A n \in DOMAIN s : s[n] \in EntryType("assertion", Note)
        BY <2>2 DEF Range
      <3>2. s = [n \in DOMAIN s |-> s[n]]
        BY <2>0, LenProperties
      <3> QED
        BY <2>0, <3>1, <3>2, MappedList
    <2> QED
      BY <2>1, <2>2, <2>3 DEF AssertedRules
  <1>5. ASSUME b.fields # None
        PROVE  /\ b.fields \in DictsOf(Texts, EntryType("field_locator", Note))
               /\ FieldsRules(b.fields, FALSE)
    <2> DEFINE d == b.fields
    <2>0. d \in Seq(E) /\ UniqueKeys(d)
      BY <1>1, <1>5 DEF DictsOf
    <2>1. FieldsRules(d, TRUE)
      BY <1>5 DEF BindingRules
    <2>2. \A e \in Range(d) : e \in F /\ CommentRules(e.value.comment, FALSE)
      <3>1. Range(d) \subseteq E
        <4> HIDE DEF E, d
        <4> QED
          BY <2>0, ListProperties
      <3>2. ASSUME NEW e \in Range(d)
            PROVE  e \in F /\ CommentRules(e.value.comment, FALSE)
        <4>1. e \in E /\ CommentRules(e.value.comment, TRUE)
          BY <2>1, <3>1 DEF FieldsRules
        <4>2. e.value \in EntryType("field_locator", Note) /\ CommentRules(e.value.comment, FALSE)
          BY <4>1, AcceptedEntry DEF Nodes
        <4> QED
          BY <4>1, <4>2
      <3> QED
        BY <3>2
    <2>3. d \in Seq(F)
      <3>1. \A n \in DOMAIN d : d[n] \in F
        BY <2>2 DEF Range
      <3>2. d = [n \in DOMAIN d |-> d[n]]
        BY <2>0, LenProperties
      <3> HIDE DEF E, F, d
      <3> QED
        BY <2>0, <3>1, <3>2, MappedList
    <2> HIDE DEF d
    <2>4. d \in DictsOf(Texts, EntryType("field_locator", Note))
      BY <2>0, <2>3 DEF DictsOf
    <2>5. FieldsRules(d, FALSE)
      BY <2>1, <2>2 DEF FieldsRules
    <2> QED
      BY <2>4, <2>5 DEF d
  <1>6. b \in BindingType(Note)
    <2>1. b = [locators |-> b.locators, compare_via |-> b.compare_via, fields |-> b.fields,
               wire |-> b.wire, asserted_by |-> b.asserted_by, comment |-> b.comment]
      BY DEF BindingType
    <2>2. /\ b.fields \in DictsOf(Texts, EntryType("field_locator", Note)) \cup {None}
          /\ b.asserted_by \in Seq(EntryType("assertion", Note)) \cup {None}
      BY <1>4, <1>5
    <2> QED
      BY <1>1, <1>2, <1>3, <2>1, <2>2 DEF BindingType
  <1> QED
    BY <1>2, <1>3, <1>4, <1>5, <1>6 DEF BindingRules

(* A locator, field or assertion that is accepted.                         *)
LEMMA FlatAccepted ==
  ASSUME NEW S, NEW v \in Values(Values(S)), NEW node \in Nodes, NEW C, NEW comment \in C,
         FlatFindings(v, node) = {}
  PROVE  Flat(v, node, comment) \in EntryType(node, C)
  <1> DEFINE keys == Shape[node].keys
             present == {k \in DOMAIN keys : Has(v, k)}
  <1>1. v.type = "mapping"
    BY DEF FlatFindings
  <1>2. FlatFindings(v, node) =
          ClosedKeys(v, node)
            \cup Code("INV-CLOSED-KEYS", {k \in present : At(v, k).type # "string"})
            \cup Code("INV-ROLE-VALUES", {k \in present : /\ At(v, k).type = "string"
                                                          /\ ~Allowed(v, k, keys[k])})
    BY <1>1 DEF FlatFindings
  <1>3. \A k \in Shape[node].required : Has(v, k)
    <2>1. ClosedKeys(v, node) = {}
      BY <1>2
    <2> QED
      BY <2>1 DEF ClosedKeys, Code
  <1>4. \A k \in present : At(v, k).type = "string" /\ Allowed(v, k, keys[k])
    <2>1. Code("INV-CLOSED-KEYS", {k \in present : At(v, k).type # "string"}) = {}
      BY <1>2
    <2>2. Code("INV-ROLE-VALUES", {k \in present : /\ At(v, k).type = "string"
                                                   /\ ~Allowed(v, k, keys[k])}) = {}
      BY <1>2
    <2>3. {k \in present : At(v, k).type # "string"} = {}
      BY <2>1, NoCode
    <2>4. {k \in present : At(v, k).type = "string" /\ ~Allowed(v, k, keys[k])} = {}
      BY <2>2, NoCode
    <2> HIDE DEF present
    <2> QED
      BY <2>3, <2>4
  <1>5. Shape[node].required \subseteq DOMAIN keys
    BY ShapeFacts DEF Nodes
  <1>6. DOMAIN Strings(v, node) = {k \in DOMAIN keys : Allowed(v, k, keys[k])}
    BY DEF Strings
  <1>7. Shape[node].required \subseteq DOMAIN Strings(v, node)
    BY <1>3, <1>4, <1>5, <1>6
  <1> QED
    BY <1>1, <1>7, FlatTyped

LEMMA EntryAccepted ==
  ASSUME NEW S, NEW v \in Values(Values(S)), NEW node \in Nodes, EntryInputFindings(v, node) = {}
  PROVE  LET x == FlatInput(v, node)
         IN  /\ x \in EntryType(node, Note) /\ CommentRules(x.comment, FALSE) /\ StringRules(x)
             /\ node = "assertion" => AssertionRules(x)
  <1> DEFINE x == FlatInput(v, node)
  <1>1. /\ FlatInputFindings(v, node) = {}
        /\ x # None => EntryCodes(x, TRUE) = {}
        /\ x # None /\ node = "assertion" => AssertionCodes(x) = {}
    BY DEF EntryInputFindings
  <1>2. Plain(v) \in Values(Values(S)) /\ CommentOf(v) \in TextOrNone
    BY PlainIs, CommentTyped
  <1>3. x \in EntryType(node, TextOrNone)
    <2>1. FlatFindings(Plain(v), node) = {}
      BY <1>1 DEF FlatInputFindings
    <2>2. Flat(Plain(v), node, CommentOf(v)) \in EntryType(node, TextOrNone)
      BY <1>2, <2>1, FlatAccepted
    <2> QED
      BY <2>2 DEF FlatInput
  <1>4. x # None
    BY <1>3, EntryKinds
  <1> HIDE DEF x
  <1>5. CommentRules(x.comment, TRUE) /\ StringRules(x)
    BY <1>1, <1>3, <1>4, EntriesFine
  <1>6. x \in EntryType(node, Note) /\ CommentRules(x.comment, FALSE)
    BY <1>3, <1>5, AcceptedEntry
  <1> QED
    BY <1>1, <1>4, <1>5, <1>6, AssertionsFine DEF x

(* A document that is accepted.                                            *)
LEMMA InputAccepted ==
  ASSUME NEW v \in InputDocuments, InputFindings(v) = {}
  PROVE  BindingInput(v) \in BindingType(Note) /\ BindingRules(BindingInput(v), FALSE)
  <1> DEFINE w == StrippedBinding(v)
             b == BindingInput(v)
  <1>1. BindingInputFindings(v) = {} /\ (b # None => BindingCodes(b, TRUE) = {})
    BY DEF InputFindings
  <1>2. v.type = "mapping"
    BY <1>1 DEF BindingInputFindings
  <1>3. BindingFindings(w) = {}
    BY <1>1, <1>2 DEF BindingInputFindings
  <1>4. w.type = "mapping"
    BY <1>2, StrippedBindingIs, DocumentParts
  <1>5. ClosedKeys(w, "binding") = {} /\ Mistyped(w, "locators", "list") = {}
    BY <1>3, <1>4 DEF BindingFindings, ItemFindings
  <1>6. Has(w, "locators")
    <2>1. "locators" \in Shape["binding"].required
      BY DEF Shape
    <2> QED
      BY <1>5, <2>1 DEF ClosedKeys, Code
  <1>7. HasA(w, "locators", "list")
    BY <1>5, <1>6 DEF Mistyped, CodeIf, HasA
  <1>8. b \in BindingType(TextOrNone)
    BY <1>2, <1>7, BindingInputTyped
  <1>9. b # None
    BY <1>8, NoneAssumption
  <1>10. BindingRules(b, TRUE)
    <2> HIDE DEF b
    <2> QED
      BY <1>1, <1>8, <1>9, BindingFine
  <1> HIDE DEF b
  <1> QED
    BY <1>8, <1>10, AcceptedBinding DEF b

(***************************************************************************)
(* Dicts that are changed.                                                 *)
(***************************************************************************)
LEMMA AssignProperties ==
  ASSUME NEW E, None \notin E, NEW d \in Seq(E), UniqueKeys(d), NEW e \in E
  PROVE  /\ Assign(d, e) \in Seq(E) /\ UniqueKeys(Assign(d, e)) /\ Assign(d, e) # <<>>
         /\ Range(Assign(d, e)) \subseteq Range(d) \cup {e}
  <1> DEFINE f == [n \in DOMAIN d |-> IF d[n].key = e.key THEN e ELSE d[n]]
  <1>1. CASE \E n \in DOMAIN d : d[n].key = e.key
    <2>1. Assign(d, e) = f
      BY <1>1 DEF Assign
    <2>2. DOMAIN f = DOMAIN d /\ f = [n \in DOMAIN f |-> f[n]]
      OBVIOUS
    <2>3. \A n \in DOMAIN d : f[n] \in E /\ f[n].key = d[n].key /\ f[n] \in Range(d) \cup {e}
      BY ListProperties
    <2> HIDE DEF f
    <2>4. f \in Seq(E)
      BY <2>2, <2>3, MappedList
    <2>5. UniqueKeys(f)
      BY <2>2, <2>3 DEF UniqueKeys
    <2>6. f # <<>>
      BY <1>1, <2>2, EmptyList
    <2>7. Range(f) \subseteq Range(d) \cup {e}
      BY <2>2, <2>3 DEF Range
    <2> QED
      BY <2>1, <2>4, <2>5, <2>6, <2>7
  <1>2. CASE \A n \in DOMAIN d : d[n].key # e.key
    <2>1. Assign(d, e) = Append(d, e)
      BY <1>2 DEF Assign
    <2>2. /\ Append(d, e) \in Seq(E) /\ Append(d, e) # <<>>
          /\ DOMAIN Append(d, e) = 1..(Len(d) + 1)
          /\ \A n \in 1..Len(d) : Append(d, e)[n] = d[n]
          /\ Append(d, e)[Len(d) + 1] = e
          /\ Range(Append(d, e)) = Range(d) \cup {e}
      BY AppendList
    <2>3. Len(d) \in Nat /\ DOMAIN d = 1..Len(d)
      BY ListProperties
    <2>4. \A n \in 1..(Len(d) + 1) : n \in 1..Len(d) \/ n = Len(d) + 1
      BY <2>3
    <2>5. UniqueKeys(Append(d, e))
      <3> DEFINE t == Append(d, e)
      <3>1. \A n \in DOMAIN t : (n \in DOMAIN d /\ t[n] = d[n]) \/ (n = Len(d) + 1 /\ t[n] = e)
        BY <2>2, <2>3, <2>4
      <3> HIDE DEF t
      <3> QED
        BY <1>2, <3>1 DEF UniqueKeys, t
    <2> QED
      BY <2>1, <2>2, <2>5
  <1> QED
    BY <1>1, <1>2

LEMMA LookupProperties ==
  ASSUME NEW d, NEW key \in Keys(d)
  PROVE  \E e \in Range(d) : e.key = key /\ Lookup(d, key) = e.value
  <1>1. \E e \in Range(d) : e.key = key
    BY DEF Keys, Range
  <1> QED
    BY <1>1 DEF Lookup

LEMMA RemovedList ==
  ASSUME NEW S, NEW s \in Seq(S), NEW i \in DOMAIN s
  PROVE  /\ RemoveAt(s, i) \in Seq(S) /\ Range(RemoveAt(s, i)) \subseteq Range(s)
         /\ UniqueKeys(s) => UniqueKeys(RemoveAt(s, i))
         /\ OneOfEachLocator(s) => OneOfEachLocator(RemoveAt(s, i))
         /\ OneOfEachAssertion(s) => OneOfEachAssertion(RemoveAt(s, i))
  <1> DEFINE t == RemoveAt(s, i)
             from(n) == IF n < i THEN n ELSE n + 1
  <1>1. Len(s) \in Nat /\ DOMAIN s = 1..Len(s)
    BY ListProperties
  <1>2. /\ t \in Seq(S) /\ DOMAIN t = 1..(Len(s) - 1)
        /\ \A n \in 1..(Len(s) - 1) : t[n] = s[from(n)]
    BY RemoveList
  <1> HIDE DEF t
  <1>3. /\ \A n \in DOMAIN t : from(n) \in DOMAIN s /\ t[n] = s[from(n)]
        /\ \A m, n \in DOMAIN t : from(m) = from(n) => m = n
    BY <1>1, <1>2
  <1> HIDE DEF from
  <1>4. Range(t) \subseteq Range(s)
    BY <1>3 DEF Range
  <1>5. UniqueKeys(s) => UniqueKeys(t)
    BY <1>3 DEF UniqueKeys
  <1>6. OneOfEachLocator(s) => OneOfEachLocator(t)
    BY <1>3 DEF OneOfEachLocator
  <1>7. OneOfEachAssertion(s) => OneOfEachAssertion(t)
    BY <1>3 DEF OneOfEachAssertion
  <1> QED
    BY <1>2, <1>4, <1>5, <1>6, <1>7 DEF t
=============================================================================
